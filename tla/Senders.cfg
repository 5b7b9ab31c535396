SPECIFICATION FairSpec
CONSTANTS
    Devices = {phone, laptop}
    MaxIdentities = 2
    MaxFlows = 1
    MaxRestarts = 1
INVARIANTS
    VerdictsAreEarned
    GateSeparates
PROPERTIES
    ScannedReadsVerified
CHECK_DEADLOCK FALSE
