SPECIFICATION Spec
CONSTANTS
    SECRETS <- TwoSecrets
    Devices = {d1, d2}
    KeyIds = {k1, k2}
    Theirs = theirs
    NoKey = NoKey
    Cleared = Cleared
    Routes = {"as_read", "re-point", "revoke", "nothing", "clear"}
    MaxIdentities = 2
    MaxRelaunches = 1
SYMMETRY Alike
INVARIANTS
    AnswerMatchesDamage
PROPERTIES
    RecoveryKeepsOpening
    ActsForLiveIdentity
CHECK_DEADLOCK FALSE
