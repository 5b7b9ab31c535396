SPECIFICATION FairSpec
CONSTANTS
    k1 = k1
    k2 = k2
    Keys = {k1, k2}
    BatchSize = 1
    Features <- Products
    MaxVersion = 2
    MaxBatches = 2
    MaxRestarts = 1
    Users = {bob, eve}
    SignedUsers = {eve}
    SignedKeys = {k1}
    Shareable = {k1}
    Bundles <- TwoBundles
INVARIANTS
    CountedIsHeld
    EvictedReadNothing
    ReceivedIsHeld
PROPERTIES
    HistoryComesBack
    BackupCatchesUp
CHECK_DEADLOCK FALSE
