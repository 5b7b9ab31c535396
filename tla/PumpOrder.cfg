SPECIFICATION Spec
CONSTANTS
    Callers = {c1}
    Drains = {d1}
    Programs <- OrderPrograms
    ReactionKinds = {"SignatureUpload"}
    Needs = {}
    Sharing = FALSE
    Overlap = {"sync"}
    Reports = {m1}
    MaxIds = 7
    MaxRepeatAt = 0
    MaxActionAt = 2
    MaxSyncAt = 2
INVARIANTS
    OrdersKept
PROPERTIES
    GoneForGood
CHECK_DEADLOCK FALSE
