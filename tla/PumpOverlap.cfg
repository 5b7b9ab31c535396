SPECIFICATION Spec
CONSTANTS
    Callers = {c1, c2}
    Drains = {d1, d2}
    Programs <- OverlapPrograms
    ReactionKinds = {"RoomKeyBackup"}
    Needs = {"AccountKeysQuery"}
    Sharing = TRUE
    Overlap = {"sync", "report"}
    Reports = {m1, m2}
    MaxIds = 5
    MaxRepeatAt = 2
    MaxActionAt = 5
    MaxSyncAt = 4
INVARIANTS
    SequencesDistinct
    OneHomePerId
    OneGeneration
PROPERTIES
    AnswerableUntilSuperseded
CHECK_DEADLOCK FALSE
SYMMETRY AllAlike
