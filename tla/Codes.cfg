SPECIFICATION Spec
CONSTANTS
    Flows = {f1, f2}
    Callers = {c1}
    Accounts <- SomePeople
    LongIds = {f2}
    Offers <- AllHalves
    Announcements <- AllOrShow
    ScanFailures = {"KeyMismatch", "theirs"}
    MaxMade = 3
INVARIANTS
    StageTellsLive
    CancelHonest
PROPERTIES
    CasualtiesAreVisible
    RefusalNamesCause
CHECK_DEADLOCK FALSE
