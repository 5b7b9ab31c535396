SPECIFICATION Spec
CONSTANTS
    MaxIdentities = 2
    MaxRestarts = 1
    Calls = {"bootstrap_identity", "create_identity", "create_recovery", "recover_identity", "request_self_flow"}
    AnswerKinds = {"full", "nokeys", "omitted", "partial"}
    Faults = {"misreport"}
INVARIANTS
    UnacceptedIsPending
    UsesAccepted
    OneMint
PROPERTIES
    MintsOnlyAfterNone
    NoFalseConfirmation
    AnnouncedOnlyOnArrival
    ConfirmedNeverRequeued
