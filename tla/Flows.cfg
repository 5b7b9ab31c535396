SPECIFICATION Spec
CONSTANTS
    Flows = {f1, f2}
    Syncs = {s1, s2}
    Callers = {c1}
    MaxWired = 1
SYMMETRY Alike
INVARIANTS
    OwedQueryKept
    CompletionKept
    InvitationKept
    NothingTwice
    GivenStaysRegistered
PROPERTIES
    EvictionKeepsUp
CHECK_DEADLOCK FALSE
