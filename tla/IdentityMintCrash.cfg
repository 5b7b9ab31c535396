SPECIFICATION Spec
CONSTANTS
    MaxIdentities = 1
    MaxRestarts = 1
    Calls = {"bootstrap_identity", "create_identity", "create_recovery", "recover_identity"}
    AnswerKinds = {"full", "nokeys"}
    Faults = {"mid_mint"}
INVARIANTS
    UnacceptedIsPending
