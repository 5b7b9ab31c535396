SPECIFICATION Spec
CONSTANTS
    Callers = {c1, c2, c3}
    Configs <- SharedStore
    Malformed = {"ill"}
    Unreliable = {"home"}
    NoMachine = NoMachine
    Nobody = Nobody
    MaxLives = 2
SYMMETRY CallersAlike
INVARIANTS
    RejectedTouchesNothing
PROPERTIES
    KeepsPromise
