SPECIFICATION FairChannelSpec
CONSTANTS
    Listeners = {l1, l2, l3}
    Throwing = {l1}
    Invitations = {i1, i2}
    Bare = {i2}
    MaxCopies = 2
    Faults = {"install", "clear"}
INVARIANTS
    FlagTellsTruth
    LoyalListenersHear
PROPERTIES
    StayerHears
CHECK_DEADLOCK FALSE
