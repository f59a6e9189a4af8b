SPECIFICATION FairSpec
CONSTANTS
    NT = 2
    NS = 1
    Parts = 2
    Torn = Torn
    MaxFaults = 1
    MaxAgain = 1
INVARIANTS
    Inv
    PostedInFull
PROPERTIES
    RepliesArrive
CHECK_DEADLOCK FALSE
