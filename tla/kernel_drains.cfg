CONSTANTS
    Pid = {k1, k2}
    NoPid = NoPid
    Reusable = {k2}
    MaxDeaths = 1
    Job = {1}
    Hand = {}
    Kicked = {1}
    Reply = {1}
    Comms = TRUE
    Adopted = FALSE
    MaxFlips = 0
SPECIFICATION FairSpec
INVARIANTS
    SingleWriterUnlessRobbed
    DoneIsCommitted
    AttemptsBounded
    ToldIsOutcome
PROPERTIES
    QueueDrainsUnlessWedged
