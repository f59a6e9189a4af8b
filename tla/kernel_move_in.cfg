CONSTANTS
    Pid = {k1, k2}
    NoPid = NoPid
    Reusable = {}
    MaxDeaths = 0
    Job = {1, 2}
    Hand = {1}
    Kicked = {1, 2}
    Reply = {2}
    Comms = FALSE
    Adopted = TRUE
    MaxFlips = 2
SPECIFICATION Spec
SYMMETRY PidSymmetry
PROPERTIES
    HandWorkStaysUncommitted
    ImplementsJobLifecycle
