CONSTANTS
    Writer = {p1, p2, p3}
    None = None
    Torn = Torn
    MaxLockFaults = 1
    MaxPauses = 0
SPECIFICATION LockFairSpec
INVARIANTS
    OneWriterUnlessBroken
PROPERTIES
    KeepsLockInUse
    TurnComes
