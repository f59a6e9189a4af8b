SPECIFICATION FairSpec
CONSTANTS
    Device = {a, b}
    Mine = {a}
    Offering = {a}
    OfAccount = {a, b}
    Approved = {b}
    Ticker = tick
    Drainer = drain
    NoDevice = NoDevice
    MaxCalls = 1
    MaxSeen = 2
    MaxFaults = 1
INVARIANTS
    RevokedStays
    DoorKept
    SightingsKept
    AccountIsCut
CHECK_DEADLOCK FALSE
PROPERTIES
    DoorFollows
