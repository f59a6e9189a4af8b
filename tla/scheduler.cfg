SPECIFICATION FairSpec
CONSTANTS
    DayLength = 4
    Week = 2
    EVERY_FLOOR_MIN = 2
    Entries <- SmallEntries
    HeartbeatAt = {1}
    Quiet <- Night
    Dates = 2
    Profiles = {TRUE, FALSE}
    Comms = {TRUE, FALSE}
    MaxDown = 1
    MaxMove = 1
    MaxEdits = 1
INVARIANTS
    Inv
PROPERTIES
    NoDueMinuteIsMissed
    QueueIsServed
CHECK_DEADLOCK FALSE
