SPECIFICATION FairSpec
CONSTANTS
    Cron = {c1, c2}
    Dash = {d1}
    None = None
    Gone = Gone
    MaxDeaths = 2
    MaxFlips = 1
INVARIANTS
    OneCopyUnlessRobbed
PROPERTIES
    ToldItsOwn
    RunsAgain
CHECK_DEADLOCK FALSE
