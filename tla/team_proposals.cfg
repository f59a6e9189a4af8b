CONSTANTS
    Prop = {q1, q2}
    Staff = {q1}
    Proc = {p1, p2}
    NoProc = NoProc
    Original = Original
    Edited = Edited
    Mixed = Mixed
    NoBase = NoBase
    MaxFaults = 2
    MaxEdits = 1
    MaxLocal = 2
SPECIFICATION FairSpec
PROPERTIES
    DecisionsStand
    ImplementsTeamRules
    PublishedIsQueued
