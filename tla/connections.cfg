SPECIFICATION ConnFairSpec
CONSTANTS
    Conn = {c1, c2}
    Featured = {c1}
    Rotating = {c1}
    TornFile = TornFile
    MaxCalls = 1
    MaxGrants = 3
    MaxFailures = 1
INVARIANTS
    ConnInv
    SignInKept
PROPERTIES
    Renewed
CHECK_DEADLOCK FALSE
