SPECIFICATION LedgerSpec
CONSTANTS
    Proc = {p1, p2}
    Skill = {k1, k2}
    None = None
    Torn = Torn
    Keep = 2
    Slack = 1
    MaxRows = 4
    MaxDeaths = 1
INVARIANTS
    RowsKept
    AnswerNotStale
CHECK_DEADLOCK FALSE
