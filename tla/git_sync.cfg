CONSTANTS
    Ours = {o1, o2}
    Theirs = {t1, t2}
    Hunk = {t1}
    Path = {t2}
    Retries = 2
    MaxCrashes = 1
SPECIFICATION FairSpec
PROPERTIES
    Converges
    CommitsKept
    RecordKept
    PersonsOpKept
