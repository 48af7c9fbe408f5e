SPECIFICATION FairSpec
CONSTANTS
    p1 = p1
    p2 = p2
    w1 = w1
    w2 = w2
    Workers = {w1}
    Paths = {p1, p2}
    Owing = {2}
    Floor = 0
    Percent = 70
    MaxVersion = 2
    MaxScans = 3
    MaxTrouble = 2
CHECK_DEADLOCK FALSE
INVARIANTS FactsAreCurrent
PROPERTIES MissingIsMeant PassesEnd
\* Also holds on this instance, outside the runs: TypeOK.
