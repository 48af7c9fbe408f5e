SPECIFICATION Spec
CONSTANTS
    p1 = p1
    p2 = p2
    w1 = w1
    w2 = w2
    Workers = {w1, w2}
    Paths = {p1}
    Owing = {2}
    Floor = 0
    Percent = 70
    MaxVersion = 2
    MaxScans = 2
    MaxTrouble = 0
INVARIANT FactsAreCurrent
CHECK_DEADLOCK FALSE
