CONSTANTS
    p1 = p1
    p2 = p2
    Procs = {p1, p2}
    Nobody = Nobody
    Identities <- ReinstalledOrOld
    Gate <- ThisBuild
    Initial = 8
    Ceiling = 12
    HalfWord = 8
    MaxTrouble = 2
    Trouble = {"overlap", "cut"}
SPECIFICATION FairSpec
CHECK_DEADLOCK FALSE
PROPERTIES
    OnlyItsOwn
