SPECIFICATION FairSpec
CONSTANTS
    a1 = a1
    a2 = a2
    Nobody = Nobody
    Agents = {a1, a2}
    Chunks = 2
    MaxAttempts = 2
    MaxVersion = 2
    MaxTrouble = 2
    Trouble = {"chunk", "call", "restart", "server", "write", "ritual", "encode"}
CHECK_DEADLOCK FALSE
INVARIANTS OutputIsWhole ReplacesWhatItRead InstalledIsFinal RowsAreTrue
PROPERTIES Settles
\* Also holds on this instance, outside the runs: TypeOK.
