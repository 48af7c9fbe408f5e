\* The server stops once between the two renames of an install it runs for a
\* streaming agent: the destination stays empty.
SPECIFICATION FairSpec
CONSTANTS
    a1 = a1
    a2 = a2
    Nobody = Nobody
    Agents = {a1, a2}
    Chunks = 1
    MaxAttempts = 2
    MaxVersion = 1
    MaxTrouble = 1
    Trouble = {"server"}
PROPERTIES ServerRecovers
CHECK_DEADLOCK FALSE
