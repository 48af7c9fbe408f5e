\* KeepsRecords is violated (an older copy at a boot outlives the
\* record it is a copy of).
SPECIFICATION FairJournal
CONSTANTS
    Records = {r1, r2}
    Boots = {b1, b2}
    Absent = none
    Garbage = garbage
    Nowhere = nowhere
    Trouble = {"crash"}
    Copies = TRUE
    MaxTrouble = 1
CHECK_DEADLOCK FALSE
PROPERTIES KeepsRecords
