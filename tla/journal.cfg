SPECIFICATION FairJournal
CONSTANTS
    Records = {r1, r2}
    Boots = {b1, b2}
    Absent = none
    Garbage = garbage
    Nowhere = nowhere
    Trouble = {"call", "crash", "power"}
    Copies = FALSE
    MaxTrouble = 3
CHECK_DEADLOCK FALSE
PROPERTIES KeepsRecords ComesUp
\* Also hold on this instance, outside the runs: JournalTypeOK, and JournalInv of CommitRitual_proofs.
