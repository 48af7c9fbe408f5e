--------------------------- MODULE MCCommitRitual ---------------------------
(* CommitRitual on small sets, for TLC.  The sets are given in the .cfg:   *)
(* two rituals are the fewest for which one's output is the other's        *)
(* original, and one outside edit is enough to fall at every step.         *)
EXTENDS CommitRitual
=============================================================================
