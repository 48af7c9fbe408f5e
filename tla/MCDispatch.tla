----------------------------- MODULE MCDispatch -----------------------------
(* Dispatch on small sets, for TLC.                                        *)
EXTENDS Dispatch, TLC

CONSTANTS j1, j2, a1, a2

(* Both jobs are about one file: the second exists once the first is over. *)
OneFile == [j \in Jobs |-> "file"]
=============================================================================
