----------------------------- MODULE Selection ------------------------------
(***************************************************************************)
(* The part of a sequence that a filter keeps and the first entry that a   *)
(* search finds, by the set of the positions that pass the test.  Selected *)
(* is SelectSeq of module Sequences, as a recursive function that proofs   *)
(* can unfold.                                                             *)
(***************************************************************************)
EXTENDS Naturals, Sequences

\* The entries of s at the positions in I, in order.
Selected(s, I) ==
    LET upTo[n \in 0 .. Len(s)] ==
            IF n = 0 THEN <<>>
            ELSE IF n \in I THEN Append(upTo[n - 1], s[n]) ELSE upTo[n - 1]
    IN  upTo[Len(s)]

\* The least position of a set that is not empty.
First(I) == CHOOSE i \in I : \A j \in I : i <= j
=============================================================================
