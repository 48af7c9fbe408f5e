----------------------------- MODULE DurableMap -----------------------------
(***************************************************************************)
(* What a journal promises the program that keeps it: a value per name     *)
(* that is written by a call which may be cut off, and read when the       *)
(* program starts.  A call that returned has replaced whatever was there;  *)
(* one that failed or never returned may or may not have, and a later      *)
(* start may see either.  Nothing else is ever read: no older value, no    *)
(* part of one, and no name is forgotten.                                  *)
(***************************************************************************)

CONSTANTS Names, Values, Unread

VARIABLES
  possible,  \* the values that a start may find under each name
  read       \* what the last start found, or Unread before the first

Init ==
  /\ possible \in [Names -> {{v} : v \in Values}]
  /\ read = Unread

(* A call begins to write v under a name.                                  *)
Begin(n, v) ==
  /\ possible' = [possible EXCEPT ![n] = @ \cup {v}]
  /\ UNCHANGED read

(* It returned.                                                            *)
Acknowledge(n, v) ==
  /\ v \in possible[n]
  /\ possible' = [possible EXCEPT ![n] = {v}]
  /\ UNCHANGED read

(* The program starts, and reads every name.                               *)
Start ==
  /\ read' \in [Names -> Values]
  /\ \A n \in Names : read'[n] \in possible[n]
  /\ UNCHANGED possible

Next ==
  \/ \E n \in Names, v \in Values : Begin(n, v) \/ Acknowledge(n, v)
  \/ Start

Spec == Init /\ [][Next]_<<possible, read>>
=============================================================================
