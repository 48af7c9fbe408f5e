----------------------------- MODULE MCMatching -----------------------------
(* Matching on small sets, for TLC: a day of three minutes, closed from    *)
(* its last through its first, whatever a window of less weight says; an   *)
(* override opens agent 1 in the first.  Job 1 can never be placed.        *)
EXTENDS Matching

CONSTANTS everyone

TheClass      == [j \in Jobs |-> IF j = 3 THEN "audio" ELSE "video"]
TheClassSlots == [c \in {TheClass[j] : j \in Jobs} |-> IF c = "audio" THEN 1 ELSE 2]
AnyAgent      == [j \in Jobs |-> IF j = 2 THEN {1} ELSE Agents]

Window(from, to, weight, slots) ==
  [enabled |-> TRUE, days |-> 0 .. 6, start |-> from, end |-> to, priority |-> weight,
   total |-> slots]

Overnight == <<Window(2, 1, 1, 0), Window(0, 2, 0, 2)>>
OpenOne   == <<[scope |-> 1, class |-> Unset, slots |-> 1, expires |-> 1]>>
NoWindows == <<>>
=============================================================================
