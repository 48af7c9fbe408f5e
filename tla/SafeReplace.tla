---------------------------- MODULE SafeReplace ----------------------------
(***************************************************************************)
(* What replacing a file in place promises, with no ritual in it: two      *)
(* paths, the destination and the place the previous file is kept aside.   *)
(* The destination is emptied only by setting its file aside, a version    *)
(* arrives only if its bytes are sound and, when the destination is empty, *)
(* only while there is something aside to fall back on, and versions that  *)
(* are at either path are never spoiled.                                   *)
(*                                                                         *)
(* CommitRitual implements this (CommitRitual!Replace).                    *)
(***************************************************************************)
CONSTANTS
  Versions,  \* whole files that may ever be at either path
  Empty      \* not a version

VARIABLES dest, aside, sound

Init ==
  /\ dest \in Versions
  /\ aside = Empty
  /\ sound = Versions

SetAside ==
  /\ dest # Empty
  /\ dest' = Empty /\ aside' = dest
  /\ UNCHANGED sound

(* Whatever has come to the destination since goes: no rename looks first. *)
PutBack ==
  /\ aside # Empty
  /\ dest' = aside /\ aside' = Empty
  /\ UNCHANGED sound

Arrive(v) ==
  /\ v \in sound
  /\ dest = Empty => aside # Empty
  /\ dest' = v
  /\ UNCHANGED <<aside, sound>>

Spoil ==
  /\ sound' \subseteq sound
  /\ {dest, aside} \subseteq sound' \cup {Empty}
  /\ UNCHANGED <<dest, aside>>

Next == SetAside \/ PutBack \/ (\E v \in Versions : Arrive(v)) \/ Spoil

Spec == Init /\ [][Next]_<<dest, aside, sound>>

(* At every instant one of the two paths holds a whole file.               *)
Safe ==
  /\ dest # Empty \/ aside # Empty
  /\ {dest, aside} \subseteq sound \cup {Empty}
=============================================================================
