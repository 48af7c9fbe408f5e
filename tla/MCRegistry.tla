----------------------------- MODULE MCRegistry -----------------------------
(* Registry with two processes of one name: a reinstall with another       *)
(* ffmpeg, or a build that is too old to be let in.                         *)
EXTENDS Registry, TLC

CONSTANTS p1, p2

Said(uid, hash, build) == [uid |-> uid, hash |-> hash, proto |-> 1, build |-> build]

ReinstalledOrOld ==
    {(p1 :> Said("u", "h1", 1)) @@ (p2 :> other) :
        other \in {Said("v", "h2", 1), Said("u", "h1", 0)}}

ThisBuild == [oldest |-> 1, newest |-> 1, build |-> 1]
=============================================================================
