---------------------------- MODULE SerialStore ----------------------------
(***************************************************************************)
(* What the store promises the threads that write through it, with no      *)
(* queue, no batches, no savepoints and no write-ahead log in sight: each   *)
(* operation is applied at most once, at one point of a single order; an    *)
(* answer tells the truth about it; and a crash may take back the end of    *)
(* that order, but never an operation of the commit lane whose caller has   *)
(* been answered.  The one exception is the code's own: an operation is     *)
(* acknowledged whatever SQLite said when asked to commit it.               *)
(***************************************************************************)
EXTENDS Naturals, Sequences

CONSTANT Operations     \* what can be submitted: records with a "lane"

VARIABLES
    ops,        \* every operation submitted; its place here is its ticket
    reply,      \* what the caller of each was told, "none" until it was
    log,        \* the tickets whose effects the database holds, in order
    lost        \* tickets whose commit failed inside SQLite

vars == <<ops, reply, log, lost>>

Tickets == 1 .. Len(ops)
Held(l) == {l[i] : i \in 1 .. Len(l)}
Waiting(t) == t \in Tickets /\ reply[t] = "none"

Init == ops = << >> /\ reply = << >> /\ log = << >> /\ lost = {}

\* An operation enters; one that meets a stopped writer is told so at once,
\* and a migration of the schema is on record as soon as it is applied.
Submit ==
    \E op \in Operations, r \in {"none", "stopped"} :
        ops' = Append(ops, op) /\ reply' = Append(reply, r)
        /\ UNCHANGED <<log, lost>>

Migrate ==
    \E op \in Operations :
        /\ ops' = Append(ops, op) /\ reply' = Append(reply, "ok")
        /\ log' = Append(log, Len(ops) + 1)
        /\ op.lane # "Commit"
        /\ UNCHANGED lost

Apply(t) ==
    /\ Waiting(t) /\ t \notin Held(log) /\ t \notin lost
    /\ \/ log' = Append(log, t) /\ UNCHANGED lost
       \/ lost' = lost \cup {t} /\ UNCHANGED log
    /\ UNCHANGED <<ops, reply>>

Acknowledge(t) ==
    /\ Waiting(t) /\ t \in Held(log) \cup lost
    /\ reply' = [reply EXCEPT ![t] = "ok"]
    /\ UNCHANGED <<ops, log, lost>>

\* Only an operation without effect is ever reported as failed.
Deny(T) ==
    /\ \A t \in T : Waiting(t) /\ t \notin Held(log) /\ t \notin lost
    /\ \E r \in [T -> {"err", "refused", "stopped"}] :
           reply' = [t \in Tickets |-> IF t \in T THEN r[t] ELSE reply[t]]
    /\ UNCHANGED <<ops, log, lost>>

\* The end of the order may go, with everyone who was still waiting.
Crash ==
    \E keep \in 0 .. Len(log) :
        /\ \A i \in keep + 1 .. Len(log) :
               ~(reply[log[i]] = "ok" /\ ops[log[i]].lane = "Commit")
        /\ log' = SubSeq(log, 1, keep)
        /\ reply' = [t \in Tickets |->
                        IF reply[t] = "none" THEN "crashed" ELSE reply[t]]
        /\ UNCHANGED <<ops, lost>>

Next ==
    \/ Submit \/ Migrate \/ Crash
    \/ \E t \in Tickets : Apply(t) \/ Acknowledge(t)
    \/ \E T \in SUBSET Tickets : Deny(T)

Spec == Init /\ [][Next]_vars
=============================================================================
