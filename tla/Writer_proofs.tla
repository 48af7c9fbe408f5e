---------------------------- MODULE Writer_proofs ----------------------------
(***************************************************************************)
(* Proofs about Writer for any callers, operation names, builds and bounds. *)
(*                                                                          *)
(* Inv says where a ticket may be and what that means: one that is in hand  *)
(* has no answer and no effect yet (Pristine), an acknowledged commit-lane  *)
(* operation is below the synced mark (Durable), and what is in hand comes  *)
(* after what was applied (Ordered).                                        *)
(***************************************************************************)
EXTENDS Writer, SequenceTheorems, TLAPS

-----------------------------------------------------------------------------
(* The inductive invariant.                                                 *)

(* Only a thread that runs has anything in hand.                            *)
Quiet ==
    thread \notin {"live", "stopping"} => inbox = {} /\ batch = {} /\ step = "idle"

(* What is in hand has taken no effect, except in the step between RELEASE  *)
(* and the answer, when it has, or its commit failed.                       *)
Pristine ==
    /\ \A t \in InHand : ops[t].version = 0
    /\ \A t \in inbox \cup batch : t \notin Held(log) /\ t \notin lost
    /\ step = "savepoint" => current \notin Held(log) /\ current \notin lost
    /\ step = "released" => current \in Held(log) \cup lost

(* Nothing of the commit lane is done above the synced mark, and a batch    *)
(* that holds anything of it runs at FULL.                                  *)
Durable ==
    /\ \A i \in synced + 1 .. Len(log) :
           Lane(log[i]) = "Commit" =>
               reply[log[i]] # "ok" /\ ~(step = "released" /\ log[i] = current)
    /\ \A t \in batch \cup ({current} \ {0}) : Lane(t) = "Commit" => level = "FULL"

(* Of one lane, what is in hand came after what is in the log, and what is  *)
(* in the channel after what was taken from it; a caller that waits has     *)
(* submitted nothing since.                                                 *)
Later(t) == \A u \in Held(log) : Lane(u) = Lane(t) => u < t

Ordered ==
    /\ \A t \in inbox \cup batch : Later(t)
    /\ step = "savepoint" => Later(current)
    /\ \A t \in batch \cup ({current} \ {0}), u \in inbox : t < u
    /\ step # "idle" => \A u \in batch : Lane(u) = Lane(current) => current < u
    /\ \A t, u \in Tickets :
           reply[t] = "none" /\ ops[t].by \in Callers /\ ops[u].by = ops[t].by => u <= t

(* A migration is in the log after every earlier one, and those that the    *)
(* opening has passed have the text of the build.                           *)
Rooted ==
    \A i \in 1 .. Len(log) : \A v \in 1 .. ops[log[i]].version :
        \E j \in 1 .. i : ops[log[j]].version = v

Schema ==
    /\ Rooted
    /\ thread = "opening" =>
           /\ version \in 1 .. Len(release) + 1
           /\ \A v \in 1 .. version - 1 : Recorded(v) = {release[v]}
    /\ thread \in {"live", "stopping"} =>
           \A v \in DOMAIN release : Recorded(v) = {release[v]}

Inv == TypeOK /\ Quiet /\ Pristine /\ Durable /\ Ordered /\ InOrder /\ Schema

-----------------------------------------------------------------------------
(* Type correctness.                                                        *)

(* A submission leaves the older tickets what and where they were.          *)
LEMMA Appended ==
    ASSUME NEW S, NEW s \in Seq(S), NEW e \in S
    PROVE  /\ Append(s, e) \in Seq(S) /\ Len(Append(s, e)) = Len(s) + 1
           /\ Len(s) \in Nat
           /\ \A i \in 1 .. Len(s) : Append(s, e)[i] = s[i]
           /\ Append(s, e)[Len(s) + 1] = e
    BY AppendProperties, LenProperties

LEMMA AnswerTypes ==
    ASSUME TypeOK, NEW T, NEW r \in {"ok", "err", "refused", "stopped", "crashed"},
           Answered(T, r)
    PROVE  /\ reply' \in Seq({"none", "ok", "err", "refused", "stopped", "crashed"})
           /\ Len(reply') = Len(ops)
           /\ \A t \in Tickets : reply'[t] = IF t \in T THEN r ELSE reply[t]
<1> DEFINE Replies == {"none", "ok", "err", "refused", "stopped", "crashed"}
<1>1. Len(ops) \in Nat /\ \A t \in Tickets : reply[t] \in Replies
  BY LenProperties, ElementOfSeq DEF TypeOK, Tickets
<1>2. reply' \in [1 .. Len(ops) -> Replies]
  BY <1>1 DEF Answered, Tickets
<1>3. reply' \in Seq(Replies) /\ Len(reply') = Len(ops)
  BY <1>1, <1>2
<1> QED BY <1>3 DEF Answered, Tickets

LEMMA TypeInit == Init => TypeOK
  BY EmptySeq DEF Init, TypeOK, Tickets, InHand, None

(* What a submission or a migration does to the queue of tickets.           *)
LEMMA SubmissionTypes ==
    ASSUME TypeOK, NEW op \in Operations,
           NEW r \in {"none", "ok", "err", "refused", "stopped", "crashed"},
           ops' = Append(ops, op), reply' = Append(reply, r)
    PROVE  /\ ops' \in Seq(Operations) /\ Len(ops') = Len(ops) + 1 /\ Len(ops) \in Nat
           /\ reply' \in Seq({"none", "ok", "err", "refused", "stopped", "crashed"})
           /\ Len(reply') = Len(ops')
           /\ Tickets' = Tickets \cup {Len(ops) + 1} /\ Len(ops) + 1 \notin Tickets
           /\ \A t \in Tickets : ops'[t] = ops[t] /\ reply'[t] = reply[t]
           /\ ops'[Len(ops) + 1] = op /\ reply'[Len(ops) + 1] = r
<1>1. /\ ops' \in Seq(Operations) /\ Len(ops') = Len(ops) + 1 /\ Len(ops) \in Nat
      /\ \A t \in 1 .. Len(ops) : ops'[t] = ops[t]
      /\ ops'[Len(ops) + 1] = op
  BY Appended DEF TypeOK
<1>2. /\ reply' \in Seq({"none", "ok", "err", "refused", "stopped", "crashed"})
      /\ Len(reply') = Len(ops) + 1
      /\ \A t \in 1 .. Len(ops) : reply'[t] = reply[t]
      /\ reply'[Len(ops) + 1] = r
  BY Appended DEF TypeOK
<1> QED BY <1>1, <1>2 DEF Tickets

LEMMA LogTypes ==
    ASSUME TypeOK
    PROVE  /\ Len(ops) \in Nat /\ Len(log) \in Nat
           /\ \A t \in Tickets : ops[t] \in Operations
           /\ \A i \in 1 .. Len(log) : log[i] \in Tickets
           /\ Held(log) \subseteq Tickets
           /\ \A t \in Tickets :
                  reply[t] \in {"none", "ok", "err", "refused", "stopped", "crashed"}
  BY LenProperties, ElementOfSeq DEF TypeOK, Tickets, Held

LEMMA LogGrows ==
    ASSUME TypeOK, NEW t, t \in Tickets', Tickets \subseteq Tickets',
           log' = Append(log, t)
    PROVE  /\ log' \in Seq(Tickets') /\ Len(log') = Len(log) + 1
           /\ \A i \in 1 .. Len(log) : log'[i] = log[i]
           /\ log'[Len(log) + 1] = t
           /\ Held(log') = Held(log) \cup {t}
<1>1. log \in Seq(Tickets')
  BY SeqMonotonic DEF TypeOK
<1>2. /\ log' \in Seq(Tickets') /\ Len(log') = Len(log) + 1 /\ Len(log) \in Nat
      /\ \A i \in 1 .. Len(log) : log'[i] = log[i]
      /\ log'[Len(log) + 1] = t
  BY <1>1, Appended
<1> QED BY <1>2 DEF Held

LEMMA LogShrinks ==
    ASSUME TypeOK, NEW keep \in 0 .. Len(log), log' = SubSeq(log, 1, keep)
    PROVE  /\ log' \in Seq(Tickets) /\ Len(log') = keep
           /\ \A i \in 1 .. keep : log'[i] = log[i]
           /\ Held(log') \subseteq Held(log)
<1>1. keep \in Int /\ keep \in Nat /\ \A i \in 1 .. keep : log[i] \in Tickets
  BY LogTypes
<1>2. /\ SubSeq(log, 1, keep) \in Seq(Tickets)
      /\ Len(SubSeq(log, 1, keep)) = IF 1 <= keep THEN keep - 1 + 1 ELSE 0
      /\ \A i \in 1 .. keep - 1 + 1 : SubSeq(log, 1, keep)[i] = log[1 + i - 1]
  BY <1>1, SubSeqProperties
<1>3. Len(log') = keep /\ \A i \in 1 .. keep : log'[i] = log[i]
  BY <1>1, <1>2
<1> QED BY <1>1, <1>2, <1>3, LogTypes DEF Held

LEMMA TypeStep == TypeOK /\ [Next]_vars => TypeOK'
<1> SUFFICES ASSUME TypeOK, [Next]_vars PROVE TypeOK'
  OBVIOUS
<1> USE WriterAssumption
<1> USE DEF store, lane_, boot, counts, Troubled, InHand
<1>0. Len(ops) \in Nat /\ Len(log) \in Nat
  BY LogTypes
<1>1. CASE Open
  BY <1>1 DEF Open, TypeOK, Tickets
<1>2. CASE Migrate
  <2>1. release \in Seq(Texts) /\ release \in Releases
    BY <1>2 DEF Migrate, TypeOK
  <2>2. version \in UNION {DOMAIN r : r \in Releases} /\ release[version] \in Texts
    BY <1>2, <2>1, LenProperties, ElementOfSeq DEF Migrate
  <2> DEFINE op == [lane |-> "Normal", name |-> release[version], by |-> "migrate",
                    version |-> version]
  <2>3. op \in Operations
    BY <2>2 DEF Operations
  <2>4. /\ ops' = Append(ops, op) /\ reply' = Append(reply, "ok")
        /\ log' = Append(log, Len(ops) + 1)
    BY <1>2 DEF Migrate
  <2> HIDE DEF op
  <2>5. /\ ops' \in Seq(Operations) /\ Len(ops') = Len(ops) + 1
        /\ reply' \in Seq({"none", "ok", "err", "refused", "stopped", "crashed"})
        /\ Len(reply') = Len(ops')
        /\ Tickets' = Tickets \cup {Len(ops) + 1} /\ Len(ops) + 1 \notin Tickets
        /\ \A t \in Tickets : ops'[t] = ops[t] /\ reply'[t] = reply[t]
    BY <2>3, <2>4, SubmissionTypes
  <2>6. log' \in Seq(Tickets') /\ Len(log') = Len(log) + 1
    BY <2>4, <2>5, LogGrows
  <2>7. /\ synced' \in 0 .. Len(log') /\ since' \in 0 .. Len(ops')
        /\ version' \in Nat
    BY <1>0, <1>2, <2>5, <2>6 DEF Migrate, TypeOK
  <2>8. /\ inbox' \subseteq Tickets' /\ batch' \subseteq Tickets' /\ lost' \subseteq Tickets'
        /\ current' \in IF step' = "idle" THEN {0} ELSE Tickets'
        /\ \A t \in InHand' : reply'[t] = "none"
    BY <1>2, <2>5 DEF Migrate, TypeOK
  <2> QED BY <1>2, <2>5, <2>6, <2>7, <2>8 DEF Migrate, TypeOK
<1>3. CASE CompareChecksum
  BY <1>3 DEF CompareChecksum, TypeOK, Tickets
<1>4. CASE Start
  BY <1>0, <1>4 DEF Start, TypeOK, Tickets, None
<1>5. CASE Submit
  <2>1. PICK op \in [lane : Lanes, name : Names, by : Callers \cup Streams, version : {0}],
             r \in {"none", "stopped"} :
          /\ ops' = Append(ops, op) /\ reply' = Append(reply, r)
          /\ \/ r = "none" /\ inbox' = inbox \cup {Len(ops) + 1}
             \/ UNCHANGED inbox
          /\ UNCHANGED <<log, lost, synced, batch, current, step, level, boot, counts,
                         trouble>>
    BY <1>5 DEF Submit
  <2>2. op \in Operations
    BY DEF Operations
  <2>3. /\ ops' \in Seq(Operations) /\ Len(ops') = Len(ops) + 1
        /\ reply' \in Seq({"none", "ok", "err", "refused", "stopped", "crashed"})
        /\ Len(reply') = Len(ops')
        /\ Tickets' = Tickets \cup {Len(ops) + 1} /\ Len(ops) + 1 \notin Tickets
        /\ \A t \in Tickets : ops'[t] = ops[t] /\ reply'[t] = reply[t]
        /\ reply'[Len(ops) + 1] = r
    BY <2>1, <2>2, SubmissionTypes
  <2>4. log' \in Seq(Tickets')
    BY <2>1, <2>3, SeqMonotonic DEF TypeOK
  <2>5. 0 \notin Tickets /\ 0 \notin Tickets'
    BY <1>0, <2>3 DEF Tickets
  <2>6. /\ inbox' \subseteq Tickets' /\ batch' \subseteq Tickets' /\ lost' \subseteq Tickets'
        /\ inbox' \cap batch' = {} /\ current' \notin inbox' \cup batch'
        /\ current' \in IF step' = "idle" THEN {0} ELSE Tickets'
    BY <1>0, <2>1, <2>3, <2>5 DEF TypeOK
  <2>7. \A t \in InHand' : reply'[t] = "none"
    BY <2>1, <2>3, <2>5, <2>6 DEF TypeOK
  <2>8. synced' \in 0 .. Len(log') /\ since' \in 0 .. Len(ops')
    BY <1>0, <2>1, <2>3 DEF TypeOK
  <2> QED BY <2>1, <2>3, <2>4, <2>6, <2>7, <2>8 DEF TypeOK
<1>6. CASE Drop
  BY <1>6 DEF Drop, TypeOK, Tickets
<1>7. CASE TakeBatch
  BY <1>7 DEF TakeBatch, TypeOK, Tickets
<1>8. ASSUME NEW t \in Tickets, Begin(t) PROVE TypeOK'
  <2>1. CASE UNCHANGED <<reply, trouble>>
    BY <1>8, <2>1 DEF Begin, TypeOK, Tickets
  <2>2. CASE trouble' = trouble + 1 /\ Answered({t}, "refused") /\ UNCHANGED <<current, step>>
    <3>1. /\ reply' \in Seq({"none", "ok", "err", "refused", "stopped", "crashed"})
          /\ Len(reply') = Len(ops)
          /\ \A u \in Tickets : reply'[u] = IF u \in {t} THEN "refused" ELSE reply[u]
      BY <2>2, AnswerTypes
    <3> QED BY <1>8, <2>2, <3>1 DEF Begin, TypeOK, Tickets
  <2> QED BY <1>8, <2>1, <2>2 DEF Begin
<1>9. CASE Release
  <2>1. CASE log' = Append(log, current) /\ UNCHANGED <<lost, trouble>>
    <3>1. current \in Tickets /\ Tickets' = Tickets
      BY <1>9 DEF Release, TypeOK, Tickets
    <3>2. log' \in Seq(Tickets') /\ Len(log') = Len(log) + 1
      BY <2>1, <3>1, LogGrows
    <3> QED BY <1>0, <1>9, <2>1, <3>1, <3>2 DEF Release, TypeOK, Tickets
  <2>2. CASE Troubled /\ lost' = lost \cup {current} /\ UNCHANGED <<log, synced>>
    BY <1>9, <2>2 DEF Release, TypeOK, Tickets
  <2> QED BY <1>9, <2>1, <2>2 DEF Release
<1>10. CASE Acknowledge
  <2>1. /\ reply' \in Seq({"none", "ok", "err", "refused", "stopped", "crashed"})
        /\ Len(reply') = Len(ops)
        /\ \A u \in Tickets : reply'[u] = IF u \in {current} THEN "ok" ELSE reply[u]
    BY <1>10, AnswerTypes DEF Acknowledge
  <2> QED BY <1>10, <2>1 DEF Acknowledge, TypeOK, Tickets
<1>11. CASE Fail
  <2>1. /\ reply' \in Seq({"none", "ok", "err", "refused", "stopped", "crashed"})
        /\ Len(reply') = Len(ops)
        /\ \A u \in Tickets : reply'[u] = IF u \in {current} THEN "err" ELSE reply[u]
    BY <1>11, AnswerTypes DEF Fail
  <2> DEFINE n == ops[current].name
  <2>2. failures' = [failures EXCEPT ![n] = failures[n] + 1] /\ failures \in [Names -> Nat]
    BY <1>11 DEF Fail, TypeOK
  <2>3. poison' \in {poison, [poison EXCEPT ![n] = failures[n] + 1]} /\ poison \in [Names -> Nat]
    BY <1>11 DEF Fail, TypeOK
  <2> HIDE DEF n
  <2>4. failures' \in [Names -> Nat] /\ poison' \in [Names -> Nat]
    <3> DEFINE m == failures[n] + 1
    <3>1. n \in Names => m \in Nat
      BY <2>2
    <3>2. failures' = [failures EXCEPT ![n] = m] /\ poison' \in {poison, [poison EXCEPT ![n] = m]}
      BY <2>2, <2>3
    <3> HIDE DEF m
    <3> QED BY <2>2, <2>3, <3>1, <3>2, ZenonT(40)
  <2> QED BY <1>11, <2>1, <2>4, SMTT(30) DEF Fail, TypeOK, Tickets
<1>12. CASE Panic
  <2>1. /\ reply' \in Seq({"none", "ok", "err", "refused", "stopped", "crashed"})
        /\ Len(reply') = Len(ops)
    BY <1>12, AnswerTypes DEF Panic
  <2> QED BY <1>12, <2>1 DEF Panic, TypeOK, Tickets
<1>13. CASE Exit
  BY <1>13 DEF Exit, TypeOK, Tickets
<1>14. CASE Crash
  <2>1. PICK keep \in synced .. Len(log) : log' = SubSeq(log, 1, keep)
    BY <1>14 DEF Crash
  <2>2. keep \in 0 .. Len(log) /\ keep >= synced /\ synced \in Nat
    BY <1>0, <2>1 DEF TypeOK
  <2>3. log' \in Seq(Tickets) /\ Len(log') = keep
    BY <2>1, <2>2, LogShrinks
  <2>4. /\ reply' \in Seq({"none", "ok", "err", "refused", "stopped", "crashed"})
        /\ Len(reply') = Len(ops)
    BY <1>14, AnswerTypes DEF Crash
  <2> QED BY <1>14, <2>2, <2>3, <2>4 DEF Crash, TypeOK, Tickets
<1>15. CASE UNCHANGED vars
  BY <1>15 DEF vars, TypeOK, Tickets
<1> QED
  BY <1>1, <1>2, <1>3, <1>4, <1>5, <1>6, <1>7, <1>8, <1>9, <1>10, <1>11, <1>12, <1>13,
     <1>14, <1>15 DEF Next

(* Every variable has its type, and a ticket in hand is in one place and    *)
(* has no answer, for any callers, builds and bounds.                       *)
THEOREM TypeCorrect == Spec => []TypeOK
  BY TypeInit, TypeStep, PTL DEF Spec

-----------------------------------------------------------------------------
(* The rest of the invariant, part by part.                                 *)

LEMMA InvInit == Init => Inv
<1> SUFFICES ASSUME Init PROVE Inv
  OBVIOUS
<1>1. /\ Len(log) = 0 /\ Len(ops) = 0 /\ Held(log) = {} /\ Tickets = {} /\ InHand = {}
      /\ step = "idle" /\ inbox = {} /\ batch = {} /\ current = 0 /\ synced = 0
      /\ thread = "closed"
  BY EmptySeq DEF Init, Held, Tickets, InHand
<1>2. Quiet /\ Pristine /\ Durable /\ Ordered /\ InOrder /\ Schema
  BY <1>1 DEF Quiet, Pristine, Durable, Ordered, InOrder, Schema, Rooted, Later
<1> QED BY <1>2, TypeInit DEF Inv

LEMMA QuietStep == Inv /\ [Next]_vars => Quiet'
<1> SUFFICES ASSUME Inv, [Next]_vars PROVE Quiet'
  OBVIOUS
<1> USE DEF Inv, Quiet, Running, store, lane_, boot, counts
<1>1. CASE Open \/ Migrate \/ CompareChecksum \/ Start \/ Drop \/ Exit
  BY <1>1 DEF Open, Migrate, CompareChecksum, Start, Drop, Exit
<1>2. CASE Submit
  BY <1>2 DEF Submit
<1>3. CASE TakeBatch \/ \E t \in Tickets : Begin(t)
  BY <1>3 DEF TakeBatch, Begin
<1>4. CASE Release \/ Acknowledge \/ Fail
  BY <1>4 DEF Release, Acknowledge, Fail
<1>5. CASE Panic \/ Crash
  BY <1>5 DEF Panic, Crash
<1>6. CASE UNCHANGED vars
  BY <1>6 DEF vars
<1> QED BY <1>1, <1>2, <1>3, <1>4, <1>5, <1>6 DEF Next

(* A new ticket, in terms of what Inv says.                                 *)
LEMMA SubmitAdds ==
    ASSUME TypeOK, Submit
    PROVE  /\ Tickets' = Tickets \cup {Len(ops) + 1} /\ Len(ops) \in Nat
           /\ \A t \in Tickets : t <= Len(ops)
           /\ \A t \in Tickets : ops'[t] = ops[t] /\ reply'[t] = reply[t]
           /\ ops'[Len(ops) + 1].version = 0
           /\ reply'[Len(ops) + 1] \in {"none", "stopped"}
           /\ ops'[Len(ops) + 1].by \in Callers =>
                  \A t \in Tickets : ops[t].by = ops'[Len(ops) + 1].by => reply[t] # "none"
           /\ \/ thread = "live" /\ inbox' = inbox \cup {Len(ops) + 1}
              \/ UNCHANGED inbox
           /\ UNCHANGED <<log, lost, synced, batch, current, step, level, thread, release,
                          version, since>>
<1>1. PICK op \in [lane : Lanes, name : Names, by : Callers \cup Streams, version : {0}],
           r \in {"none", "stopped"} :
        /\ op.by \in Callers =>
               ~\E t \in Tickets : ops[t].by = op.by /\ reply[t] = "none"
        /\ ops' = Append(ops, op) /\ reply' = Append(reply, r)
        /\ \/ thread = "live" /\ inbox' = inbox \cup {Len(ops) + 1}
           \/ UNCHANGED inbox
        /\ UNCHANGED <<log, lost, synced, batch, current, step, level, boot>>
  BY DEF Submit
<1>2. op \in Operations /\ op.version = 0
  BY DEF Operations
<1>3. /\ Tickets' = Tickets \cup {Len(ops) + 1} /\ Len(ops) \in Nat
      /\ \A t \in Tickets : ops'[t] = ops[t] /\ reply'[t] = reply[t]
      /\ ops'[Len(ops) + 1] = op /\ reply'[Len(ops) + 1] = r
  BY <1>1, <1>2, SubmissionTypes
<1>4. \A t \in Tickets : t <= Len(ops)
  BY <1>3 DEF Tickets
<1> QED BY <1>1, <1>2, <1>3, <1>4 DEF boot

(* A migration is a ticket that is answered and in the log at once.         *)
LEMMA MigrateAdds ==
    ASSUME TypeOK, Migrate
    PROVE  /\ Tickets' = Tickets \cup {Len(ops) + 1} /\ Len(ops) \in Nat
           /\ \A t \in Tickets : t <= Len(ops)
           /\ \A t \in Tickets : ops'[t] = ops[t] /\ reply'[t] = reply[t]
           /\ ops'[Len(ops) + 1] = [lane |-> "Normal", name |-> release[version],
                                    by |-> "migrate", version |-> version]
           /\ reply'[Len(ops) + 1] = "ok"
           /\ version \in DOMAIN release /\ release \in Seq(Texts) /\ thread = "opening"
           /\ [lane |-> "Normal", name |-> release[version],
               by |-> "migrate", version |-> version] \in Operations
           /\ Len(log') = Len(log) + 1 /\ log'[Len(log) + 1] = Len(ops) + 1
           /\ \A i \in 1 .. Len(log) : log'[i] = log[i] /\ log[i] \in Tickets
           /\ Held(log') = Held(log) \cup {Len(ops) + 1} /\ Held(log) \subseteq Tickets
           /\ version' = version + 1
           /\ UNCHANGED <<lost, synced, inbox, batch, current, step, level, thread, release>>
<1> DEFINE op == [lane |-> "Normal", name |-> release[version], by |-> "migrate",
                  version |-> version]
<1>1. release \in Seq(Texts) /\ release \in Releases /\ version \in DOMAIN release
  BY WriterAssumption, EmptySeq DEF Migrate, TypeOK
<1>2. release[version] \in Texts
  BY <1>1, LenProperties, ElementOfSeq
<1>3. op \in Operations
  BY <1>1, <1>2 DEF Operations
<1>4. /\ ops' = Append(ops, op) /\ reply' = Append(reply, "ok")
      /\ log' = Append(log, Len(ops) + 1)
  BY DEF Migrate
<1> HIDE DEF op
<1>5. /\ Tickets' = Tickets \cup {Len(ops) + 1} /\ Len(ops) \in Nat
      /\ \A t \in Tickets : ops'[t] = ops[t] /\ reply'[t] = reply[t]
      /\ ops'[Len(ops) + 1] = op /\ reply'[Len(ops) + 1] = "ok"
  BY <1>3, <1>4, SubmissionTypes
<1>6. /\ Len(log') = Len(log) + 1 /\ log'[Len(log) + 1] = Len(ops) + 1
      /\ \A i \in 1 .. Len(log) : log'[i] = log[i]
      /\ Held(log') = Held(log) \cup {Len(ops) + 1}
  BY <1>4, <1>5, LogGrows
<1>7. \A t \in Tickets : t <= Len(ops)
  BY <1>5 DEF Tickets
<1>8. /\ thread = "opening" /\ version' = version + 1
      /\ UNCHANGED <<lost, synced, inbox, batch, current, step, level, thread, release>>
  BY DEF Migrate, lane_
<1> QED BY <1>1, <1>3, <1>5, <1>6, <1>7, <1>8, LogTypes DEF op

LEMMA PristineStep == Inv /\ [Next]_vars => Pristine'
<1> SUFFICES ASSUME Inv, [Next]_vars PROVE Pristine'
  OBVIOUS
<1> USE DEF Inv, store, lane_, boot, counts, InHand
<1>0. TypeOK
  OBVIOUS
<1>1. CASE Open \/ CompareChecksum \/ Start \/ Drop \/ Exit \/ UNCHANGED vars
  BY <1>1 DEF Open, CompareChecksum, Start, Drop, Exit, vars, Pristine, Held
<1>2. CASE Migrate
  <2>1. InHand' = {} /\ step' = "idle"
    BY <1>2, MigrateAdds DEF Quiet, TypeOK
  <2> QED BY <2>1 DEF Pristine
<1>3. CASE Submit
  <2>1. Held(log) \subseteq Tickets /\ lost \subseteq Tickets
    BY LogTypes DEF TypeOK
  <2>2. Len(ops) + 1 \notin Tickets /\ Held(log)' = Held(log) /\ lost' = lost
    BY <1>3, SubmitAdds DEF Held, Tickets
  <2>3. \A t \in InHand' : ops'[t].version = 0
    <3>1. InHand' \subseteq InHand \cup {Len(ops) + 1} /\ InHand \subseteq Tickets
      BY <1>3, SubmitAdds DEF TypeOK
    <3> QED BY <1>3, <3>1, SubmitAdds DEF Pristine
  <2>4. \A t \in (inbox \cup batch)' : t \notin Held(log) /\ t \notin lost
    BY <1>3, <2>1, <2>2, SubmitAdds DEF Pristine
  <2> QED BY <1>3, <2>2, <2>3, <2>4, SubmitAdds DEF Pristine
<1>4. CASE TakeBatch
  BY <1>4 DEF TakeBatch, Pristine, Held
<1>5. ASSUME NEW t \in Tickets, Begin(t) PROVE Pristine'
  BY <1>5 DEF Begin, Pristine, Held, TypeOK
<1>6. CASE Release
  <2>1. current \in Tickets /\ Tickets' = Tickets
    BY <1>6 DEF Release, TypeOK, Tickets
  <2>2. \/ Held(log') = Held(log) \cup {current} /\ lost' = lost
        \/ Held(log') = Held(log) /\ lost' = lost \cup {current}
    BY <1>6, <2>1, LogGrows DEF Release
  <2> QED BY <1>6, <2>2 DEF Release, Pristine, TypeOK
<1>7. CASE Acknowledge \/ Fail
  BY <1>7 DEF Acknowledge, Fail, Pristine, Held
<1>8. CASE Panic \/ Crash
  BY <1>8 DEF Panic, Crash, Pristine
<1> QED BY <1>1, <1>2, <1>3, <1>4, <1>5, <1>6, <1>7, <1>8 DEF Next

LEMMA DurableStep == Inv /\ [Next]_vars => Durable'
<1> SUFFICES ASSUME Inv, [Next]_vars PROVE Durable'
  OBVIOUS
<1> USE DEF Inv, store, lane_, boot, counts, Lane
<1>0. /\ TypeOK /\ Len(log) \in Nat /\ synced \in 0 .. Len(log)
      /\ \A i \in 1 .. Len(log) : log[i] \in Tickets /\ log[i] \in Held(log)
  BY LogTypes DEF TypeOK, Held
<1>1. CASE Open \/ CompareChecksum \/ Start \/ Drop \/ Exit \/ UNCHANGED vars
  BY <1>1 DEF Open, CompareChecksum, Start, Drop, Exit, vars, Durable, Quiet, TypeOK
<1>2. CASE Migrate
  <2>1. batch' = {} /\ current' = 0 /\ step' = "idle"
    BY <1>2, MigrateAdds DEF Quiet, TypeOK
  <2>2. ASSUME NEW i \in synced' + 1 .. Len(log'), ops'[log'[i]].lane = "Commit"
        PROVE  reply'[log'[i]] # "ok"
    <3>1. i \in synced + 1 .. Len(log) \/ i = Len(log) + 1
      BY <1>0, <1>2, <2>2, MigrateAdds
    <3>2. i # Len(log) + 1
      BY <1>0, <1>2, <2>2, MigrateAdds
    <3>3. i \in 1 .. Len(log)
      BY <1>0, <3>1, <3>2
    <3> QED BY <1>0, <1>2, <2>2, <3>1, <3>2, <3>3, MigrateAdds DEF Durable
  <2> QED BY <2>1, <2>2 DEF Durable
<1>3. CASE Submit
  <2>1. batch \cup ({current} \ {0}) \subseteq Tickets
    BY DEF TypeOK
  <2>2. synced + 1 .. Len(log) \subseteq 1 .. Len(log)
    BY <1>0
  <2> QED BY <1>0, <1>3, <2>1, <2>2, SubmitAdds DEF Durable
<1>4. CASE TakeBatch
  BY <1>4 DEF TakeBatch, Durable, TypeOK
<1>5. ASSUME NEW t \in Tickets, Begin(t) PROVE Durable'
  <2>1. \A i \in synced + 1 .. Len(log) : log[i] \in Tickets /\ log[i] # t
    BY <1>0, <1>5 DEF Begin, Pristine
  <2>2. \A i \in synced + 1 .. Len(log) : reply'[log[i]] = reply[log[i]]
    BY <1>5, <2>1 DEF Begin, Answered
  <2> QED BY <1>5, <2>1, <2>2 DEF Begin, Durable
<1>6. CASE Release
  <2>1. current \in Tickets /\ Tickets' = Tickets /\ current \notin Held(log)
    BY <1>6 DEF Release, TypeOK, Tickets, Pristine
  <2>2. CASE log' = Append(log, current)
    <3>1. /\ Len(log') = Len(log) + 1 /\ log'[Len(log) + 1] = current
          /\ \A i \in 1 .. Len(log) : log'[i] = log[i]
      BY <2>1, <2>2, LogGrows
    <3>2. ASSUME NEW i \in synced' + 1 .. Len(log'), ops[log'[i]].lane = "Commit"
          PROVE  reply[log'[i]] # "ok" /\ log'[i] # current
      <4>1. level # "FULL" /\ synced' = synced
        BY <1>0, <1>6, <2>2, <3>1, <3>2 DEF Release
      <4>2. ops[current].lane # "Commit"
        <5>1. current \in {current} \ {0}
          BY <2>1, LogTypes DEF Tickets
        <5> QED BY <4>1, <5>1 DEF Durable
      <4>3. i # Len(log) + 1
        BY <3>1, <3>2, <4>2
      <4>4. i \in synced + 1 .. Len(log) /\ i \in 1 .. Len(log)
        BY <1>0, <3>1, <4>1, <4>3
      <4> QED BY <1>0, <2>1, <3>1, <3>2, <4>4 DEF Durable
    <3> QED BY <1>6, <3>2 DEF Release, Durable
  <2>3. CASE UNCHANGED <<log, synced>>
    <3>1. synced + 1 .. Len(log) \subseteq 1 .. Len(log)
      BY <1>0
    <3> QED BY <1>0, <1>6, <2>1, <2>3, <3>1 DEF Release, Durable
  <2> QED BY <1>6, <2>2, <2>3 DEF Release
<1>7. CASE Acknowledge
  <2>1. \A i \in synced + 1 .. Len(log) :
          ops[log[i]].lane = "Commit" => log[i] \in Tickets /\ log[i] # current
    BY <1>0, <1>7 DEF Acknowledge, Durable
  <2>2. \A i \in synced + 1 .. Len(log) :
          ops[log[i]].lane = "Commit" => reply'[log[i]] = reply[log[i]]
    BY <1>7, <2>1 DEF Acknowledge, Answered
  <2> QED BY <1>7, <2>2 DEF Acknowledge, Durable
<1>8. CASE Fail \/ Panic
  <2>1. \A t \in Tickets : reply'[t] = "ok" => reply[t] = "ok"
    BY <1>8 DEF Fail, Panic, Answered
  <2>2. synced + 1 .. Len(log) \subseteq 1 .. Len(log)
    BY <1>0
  <2> QED BY <1>0, <1>8, <2>1, <2>2 DEF Fail, Panic, Durable
<1>9. CASE Crash
  <2>1. PICK keep \in synced .. Len(log) : log' = SubSeq(log, 1, keep)
    BY <1>9 DEF Crash
  <2>2. keep \in 0 .. Len(log) /\ keep \in Nat
    BY <1>0, <2>1
  <2>3. Len(log') = keep /\ \A i \in 1 .. keep : log'[i] = log[i]
    BY <2>1, <2>2, LogShrinks
  <2>4. \A t \in Tickets : reply'[t] = "ok" => reply[t] = "ok"
    BY <1>9 DEF Crash, Answered
  <2>5. \A i \in synced + 1 .. keep : i \in synced + 1 .. Len(log) /\ i \in 1 .. keep /\ i \in 1 .. Len(log)
    BY <1>0, <2>2
  <2> QED BY <1>0, <1>9, <2>3, <2>4, <2>5 DEF Crash, Durable
<1> QED BY <1>1, <1>2, <1>3, <1>4, <1>5, <1>6, <1>7, <1>8, <1>9 DEF Next

LEMMA OrderedStep == Inv /\ [Next]_vars => Ordered'
<1> SUFFICES ASSUME Inv, [Next]_vars PROVE Ordered'
  OBVIOUS
<1> USE DEF Inv, store, lane_, boot, counts, Lane
<1>0. /\ TypeOK /\ Held(log) \subseteq Tickets /\ Len(ops) \in Nat
      /\ \A t \in Tickets : t \in Nat
      /\ inbox \subseteq Tickets /\ batch \subseteq Tickets
  BY LogTypes, SMTT(30) DEF TypeOK, Tickets
<1>1. CASE Open \/ CompareChecksum \/ Start \/ Drop \/ Exit \/ UNCHANGED vars
  BY <1>1 DEF Open, CompareChecksum, Start, Drop, Exit, vars, Ordered, Later, Held, Tickets
<1>2. CASE Migrate
  <2>1. inbox' = {} /\ batch' = {} /\ step' = "idle"
    BY <1>2, MigrateAdds DEF Quiet
  <2>2. ops'[Len(ops) + 1].by \notin Callers
    BY <1>2, MigrateAdds, WriterAssumption
  <2>3. ASSUME NEW t \in Tickets', NEW u \in Tickets', reply'[t] = "none",
               ops'[t].by \in Callers, ops'[u].by = ops'[t].by
        PROVE  u <= t
    <3>1. t \in Tickets /\ u \in Tickets
      BY <1>2, <2>2, <2>3, MigrateAdds
    <3> QED BY <1>2, <2>3, <3>1, MigrateAdds DEF Ordered
  <2> QED BY <2>1, <2>3 DEF Ordered
<1>3. CASE Submit
  <2>1. Held(log)' = Held(log) /\ \A t \in Held(log) : t \in Tickets /\ t < Len(ops) + 1
    BY <1>0, <1>3, SubmitAdds DEF Held
  <2>2. \A t \in (inbox \cup batch)' : Later(t)'
    <3>1. ASSUME NEW t \in inbox \cup batch PROVE Later(t)'
      BY <1>0, <1>3, <2>1, SubmitAdds DEF Ordered, Later
    <3>2. ASSUME NEW t, t = Len(ops) + 1 PROVE Later(t)'
      BY <2>1, <3>2 DEF Later
    <3> QED BY <1>3, <3>1, <3>2, SubmitAdds
  <2>3. (step = "savepoint" => Later(current))'
    <3>1. step = "savepoint" => current \in Tickets
      BY DEF TypeOK
    <3> QED BY <1>0, <1>3, <2>1, <3>1, SubmitAdds DEF Ordered, Later
  <2>4. \A t \in (batch \cup ({current} \ {0}))', u \in inbox' : t < u
    <3>1. \A t \in batch \cup ({current} \ {0}) : t \in Tickets /\ t < Len(ops) + 1
      BY <1>0, <1>3, SubmitAdds DEF TypeOK
    <3> QED BY <1>0, <1>3, <3>1, SubmitAdds DEF Ordered
  <2>5. (step # "idle" => \A u \in batch : Lane(u) = Lane(current) => current < u)'
    <3>1. step # "idle" => current \in Tickets
      BY DEF TypeOK
    <3> QED BY <1>0, <1>3, <3>1, SubmitAdds DEF Ordered
  <2>6. ASSUME NEW t \in Tickets', NEW u \in Tickets', reply'[t] = "none",
               ops'[t].by \in Callers, ops'[u].by = ops'[t].by
        PROVE  u <= t
    <3>1. CASE t = Len(ops) + 1
      BY <1>0, <1>3, <3>1, SubmitAdds
    <3>2. CASE t \in Tickets /\ u = Len(ops) + 1
      BY <1>3, <2>6, <3>2, SubmitAdds
    <3>3. CASE t \in Tickets /\ u \in Tickets
      BY <1>3, <2>6, <3>3, SubmitAdds DEF Ordered
    <3> QED BY <1>3, <3>1, <3>2, <3>3, SubmitAdds
  <2> QED BY <2>2, <2>3, <2>4, <2>5, <2>6 DEF Ordered
<1>4. CASE TakeBatch
  <2>1. /\ inbox' = {} /\ batch' = inbox /\ step' = "idle" /\ current' = 0
        /\ UNCHANGED <<ops, reply, log>> /\ Held(log)' = Held(log) /\ Tickets' = Tickets
    BY <1>4 DEF TakeBatch, Held, Tickets, TypeOK
  <2> QED BY <2>1 DEF Ordered, Later
<1>5. ASSUME NEW t \in Tickets, Begin(t) PROVE Ordered'
  <2>1. /\ t \in batch /\ batch' = batch \ {t} /\ inbox' = inbox /\ ops' = ops /\ log' = log
        /\ step = "idle" /\ current = 0 /\ Tickets' = Tickets
        /\ current' \in {0, t} /\ (step' # "idle" => current' = t)
    BY <1>5 DEF Begin, TypeOK, Tickets
  <2>2. \A u \in batch' : Lane(u) = Lane(t) => t < u
    BY <1>5, <2>1 DEF Begin, Precedes, Level
  <2>3. \A u \in Tickets : reply'[u] = "none" => reply[u] = "none"
    BY <1>5 DEF Begin, Answered
  <2> QED BY <2>1, <2>2, <2>3 DEF Ordered, Later, Held
<1>6. CASE Release
  <2>1. /\ current \in Tickets /\ Tickets' = Tickets /\ step' = "released" /\ current # 0
        /\ UNCHANGED <<ops, reply, inbox, batch, current>> /\ step = "savepoint"
    BY <1>0, <1>6 DEF Release, TypeOK, Tickets
  <2>2. Held(log') \subseteq Held(log) \cup {current}
    BY <1>6, <2>1, LogGrows DEF Release
  <2>3. \A t \in inbox \cup batch : Lane(t) = Lane(current) => current < t
    BY <2>1 DEF Ordered
  <2>4. \A t \in inbox \cup batch : Later(t)'
    BY <2>1, <2>2, <2>3 DEF Ordered, Later
  <2> QED BY <2>1, <2>4 DEF Ordered
<1>7. CASE Acknowledge \/ Fail
  <2>1. \A u \in Tickets : reply'[u] = "none" => reply[u] = "none"
    BY <1>7 DEF Acknowledge, Fail, Answered
  <2> QED BY <1>7, <2>1 DEF Acknowledge, Fail, Ordered, Later, Held, Tickets
<1>8. CASE Panic \/ Crash
  <2>1. \A u \in Tickets : reply'[u] = "none" => reply[u] = "none"
    BY <1>8 DEF Panic, Crash, Answered
  <2>2. inbox' = {} /\ batch' = {} /\ step' = "idle" /\ ops' = ops /\ Tickets' = Tickets
    BY <1>8 DEF Panic, Crash, Tickets
  <2> QED BY <2>1, <2>2 DEF Ordered
<1> QED BY <1>1, <1>2, <1>3, <1>4, <1>5, <1>6, <1>7, <1>8 DEF Next

LEMMA InOrderStep == Inv /\ [Next]_vars => InOrder'
<1> SUFFICES ASSUME Inv, [Next]_vars PROVE InOrder'
  OBVIOUS
<1> USE DEF Inv, store, lane_, boot, counts
<1>0. /\ TypeOK /\ Held(log) \subseteq Tickets /\ Len(ops) \in Nat /\ Len(log) \in Nat
      /\ \A t \in Tickets : t \in Nat
      /\ \A i \in 1 .. Len(log) : log[i] \in Tickets /\ log[i] \in Held(log)
  BY LogTypes DEF Tickets, Held
<1>1. CASE UNCHANGED <<ops, log>>
  BY <1>1 DEF InOrder
<1>2. CASE Migrate
  <2>1. ASSUME NEW i \in 1 .. Len(log'), NEW j \in 1 .. Len(log'), i < j,
               \/ ops'[log'[i]].lane = ops'[log'[j]].lane
               \/ /\ ops'[log'[i]].by = ops'[log'[j]].by
                  /\ ops'[log'[i]].by \in Callers
        PROVE  log'[i] < log'[j]
    <3>1. i \in 1 .. Len(log) /\ (j \in 1 .. Len(log) \/ j = Len(log) + 1)
      BY <1>0, <1>2, <2>1, MigrateAdds, SMTT(30)
    <3>2. CASE j \in 1 .. Len(log)
      <4>1. /\ log'[i] = log[i] /\ ops'[log'[i]] = ops[log[i]]
            /\ log'[j] = log[j] /\ ops'[log'[j]] = ops[log[j]]
        BY <1>0, <1>2, <3>1, <3>2, MigrateAdds
      <4> QED BY <2>1, <3>1, <3>2, <4>1 DEF InOrder
    <3>3. CASE j = Len(log) + 1
      BY <1>0, <1>2, <3>1, <3>3, MigrateAdds
    <3> QED BY <3>1, <3>2, <3>3
  <2> QED BY <2>1 DEF InOrder
<1>3. CASE Submit
  <2>1. /\ log' = log /\ Len(log') = Len(log)
        /\ \A i \in 1 .. Len(log) : ops'[log'[i]] = ops[log[i]]
    BY <1>0, <1>3, SubmitAdds
  <2> QED BY <2>1 DEF InOrder
<1>4. CASE Release
  <2>1. /\ current \in Tickets /\ Tickets' = Tickets /\ current # 0 /\ ops' = ops
        /\ step = "savepoint" /\ reply[current] = "none" /\ current \notin Held(log)
    BY <1>0, <1>4 DEF Release, TypeOK, Tickets, Pristine, InHand
  <2>2. CASE UNCHANGED log
    BY <2>1, <2>2 DEF InOrder
  <2>3. CASE log' = Append(log, current)
    <3>1. /\ Len(log') = Len(log) + 1 /\ log'[Len(log) + 1] = current
          /\ \A i \in 1 .. Len(log) : log'[i] = log[i]
      BY <2>1, <2>3, LogGrows
    <3>2. ASSUME NEW i \in 1 .. Len(log),
                 \/ ops[log[i]].lane = ops[current].lane
                 \/ ops[log[i]].by = ops[current].by /\ ops[log[i]].by \in Callers
          PROVE  log[i] < current
      <4>1. log[i] \in Tickets /\ log[i] # current /\ log[i] \in Nat /\ current \in Nat
        BY <1>0, <2>1
      <4>2. log[i] <= current
        BY <1>0, <2>1, <3>2 DEF Ordered, Later, Lane
      <4> QED BY <4>1, <4>2
    <3>3. ASSUME NEW i \in 1 .. Len(log'), NEW j \in 1 .. Len(log'), i < j,
                 \/ ops[log'[i]].lane = ops[log'[j]].lane
                 \/ ops[log'[i]].by = ops[log'[j]].by /\ ops[log'[i]].by \in Callers
          PROVE  log'[i] < log'[j]
      <4>1. i \in 1 .. Len(log) /\ (j \in 1 .. Len(log) \/ j = Len(log) + 1)
        BY <1>0, <3>1, <3>3
      <4>2. CASE j \in 1 .. Len(log)
        BY <3>1, <3>3, <4>1, <4>2 DEF InOrder
      <4>3. CASE j = Len(log) + 1
        BY <3>1, <3>2, <3>3, <4>1, <4>3
      <4> QED BY <4>1, <4>2, <4>3
    <3> QED BY <2>1, <3>3 DEF InOrder
  <2> QED BY <1>4, <2>2, <2>3 DEF Release
<1>5. CASE Crash
  <2>1. PICK keep \in synced .. Len(log) : log' = SubSeq(log, 1, keep)
    BY <1>5 DEF Crash
  <2>2. keep \in 0 .. Len(log) /\ keep \in Nat
    BY <1>0, <2>1 DEF TypeOK
  <2>3. Len(log') = keep /\ \A i \in 1 .. keep : log'[i] = log[i] /\ i \in 1 .. Len(log)
    BY <1>0, <2>1, <2>2, LogShrinks
  <2>4. ops' = ops
    BY <1>5 DEF Crash
  <2> QED BY <2>3, <2>4 DEF InOrder
<1>6. CASE \/ Open \/ CompareChecksum \/ Start \/ Drop \/ TakeBatch \/ Acknowledge \/ Fail
           \/ Panic \/ Exit \/ (\E t \in Tickets : Begin(t)) \/ UNCHANGED vars
  <2>1. UNCHANGED <<ops, log>>
    BY <1>6 DEF Open, CompareChecksum, Start, Drop, TakeBatch, Acknowledge, Fail, Panic,
                Exit, Begin, vars
  <2> QED BY <1>1, <2>1
<1> QED BY <1>2, <1>3, <1>4, <1>5, <1>6 DEF Next

(* A step that adds no migration and takes nothing away leaves the record   *)
(* of every version as it was.                                              *)
LEMMA RecordStays ==
    ASSUME Inv,
           \/ /\ Tickets \subseteq Tickets' /\ \A t \in Tickets : ops'[t] = ops[t]
              /\ log' = log
           \/ Release
    PROVE  \A v \in Nat \ {0} : Recorded(v)' = Recorded(v)
<1>0. TypeOK /\ Held(log) \subseteq Tickets
  BY LogTypes DEF Inv
<1>1. CASE Tickets \subseteq Tickets' /\ (\A t \in Tickets : ops'[t] = ops[t]) /\ log' = log
  BY <1>0, <1>1 DEF Recorded, Held
<1>2. CASE Release
  <2>1. /\ current \in Tickets /\ current # 0 /\ Tickets' = Tickets /\ ops' = ops
        /\ ops[current].version = 0
    BY <1>0, <1>2, LogTypes DEF Release, TypeOK, Tickets, Inv, Pristine, InHand
  <2>2. Held(log') = Held(log) \/ Held(log') = Held(log) \cup {current}
    BY <1>0, <1>2, <2>1, LogGrows DEF Release
  <2> QED BY <2>1, <2>2 DEF Recorded
<1> QED BY <1>1, <1>2

(* Entries without a version, and entries taken from the end, leave every   *)
(* migration of the log behind the earlier ones.                            *)
LEMMA RootedStays ==
    ASSUME Rooted, Len(log) \in Nat, Len(log') \in Nat,
           \A i \in 1 .. Len(log') :
               IF i \in 1 .. Len(log) THEN ops'[log'[i]] = ops[log[i]]
                                      ELSE ops'[log'[i]].version = 0
    PROVE  Rooted'
<1>1. ASSUME NEW i \in 1 .. Len(log'), NEW v \in 1 .. ops'[log'[i]].version
      PROVE  \E j \in 1 .. i : ops'[log'[j]].version = v
  <2>1. i \in 1 .. Len(log) /\ ops'[log'[i]] = ops[log[i]]
    BY <1>1
  <2>2. PICK j \in 1 .. i : ops[log[j]].version = v
    BY <1>1, <2>1 DEF Rooted
  <2>3. j \in 1 .. Len(log') /\ j \in 1 .. Len(log)
    BY <1>1, <2>1
  <2> QED BY <2>2, <2>3
<1> QED BY <1>1 DEF Rooted

LEMMA SchemaStays ==
    ASSUME Inv, Rooted', UNCHANGED <<release, version>>,
           \A v \in Nat \ {0} : Recorded(v)' = Recorded(v),
           \/ thread' \in {thread, "closed", "dead"}
           \/ thread = "live" /\ thread' = "stopping"
    PROVE  Schema'
<1>1. release \in Seq(Texts) /\ DOMAIN release = 1 .. Len(release) /\ Len(release) \in Nat
  BY WriterAssumption, EmptySeq, LenProperties DEF Inv, TypeOK
<1>2. CASE thread = "opening" /\ thread' = "opening"
  <2>1. version \in Nat /\ \A v \in 1 .. version - 1 : Recorded(v)' = Recorded(v)
    BY DEF Inv, TypeOK
  <2> QED BY <1>2, <2>1 DEF Inv, Schema
<1>3. CASE thread \in {"live", "stopping"} /\ thread' \in {"live", "stopping"}
  <2>1. \A v \in DOMAIN release : Recorded(v)' = Recorded(v)
    BY <1>1
  <2> QED BY <1>3, <2>1 DEF Inv, Schema
<1>4. CASE thread' \in {"closed", "dead"}
  BY <1>4 DEF Schema
<1> QED BY <1>2, <1>3, <1>4 DEF Inv, TypeOK

LEMMA SchemaStep == Inv /\ [Next]_vars => Schema'
<1> SUFFICES ASSUME Inv, [Next]_vars PROVE Schema'
  OBVIOUS
<1> USE DEF store, lane_, boot, counts
<1>0. /\ TypeOK /\ Held(log) \subseteq Tickets /\ Len(ops) \in Nat /\ Len(log) \in Nat
      /\ \A i \in 1 .. Len(log) : log[i] \in Tickets /\ ops[log[i]] \in Operations
      /\ release \in Seq(Texts) /\ Len(release) \in Nat /\ version \in Nat
      /\ DOMAIN release = 1 .. Len(release)
  <2>1. TypeOK
    BY DEF Inv
  <2>2. release \in Seq(Texts)
    BY <2>1, WriterAssumption, EmptySeq DEF TypeOK
  <2> QED BY <2>1, <2>2, LogTypes, LenProperties DEF TypeOK
<1>1. Rooted
  BY DEF Inv, Schema
<1>2. CASE Open
  <2>1. release' \in Seq(Texts) /\ version' = 1 /\ thread' = "opening" /\ UNCHANGED <<ops, log>>
    BY <1>2, WriterAssumption DEF Open
  <2>2. version' \in 1 .. Len(release') + 1 /\ 1 .. version' - 1 = {}
    BY <2>1, LenProperties
  <2>3. Rooted'
    BY <1>0, <1>1, <2>1, RootedStays
  <2> QED BY <2>1, <2>2, <2>3 DEF Schema
<1>3. CASE Migrate
  <2> DEFINE n == Len(ops) + 1
             m == Len(log) + 1
  <2>1. /\ ops'[n].version = version /\ ops'[n].name = release[version]
        /\ Len(log') = m /\ log'[m] = n /\ n \notin Tickets
        /\ \A i \in 1 .. Len(log) :
               log'[i] = log[i] /\ log[i] \in Tickets /\ ops'[log'[i]] = ops[log[i]]
        /\ Held(log') = Held(log) \cup {n} /\ \A t \in Held(log) : ops'[t] = ops[t]
        /\ version \in 1 .. Len(release) /\ version' = version + 1 /\ release' = release
        /\ thread = "opening" /\ thread' = "opening"
    BY <1>0, <1>3, MigrateAdds DEF Tickets
  <2>2. Recorded(version) = {} /\ ~\E t \in Held(log) : ops[t].version = version
    BY <1>3 DEF Migrate, Recorded
  <2>3. \A v \in 1 .. version - 1 : Recorded(v) = {release[v]}
    BY <2>1 DEF Inv, Schema
  <2>4. ASSUME NEW v \in 1 .. version - 1 PROVE Recorded(v)' = {release[v]}
    <3>1. {u \in Held(log') : ops'[u].version = v} = {u \in Held(log) : ops[u].version = v}
      BY <1>0, <2>1
    <3>2. Recorded(v)' = Recorded(v)
      BY <2>1, <3>1 DEF Recorded
    <3> QED BY <2>3, <3>2
  <2>5. ASSUME NEW v, v = version PROVE Recorded(v)' = {release[v]}
    <3>1. {u \in Held(log') : ops'[u].version = v} = {n}
      BY <2>1, <2>2, <2>5
    <3> QED BY <2>1, <2>5, <3>1 DEF Recorded
  <2>6. \A v \in 1 .. version' - 1 : Recorded(v)' = {release[v]}
    <3>1. \A v \in 1 .. version' - 1 : v \in 1 .. version - 1 \/ v = version
      BY <1>0, <2>1
    <3> QED BY <2>4, <2>5, <3>1
  <2>7. ASSUME NEW i \in 1 .. Len(log'), NEW v \in 1 .. ops'[log'[i]].version
        PROVE  \E j \in 1 .. i : ops'[log'[j]].version = v
    <3>1. CASE i \in 1 .. Len(log)
      <4>1. PICK j \in 1 .. i : ops[log[j]].version = v
        BY <1>1, <2>1, <2>7, <3>1 DEF Rooted
      <4>2. j \in 1 .. Len(log)
        BY <1>0, <3>1
      <4> QED BY <2>1, <4>1, <4>2
    <3>2. CASE i = m
      <4>1. v \in 1 .. version - 1 \/ v = version
        BY <1>0, <2>1, <3>2
      <4>2. CASE v = version
        BY <1>0, <2>1, <3>2, <4>2
      <4>3. CASE v \in 1 .. version - 1
        <5>1. Recorded(v) # {}
          BY <2>3, <4>3
        <5>2. PICK j \in 1 .. Len(log) : ops[log[j]].version = v
          BY <5>1 DEF Recorded, Held
        <5>3. j \in 1 .. i
          BY <1>0, <3>2
        <5> QED BY <2>1, <5>2, <5>3
      <4> QED BY <4>1, <4>2, <4>3
    <3> QED BY <1>0, <2>1, <3>1, <3>2
  <2>8. version' \in 1 .. Len(release') + 1
    BY <1>0, <2>1
  <2>9. Rooted'
    BY <2>7 DEF Rooted
  <2> QED BY <2>1, <2>6, <2>8, <2>9 DEF Schema
<1>4. CASE CompareChecksum
  <2>1. /\ UNCHANGED <<ops, log, release>> /\ version \in 1 .. Len(release) /\ thread = "opening"
        /\ \/ Recorded(version) = {release[version]} /\ version' = version + 1
              /\ thread' = "opening"
           \/ thread' = "closed"
    BY <1>0, <1>4 DEF CompareChecksum
  <2>2. Rooted' /\ \A v \in Nat \ {0} : Recorded(v)' = Recorded(v)
    BY <1>0, <1>1, <2>1, RootedStays, RecordStays DEF Tickets
  <2>3. CASE thread' = "closed"
    BY <2>2, <2>3 DEF Schema
  <2>4. CASE Recorded(version) = {release[version]} /\ version' = version + 1 /\ thread' = "opening"
    <3>1. version' \in 1 .. Len(release') + 1
      BY <1>0, <2>1, <2>4
    <3>2. \A v \in 1 .. version' - 1 : v \in Nat \ {0} /\ (v \in 1 .. version - 1 \/ v = version)
      BY <1>0, <2>4
    <3>3. \A v \in 1 .. version - 1 : Recorded(v) = {release[v]}
      BY <2>1 DEF Inv, Schema
    <3>4. \A v \in 1 .. version' - 1 : Recorded(v)' = {release'[v]}
      BY <2>1, <2>2, <2>4, <3>2, <3>3
    <3> QED BY <2>2, <2>4, <3>1, <3>4 DEF Schema
  <2> QED BY <2>1, <2>3, <2>4
<1>5. CASE Start
  <2>1. /\ UNCHANGED <<ops, log, release>> /\ thread = "opening" /\ thread' = "live"
        /\ version \notin 1 .. Len(release)
    BY <1>0, <1>5 DEF Start
  <2>2. 1 .. version - 1 = 1 .. Len(release)
    <3>1. version \in 1 .. Len(release) + 1
      BY <2>1 DEF Inv, Schema
    <3> QED BY <1>0, <2>1, <3>1
  <2>3. Rooted' /\ \A v \in Nat \ {0} : Recorded(v)' = Recorded(v)
    BY <1>0, <1>1, <2>1, RootedStays, RecordStays DEF Tickets
  <2>4. \A v \in DOMAIN release : v \in Nat \ {0} /\ Recorded(v) = {release[v]}
    BY <1>0, <2>1, <2>2 DEF Inv, Schema
  <2> QED BY <2>1, <2>3, <2>4 DEF Schema
<1>6. CASE Submit
  <2>1. /\ Tickets \subseteq Tickets' /\ \A t \in Tickets : ops'[t] = ops[t]
        /\ log' = log /\ UNCHANGED <<thread, release, version>>
        /\ \A i \in 1 .. Len(log) : ops'[log'[i]] = ops[log[i]]
    BY <1>0, <1>6, SubmitAdds
  <2>2. Rooted' /\ \A v \in Nat \ {0} : Recorded(v)' = Recorded(v)
    BY <1>0, <1>1, <2>1, RootedStays, RecordStays
  <2> QED BY <2>1, <2>2, SchemaStays
<1>7. CASE Release
  <2>1. /\ current \in Tickets /\ Tickets' = Tickets /\ ops' = ops
        /\ ops[current].version = 0 /\ UNCHANGED <<thread, release, version>>
    BY <1>0, <1>7 DEF Release, TypeOK, Tickets, Inv, Pristine, InHand
  <2>2. \A v \in Nat \ {0} : Recorded(v)' = Recorded(v)
    BY <1>0, <1>7, RecordStays
  <2>3. CASE log' = log
    BY <1>0, <1>1, <2>1, <2>2, <2>3, RootedStays, SchemaStays
  <2>4. CASE log' = Append(log, current)
    <3>1. /\ Len(log') = Len(log) + 1 /\ log'[Len(log) + 1] = current
          /\ \A i \in 1 .. Len(log) : log'[i] = log[i]
      BY <1>0, <2>1, <2>4, LogGrows
    <3>2. Rooted'
      BY <1>0, <1>1, <2>1, <3>1, RootedStays
    <3> QED BY <2>1, <2>2, <3>2, SchemaStays
  <2> QED BY <1>7, <2>3, <2>4 DEF Release
<1>8. CASE Crash
  <2>1. PICK keep \in synced .. Len(log) : log' = SubSeq(log, 1, keep)
    BY <1>8 DEF Crash
  <2>2. keep \in 0 .. Len(log) /\ keep \in Nat
    BY <1>0, <2>1 DEF TypeOK
  <2>3. Len(log') = keep /\ \A i \in 1 .. keep : log'[i] = log[i] /\ i \in 1 .. Len(log)
    BY <1>0, <2>1, <2>2, LogShrinks
  <2>4. ops' = ops /\ thread' = "closed"
    BY <1>8 DEF Crash
  <2>5. Rooted'
    BY <1>0, <1>1, <2>2, <2>3, <2>4, RootedStays
  <2> QED BY <2>4, <2>5 DEF Schema
<1>9. CASE \/ Drop \/ TakeBatch \/ Acknowledge \/ Fail \/ Panic \/ Exit
           \/ (\E t \in Tickets : Begin(t)) \/ UNCHANGED vars
  <2>1. /\ UNCHANGED <<ops, log, release, version>>
        /\ \/ thread' \in {thread, "closed", "dead"}
           \/ thread = "live" /\ thread' = "stopping"
    BY <1>9 DEF Drop, TakeBatch, Acknowledge, Fail, Panic, Exit, Begin, vars
  <2>2. Rooted' /\ \A v \in Nat \ {0} : Recorded(v)' = Recorded(v)
    BY <1>0, <1>1, <2>1, RootedStays, RecordStays DEF Tickets
  <2> QED BY <2>1, <2>2, SchemaStays
<1> QED BY <1>2, <1>3, <1>4, <1>5, <1>6, <1>7, <1>8, <1>9 DEF Next

LEMMA InvStep == Inv /\ [Next]_vars => Inv'
  BY TypeStep, QuietStep, PristineStep, DurableStep, OrderedStep, InOrderStep, SchemaStep
  DEF Inv

LEMMA Invariance == Spec => []Inv
  BY InvInit, InvStep, PTL DEF Spec

-----------------------------------------------------------------------------
(* What the invariant gives.                                                *)

(* Causally related writes take effect in the order of their submission,    *)
(* across batches, failures and restarts (writer.rs:300-330).               *)
THEOREM InOrderHolds == Spec => []InOrder
  BY Invariance, PTL DEF Inv

(* A store that serves has exactly the schema its build was written for     *)
(* (db.rs, Db::migrate), whatever builds opened it before.                  *)
THEOREM SchemaAgreesHolds == Spec => []SchemaAgrees
<1>1. Inv => SchemaAgrees
  <2> SUFFICES ASSUME Inv PROVE SchemaAgrees
    OBVIOUS
  <2>1. ASSUME NEW t \in Held(log), NEW v \in 1 .. ops[t].version PROVE Recorded(v) # {}
    <3>1. PICK i \in 1 .. Len(log) : log[i] = t
      BY DEF Held
    <3>2. PICK j \in 1 .. i : ops[log[j]].version = v
      BY <2>1, <3>1 DEF Inv, Schema, Rooted
    <3>3. j \in 1 .. Len(log)
      BY LogTypes DEF Inv
    <3> QED BY <3>2, <3>3 DEF Recorded, Held
  <2> QED BY <2>1 DEF SchemaAgrees, Inv, Schema
<1> QED BY <1>1, Invariance, PTL

LEMMA CommitStep == Inv /\ CommitIsDurable /\ [Next]_vars => CommitIsDurable'
<1> SUFFICES ASSUME Inv, CommitIsDurable, [Next]_vars PROVE CommitIsDurable'
  OBVIOUS
<1> USE DEF store, lane_, boot, counts, Lane
<1>0. /\ TypeOK /\ Len(log) \in Nat /\ synced \in 0 .. Len(log) /\ synced \in Nat
      /\ \A i \in 1 .. synced : i \in 1 .. Len(log)
  BY LogTypes DEF Inv, TypeOK
<1>1. ASSUME UNCHANGED ops, lost \subseteq lost',
             \A t \in Tickets : reply'[t] = "ok" => reply[t] = "ok",
             \A i \in 1 .. synced : i \in 1 .. synced' /\ log'[i] = log[i]
      PROVE  CommitIsDurable'
  BY <1>1 DEF CommitIsDurable, Tickets
<1>2. CASE Open \/ CompareChecksum \/ Start \/ Drop \/ TakeBatch \/ Exit \/ UNCHANGED vars
  <2>1. UNCHANGED <<ops, reply, log, lost, synced>>
    BY <1>2 DEF Open, CompareChecksum, Start, Drop, TakeBatch, Exit, vars
  <2> QED BY <1>1, <2>1
<1>3. CASE Fail \/ Panic \/ \E t \in Tickets : Begin(t)
  <2>1. UNCHANGED <<ops, log, lost, synced>>
    BY <1>3 DEF Fail, Panic, Begin
  <2>2. \A t \in Tickets : reply'[t] = "ok" => reply[t] = "ok"
    BY <1>3 DEF Fail, Panic, Begin, Answered
  <2> QED BY <1>1, <2>1, <2>2
<1>4. CASE Migrate
  <2>1. \A i \in 1 .. synced : log'[i] = log[i]
    BY <1>0, <1>4, MigrateAdds
  <2> QED BY <1>0, <1>4, <2>1, MigrateAdds DEF CommitIsDurable
<1>5. CASE Submit
  BY <1>0, <1>5, SubmitAdds DEF CommitIsDurable
<1>6. CASE Release
  <2>1. current \in Tickets /\ Tickets' = Tickets
    BY <1>6 DEF Release, TypeOK, Tickets, Inv
  <2>2. CASE log' = Append(log, current)
    <3>1. \A i \in 1 .. Len(log) : log'[i] = log[i]
      BY <1>0, <2>1, <2>2, LogGrows
    <3>2. synced' \in {synced, Len(log) + 1} /\ UNCHANGED <<ops, reply>> /\ lost \subseteq lost'
      BY <1>6 DEF Release
    <3>3. \A i \in 1 .. synced : i \in 1 .. synced' /\ log'[i] = log[i]
      BY <1>0, <3>1, <3>2
    <3> QED BY <1>1, <3>2, <3>3
  <2>3. CASE UNCHANGED <<log, synced>>
    <3>1. UNCHANGED <<ops, reply>> /\ lost \subseteq lost'
      BY <1>6 DEF Release
    <3> QED BY <1>1, <2>3, <3>1
  <2> QED BY <1>6, <2>2, <2>3 DEF Release
<1>7. CASE Acknowledge
  <2>1. /\ current \in Held(log) \cup lost /\ step = "released" /\ Tickets' = Tickets
        /\ UNCHANGED <<ops, log, lost, synced>>
    BY <1>7 DEF Acknowledge, Inv, Pristine, Tickets
  <2>2. ASSUME current \notin lost, ops[current].lane = "Commit"
        PROVE  \E i \in 1 .. synced : log[i] = current
    <3>1. PICK i \in 1 .. Len(log) : log[i] = current
      BY <2>1, <2>2 DEF Held
    <3>2. i \notin synced + 1 .. Len(log)
      BY <2>1, <2>2, <3>1 DEF Inv, Durable
    <3>3. i \in 1 .. synced
      BY <1>0, <3>2
    <3> QED BY <3>1, <3>3
  <2>3. \A t \in Tickets : t = current \/ reply'[t] = reply[t]
    BY <1>7 DEF Acknowledge, Answered
  <2> QED BY <2>1, <2>2, <2>3 DEF CommitIsDurable
<1>8. CASE Crash
  <2>1. PICK keep \in synced .. Len(log) : log' = SubSeq(log, 1, keep)
    BY <1>8 DEF Crash
  <2>2. keep \in 0 .. Len(log) /\ \A i \in 1 .. synced : i \in 1 .. keep
    BY <1>0, <2>1
  <2>3. \A i \in 1 .. synced : log'[i] = log[i]
    BY <1>0, <2>1, <2>2, LogShrinks
  <2>4. UNCHANGED <<ops, lost, synced>>
    BY <1>8 DEF Crash
  <2>5. \A t \in Tickets : reply'[t] = "ok" => reply[t] = "ok"
    BY <1>8 DEF Crash, Answered
  <2> QED BY <1>1, <2>3, <2>4, <2>5
<1> QED BY <1>2, <1>3, <1>4, <1>5, <1>6, <1>7, <1>8 DEF Next

(* An acknowledged commit-lane operation, and all that was applied before   *)
(* it, is on the disk (apply_batch raises synchronous to FULL for it).      *)
THEOREM CommitIsDurableHolds == Spec => []CommitIsDurable
<1>1. Init => CommitIsDurable
  BY EmptySeq DEF Init, CommitIsDurable, Tickets
<1> QED BY <1>1, Invariance, CommitStep, PTL DEF Spec

-----------------------------------------------------------------------------
(* The refinement.                                                          *)

LEMMA PromiseInit == Init => Promise!Init
  BY DEF Init, Promise!Init

LEMMA PromiseStep == Inv /\ [Next]_vars => [Promise!Next]_(Promise!vars)
<1> SUFFICES ASSUME Inv, [Next]_vars PROVE [Promise!Next]_(Promise!vars)
  OBVIOUS
<1> USE DEF store, lane_, boot, counts
<1>0. /\ TypeOK /\ Promise!Tickets = Tickets /\ Len(ops) \in Nat /\ Len(log) \in Nat
      /\ \A s : Promise!Held(s) = Held(s)
      /\ \A i \in 1 .. Len(log) : log[i] \in Tickets
  BY LogTypes DEF Inv, Promise!Tickets, Tickets, Promise!Held, Held
<1>1. ASSUME UNCHANGED <<ops, reply, log, lost>> PROVE UNCHANGED Promise!vars
  BY <1>1 DEF Promise!vars
<1>2. CASE Open \/ CompareChecksum \/ Start \/ Drop \/ TakeBatch \/ Exit \/ UNCHANGED vars
  BY <1>1, <1>2 DEF Open, CompareChecksum, Start, Drop, TakeBatch, Exit, vars
<1>3. ASSUME NEW T \in SUBSET Tickets, NEW r \in {"err", "refused", "stopped"},
             \A t \in T : t \in InHand /\ t \notin Held(log) /\ t \notin lost,
             Answered(T, r), UNCHANGED <<ops, log, lost>>
      PROVE  Promise!Next
  <2> DEFINE answer == [t \in T |-> r]
  <2>1. answer \in [T -> {"err", "refused", "stopped"}]
    OBVIOUS
  <2>2. reply' = [t \in Tickets |-> IF t \in T THEN answer[t] ELSE reply[t]]
    BY <1>3 DEF Answered
  <2>3. \A t \in T : Promise!Waiting(t) /\ t \notin Held(log) /\ t \notin lost
    BY <1>0, <1>3 DEF Promise!Waiting, TypeOK
  <2>4. Promise!Deny(T)
    BY <1>0, <1>3, <2>1, <2>2, <2>3 DEF Promise!Deny
  <2> QED BY <1>0, <2>4 DEF Promise!Next
<1>4. CASE Migrate
  <2> DEFINE op == [lane |-> "Normal", name |-> release[version], by |-> "migrate",
                    version |-> version]
  <2>1. op \in Operations /\ op.lane # "Commit"
    BY <1>0, <1>4, MigrateAdds
  <2>2. /\ ops' = Append(ops, op) /\ reply' = Append(reply, "ok")
        /\ log' = Append(log, Len(ops) + 1) /\ UNCHANGED lost
    BY <1>4 DEF Migrate
  <2>3. Promise!Migrate
    BY <2>1, <2>2 DEF Promise!Migrate
  <2> QED BY <2>3 DEF Promise!Next
<1>5. CASE Submit
  <2>1. PICK op \in [lane : Lanes, name : Names, by : Callers \cup Streams, version : {0}],
             r \in {"none", "stopped"} :
          ops' = Append(ops, op) /\ reply' = Append(reply, r) /\ UNCHANGED <<log, lost>>
    BY <1>5 DEF Submit
  <2>2. op \in Operations
    BY DEF Operations
  <2>3. Promise!Submit
    BY <2>1, <2>2 DEF Promise!Submit
  <2> QED BY <2>3 DEF Promise!Next
<1>6. ASSUME NEW t \in Tickets, Begin(t) PROVE [Promise!Next]_(Promise!vars)
  <2>1. CASE UNCHANGED reply
    BY <1>1, <1>6, <2>1 DEF Begin
  <2>2. CASE Answered({t}, "refused")
    <3>1. t \in InHand /\ t \notin Held(log) /\ t \notin lost /\ UNCHANGED <<ops, log, lost>>
      BY <1>6 DEF Begin, InHand, Inv, Pristine
    <3> QED BY <1>3, <2>2, <3>1
  <2> QED BY <1>6, <2>1, <2>2 DEF Begin
<1>7. CASE Release
  <2>1. /\ current \in Tickets /\ reply[current] = "none"
        /\ current \notin Held(log) /\ current \notin lost
    BY <1>0, <1>7 DEF Release, TypeOK, InHand, Tickets, Inv, Pristine
  <2>2. Promise!Apply(current)
    BY <1>0, <1>7, <2>1 DEF Release, Promise!Apply, Promise!Waiting
  <2> QED BY <1>0, <2>1, <2>2 DEF Promise!Next
<1>8. CASE Acknowledge
  <2>1. /\ current \in Tickets /\ reply[current] = "none" /\ current \in Held(log) \cup lost
    BY <1>0, <1>8 DEF Acknowledge, TypeOK, InHand, Tickets, Inv, Pristine
  <2>2. reply' = [reply EXCEPT ![current] = "ok"]
    <3>1. reply = [t \in Tickets |-> reply[t]]
      BY <1>0 DEF TypeOK, Tickets
    <3>2. reply' = [t \in Tickets |-> IF t = current THEN "ok" ELSE reply[t]]
      BY <1>8 DEF Acknowledge, Answered
    <3> QED BY <2>1, <3>1, <3>2
  <2>3. Promise!Acknowledge(current)
    BY <1>0, <1>8, <2>1, <2>2 DEF Acknowledge, Promise!Acknowledge, Promise!Waiting
  <2> QED BY <1>0, <2>1, <2>3 DEF Promise!Next
<1>9. CASE Fail \/ Panic
  <2>1. /\ current \in Tickets /\ current \notin Held(log) /\ current \notin lost
        /\ InHand \subseteq Tickets /\ UNCHANGED <<ops, log, lost>> /\ current \in InHand
        /\ \A t \in InHand : t \notin Held(log) /\ t \notin lost
    BY <1>0, <1>9 DEF Fail, Panic, TypeOK, InHand, Tickets, Inv, Pristine
  <2>2. Answered({current}, "err") \/ Answered(InHand, "stopped")
    BY <1>9 DEF Fail, Panic
  <2> QED BY <1>3, <2>1, <2>2
<1>10. CASE Crash
  <2>1. PICK keep \in synced .. Len(log) : log' = SubSeq(log, 1, keep)
    BY <1>10 DEF Crash
  <2>2. keep \in 0 .. Len(log) /\ keep + 1 .. Len(log) \subseteq synced + 1 .. Len(log)
    BY <1>0, <2>1 DEF TypeOK
  <2>3. \A i \in keep + 1 .. Len(log) : ~(reply[log[i]] = "ok" /\ ops[log[i]].lane = "Commit")
    BY <2>2 DEF Inv, Durable, Lane
  <2>4. reply' = [t \in Tickets |-> IF reply[t] = "none" THEN "crashed" ELSE reply[t]]
    BY <1>10 DEF Crash, Answered
  <2>5. Promise!Crash
    BY <1>0, <1>10, <2>1, <2>2, <2>3, <2>4 DEF Crash, Promise!Crash
  <2> QED BY <2>5 DEF Promise!Next
<1> QED BY <1>2, <1>4, <1>5, <1>6, <1>7, <1>8, <1>9, <1>10 DEF Next

(* The thread, its batches and savepoints and SQLite's log together keep    *)
(* the promise of SerialStore, for any callers, builds and bounds.          *)
THEOREM KeepsPromiseHolds == Spec => KeepsPromise
  BY PromiseInit, PromiseStep, Invariance, PTL DEF Spec, KeepsPromise, Promise!Spec
=============================================================================
