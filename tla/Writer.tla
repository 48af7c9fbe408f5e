------------------------------- MODULE Writer -------------------------------
(***************************************************************************)
(* The store's single writer (writer.rs) over the database it opens        *)
(* (db.rs): callers submit operations on three lanes over a channel; one    *)
(* thread drains the channel into a batch, takes the batch highest lane     *)
(* first and applies each operation in a savepoint of its own, answering    *)
(* its caller; the commit lane raises PRAGMA synchronous for the batch.     *)
(* SQLite, below it, keeps a write-ahead log of which only a prefix has     *)
(* reached the disk.  Power may fail, the process may be killed, an         *)
(* operation may fail or panic, and opening may find another schema.        *)
(*                                                                          *)
(* An operation is named by its ticket, its place in the order of           *)
(* submission: the channel is first in first out and the sort is stable,    *)
(* so a set of tickets is a queue.                                          *)
(***************************************************************************)
EXTENDS Naturals, Sequences, FiniteSets

CONSTANTS
    Callers,        \* threads that submit and wait (submit_blocking)
    Streams,        \* threads that submit without waiting (the scanner)
    Names,          \* operation names
    Releases,       \* MIGRATIONS of each build: the text of each version
    Texts,          \* every text a migration may have
    POISON_AFTER_FAILURES,
    MaxOps,         \* bound: operations submitted, migrations included
    MaxTrouble      \* bound: failing operations, failing commits, panics,
                    \*   crashes and shutdowns, together

Lanes == {"Bulk", "Normal", "Commit"}
Level(lane) == CASE lane = "Bulk" -> 0 [] lane = "Normal" -> 1 [] OTHER -> 2

Operations ==
    [lane : Lanes, name : Names, by : Callers \cup Streams, version : {0}]
    \cup [lane : {"Normal"}, name : Texts, by : {"migrate"},
          version : UNION {DOMAIN r : r \in Releases}]

ASSUME WriterAssumption ==
    /\ POISON_AFTER_FAILURES \in Nat \ {0}
    /\ Releases \subseteq Seq(Texts)
    /\ "migrate" \notin Callers \cup Streams

VARIABLES
    ops, reply, log, lost,      \* as in SerialStore
    synced,     \* how much of the log has been forced to the disk
    inbox,      \* tickets in the channel
    batch,      \* tickets the thread took and has not begun
    current,    \* the ticket in a savepoint, 0 when there is none
    step,       \* where apply_batch stands: "idle", "savepoint", "released"
    level,      \* PRAGMA synchronous of the connection
    thread,     \* "closed", "opening", "live", "stopping" or "dead"
    release,    \* the migrations of the build that opened the store
    version,    \* the migration the opening looks at next
    since,      \* the operations submitted before the store was opened
    failures,   \* apply_batch's count of failures by name
    poison,     \* what poisoned() reports: failures by name, 0 if absent
    trouble     \* how much of MaxTrouble was used

store == <<ops, reply, log, lost>>
lane_ == <<inbox, batch, current, step, level>>
boot == <<thread, release, version, since>>
counts == <<failures, poison>>
vars == <<store, synced, lane_, boot, counts, trouble>>

Tickets == 1 .. Len(ops)
Held(l) == {l[i] : i \in 1 .. Len(l)}
InHand == inbox \cup batch \cup ({current} \ {0})
Lane(t) == ops[t].lane

None == [n \in Names |-> 0]

Init ==
    /\ ops = << >> /\ reply = << >> /\ log = << >> /\ lost = {}
    /\ synced = 0
    /\ inbox = {} /\ batch = {} /\ current = 0 /\ step = "idle"
    /\ level = "NORMAL"
    /\ thread = "closed" /\ release = << >> /\ version = 0 /\ since = 0
    /\ failures = None /\ poison = None
    /\ trouble = 0

Answered(T, r) ==
    reply' = [t \in Tickets |-> IF t \in T THEN r ELSE reply[t]]

Troubled == trouble < MaxTrouble /\ trouble' = trouble + 1

-----------------------------------------------------------------------------
(* Opening the store: Db::open_inner and Db::migrate.  A directory that     *)
(* syncs too slowly, or a pragma that did not take, ends it before anything *)
(* is read; that leaves the store as it was, and is no step here.           *)

Open ==
    /\ thread = "closed"
    /\ \E r \in Releases : release' = r
    /\ thread' = "opening" /\ version' = 1 /\ since' = since
    /\ level' = "NORMAL"
    /\ UNCHANGED <<store, synced, inbox, batch, current, step, counts, trouble>>

Recorded(v) == {ops[t].name : t \in {u \in Held(log) : ops[u].version = v}}

\* A version never recorded is applied in a transaction with its own record.
Migrate ==
    /\ thread = "opening" /\ version \in DOMAIN release
    /\ Recorded(version) = {} /\ Len(ops) < MaxOps
    /\ ops' = Append(ops, [lane |-> "Normal", name |-> release[version],
                           by |-> "migrate", version |-> version])
    /\ reply' = Append(reply, "ok")
    /\ log' = Append(log, Len(ops) + 1)
    /\ version' = version + 1
    /\ UNCHANGED <<lost, synced, lane_, thread, release, since, counts, trouble>>

\* An applied migration is taken as it is, whatever its text was.
MutCompareChecksum ==
    /\ thread = "opening" /\ version \in DOMAIN release
    /\ Recorded(version) # {}
    /\ version' = version + 1
    /\ UNCHANGED <<store, synced, lane_, thread, release, since, counts, trouble>>

\* One recorded with the text this build has is passed over; with another
\* text, the build and the database disagree and the store is not opened.
CompareChecksum ==
    /\ thread = "opening" /\ version \in DOMAIN release
    /\ Recorded(version) # {}
    /\ \/ Recorded(version) = {release[version]}
          /\ version' = version + 1 /\ UNCHANGED thread
       \/ Recorded(version) # {release[version]}
          /\ thread' = "closed" /\ UNCHANGED version
    /\ UNCHANGED <<store, synced, lane_, release, since, counts, trouble>>

Start ==
    /\ thread = "opening" /\ version \notin DOMAIN release
    /\ thread' = "live"
    /\ failures' = None /\ poison' = None /\ since' = Len(ops)
    /\ UNCHANGED <<store, synced, lane_, release, version, trouble>>

-----------------------------------------------------------------------------
(* Callers.                                                                 *)

\* Writer::submit: a channel nobody reads answers for the writer.
Submit ==
    \E op \in [lane : Lanes, name : Names, by : Callers \cup Streams, version : {0}] :
        /\ thread \in {"live", "dead"}
        /\ Len(ops) < MaxOps
        /\ op.by \in Callers =>
               ~\E t \in Tickets : ops[t].by = op.by /\ reply[t] = "none"
        /\ ops' = Append(ops, op)
        /\ \/ /\ thread = "live"
              /\ reply' = Append(reply, "none")
              /\ inbox' = inbox \cup {Len(ops) + 1}
           \/ /\ thread = "dead"
              /\ reply' = Append(reply, "stopped")
              /\ UNCHANGED inbox
        /\ UNCHANGED <<log, lost, synced, batch, current, step, level, boot,
                       counts, trouble>>

\* Dropping the handle closes the channel; its owner waits for the thread.
Drop ==
    /\ thread \in {"live", "dead"} /\ Troubled
    /\ thread' = IF thread = "live" THEN "stopping" ELSE "closed"
    /\ UNCHANGED <<store, synced, lane_, release, version, since, counts>>

-----------------------------------------------------------------------------
(* The thread.                                                              *)

Running == thread \in {"live", "stopping"}

\* The batch is sorted by lane alone, by a sort that is not stable.
MutPrecedes(t, u) ==
    \/ Level(Lane(t)) > Level(Lane(u))
    \/ Level(Lane(t)) = Level(Lane(u)) /\ t > u

\* The sort key, over tickets: the highest lane first, then who came first.
Precedes(t, u) ==
    \/ Level(Lane(t)) > Level(Lane(u))
    \/ Level(Lane(t)) = Level(Lane(u)) /\ t < u

\* The durability of a batch is decided by the operation that came first.
MutTakeBatch ==
    /\ Running /\ step = "idle" /\ batch = {} /\ inbox # {}
    /\ batch' = inbox /\ inbox' = {}
    /\ level' = IF \E t \in inbox : Lane(t) = "Commit" /\ \A u \in inbox : t <= u
                THEN "FULL" ELSE "NORMAL"
    /\ UNCHANGED <<store, synced, current, step, boot, counts, trouble>>

\* One batch is everything queued by the time the drain finds nothing more.
TakeBatch ==
    /\ Running /\ step = "idle" /\ batch = {} /\ inbox # {}
    /\ batch' = inbox /\ inbox' = {}
    /\ level' = IF \E t \in inbox : Lane(t) = "Commit" THEN "FULL" ELSE "NORMAL"
    /\ UNCHANGED <<store, synced, current, step, boot, counts, trouble>>

\* SAVEPOINT: the operation is under way, or cannot even begin.
Begin(t) ==
    /\ Running /\ step = "idle" /\ t \in batch
    /\ \A u \in batch \ {t} : Precedes(t, u)
    /\ batch' = batch \ {t}
    /\ \/ /\ current' = t /\ step' = "savepoint"
          /\ UNCHANGED <<reply, trouble>>
       \/ /\ Troubled /\ Answered({t}, "refused")
          /\ UNCHANGED <<current, step>>
    /\ UNCHANGED <<ops, log, lost, synced, inbox, level, boot, counts>>

\* The closure succeeded.  RELEASE commits, and forces the log to the disk
\* at level FULL; when it fails SQLite takes the transaction back.
Release ==
    /\ step = "savepoint"
    /\ \/ /\ log' = Append(log, current)
          /\ synced' = IF level = "FULL" THEN Len(log) + 1 ELSE synced
          /\ UNCHANGED <<lost, trouble>>
       \/ /\ Troubled /\ lost' = lost \cup {current}
          /\ UNCHANGED <<log, synced>>
    /\ step' = "released"
    /\ UNCHANGED <<ops, reply, inbox, batch, current, level, boot, counts>>

\* The result of RELEASE is not looked at.
Acknowledge ==
    /\ step = "released"
    /\ Answered({current}, "ok")
    /\ current' = 0 /\ step' = "idle"
    /\ UNCHANGED <<ops, log, lost, synced, inbox, batch, level, boot, counts,
                   trouble>>

\* A failing operation puts the rest of its batch aside, envelopes and all, for
\* a retry that never comes.
MutFail ==
    /\ step = "savepoint" /\ Troubled
    /\ Answered({current}, "err")
    /\ batch' = {}
    /\ current' = 0 /\ step' = "idle"
    /\ UNCHANGED <<ops, log, lost, synced, inbox, level, boot, counts>>

\* The closure failed: it alone is rolled back, counted, and answered.
Fail ==
    /\ step = "savepoint" /\ Troubled
    /\ LET n == ops[current].name IN
           /\ failures' = [failures EXCEPT ![n] = @ + 1]
           /\ poison' = IF failures[n] + 1 >= POISON_AFTER_FAILURES
                        THEN [poison EXCEPT ![n] = failures[n] + 1] ELSE poison
    /\ Answered({current}, "err")
    /\ current' = 0 /\ step' = "idle"
    /\ UNCHANGED <<ops, log, lost, synced, inbox, batch, level, boot>>

\* The closure panicked: the thread unwinds, the connection rolls back, and
\* every envelope it held is dropped with its reply channel.
Panic ==
    /\ step = "savepoint" /\ Troubled
    /\ Answered(InHand, "stopped")
    /\ thread' = IF thread = "live" THEN "dead" ELSE "closed"
    /\ inbox' = {} /\ batch' = {} /\ current' = 0 /\ step' = "idle"
    /\ UNCHANGED <<ops, log, lost, synced, level, release, version, since, counts>>

\* The channel is closed and drained: the thread ends, the database closes.
Exit ==
    /\ thread = "stopping" /\ step = "idle" /\ inbox = {} /\ batch = {}
    /\ thread' = "closed"
    /\ UNCHANGED <<store, synced, lane_, release, version, since, counts, trouble>>

-----------------------------------------------------------------------------
(* The process ends where it stands; a power cut also takes what the log    *)
(* had not forced to the disk, from its end.                                *)

Crash ==
    /\ thread # "closed" /\ Troubled
    /\ \E keep \in synced .. Len(log) : log' = SubSeq(log, 1, keep)
    /\ Answered({t \in Tickets : reply[t] = "none"}, "crashed")
    /\ inbox' = {} /\ batch' = {} /\ current' = 0 /\ step' = "idle"
    /\ thread' = "closed"
    /\ UNCHANGED <<ops, lost, synced, level, release, version, since, counts>>

Next ==
    \/ Open \/ Migrate \/ CompareChecksum \/ Start
    \/ Submit \/ Drop
    \/ TakeBatch \/ (\E t \in Tickets : Begin(t)) \/ Release \/ Acknowledge
    \/ Fail \/ Panic \/ Exit
    \/ Crash

Spec == Init /\ [][Next]_vars

\* The thread runs while it has something to do.
Work ==
    \/ Migrate \/ CompareChecksum \/ Start
    \/ TakeBatch \/ (\E t \in Tickets : Begin(t)) \/ Release \/ Acknowledge \/ Exit

FairSpec == Spec /\ WF_vars(Work)

-----------------------------------------------------------------------------
(* Properties.                                                              *)

(* Every variable has its type; a ticket in hand is one nobody was told     *)
(* about, in one place at a time.                                           *)
TypeOK ==
    /\ ops \in Seq(Operations)
    /\ reply \in Seq({"none", "ok", "err", "refused", "stopped", "crashed"})
    /\ Len(reply) = Len(ops)
    /\ log \in Seq(Tickets) /\ lost \subseteq Tickets
    /\ synced \in 0 .. Len(log)
    /\ inbox \subseteq Tickets /\ batch \subseteq Tickets
    /\ inbox \cap batch = {} /\ current \notin inbox \cup batch
    /\ step \in {"idle", "savepoint", "released"}
    /\ current \in IF step = "idle" THEN {0} ELSE Tickets
    /\ level \in {"NORMAL", "FULL"}
    /\ thread \in {"closed", "opening", "live", "stopping", "dead"}
    /\ since \in 0 .. Len(ops)
    /\ release \in Releases \cup {<< >>} /\ version \in Nat
    /\ failures \in [Names -> Nat] /\ poison \in [Names -> Nat]
    /\ trouble \in Nat
    /\ \A t \in InHand : reply[t] = "none"

(* The replace window relies on it (writer.rs:45-49): once a commit-lane    *)
(* operation is acknowledged, no power cut takes it back, and with it       *)
(* everything that was applied before it.                                   *)
CommitIsDurable ==
    \A t \in Tickets :
        reply[t] = "ok" /\ Lane(t) = "Commit" /\ t \notin lost
            => \E i \in 1 .. synced : log[i] = t

(* Causally related writes stay in order: two operations of one lane, or of *)
(* one caller that waits for its answers, take effect in the order they     *)
(* were submitted, across batches, failures and restarts.                   *)
InOrder ==
    \A i, j \in 1 .. Len(log) :
        LET t == ops[log[i]]  u == ops[log[j]] IN
        i < j /\ (t.lane = u.lane \/ (t.by = u.by /\ t.by \in Callers))
            => log[i] < log[j]

(* While the store serves, its schema is the one the build was written for: *)
(* every migration it carries is recorded with the very text it carries,    *)
(* and no version was skipped on the way, whatever builds opened the        *)
(* database before and wherever they were cut off.                          *)
SchemaAgrees ==
    thread \in {"live", "stopping"} =>
        /\ \A v \in DOMAIN release : Recorded(v) = {release[v]}
        /\ \A t \in Held(log) : \A v \in 1 .. ops[t].version : Recorded(v) # {}

(* poisoned() names exactly the operations whose name failed often enough   *)
(* since the store was opened, with the number of answers that said so.     *)
PoisonTells ==
    thread \in {"live", "stopping", "dead"} =>
        \A n \in Names :
            LET said == Cardinality({t \in since + 1 .. Len(ops) :
                                        ops[t].name = n /\ reply[t] = "err"})
            IN poison[n] = IF said >= POISON_AFTER_FAILURES THEN said ELSE 0

(* The thread, its batches and savepoints, SQLite and its log together keep *)
(* the promise of SerialStore.                                              *)
Promise == INSTANCE SerialStore
KeepsPromise == Promise!Spec

(* Every caller is answered, whatever fails and however the store ends: no  *)
(* caller waits for ever (the number of operations is bounded).             *)
Answers == <>[](\A t \in Tickets : reply[t] # "none")

=============================================================================
