-------------------------- MODULE Registry_proofs --------------------------
(***************************************************************************)
(* Proofs about Registry, for any number of processes of a name, whatever  *)
(* they say of themselves, and any number of troubles of every kind.       *)
(* Standing is what every step keeps: the types (Typed), who waits for     *)
(* which call (Waiters), and that a stream is in one place (Apart).        *)
(* Fenced adds what the row, the calls at work and the epochs given have   *)
(* to do with each other.                                                  *)
(***************************************************************************)
EXTENDS Registry, FiniteSetTheorems, TLAPS

Pcs == {"off", "dial", "registering", "recovering", "connecting", "serving", "backoff",
        "stopped", "dead"}
Steps == {"read", "hash", "row", "history", "lease", "insert", "online"}
Uids == {say[p].uid : say \in Identities, p \in Procs}
Hashes == {say[p].hash : say \in Identities, p \in Procs}

Clients ==
  [pc : Pcs, epoch : Nat, base : Initial .. Ceiling, lasted : BOOLEAN, stream : Nat,
   stop : {"no", "set", "told"}, ear : {"none", "armed", "parked", "woken"}]
Works ==
  [kind : {"register", "connect"}, proc : Procs, waited : BOOLEAN, pc : Steps, epoch : Nat,
   changed : BOOLEAN, stream : Nat]
Tasks ==
  [id : Nat \ {0}, proc : Procs, epoch : Nat, pc : {"open", "ended", "offline"}]
Entries == {NoEntry} \cup [stream : Nat \ {0}, epoch : Nat]
Rows ==
  [boot : Procs, uid : Uids, epoch : Nat \ {0}, hash : Hashes, status : {"Online", "Offline"}]

(* A client has a stream exactly while it serves, and an ear only while it *)
(* listens.  A registration that has read has an epoch to write; a call    *)
(* has a stream once that is in the table.                                 *)
ClientRight(x) ==
  /\ x \in Clients
  /\ x.ear # "none" => x.pc \in {"serving", "backoff"}
  /\ (x.stream # 0) <=> (x.pc = "serving")

CallRight(c) ==
  /\ c \in Works
  /\ c.pc \in {"hash", "row"} => c.epoch # 0
  /\ (c.stream # 0) <=> (c.pc = "online")
  /\ c.kind = "register" => c.pc \in {"read", "hash", "row", "history", "lease"}
  /\ c.kind = "connect" => c.pc \in {"read", "insert", "online"}

SaidTypes == said \in Identities
ProcTypes == proc \in [Procs -> Clients] /\ \A p \in Procs : ClientRight(proc[p])
CallTypes == IsFiniteSet(calls) /\ \A c \in calls : CallRight(c)
StreamTypes == IsFiniteSet(streams) /\ streams \in SUBSET Tasks
FleetTypes == fleet \in Entries
RowTypes == row \in {NoRow} \cup Rows
IssuedTypes == issued \in SUBSET [proc : Procs, epoch : Nat \ {0}]
CountTypes == table \in Nat /\ changes \in Nat /\ missed \in Nat
TroubleTypes == trouble \in 0 .. MaxTrouble

Typed == /\ SaidTypes /\ ProcTypes /\ CallTypes /\ StreamTypes /\ FleetTypes /\ RowTypes
         /\ IssuedTypes /\ CountTypes /\ TroubleTypes

(* Who waits for a call waits for that one call.                           *)
Waiters ==
  \A c \in calls : c.waited =>
    /\ proc[c.proc].pc = IF c.kind = "register" THEN "registering" ELSE "connecting"
    /\ \A d \in calls : d.waited /\ d.proc = c.proc => d = c

----------------------------------------------------------------------------
LEMMA RowKnown ==
  ASSUME RowTypes
  PROVE  row # NoRow <=> row \in Rows
  BY RegistryAssumption DEF RowTypes, Rows, NoRow

LEMMA ProcsNext ==
  ASSUME ProcTypes, NEW p \in Procs, NEW x, ClientRight(x), proc' = [proc EXCEPT ![p] = x]
  PROVE  ProcTypes'
  <1>1. proc' \in [Procs -> Clients]
    BY DEF ProcTypes, ClientRight
  <1>2. \A q \in Procs : ClientRight(proc'[q])
    BY DEF ProcTypes
  <1> QED
    BY <1>1, <1>2 DEF ProcTypes, ClientRight

LEMMA SameProcs ==
  ASSUME ProcTypes, proc' = proc
  PROVE  ProcTypes'
  BY DEF ProcTypes, ClientRight

LEMMA HappensTypes ==
  ASSUME TroubleTypes, NEW k, Happens(k)
  PROVE  TroubleTypes'
  BY RegistryAssumption DEF TroubleTypes, Happens

LEMMA BaseTypes ==
  ASSUME NEW b \in Initial .. Ceiling
  PROVE  Doubled(b) \in Initial .. Ceiling /\ Initial \in Initial .. Ceiling
  BY RegistryAssumption DEF Doubled, Least

(* However a session ends, its process is in no session.                   *)
LEMMA EndedRight ==
  ASSUME ProcTypes, NEW p \in Procs
  PROVE  /\ ClientRight(Ended(p)) /\ Ended(p).pc \in {"stopped", "backoff"}
         /\ Ended(p).stream = 0 /\ Ended(p).stop = proc[p].stop
         /\ Ended(p).base = IF proc[p].lasted THEN Initial ELSE Doubled(proc[p].base)
         /\ Ended(p).ear = "none" /\ Ended(p).epoch = proc[p].epoch
  <1>1. proc[p] \in Clients
    BY DEF ProcTypes
  <1>2. proc[p].base \in Initial .. Ceiling
    BY <1>1 DEF Clients
  <1> DEFINE b == IF proc[p].lasted THEN Initial ELSE Doubled(proc[p].base)
             w == IF Stopping(p) THEN "stopped" ELSE "backoff"
  <1>3. b \in Initial .. Ceiling
    BY <1>2, BaseTypes
  <1>4. w \in {"stopped", "backoff"}
    OBVIOUS
  <1>5. Ended(p) = [proc[p] EXCEPT !.pc = w, !.base = b, !.lasted = FALSE, !.stream = 0,
                                  !.ear = "none"]
    BY DEF Ended
  <1> DEFINE y == [proc[p] EXCEPT !.pc = w, !.base = b, !.lasted = FALSE, !.stream = 0,
                                  !.ear = "none"]
  <1>6. /\ y \in Clients /\ y.pc = w /\ y.base = b /\ y.stream = 0 /\ y.ear = "none"
        /\ y.stop = proc[p].stop /\ y.epoch = proc[p].epoch
    <2> HIDE DEF b, w
    <2> QED
      BY <1>1, <1>3, <1>4 DEF Clients, Pcs
  <1> HIDE DEF y, w
  <1> QED
    BY <1>4, <1>5, <1>6 DEF ClientRight, y

(* The same for a process that leaves or dies.                             *)
LEMMA GoneRight ==
  ASSUME ProcTypes, NEW p \in Procs, NEW w \in {"stopped", "dead"}
  PROVE  LET y == [Ended(p) EXCEPT !.pc = w] IN
         /\ ClientRight(y) /\ y.pc = w /\ y.stream = 0 /\ y.ear = "none"
  <1> DEFINE x == Ended(p)
             y == [x EXCEPT !.pc = w]
  <1>1. ClientRight(x) /\ x.stream = 0 /\ x.ear = "none"
    BY EndedRight
  <1> HIDE DEF x
  <1>2. y \in Clients /\ y.pc = w /\ y.stream = 0 /\ y.ear = "none"
    BY <1>1 DEF ClientRight, Clients, Pcs
  <1>3. ClientRight(y) /\ y.pc = w /\ y.stream = 0 /\ y.ear = "none"
    <2> HIDE DEF y
    <2> QED
      BY <1>2 DEF ClientRight
  <1> QED
    BY <1>3 DEF x

LEMMA EndSessionTypes ==
  ASSUME ProcTypes, NEW p \in Procs, EndSession(p)
  PROVE  ProcTypes'
  BY EndedRight, ProcsNext DEF EndSession

(* A client that moves on outside a session.                               *)
LEMMA PcTypes ==
  ASSUME ProcTypes, NEW p \in Procs, proc[p].pc \notin {"serving", "backoff"},
         NEW w \in {"dial", "registering", "recovering", "connecting"}
  PROVE  ClientRight([proc[p] EXCEPT !.pc = w])
  <1>1. ClientRight(proc[p])
    BY DEF ProcTypes
  <1> DEFINE y == [proc[p] EXCEPT !.pc = w]
  <1>2. y \in Clients /\ y.pc = w /\ y.ear = proc[p].ear /\ y.stream = proc[p].stream
    BY <1>1 DEF ClientRight, Clients, Pcs
  <1> HIDE DEF y
  <1>3. ClientRight(y)
    BY <1>1, <1>2 DEF ClientRight
  <1> QED
    BY <1>3 DEF y

LEMMA ClientTypes ==
  ASSUME ProcTypes, NEW p \in Procs
  PROVE  /\ Start(p) => ProcTypes'
         /\ Dial(p) => ProcTypes'
         /\ Recover(p) => ProcTypes'
         /\ CallFails(p) \/ StreamCloses(p) => ProcTypes'
         /\ Lasts(p) => ProcTypes'
         /\ Leave(p) \/ Cut(p) \/ Die(p) => ProcTypes'
  <1>1. ClientRight(proc[p]) /\ proc[p] \in Clients /\ proc \in [Procs -> Clients]
    BY DEF ProcTypes
  <1>2. ASSUME proc[p].pc \notin {"serving", "backoff"},
               NEW w \in {"dial", "registering", "recovering", "connecting"},
               proc' = [proc EXCEPT ![p].pc = w]
        PROVE  ProcTypes'
    <2>1. proc' = [proc EXCEPT ![p] = [proc[p] EXCEPT !.pc = w]]
      BY <1>1, <1>2
    <2> QED
      BY <1>2, <2>1, PcTypes, ProcsNext
  <1>3. Start(p) => ProcTypes'
    BY <1>2 DEF Start, At
  <1>4. Dial(p) => ProcTypes'
    BY <1>2, EndSessionTypes DEF Dial, At
  <1>5. Recover(p) => ProcTypes'
    BY <1>2 DEF Recover, At
  <1>6. CallFails(p) \/ StreamCloses(p) => ProcTypes'
    BY EndSessionTypes DEF CallFails, StreamCloses
  <1>7. ASSUME Lasts(p) PROVE ProcTypes'
    <2> DEFINE y == [proc[p] EXCEPT !.lasted = TRUE]
    <2>1. proc' = [proc EXCEPT ![p] = y]
      BY <1>1, <1>7 DEF Lasts
    <2>2. y \in Clients /\ y.pc = proc[p].pc /\ y.ear = proc[p].ear /\ y.stream = proc[p].stream
      BY <1>1 DEF Clients
    <2> HIDE DEF y
    <2> QED
      BY <1>1, <2>1, <2>2, ProcsNext DEF ClientRight
  <1>8. Leave(p) \/ Cut(p) \/ Die(p) => ProcTypes'
    BY GoneRight, ProcsNext, EndSessionTypes DEF Leave, Cut, Die
  <1> QED
    BY <1>3, <1>4, <1>5, <1>6, <1>7, <1>8

LEMMA EarTypes ==
  ASSUME ProcTypes, NEW p \in Procs
  PROVE  /\ Arm(p) \/ Look(p) \/ Message(p) => ProcTypes'
         /\ StopSet(p) \/ StopNotify(p) => ProcTypes'
         /\ Wake(p) => ProcTypes'
  <1>1. ClientRight(proc[p]) /\ proc[p] \in Clients /\ proc \in [Procs -> Clients]
    BY DEF ProcTypes
  <1>2. ASSUME NEW e \in {"none", "armed", "parked", "woken"}, Listening(p), Hears(p, e)
        PROVE  ProcTypes'
    <2> DEFINE y == [proc[p] EXCEPT !.ear = e]
    <2>1. proc' = [proc EXCEPT ![p] = y]
      BY <1>1, <1>2 DEF Hears
    <2>2. y \in Clients /\ y.pc = proc[p].pc /\ y.ear = e /\ y.stream = proc[p].stream
      BY <1>1 DEF Clients
    <2> HIDE DEF y
    <2> QED
      BY <1>1, <1>2, <2>1, <2>2, ProcsNext DEF ClientRight, Listening
  <1>3. Arm(p) \/ Look(p) \/ Message(p) => ProcTypes'
    BY <1>2 DEF Arm, Look, Message, Ear
  <1>4. ASSUME StopSet(p) PROVE ProcTypes'
    <2> DEFINE y == [proc[p] EXCEPT !.stop = "set"]
    <2>1. proc' = [proc EXCEPT ![p] = y]
      BY <1>1, <1>4 DEF StopSet
    <2>2. y \in Clients /\ y.pc = proc[p].pc /\ y.ear = proc[p].ear /\ y.stream = proc[p].stream
      BY <1>1 DEF Clients
    <2> HIDE DEF y
    <2> QED
      BY <1>1, <2>1, <2>2, ProcsNext DEF ClientRight
  <1>5. ASSUME StopNotify(p) PROVE ProcTypes'
    <2> DEFINE e == IF Registered(p) THEN "woken" ELSE proc[p].ear
               y == [proc[p] EXCEPT !.stop = "told", !.ear = e]
    <2>1. proc' = [proc EXCEPT ![p] = y]
      BY <1>1, <1>5 DEF StopNotify
    <2>2. /\ e \in {"none", "armed", "parked", "woken"}
          /\ e # "none" => proc[p].pc \in {"serving", "backoff"}
      BY <1>1 DEF ClientRight, Clients, Registered, Ear, Listening
    <2>3. y \in Clients /\ y.pc = proc[p].pc /\ y.ear = e /\ y.stream = proc[p].stream
      <3> HIDE DEF e
      <3> QED
        BY <1>1, <2>2 DEF Clients
    <2> HIDE DEF y, e
    <2> QED
      BY <1>1, <2>1, <2>2, <2>3, ProcsNext DEF ClientRight
  <1>6. ASSUME Wake(p) PROVE ProcTypes'
    <2> DEFINE w == IF Stopping(p) THEN "stopped" ELSE "dial"
               y == [proc[p] EXCEPT !.pc = w, !.ear = "none"]
    <2>1. proc' = [proc EXCEPT ![p] = y]
      BY <1>1, <1>6 DEF Wake
    <2>2. w \in {"stopped", "dial"}
      OBVIOUS
    <2>3. y \in Clients /\ y.pc = w /\ y.ear = "none" /\ y.stream = proc[p].stream
      <3> HIDE DEF w
      <3> QED
        BY <1>1, <2>2 DEF Clients, Pcs
    <2>4. proc[p].stream = 0
      BY <1>1, <1>6 DEF ClientRight, Wake, At
    <2> HIDE DEF y, w
    <2> QED
      BY <2>1, <2>2, <2>3, <2>4, ProcsNext DEF ClientRight
  <1> QED
    BY <1>3, <1>4, <1>5, <1>6

----------------------------------------------------------------------------
(* The handlers.                                                           *)
LEMMA BecomesTypes ==
  ASSUME CallTypes, NEW c \in calls, NEW d, CallRight(d), Becomes(c, d)
  PROVE  CallTypes'
  <1>1. IsFiniteSet(calls \ {c})
    BY FS_RemoveElement DEF CallTypes
  <1>2. IsFiniteSet((calls \ {c}) \cup {d})
    BY <1>1, FS_AddElement
  <1> QED
    BY <1>2 DEF CallTypes, Becomes, CallRight

LEMMA FewerCalls ==
  ASSUME CallTypes, calls' \subseteq calls
  PROVE  CallTypes'
  BY FS_Subset DEF CallTypes, CallRight

LEMMA EnterTypes ==
  ASSUME CallTypes, NEW c, CallRight(c), Enter(c)
  PROVE  CallTypes'
  BY FS_AddElement DEF CallTypes, Enter, CallRight

LEMMA CallTyped ==
  ASSUME ProcTypes, NEW p \in Procs, NEW k \in {"register", "connect"}
  PROVE  CallRight(Call(p, k)) /\ Call(p, k).proc = p /\ Call(p, k).pc = "read"
  <1>1. proc[p].epoch \in Nat
    BY DEF ProcTypes, Clients
  <1> QED
    BY <1>1 DEF CallRight, Call, Works, Steps

LEMMA DesertedTypes ==
  ASSUME CallTypes, NEW p, calls' = Deserted(p)
  PROVE  CallTypes'
  <1> DEFINE leave(c) == IF c.proc = p THEN [c EXCEPT !.waited = FALSE] ELSE c
  <1>1. IsFiniteSet(calls')
    <2>1. calls' = {leave(c) : c \in calls}
      BY DEF Deserted
    <2> DEFINE f == [c \in calls |-> leave(c)]
    <2>2. \A d \in calls' : \E c \in calls : f[c] = d
      BY <2>1
    <2>3. f \in Surjection(calls, calls')
      BY <2>1, <2>2 DEF Surjection
    <2> QED
      BY <2>3, FS_Surjection DEF CallTypes
  <1>2. ASSUME NEW c \in calls
        PROVE  CallRight(leave(c))
    <2>1. CallRight(c)
      BY DEF CallTypes
    <2> DEFINE y == [c EXCEPT !.waited = FALSE]
    <2>2. /\ y \in Works /\ y.pc = c.pc /\ y.epoch = c.epoch /\ y.stream = c.stream
          /\ y.kind = c.kind
      BY <2>1 DEF CallRight, Works
    <2> HIDE DEF y
    <2>3. CallRight(y)
      BY <2>1, <2>2, Zenon DEF CallRight
    <2> QED
      BY <2>1, <2>3 DEF y
  <1>3. \A d \in calls' : CallRight(d)
    BY <1>2 DEF Deserted
  <1> QED
    BY <1>1, <1>3 DEF CallTypes, CallRight

(* What each step of a handler makes of its call.                          *)
LEMMA ReadInstanceCall ==
  ASSUME Typed, NEW c \in calls, ReadInstance(c)
  PROVE  /\ c.pc = "read" /\ c.kind = "register"
         /\ \/ calls' = calls \ {c}
            \/ \E d : /\ CallRight(d) /\ Becomes(c, d)
                      /\ d.proc = c.proc /\ d.waited = c.waited /\ d.pc = "hash" /\ d.kind = c.kind
                      /\ d.epoch = NextEpoch(c.proc)
                      /\ d.changed = (row # NoRow) /\ d.stream = c.stream
  <1>1. CallRight(c) /\ c.pc = "read" /\ c.kind = "register" /\ c.stream = 0
    BY DEF Typed, CallTypes, ReadInstance, Handling, CallRight
  <1>2. CASE Fails(c)
    BY <1>1, <1>2 DEF Fails
  <1>3. CASE Becomes(c, [c EXCEPT !.pc = "hash", !.epoch = NextEpoch(c.proc),
                                  !.changed = row # NoRow])
    <2>1. NextEpoch(c.proc) \in Nat \ {0}
      BY RowKnown DEF NextEpoch, Typed, RowTypes, Rows
    <2>2. PICK n \in Nat \ {0} : n = NextEpoch(c.proc)
      BY <2>1
    <2>3. PICK b \in BOOLEAN : b = (row # NoRow)
      OBVIOUS
    <2> DEFINE d == [c EXCEPT !.pc = "hash", !.epoch = n, !.changed = b]
    <2>4. Becomes(c, d)
      BY <1>3, <2>2, <2>3
    <2>5. /\ d \in Works /\ d.proc = c.proc /\ d.waited = c.waited /\ d.pc = "hash"
          /\ d.kind = c.kind
          /\ d.epoch = n /\ d.changed = b /\ d.stream = c.stream
      BY <1>1 DEF CallRight, Works, Steps
    <2> HIDE DEF d
    <2>6. CallRight(d)
      BY <1>1, <2>5 DEF CallRight
    <2> QED
      BY <1>1, <2>2, <2>3, <2>4, <2>5, <2>6, Zenon
  <1> QED
    BY <1>1, <1>2, <1>3 DEF ReadInstance

LEMMA ReadHashCall ==
  ASSUME Typed, NEW c \in calls, ReadHash(c)
  PROVE  /\ c.pc = "hash" /\ c.kind = "register"
         /\ \E d : /\ CallRight(d) /\ Becomes(c, d)
                   /\ d.proc = c.proc /\ d.waited = c.waited /\ d.pc = "row" /\ d.kind = c.kind
                   /\ d.epoch = c.epoch
                   /\ d.changed = (c.changed /\ Differs(c)) /\ d.stream = c.stream
  <1>1. CallRight(c) /\ c.pc = "hash" /\ c.kind = "register" /\ c.stream = 0
    BY DEF Typed, CallTypes, ReadHash, Handling, CallRight
  <1>2. c.changed \in BOOLEAN
    BY <1>1 DEF CallRight, Works
  <1>3. PICK b \in BOOLEAN : b = (c.changed /\ Differs(c))
    OBVIOUS
  <1> DEFINE d == [c EXCEPT !.pc = "row", !.changed = b]
  <1>4. Becomes(c, d)
    <2>1. Becomes(c, [c EXCEPT !.pc = "row", !.changed = (c.changed /\ Differs(c))])
      BY <1>1 DEF ReadHash, CallRight, Works
    <2> QED
      BY <1>3, <2>1
  <1>5. /\ d \in Works /\ d.proc = c.proc /\ d.waited = c.waited /\ d.pc = "row" /\ d.kind = c.kind
        /\ d.epoch = c.epoch /\ d.changed = b /\ d.stream = c.stream
    BY <1>1 DEF CallRight, Works, Steps
  <1> HIDE DEF d
  <1>6. CallRight(d)
    BY <1>1, <1>5 DEF CallRight
  <1> QED
    BY <1>1, <1>3, <1>4, <1>5, <1>6, Zenon

LEMMA TurnCall ==
  ASSUME NEW c, CallRight(c), c.stream = 0, NEW w \in {"history", "lease", "insert"},
         w = "insert" <=> c.kind = "connect"
  PROVE  LET d == [c EXCEPT !.pc = w] IN
         /\ CallRight(d) /\ d.proc = c.proc /\ d.waited = c.waited /\ d.pc = w /\ d.kind = c.kind
         /\ d.epoch = c.epoch /\ d.stream = c.stream
  <1> DEFINE d == [c EXCEPT !.pc = w]
  <1>1. /\ d \in Works /\ d.proc = c.proc /\ d.waited = c.waited /\ d.pc = w /\ d.kind = c.kind
        /\ d.epoch = c.epoch /\ d.stream = c.stream
    BY DEF CallRight, Works, Steps
  <1> HIDE DEF d
  <1>2. CallRight(d) /\ d.proc = c.proc /\ d.waited = c.waited /\ d.pc = w /\ d.kind = c.kind
         /\ d.epoch = c.epoch /\ d.stream = c.stream
    BY <1>1 DEF CallRight, Works
  <1> QED
    BY <1>2 DEF d

(* A registration writes the row of its process and its epoch, or ends.    *)
LEMMA WriteRowCall ==
  ASSUME Typed, NEW c \in calls, WriteRow(c)
  PROVE  /\ c.pc = "row" /\ c.kind = "register" /\ CallRight(c)
         /\ \/ /\ \E d : /\ CallRight(d) /\ Becomes(c, d) /\ d.proc = c.proc /\ d.waited = c.waited
                         /\ d.kind = c.kind /\ d.stream = c.stream /\ d.epoch = c.epoch
                         /\ d.pc = IF c.changed THEN "history" ELSE "lease"
               /\ row' \in Rows /\ row'.boot = c.proc /\ row'.uid = said[c.proc].uid
               /\ row'.epoch = c.epoch /\ row'.hash = said[c.proc].hash
               /\ issued' = issued \cup {[proc |-> c.proc, epoch |-> c.epoch]}
               /\ c.epoch \in Nat \ {0}
               /\ changes' = changes + (IF Differs(c) THEN 1 ELSE 0) /\ missed' = missed
               /\ trouble' = trouble
            \/ /\ calls' = calls \ {c} /\ missed' = missed
               /\ row' = row /\ issued' = issued /\ changes' = changes /\ Happens("write")
  <1>1. CallRight(c) /\ c.pc = "row" /\ c.kind = "register" /\ c.stream = 0
    BY DEF Typed, CallTypes, WriteRow, Handling, CallRight
  <1>2. CASE /\ row' = [boot |-> c.proc, uid |-> said[c.proc].uid, epoch |-> c.epoch,
                        hash |-> said[c.proc].hash, status |-> "Online"]
             /\ issued' = issued \cup {[proc |-> c.proc, epoch |-> c.epoch]}
             /\ changes' = changes + (IF Differs(c) THEN 1 ELSE 0)
             /\ Becomes(c, [c EXCEPT !.pc = IF c.changed THEN "history" ELSE "lease"])
             /\ UNCHANGED <<said, missed, trouble>>
    <2>1. /\ c.proc \in Procs /\ c.epoch \in Nat \ {0}
          /\ said[c.proc].uid \in Uids /\ said[c.proc].hash \in Hashes
      BY <1>1 DEF CallRight, Works, Typed, SaidTypes, Uids, Hashes
    <2>2. /\ row' \in Rows /\ row'.boot = c.proc /\ row'.uid = said[c.proc].uid
          /\ row'.epoch = c.epoch /\ row'.hash = said[c.proc].hash
      BY <1>2, <2>1 DEF Rows
    <2>3. PICK w \in {"history", "lease"} : w = IF c.changed THEN "history" ELSE "lease"
      OBVIOUS
    <2>4. Becomes(c, [c EXCEPT !.pc = w])
      BY <1>2, <2>3
    <2> DEFINE d == [c EXCEPT !.pc = w]
    <2>5. /\ CallRight(d) /\ d.proc = c.proc /\ d.waited = c.waited /\ d.pc = w /\ d.kind = c.kind
          /\ d.epoch = c.epoch /\ d.stream = c.stream
      <3>1. w = "insert" <=> c.kind = "connect"
        BY <1>1
      <3>2. w \in {"history", "lease", "insert"}
        OBVIOUS
      <3>3. CallRight(c) /\ c.stream = 0
        BY <1>1
      <3> HIDE <2>3
      <3> QED
        BY <3>1, <3>2, <3>3, TurnCall
    <2> HIDE DEF d
    <2>6. \E e : /\ CallRight(e) /\ Becomes(c, e) /\ e.proc = c.proc /\ e.waited = c.waited
                /\ e.kind = c.kind /\ e.stream = c.stream /\ e.epoch = c.epoch
                /\ e.pc = IF c.changed THEN "history" ELSE "lease"
      BY <2>3, <2>4, <2>5 DEF d
    <2> QED
      BY <1>1, <1>2, <2>1, <2>2, <2>6
  <1>3. CASE Happens("write") /\ Fails(c) /\ UNCHANGED <<row, issued, changes>>
    <2>1. c.pc # "history"
      BY <1>1
    <2>2. missed' = missed + 0 /\ calls' = calls \ {c}
      BY <1>3, <2>1, Zenon DEF Fails
    <2>3. missed' = missed
      BY <2>2 DEF Typed, CountTypes
    <2> QED
      BY <1>1, <1>3, <2>2, <2>3
  <1> QED
    BY <1>2, <1>3 DEF WriteRow

(* A handler that ends leaves the other calls, and a count.                *)
LEMMA FailsTypes ==
  ASSUME CallTypes, CountTypes, NEW c \in calls, Fails(c)
  PROVE  CallTypes' /\ missed' \in Nat
  <1>1. calls' \subseteq calls
    BY DEF Fails
  <1>2. missed' = missed + (IF c.pc = "history" THEN 1 ELSE 0)
    BY DEF Fails
  <1> QED
    BY <1>1, <1>2, FewerCalls DEF CountTypes

LEMMA WriteHistoryCall ==
  ASSUME Typed, NEW c \in calls, WriteHistory(c)
  PROVE  /\ c.pc = "history" /\ c.kind = "register" /\ CallRight(c)
         /\ \/ /\ \E d : /\ CallRight(d) /\ Becomes(c, d) /\ d.proc = c.proc /\ d.waited = c.waited
                         /\ d.kind = c.kind /\ d.stream = c.stream /\ d.pc = "lease"
               /\ table' = table + 1 /\ missed' = missed /\ trouble' = trouble
            \/ Happens("write") /\ Fails(c) /\ table' = table
  <1>1. CallRight(c) /\ c.pc = "history" /\ c.kind = "register" /\ c.stream = 0
    BY DEF Typed, CallTypes, WriteHistory, Handling, CallRight
  <1> DEFINE d == [c EXCEPT !.pc = "lease"]
  <1>2. /\ CallRight(d) /\ d.proc = c.proc /\ d.waited = c.waited /\ d.pc = "lease"
        /\ d.kind = c.kind /\ d.stream = c.stream
    BY <1>1, TurnCall
  <1>3. \/ Becomes(c, d) /\ table' = table + 1 /\ missed' = missed /\ trouble' = trouble
        \/ Happens("write") /\ Fails(c) /\ table' = table
    BY DEF WriteHistory
  <1> HIDE DEF d
  <1> QED
    BY <1>1, <1>2, <1>3

LEMMA ReadEpochCall ==
  ASSUME Typed, NEW c \in calls, ReadEpoch(c)
  PROVE  /\ c.pc = "read" /\ c.kind = "connect" /\ CallRight(c)
         /\ \/ /\ \E d : /\ CallRight(d) /\ Becomes(c, d) /\ d.proc = c.proc /\ d.waited = c.waited
                         /\ d.kind = c.kind /\ d.stream = c.stream /\ d.pc = "insert"
               /\ missed' = missed
            \/ Fails(c)
  <1>1. CallRight(c) /\ c.pc = "read" /\ c.kind = "connect" /\ c.stream = 0
    BY DEF Typed, CallTypes, ReadEpoch, Handling, CallRight
  <1> DEFINE d == [c EXCEPT !.pc = "insert"]
  <1>2. /\ CallRight(d) /\ d.proc = c.proc /\ d.waited = c.waited /\ d.pc = "insert"
        /\ d.kind = c.kind /\ d.stream = c.stream
    BY <1>1, TurnCall
  <1>3. (Becomes(c, d) /\ missed' = missed) \/ Fails(c)
    BY DEF ReadEpoch
  <1> HIDE DEF d
  <1> QED
    BY <1>1, <1>2, <1>3

(* A stream never has an identity that a stream has had and somebody holds.*)
LEMMA NewIdIsNew ==
  ASSUME Typed
  PROVE  NewId \in Nat \ {0} /\ NewId \notin Ids
  <1> DEFINE A == {s.id : s \in streams}
             B == {c.stream : c \in calls}
             C == {proc[p].stream : p \in Procs}
  <1>1. IsFiniteSet(A) /\ IsFiniteSet(B) /\ IsFiniteSet(C)
    <2>1. IsFiniteSet(streams) /\ IsFiniteSet(calls) /\ IsFiniteSet(Procs)
      BY RegistryAssumption DEF Typed, StreamTypes, CallTypes
    <2>2. IsFiniteSet(A)
      <3> DEFINE f == [s \in streams |-> s.id]
      <3>1. f \in Surjection(streams, A)
        BY DEF Surjection
      <3> QED
        BY <2>1, <3>1, FS_Surjection
    <2>3. IsFiniteSet(B)
      <3> DEFINE f == [s \in calls |-> s.stream]
      <3>1. f \in Surjection(calls, B)
        BY DEF Surjection
      <3> QED
        BY <2>1, <3>1, FS_Surjection
    <2>4. IsFiniteSet(C)
      <3> DEFINE f == [s \in Procs |-> proc[s].stream]
      <3>1. f \in Surjection(Procs, C)
        BY DEF Surjection
      <3> QED
        BY <2>1, <3>1, FS_Surjection
    <2> QED
      BY <2>2, <2>3, <2>4
  <1>2. IsFiniteSet(Ids) /\ 0 \in Ids
    <2>1. Ids = ((A \cup B) \cup C) \cup {fleet.stream, 0}
      BY DEF Ids
    <2>2. IsFiniteSet(A \cup B)
      BY <1>1, FS_Union
    <2> HIDE DEF A, B, C
    <2>3. IsFiniteSet((A \cup B) \cup C)
      BY <1>1, <2>2, FS_Union
    <2>4. IsFiniteSet({fleet.stream, 0})
      <3>1. IsFiniteSet({0})
        BY FS_Singleton
      <3>2. IsFiniteSet({0} \cup {fleet.stream})
        BY <3>1, FS_AddElement
      <3>3. {0} \cup {fleet.stream} = {fleet.stream, 0}
        OBVIOUS
      <3> QED
        BY <3>2, <3>3
    <2> QED
      BY <2>1, <2>3, <2>4, FS_Union
  <1> DEFINE n == Cardinality(Ids)
  <1>3. n \in Nat /\ IsFiniteSet(1 .. n) /\ Cardinality(1 .. n) = n
    <2>1. n \in Nat
      BY <1>2, FS_CardinalityType
    <2>2. IsFiniteSet(1 .. n) /\ Cardinality(1 .. n) = IF 1 > n THEN 0 ELSE n - 1 + 1
      BY <2>1, FS_Interval
    <2> QED
      BY <2>1, <2>2
  <1>4. ~(1 .. n \subseteq Ids)
    <2> SUFFICES ASSUME 1 .. n \subseteq Ids PROVE FALSE
      OBVIOUS
    <2>1. IsFiniteSet(Ids \ {0}) /\ Cardinality(Ids \ {0}) = n - 1
      BY <1>2, FS_RemoveElement
    <2>2. 1 .. n \subseteq Ids \ {0}
      BY <1>3
    <2>3. n <= n - 1
      BY <1>3, <2>1, <2>2, FS_Subset
    <2> QED
      BY <1>3, <2>3
  <1>5. \E m \in 1 .. n : m \notin Ids
    BY <1>4
  <1> QED
    BY <1>3, <1>5 DEF NewId

LEMMA InsertCall ==
  ASSUME Typed, NEW c \in calls, Insert(c)
  PROVE  /\ c.pc = "insert" /\ c.kind = "connect" /\ CallRight(c)
         /\ \E d : /\ CallRight(d) /\ Becomes(c, d) /\ d.proc = c.proc /\ d.waited = c.waited
                   /\ d.kind = c.kind /\ d.stream = NewId /\ d.pc = "online"
         /\ fleet' = [stream |-> NewId, epoch |-> c.epoch] /\ fleet' \in Entries
  <1>1. CallRight(c) /\ c.pc = "insert" /\ c.kind = "connect" /\ c.stream = 0
    BY DEF Typed, CallTypes, Insert, Handling, CallRight
  <1>2. PICK n \in Nat \ {0} : n = NewId
    BY NewIdIsNew
  <1> DEFINE d == [c EXCEPT !.pc = "online", !.stream = n]
  <1>3. /\ d \in Works /\ d.proc = c.proc /\ d.waited = c.waited /\ d.pc = "online"
        /\ d.kind = c.kind /\ d.stream = n
    BY <1>1 DEF CallRight, Works, Steps
  <1>4. Becomes(c, d) /\ fleet' = [stream |-> n, epoch |-> c.epoch]
    BY <1>2 DEF Insert
  <1> HIDE DEF d
  <1>5. CallRight(d)
    BY <1>1, <1>3 DEF CallRight
  <1>6. fleet' \in Entries
    BY <1>1, <1>4 DEF Entries, CallRight, Works
  <1> QED
    BY <1>1, <1>2, <1>3, <1>4, <1>5, <1>6

(* Only the status of a row changes, if there is a row.                    *)
LEMMA StatusKept ==
  ASSUME RowTypes, NEW w \in {"Online", "Offline"}, row' = [row EXCEPT !.status = w]
  PROVE  /\ RowTypes'
         /\ row = NoRow => row' = NoRow
         /\ row # NoRow => /\ row' # NoRow /\ row'.boot = row.boot /\ row'.uid = row.uid
                           /\ row'.epoch = row.epoch
  <1>1. CASE row = NoRow
    <2>1. row' = NoRow
      BY <1>1 DEF NoRow
    <2> QED
      BY <1>1, <2>1 DEF RowTypes
  <1>2. CASE row # NoRow
    <2>1. row \in Rows
      BY <1>2, RowKnown
    <2>2. /\ row' \in Rows /\ row'.boot = row.boot /\ row'.uid = row.uid
          /\ row'.epoch = row.epoch
      BY <2>1 DEF Rows
    <2>3. row' # NoRow
      BY <2>2, RegistryAssumption DEF Rows, NoRow
    <2> QED
      BY <1>2, <2>2, <2>3 DEF RowTypes
  <1> QED
    BY <1>1, <1>2

LEMMA AdmitTypes ==
  ASSUME Typed, NEW c \in calls, Admit(c)
  PROVE  Typed'
  <1>1. CallRight(c) /\ c.pc = "online" /\ c.kind = "connect" /\ c.stream \in Nat \ {0}
    BY DEF Typed, CallTypes, Admit, Handling, CallRight, Works
  <1>2. c.proc \in Procs /\ c.epoch \in Nat
    BY <1>1 DEF CallRight, Works
  <1>3. CallTypes'
    BY FewerCalls DEF Typed, Admit
  <1>4. SaidTypes' /\ FleetTypes' /\ IssuedTypes' /\ CountTypes'
    BY DEF Typed, Admit, history, SaidTypes, FleetTypes, IssuedTypes, CountTypes
  <1>5. CASE Happens("online") /\ UNCHANGED <<row, streams, proc>>
    <2>1. ProcTypes' /\ StreamTypes' /\ RowTypes' /\ TroubleTypes'
      BY <1>5, HappensTypes, SameProcs DEF Typed, StreamTypes, RowTypes
    <2> QED
      BY <1>3, <1>4, <2>1 DEF Typed
  <1>6. CASE /\ row' = [row EXCEPT !.status = "Online"]
             /\ streams' = streams \cup {[id |-> c.stream, proc |-> c.proc, epoch |-> c.epoch,
                                          pc |-> "open"]}
             /\ proc' = IF c.waited
                        THEN [proc EXCEPT ![c.proc].pc = "serving", ![c.proc].stream = c.stream]
                        ELSE proc
             /\ UNCHANGED trouble
    <2>1. RowTypes' /\ TroubleTypes'
      BY <1>6, StatusKept DEF Typed, TroubleTypes
    <2>2. StreamTypes'
      <3>1. [id |-> c.stream, proc |-> c.proc, epoch |-> c.epoch, pc |-> "open"] \in Tasks
        BY <1>1, <1>2 DEF Tasks
      <3> QED
        BY <1>6, <3>1, FS_AddElement DEF Typed, StreamTypes
    <2>3. ProcTypes'
      <3>1. CASE proc' = proc
        BY <3>1, SameProcs DEF Typed
      <3>2. CASE proc' = [proc EXCEPT ![c.proc].pc = "serving", ![c.proc].stream = c.stream]
        <4>1. ClientRight(proc[c.proc]) /\ proc \in [Procs -> Clients]
          BY <1>2 DEF Typed, ProcTypes
        <4> DEFINE y == [proc[c.proc] EXCEPT !.pc = "serving", !.stream = c.stream]
        <4>2. proc' = [proc EXCEPT ![c.proc] = y]
          BY <1>2, <3>2, <4>1
        <4>3. y \in Clients /\ y.pc = "serving" /\ y.stream = c.stream
          BY <1>1, <4>1 DEF ClientRight, Clients, Pcs
        <4> HIDE DEF y
        <4>4. ClientRight(y)
          BY <1>1, <4>3 DEF ClientRight
        <4> QED
          BY <1>2, <4>2, <4>4, ProcsNext DEF Typed
      <3> QED
        BY <1>6, <3>1, <3>2
    <2> QED
      BY <1>3, <1>4, <2>1, <2>2, <2>3 DEF Typed
  <1> QED
    BY <1>5, <1>6 DEF Admit

LEMMA LeaseTypes ==
  ASSUME Typed, Waiters, NEW c \in calls, WriteLease(c)
  PROVE  Typed'
  <1>1. CallRight(c) /\ c.pc = "lease" /\ c.kind = "register" /\ c.proc \in Procs /\ c.epoch \in Nat
    BY DEF Typed, CallTypes, WriteLease, Handling, CallRight, Works
  <1>2. /\ SaidTypes' /\ StreamTypes' /\ FleetTypes' /\ RowTypes' /\ IssuedTypes'
        /\ table' = table /\ changes' = changes
    BY DEF Typed, WriteLease, SaidTypes, StreamTypes, FleetTypes, RowTypes, IssuedTypes
  <1>3. CASE Happens("write") /\ Fails(c) /\ UNCHANGED proc
    <2>1. CallTypes' /\ CountTypes' /\ TroubleTypes' /\ ProcTypes'
      BY <1>2, <1>3, FailsTypes, HappensTypes, SameProcs DEF Typed, CountTypes
    <2> QED
      BY <1>2, <2>1 DEF Typed
  <1>4. CASE /\ calls' = calls \ {c}
             /\ proc' = IF c.waited
                        THEN [proc EXCEPT ![c.proc].pc = "recovering", ![c.proc].epoch = c.epoch]
                        ELSE proc
             /\ UNCHANGED <<said, missed, trouble>>
    <2>1. CallTypes' /\ CountTypes' /\ TroubleTypes'
      BY <1>2, <1>4, FewerCalls DEF Typed, CountTypes, TroubleTypes
    <2>2. ProcTypes'
      <3>1. CASE proc' = proc
        BY <3>1, SameProcs DEF Typed
      <3>2. CASE ~c.waited
        BY <1>4, <3>2, SameProcs DEF Typed
      <3>3. CASE c.waited
        <4>1. ClientRight(proc[c.proc]) /\ proc \in [Procs -> Clients]
          BY <1>1 DEF Typed, ProcTypes
        <4> DEFINE y == [proc[c.proc] EXCEPT !.pc = "recovering", !.epoch = c.epoch]
        <4>2. proc' = [proc EXCEPT ![c.proc] = y]
          BY <1>1, <1>4, <3>3, <4>1
        <4>3. /\ y \in Clients /\ y.pc = "recovering" /\ y.stream = proc[c.proc].stream
              /\ y.ear = proc[c.proc].ear
          BY <1>1, <4>1 DEF ClientRight, Clients, Pcs
        <4>4. proc[c.proc].pc = "registering"
          BY <1>1, <3>3 DEF Waiters, CallRight
        <4> HIDE DEF y
        <4>5. ClientRight(y)
          BY <4>1, <4>3, <4>4 DEF ClientRight
        <4> QED
          BY <1>1, <4>2, <4>5, ProcsNext DEF Typed
      <3> QED
        BY <3>2, <3>3
    <2> QED
      BY <1>2, <2>1, <2>2 DEF Typed
  <1> QED
    BY <1>3, <1>4 DEF WriteLease

LEMMA HandleTypes ==
  ASSUME Typed, Waiters, NEW c \in calls, Handle(c)
  PROVE  Typed'
  <1>1. CASE ReadInstance(c)
    <2>1. CallTypes'
      BY <1>1, ReadInstanceCall, BecomesTypes, FewerCalls DEF Typed
    <2>2. CountTypes'
      <3>1. Fails(c) => missed' \in Nat
        BY FailsTypes DEF Typed
      <3> QED
        BY <1>1, <3>1 DEF ReadInstance, Typed, CountTypes
    <2> QED
      BY <1>1, <2>1, <2>2, SameProcs
      DEF ReadInstance, Typed, SaidTypes, StreamTypes, FleetTypes, RowTypes, IssuedTypes,
          TroubleTypes
  <1>2. CASE ReadHash(c)
    <2>1. CallTypes'
      BY <1>2, ReadHashCall, BecomesTypes DEF Typed
    <2> QED
      BY <1>2, <2>1, SameProcs
      DEF ReadHash, Typed, SaidTypes, StreamTypes, FleetTypes, RowTypes, IssuedTypes,
          CountTypes, TroubleTypes, history
  <1>3. CASE WriteRow(c)
    <2>1. CallTypes'
      BY <1>3, WriteRowCall, BecomesTypes, FewerCalls DEF Typed
    <2>2. RowTypes'
      BY <1>3, WriteRowCall DEF Typed, RowTypes
    <2>3. TroubleTypes'
      BY <1>3, WriteRowCall, HappensTypes DEF Typed, TroubleTypes
    <2>4. CountTypes'
      BY <1>3, WriteRowCall DEF Typed, CountTypes, WriteRow
    <2>5. IssuedTypes'
      <3>1. c.proc \in Procs
        BY DEF Typed, CallTypes, CallRight, Works
      <3>2. \/ issued' = issued
            \/ issued' = issued \cup {[proc |-> c.proc, epoch |-> c.epoch]} /\ c.epoch \in Nat \ {0}
        BY <1>3, WriteRowCall
      <3> QED
        BY <3>1, <3>2 DEF Typed, IssuedTypes
    <2> QED
      BY <1>3, <2>1, <2>2, <2>3, <2>4, <2>5, SameProcs
      DEF WriteRow, Typed, SaidTypes, StreamTypes, FleetTypes
  <1>4. CASE WriteHistory(c)
    <2>1. CallTypes'
      BY <1>4, WriteHistoryCall, BecomesTypes, FailsTypes DEF Typed
    <2>2. CountTypes'
      BY <1>4, WriteHistoryCall, FailsTypes DEF Typed, CountTypes, WriteHistory
    <2>3. TroubleTypes'
      BY <1>4, WriteHistoryCall, HappensTypes DEF Typed, TroubleTypes
    <2> QED
      BY <1>4, <2>1, <2>2, <2>3, SameProcs
      DEF WriteHistory, Typed, SaidTypes, StreamTypes, FleetTypes, RowTypes, IssuedTypes
  <1>5. CASE WriteLease(c)
    BY <1>5, LeaseTypes
  <1>6. CASE ReadEpoch(c)
    <2>1. CallTypes'
      BY <1>6, ReadEpochCall, BecomesTypes, FailsTypes DEF Typed
    <2>2. CountTypes'
      BY <1>6, ReadEpochCall, FailsTypes DEF Typed, CountTypes, ReadEpoch
    <2> QED
      BY <1>6, <2>1, <2>2, SameProcs
      DEF ReadEpoch, Typed, SaidTypes, StreamTypes, FleetTypes, RowTypes, IssuedTypes,
          TroubleTypes
  <1>7. CASE Insert(c)
    <2>1. CallTypes' /\ FleetTypes'
      BY <1>7, InsertCall, BecomesTypes DEF Typed, FleetTypes
    <2> QED
      BY <1>7, <2>1, SameProcs
      DEF Insert, Typed, SaidTypes, StreamTypes, RowTypes, IssuedTypes, CountTypes,
          TroubleTypes, history
  <1>8. CASE Admit(c)
    BY <1>8, AdmitTypes
  <1> QED
    BY <1>1, <1>2, <1>3, <1>4, <1>5, <1>6, <1>7, <1>8 DEF Handle

LEMMA TurnsTypes ==
  ASSUME StreamTypes, NEW s \in streams, NEW w \in {"ended", "offline"}, Turns(s, w)
  PROVE  StreamTypes'
  <1>1. s \in Tasks
    BY DEF StreamTypes
  <1>2. [s EXCEPT !.pc = w] \in Tasks
    BY <1>1 DEF Tasks
  <1>3. IsFiniteSet(streams \ {s})
    BY FS_RemoveElement DEF StreamTypes
  <1>4. IsFiniteSet((streams \ {s}) \cup {[s EXCEPT !.pc = w]})
    BY <1>3, FS_AddElement
  <1> QED
    BY <1>2, <1>4 DEF StreamTypes, Turns

LEMMA ReaderTypes ==
  ASSUME Typed, NEW s \in streams, Reader(s)
  PROVE  Typed'
  <1>1. CASE EndStream(s)
    BY <1>1, TurnsTypes, SameProcs
    DEF EndStream, Typed, SaidTypes, CallTypes, FleetTypes, RowTypes, IssuedTypes,
        CountTypes, TroubleTypes, history, CallRight
  <1>2. CASE Disconnect(s)
    BY <1>2, TurnsTypes, SameProcs
    DEF Disconnect, Typed, SaidTypes, CallTypes, FleetTypes, RowTypes, IssuedTypes,
        CountTypes, TroubleTypes, history, CallRight, Entries
  <1>3. CASE SetOffline(s)
    <2>1. StreamTypes'
      BY <1>3, FS_RemoveElement DEF SetOffline, Typed, StreamTypes
    <2>2. RowTypes' /\ TroubleTypes'
      BY <1>3, StatusKept, HappensTypes DEF SetOffline, Typed, RowTypes, TroubleTypes
    <2> QED
      BY <1>3, <2>1, <2>2, SameProcs
      DEF SetOffline, Typed, SaidTypes, CallTypes, FleetTypes, IssuedTypes, CountTypes,
          history, CallRight
  <1> QED
    BY <1>1, <1>2, <1>3 DEF Reader

LEMMA TypedInit ==
  Init => Typed
  <1> SUFFICES ASSUME Init PROVE Typed
    OBVIOUS
  <1> DEFINE x == [pc |-> "off", epoch |-> 0, base |-> Initial, lasted |-> FALSE,
                   stream |-> 0, stop |-> "no", ear |-> "none"]
  <1>1. ClientRight(x) /\ x \in Clients
    BY RegistryAssumption DEF ClientRight, Clients, Pcs
  <1>2. ProcTypes
    <2>1. proc = [p \in Procs |-> x]
      BY DEF Init
    <2> HIDE DEF x
    <2> QED
      BY <1>1, <2>1 DEF ProcTypes
  <1>3. IsFiniteSet({})
    BY FS_EmptySet
  <1> QED
    BY <1>2, <1>3, RegistryAssumption
    DEF Init, Typed, SaidTypes, CallTypes, StreamTypes, FleetTypes, Entries, RowTypes,
        IssuedTypes, CountTypes, TroubleTypes

LEMMA TypedNext ==
  ASSUME Typed, Waiters, [Next]_vars
  PROVE  Typed'
  <1>1. CASE UNCHANGED vars
    BY <1>1, SameProcs
    DEF vars, history, Typed, SaidTypes, CallTypes, StreamTypes, FleetTypes, RowTypes,
        IssuedTypes, CountTypes, TroubleTypes, CallRight
  <1>2. ASSUME NEW p \in Procs,
               \/ CallFails(p) \/ StreamCloses(p) \/ Arm(p) \/ Look(p) \/ Leave(p) \/ Wake(p)
               \/ Lasts(p) \/ Message(p) \/ StopSet(p) \/ StopNotify(p)
        PROVE  Typed'
    <2>1. ProcTypes'
      BY <1>2, ClientTypes, EarTypes DEF Typed
    <2>2. UNCHANGED <<said, calls, streams, fleet, row, table, history, trouble>>
      BY <1>2 DEF CallFails, StreamCloses, Arm, Look, Leave, Wake, Lasts, Message, StopSet,
                  StopNotify, Hears
    <2> QED
      BY <2>1, <2>2
      DEF history, Typed, SaidTypes, CallTypes, StreamTypes, FleetTypes, RowTypes,
          IssuedTypes, CountTypes, TroubleTypes, CallRight
  <1>3. ASSUME NEW p \in Procs, Start(p) \/ Dial(p) \/ Recover(p) \/ Cut(p) \/ Die(p)
        PROVE  Typed'
    <2>1. ProcTypes'
      BY <1>3, ClientTypes DEF Typed
    <2>2. CallTypes'
      <3>1. calls' = calls => CallTypes'
        BY DEF Typed, CallTypes, CallRight
      <3>2. ASSUME NEW k \in {"register", "connect"}, Enter(Call(p, k))
            PROVE  CallTypes'
        BY <3>2, CallTyped, EnterTypes DEF Typed
      <3>3. calls' = Deserted(p) => CallTypes'
        BY DesertedTypes DEF Typed
      <3> QED
        BY <1>3, <3>1, <3>2, <3>3 DEF Start, Dial, Recover, Cut, Die
    <2>3. TroubleTypes'
      BY <1>3, HappensTypes DEF Typed, TroubleTypes, Start, Dial, Recover, Cut, Die
    <2>4. UNCHANGED <<said, streams, fleet, row, table, issued, changes, missed>>
      BY <1>3 DEF Start, Dial, Recover, Cut, Die, history
    <2> QED
      BY <2>1, <2>2, <2>3, <2>4
      DEF Typed, SaidTypes, StreamTypes, FleetTypes, RowTypes, IssuedTypes, CountTypes
  <1>4. ASSUME NEW c \in calls, DropCall(c)
        PROVE  Typed'
    <2>1. CallTypes' /\ missed' \in Nat
      BY <1>4, FailsTypes DEF Typed, DropCall
    <2>2. TroubleTypes'
      BY <1>4, HappensTypes DEF Typed, TroubleTypes, DropCall
    <2> QED
      BY <1>4, <2>1, <2>2, SameProcs
      DEF DropCall, Typed, SaidTypes, StreamTypes, FleetTypes, RowTypes, IssuedTypes, CountTypes
  <1>5. CASE ServerRestarts
    <2>1. TroubleTypes'
      BY <1>5, HappensTypes DEF Typed, ServerRestarts
    <2>2. CallTypes' /\ StreamTypes' /\ FleetTypes'
      BY <1>5, FS_EmptySet DEF ServerRestarts, CallTypes, StreamTypes, FleetTypes, Entries
    <2>3. missed' \in Nat
      <3> DEFINE H == {c \in calls : c.pc = "history"}
      <3>1. IsFiniteSet(H)
        BY FS_Subset DEF Typed, CallTypes
      <3>2. Cardinality(H) \in Nat
        BY <3>1, FS_CardinalityType
      <3>3. missed' = missed + Cardinality(H)
        BY <1>5 DEF ServerRestarts
      <3> HIDE DEF H
      <3> QED
        BY <3>2, <3>3 DEF Typed, CountTypes
    <2> QED
      BY <1>5, <2>1, <2>2, <2>3, SameProcs
      DEF ServerRestarts, Typed, SaidTypes, RowTypes, IssuedTypes, CountTypes
  <1> QED
    BY <1>1, <1>2, <1>3, <1>4, <1>5, HandleTypes, ReaderTypes DEF Next, Client

----------------------------------------------------------------------------
(* Who waits.                                                              *)
LEMMA BecomesWaits ==
  ASSUME Waiters, NEW c \in calls, NEW d, Becomes(c, d), proc' = proc,
         d.waited = c.waited, d.kind = c.kind, d.proc = c.proc
  PROVE  Waiters'
  BY DEF Waiters, Becomes

LEMMA FewerWait ==
  ASSUME Waiters, calls' \subseteq calls,
         \A c \in calls' : c.waited => proc'[c.proc].pc = proc[c.proc].pc
  PROVE  Waiters'
  BY DEF Waiters

LEMMA DesertedWaits ==
  ASSUME Typed, Waiters, NEW p \in Procs, calls' = Deserted(p),
         \A q \in Procs \ {p} : proc'[q] = proc[q]
  PROVE  Waiters'
  <1>1. \A c \in calls : c \in Works
    BY DEF Typed, CallTypes, CallRight
  <1>2. ASSUME NEW d \in calls', d.waited
        PROVE  d \in calls /\ d.proc # p /\ d.proc \in Procs
    <2>1. PICK c \in calls : d = IF c.proc = p THEN [c EXCEPT !.waited = FALSE] ELSE c
      BY DEF Deserted
    <2>2. c.proc # p
      <3> SUFFICES ASSUME c.proc = p PROVE FALSE
        OBVIOUS
      <3>1. d.waited = FALSE
        BY <1>1, <2>1 DEF Works
      <3> QED
        BY <1>2, <3>1
    <2> QED
      BY <1>1, <2>1, <2>2 DEF Works
  <1> QED
    BY <1>2 DEF Waiters

LEMMA EnterWaits ==
  ASSUME Typed, Waiters, NEW p \in Procs, NEW k \in {"register", "connect"},
         proc[p].pc \notin {"registering", "connecting"}, Enter(Call(p, k)),
         proc' = [proc EXCEPT ![p].pc = IF k = "register" THEN "registering" ELSE "connecting"]
  PROVE  Waiters'
  <1>1. \A c \in calls : c.waited => c.proc # p
    BY DEF Waiters
  <1>2. \A c \in calls : c.proc \in Procs
    BY DEF Typed, CallTypes, CallRight, Works
  <1>3. proc \in [Procs -> Clients] /\ proc[p] \in Clients
    BY DEF Typed, ProcTypes
  <1>4. /\ proc'[p].pc = IF k = "register" THEN "registering" ELSE "connecting"
        /\ \A q \in Procs : q # p => proc'[q] = proc[q]
    BY <1>3 DEF Clients
  <1>5. PICK d : d = Call(p, k)
    OBVIOUS
  <1>6. d.proc = p /\ d.kind = k /\ calls' = calls \cup {d}
    BY <1>5 DEF Call, Enter
  <1>7. ASSUME NEW c \in calls', c.waited
        PROVE  /\ proc'[c.proc].pc = IF c.kind = "register" THEN "registering" ELSE "connecting"
               /\ \A e \in calls' : e.waited /\ e.proc = c.proc => e = c
    <2>1. CASE c = d
      BY <1>1, <1>4, <1>6, <2>1
    <2>2. CASE c \in calls
      BY <1>1, <1>2, <1>4, <1>6, <1>7, <2>2 DEF Waiters
    <2> QED
      BY <1>6, <2>1, <2>2
  <1> QED
    BY <1>7 DEF Waiters

LEMMA WaitersNext ==
  ASSUME Typed, Waiters, [Next]_vars
  PROVE  Waiters'
  <1>0. proc \in [Procs -> Clients] /\ \A q \in Procs : proc[q] \in Clients
    BY DEF Typed, ProcTypes
  <1>a. \A c \in calls : c.proc \in Procs
    BY DEF Typed, CallTypes, CallRight, Works
  <1>1. CASE calls' \subseteq calls /\ proc' = proc
    BY <1>1, FewerWait
  <1>2. ASSUME NEW p \in Procs, ~Waited(p), calls' = calls,
               \A q \in Procs \ {p} : proc'[q] = proc[q]
        PROVE  Waiters'
    BY <1>2, <1>a, FewerWait DEF Waited
  <1>3. ASSUME NEW p \in Procs, proc[p].pc \notin {"registering", "connecting"}
        PROVE  ~Waited(p)
    BY <1>3 DEF Waited, Waiters
  <1>4. ASSUME NEW p \in Procs, NEW x, proc' = [proc EXCEPT ![p] = x]
        PROVE  \A q \in Procs \ {p} : proc'[q] = proc[q]
    BY <1>0, <1>4
  <1>5. ASSUME NEW p \in Procs,
               \/ CallFails(p) \/ StreamCloses(p) \/ Leave(p) \/ Start(p) \/ Lasts(p) \/ Wake(p)
        PROVE  Waiters'
    <2>1. ~Waited(p)
      BY <1>3, <1>5 DEF CallFails, StreamCloses, Leave, Start, Lasts, Wake, At, Ear, Listening
    <2>2. calls' = calls
      BY <1>5 DEF CallFails, StreamCloses, Leave, Start, Lasts, Wake
    <2>3. \A q \in Procs \ {p} : proc'[q] = proc[q]
      BY <1>0, <1>5 DEF CallFails, StreamCloses, Leave, Start, Lasts, Wake, EndSession
    <2> QED
      BY <1>2, <2>1, <2>2, <2>3
  <1>6. ASSUME NEW p \in Procs, Arm(p) \/ Look(p) \/ Message(p) \/ StopSet(p) \/ StopNotify(p)
        PROVE  Waiters'
    <2>1. calls' = calls /\ \A q \in Procs : proc'[q].pc = proc[q].pc
      BY <1>0, <1>6 DEF Arm, Look, Message, StopSet, StopNotify, Hears, Clients
    <2> QED
      BY <1>a, <2>1, FewerWait
  <1>7. ASSUME NEW p \in Procs, Cut(p) \/ Die(p)
        PROVE  Waiters'
    <2>1. calls' = Deserted(p) /\ \A q \in Procs \ {p} : proc'[q] = proc[q]
      BY <1>0, <1>7 DEF Cut, Die, EndSession
    <2> QED
      BY <2>1, DesertedWaits
  <1>8. ASSUME NEW p \in Procs, Dial(p)
        PROVE  Waiters'
    <2>1. CASE proc' = [proc EXCEPT ![p].pc = "registering"] /\ Enter(Call(p, "register"))
      BY <1>8, <2>1, EnterWaits DEF Dial, At
    <2>2. CASE EndSession(p) /\ UNCHANGED calls
      <3>1. \A q \in Procs \ {p} : proc'[q] = proc[q]
        BY <1>0, <2>2 DEF EndSession
      <3> QED
        BY <1>2, <1>3, <1>8, <2>2, <3>1 DEF Dial, At
    <2> QED
      BY <1>8, <2>1, <2>2 DEF Dial
  <1>9. ASSUME NEW p \in Procs, Recover(p)
        PROVE  Waiters'
    BY <1>9, EnterWaits DEF Recover, At
  <1>10. ASSUME NEW c \in calls, Handle(c)
         PROVE  Waiters'
    <2>1. CASE /\ proc' = proc
               /\ \E d : /\ Becomes(c, d) /\ d.waited = c.waited /\ d.kind = c.kind
                         /\ d.proc = c.proc
      BY <2>1, BecomesWaits
    <2>2. CASE WriteLease(c)
      <3>1. calls' = calls \ {c} /\ \A q \in Procs : q # c.proc => proc'[q] = proc[q]
        BY <1>0, <2>2 DEF WriteLease, Fails
      <3>2. CASE c.waited
        <4>1. \A d \in calls' : d.waited => d.proc # c.proc
          BY <3>1, <3>2 DEF Waiters
        <4> QED
          BY <1>a, <3>1, <4>1, FewerWait
      <3>3. CASE ~c.waited
        BY <1>1, <2>2, <3>1, <3>3 DEF WriteLease
      <3> QED
        BY <3>2, <3>3
    <2>3. CASE Admit(c)
      <3>1. calls' = calls \ {c} /\ \A q \in Procs : q # c.proc => proc'[q] = proc[q]
        BY <1>0, <2>3 DEF Admit
      <3>2. CASE c.waited
        <4>1. \A d \in calls' : d.waited => d.proc # c.proc
          BY <3>1, <3>2 DEF Waiters
        <4> QED
          BY <1>a, <3>1, <4>1, FewerWait
      <3>3. CASE ~c.waited
        BY <1>1, <2>3, <3>1, <3>3 DEF Admit
      <3> QED
        BY <3>2, <3>3
    <2>4. CASE ReadInstance(c)
      BY <1>1, <2>1, <2>4, ReadInstanceCall DEF ReadInstance
    <2>5. CASE ReadHash(c)
      BY <2>1, <2>5, ReadHashCall DEF ReadHash
    <2>6. CASE WriteRow(c)
      BY <1>1, <2>1, <2>6, WriteRowCall DEF WriteRow
    <2>7. CASE WriteHistory(c)
      BY <1>1, <2>1, <2>7, WriteHistoryCall DEF WriteHistory, Fails
    <2>8. CASE ReadEpoch(c)
      BY <1>1, <2>1, <2>8, ReadEpochCall DEF ReadEpoch, Fails
    <2>9. CASE Insert(c)
      BY <2>1, <2>9, InsertCall DEF Insert
    <2> QED
      BY <1>10, <2>2, <2>3, <2>4, <2>5, <2>6, <2>7, <2>8, <2>9 DEF Handle
  <1>11. ASSUME NEW c \in calls, DropCall(c)
         PROVE  Waiters'
    BY <1>1, <1>11 DEF DropCall, Fails
  <1>12. ASSUME NEW s \in streams, Reader(s)
         PROVE  Waiters'
    BY <1>1, <1>12 DEF Reader, EndStream, Disconnect, SetOffline
  <1>13. CASE ServerRestarts
    BY <1>13 DEF ServerRestarts, Waiters
  <1>14. CASE UNCHANGED vars
    BY <1>1, <1>14 DEF vars
  <1> QED
    BY <1>5, <1>6, <1>7, <1>8, <1>9, <1>10, <1>11, <1>12, <1>13, <1>14 DEF Next, Client

----------------------------------------------------------------------------
(* A stream is in one place: its handler's hands, or its reader's and its  *)
(* client's.                                                               *)
Apart ==
  /\ \A c, d \in calls : c.stream # 0 /\ c.stream = d.stream => c = d
  /\ \A c \in calls : c.stream # 0 =>
       /\ \A s \in streams : s.id # c.stream
       /\ \A p \in Procs : proc[p].stream # c.stream
  /\ \A s, t \in streams : s.id = t.id => s = t
  /\ \A p, q \in Procs : proc[p].stream # 0 /\ proc[p].stream = proc[q].stream => p = q

CallsApart ==
  /\ \A c, d \in calls' : c.stream # 0 /\ c.stream = d.stream => c = d
  /\ \A c \in calls' : c.stream # 0 => \E d \in calls : d.stream = c.stream
StreamsApart ==
  /\ \A s, t \in streams' : s.id = t.id => s = t
  /\ \A s \in streams' : \E t \in streams : t.id = s.id
ProcsApart == \A p \in Procs : proc'[p].stream \in {0, proc[p].stream}

LEMMA ApartKept ==
  ASSUME Apart, CallsApart, StreamsApart, ProcsApart
  PROVE  Apart'
  <1>1. \A c \in calls' : c.stream # 0 => \A s \in streams' : s.id # c.stream
    BY DEF Apart, CallsApart, StreamsApart
  <1>2. \A c \in calls' : c.stream # 0 => \A p \in Procs : proc'[p].stream # c.stream
    BY DEF Apart, CallsApart, ProcsApart
  <1>3. \A p, q \in Procs : proc'[p].stream # 0 /\ proc'[p].stream = proc'[q].stream => p = q
    BY DEF Apart, ProcsApart
  <1> QED
    BY <1>1, <1>2, <1>3 DEF Apart, CallsApart, StreamsApart

LEMMA CallsStayApart ==
  ASSUME Typed, Apart
  PROVE  /\ calls' \subseteq calls => CallsApart
         /\ \A c \in calls : \A d : Becomes(c, d) /\ d.stream = 0 => CallsApart
         /\ \A p, k : Enter(Call(p, k)) => CallsApart
         /\ \A p : calls' = Deserted(p) => CallsApart
  <1>1. ASSUME \A c \in calls' : c.stream # 0 => c \in calls
        PROVE  CallsApart
    BY <1>1 DEF Apart, CallsApart
  <1>2. \A c \in calls : \A d : Becomes(c, d) /\ d.stream = 0 => CallsApart
    BY <1>1 DEF Becomes
  <1>3. ASSUME NEW p, NEW k, Enter(Call(p, k))
        PROVE  CallsApart
    <2>1. Call(p, k).stream = 0
      BY DEF Call
    <2> QED
      BY <1>1, <1>3, <2>1 DEF Enter
  <1>4. ASSUME NEW p, calls' = Deserted(p)
        PROVE  CallsApart
    <2>1. \A c \in calls : c \in Works
      BY DEF Typed, CallTypes, CallRight
    <2>2. \A d \in calls' : \E c \in calls :
             /\ d = IF c.proc = p THEN [c EXCEPT !.waited = FALSE] ELSE c
             /\ d.stream = c.stream
      BY <1>4, <2>1 DEF Deserted, Works
    <2>3. \A c, d \in calls' : c.stream # 0 /\ c.stream = d.stream => c = d
      <3> SUFFICES ASSUME NEW d \in calls', NEW e \in calls', d.stream # 0, d.stream = e.stream
                   PROVE  d = e
        OBVIOUS
      <3>1. PICK c \in calls : /\ d = IF c.proc = p THEN [c EXCEPT !.waited = FALSE] ELSE c
                               /\ d.stream = c.stream
        BY <2>2
      <3>2. PICK b \in calls : /\ e = IF b.proc = p THEN [b EXCEPT !.waited = FALSE] ELSE b
                               /\ e.stream = b.stream
        BY <2>2
      <3>3. b = c
        BY <3>1, <3>2 DEF Apart
      <3> QED
        BY <3>1, <3>2, <3>3
    <2> QED
      BY <2>2, <2>3 DEF CallsApart
  <1> QED
    BY <1>1, <1>2, <1>3, <1>4

LEMMA InsertApart ==
  ASSUME Typed, Apart, NEW c \in calls, Insert(c)
  PROVE  Apart'
  <1>1. PICK d : /\ CallRight(d) /\ Becomes(c, d) /\ d.stream = NewId
    BY InsertCall
  <1>2. NewId # 0 /\ NewId \notin Ids
    BY NewIdIsNew
  <1>3. /\ \A e \in calls : e.stream # NewId
        /\ \A s \in streams : s.id # NewId
        /\ \A p \in Procs : proc[p].stream # NewId
    BY <1>2 DEF Ids
  <1>4. streams' = streams /\ proc' = proc /\ calls' = (calls \ {c}) \cup {d}
    BY <1>1 DEF Insert, Becomes
  <1> QED
    BY <1>1, <1>2, <1>3, <1>4 DEF Apart

LEMMA AdmitApart ==
  ASSUME Typed, Apart, NEW c \in calls, Admit(c)
  PROVE  Apart'
  <1>1. c.stream # 0 /\ calls' = calls \ {c} /\ c.proc \in Procs
    BY DEF Admit, Handling, Typed, CallTypes, CallRight, Works
  <1>2. CASE UNCHANGED <<row, streams, proc>>
    BY <1>1, <1>2 DEF Apart
  <1>3. CASE /\ streams' = streams \cup {[id |-> c.stream, proc |-> c.proc,
                                          epoch |-> c.epoch, pc |-> "open"]}
             /\ proc' = IF c.waited
                        THEN [proc EXCEPT ![c.proc].pc = "serving", ![c.proc].stream = c.stream]
                        ELSE proc
    <2>1. \A p \in Procs : \/ proc'[p].stream = proc[p].stream
                           \/ p = c.proc /\ proc'[p].stream = c.stream
      <3>1. proc \in [Procs -> Clients] /\ \A p \in Procs : proc[p] \in Clients
        BY DEF Typed, ProcTypes
      <3> QED
        BY <1>1, <1>3, <3>1 DEF Clients
    <2>2. PICK t : t = [id |-> c.stream, proc |-> c.proc, epoch |-> c.epoch, pc |-> "open"]
      OBVIOUS
    <2>3. streams' = streams \cup {t} /\ t.id = c.stream
      BY <1>3, <2>2
    <2>4. \A s, u \in streams' : s.id = u.id => s = u
      BY <1>1, <2>3 DEF Apart
    <2>5. /\ \A e, d \in calls' : e.stream # 0 /\ e.stream = d.stream => e = d
          /\ \A e \in calls' : e.stream # 0 => e.stream # c.stream
      BY <1>1 DEF Apart
    <2>6. \A e \in calls' : e.stream # 0 =>
            /\ \A s \in streams' : s.id # e.stream
            /\ \A p \in Procs : proc'[p].stream # e.stream
      BY <1>1, <2>1, <2>3, <2>5 DEF Apart
    <2>7. \A p, q \in Procs : proc'[p].stream # 0 /\ proc'[p].stream = proc'[q].stream => p = q
      BY <1>1, <2>1 DEF Apart
    <2> QED
      BY <2>4, <2>5, <2>6, <2>7 DEF Apart
  <1> QED
    BY <1>2, <1>3 DEF Admit

LEMMA ApartNext ==
  ASSUME Typed, Apart, [Next]_vars
  PROVE  Apart'
  <1>0. proc \in [Procs -> Clients] /\ \A q \in Procs : proc[q] \in Clients
    BY DEF Typed, ProcTypes
  <1>a. proc' = proc => ProcsApart
    BY DEF ProcsApart
  <1>b. streams' = streams => StreamsApart
    BY DEF Apart, StreamsApart
  <1>1. ASSUME NEW p \in Procs,
               \/ CallFails(p) \/ StreamCloses(p) \/ Arm(p) \/ Look(p) \/ Leave(p) \/ Wake(p)
               \/ Lasts(p) \/ Message(p) \/ StopSet(p) \/ StopNotify(p)
               \/ Start(p) \/ Dial(p) \/ Recover(p) \/ Cut(p) \/ Die(p)
        PROVE  Apart'
    <2>1. ProcsApart
      <3>1. ASSUME NEW x, proc' = [proc EXCEPT ![p] = x], x.stream \in {0, proc[p].stream}
            PROVE  ProcsApart
        BY <1>0, <3>1 DEF ProcsApart
      <3>2. EndSession(p) => ProcsApart
        BY <3>1, EndedRight DEF EndSession, Typed
      <3>3. Leave(p) \/ Die(p) => ProcsApart
        BY <3>1, GoneRight DEF Leave, Die, Typed
      <3>4. CallFails(p) \/ StreamCloses(p) \/ Cut(p) => ProcsApart
        BY <3>2 DEF CallFails, StreamCloses, Cut
      <3>5. ASSUME \A q \in Procs : proc'[q].stream = proc[q].stream
            PROVE  ProcsApart
        BY <3>5 DEF ProcsApart
      <3>6. ASSUME \/ Arm(p) \/ Look(p) \/ Wake(p) \/ Lasts(p) \/ Message(p) \/ StopSet(p)
                   \/ StopNotify(p) \/ Start(p) \/ Recover(p)
            PROVE  ProcsApart
        <4>1. \A q \in Procs : proc'[q].stream = proc[q].stream
          BY <1>0, <3>6 DEF Arm, Look, Wake, Lasts, Message, StopSet, StopNotify, Start,
                            Recover, Hears, Clients
        <4> QED
          BY <3>5, <4>1
      <3>7. Dial(p) => ProcsApart
        <4>1. proc' = [proc EXCEPT ![p].pc = "registering"] => ProcsApart
          BY <1>0, <3>5 DEF Clients
        <4>2. Dial(p) => proc' = [proc EXCEPT ![p].pc = "registering"] \/ EndSession(p)
          BY DEF Dial
        <4> QED
          BY <3>2, <4>1, <4>2
      <3> QED
        BY <1>1, <3>3, <3>4, <3>6, <3>7
    <2>2. streams' = streams
      BY <1>1 DEF CallFails, StreamCloses, Arm, Look, Leave, Wake, Lasts, Message, StopSet,
                  StopNotify, Start, Dial, Recover, Cut, Die, Hears
    <2>3. CallsApart
      <3>1. \/ calls' = calls
            \/ \E k \in {"register", "connect"} : Enter(Call(p, k))
            \/ calls' = Deserted(p)
        BY <1>1 DEF CallFails, StreamCloses, Arm, Look, Leave, Wake, Lasts, Message, StopSet,
                    StopNotify, Start, Dial, Recover, Cut, Die, Hears
      <3> QED
        BY <3>1, CallsStayApart
    <2> QED
      BY <1>b, <2>1, <2>2, <2>3, ApartKept
  <1>2. ASSUME NEW c \in calls, Handle(c)
        PROVE  Apart'
    <2>1. CASE Insert(c)
      BY <2>1, InsertApart
    <2>2. CASE Admit(c)
      BY <2>2, AdmitApart
    <2>3. CASE WriteLease(c)
      <3>1. CallsApart
        BY <2>3, CallsStayApart DEF WriteLease, Fails
      <3>2. \A q \in Procs : proc'[q].stream = proc[q].stream
        BY <1>0, <2>3 DEF WriteLease, Clients
      <3>3. streams' = streams /\ ProcsApart
        BY <2>3, <3>2 DEF WriteLease, ProcsApart
      <3> QED
        BY <1>b, <3>1, <3>3, ApartKept
    <2>4. ASSUME proc' = proc, streams' = streams, c.stream = 0,
                 calls' \subseteq calls \/ \E d : Becomes(c, d) /\ d.stream = c.stream
          PROVE  Apart'
      BY <1>a, <1>b, <2>4, CallsStayApart, ApartKept
    <2>5. c.pc # "online" => c.stream = 0
      BY DEF Typed, CallTypes, CallRight
    <2>6. CASE ReadInstance(c)
      BY <2>4, <2>5, <2>6, ReadInstanceCall DEF ReadInstance
    <2>7. CASE ReadHash(c)
      BY <2>4, <2>5, <2>7, ReadHashCall DEF ReadHash
    <2>8. CASE WriteRow(c)
      BY <2>4, <2>5, <2>8, WriteRowCall DEF WriteRow
    <2>9. CASE WriteHistory(c)
      BY <2>4, <2>5, <2>9, WriteHistoryCall DEF WriteHistory, Fails
    <2>10. CASE ReadEpoch(c)
      BY <2>4, <2>5, <2>10, ReadEpochCall DEF ReadEpoch, Fails
    <2> QED
      BY <1>2, <2>1, <2>2, <2>3, <2>6, <2>7, <2>8, <2>9, <2>10 DEF Handle
  <1>3. ASSUME NEW c \in calls, DropCall(c)
        PROVE  Apart'
    <2>1. CallsApart
      BY <1>3, CallsStayApart DEF DropCall, Fails
    <2> QED
      BY <1>a, <1>b, <1>3, <2>1, ApartKept DEF DropCall
  <1>4. ASSUME NEW s \in streams, Reader(s)
        PROVE  Apart'
    <2>1. ASSUME NEW w \in {"ended", "offline"}, Turns(s, w)
          PROVE  StreamsApart
      <3>1. s \in Tasks
        BY DEF Typed, StreamTypes
      <3> DEFINE t == [s EXCEPT !.pc = w]
      <3>2. t.id = s.id /\ streams' = (streams \ {s}) \cup {t}
        BY <2>1, <3>1 DEF Turns, Tasks
      <3> HIDE DEF t
      <3> QED
        BY <3>2 DEF Apart, StreamsApart
    <2>2. StreamsApart
      <3>1. SetOffline(s) => StreamsApart
        BY DEF SetOffline, Apart, StreamsApart
      <3> QED
        BY <1>4, <2>1, <3>1 DEF Reader, EndStream, Disconnect
    <2>3. proc' = proc /\ calls' = calls
      BY <1>4 DEF Reader, EndStream, Disconnect, SetOffline
    <2> QED
      BY <1>a, <2>2, <2>3, CallsStayApart, ApartKept
  <1>5. CASE ServerRestarts
    BY <1>5 DEF ServerRestarts, Apart
  <1>6. CASE UNCHANGED vars
    BY <1>6 DEF vars, Apart
  <1> QED
    BY <1>1, <1>2, <1>3, <1>4, <1>5, <1>6 DEF Next, Client

----------------------------------------------------------------------------
Standing == Typed /\ Waiters /\ Apart

LEMMA StandingInit ==
  Init => Standing
  BY TypedInit DEF Init, Standing, Waiters, Apart

LEMMA StandingNext ==
  Standing /\ [Next]_vars => Standing'
  BY TypedNext, WaitersNext, ApartNext DEF Standing

(* Every variable keeps its type, and no two processes ever serve one      *)
(* stream: a new stream never has an identity that somebody still holds,   *)
(* across restarts of the server too.                                      *)
THEOREM TypeCorrect ==
  Spec => []TypeOK
  <1>1. Standing => TypeOK
    <2> SUFFICES ASSUME Typed, Waiters, Apart PROVE TypeOK
      BY DEF Standing
    <2>1. ASSUME NEW p \in Procs
          PROVE  /\ proc[p].pc \in Pcs
                 /\ proc[p].epoch \in Nat /\ proc[p].base \in Initial .. Ceiling
                 /\ proc[p].stop \in {"no", "set", "told"} /\ proc[p].lasted \in BOOLEAN
                 /\ proc[p].ear \in {"none", "armed", "parked", "woken"}
                 /\ proc[p].ear # "none" => Listening(p)
                 /\ (proc[p].stream # 0) <=> At(p, "serving")
                 /\ At(p, "serving") => \A q \in Procs \ {p} : proc[q].stream # proc[p].stream
      <3>1. ClientRight(proc[p]) /\ proc[p] \in Clients
        BY DEF Typed, ProcTypes
      <3>2. At(p, "serving") => \A q \in Procs \ {p} : proc[q].stream # proc[p].stream
        BY <3>1 DEF ClientRight, At, Apart
      <3> QED
        BY <3>1, <3>2 DEF ClientRight, Clients, Listening, At
    <2>2. ASSUME NEW c \in calls
          PROVE  /\ c.proc \in Procs /\ c.kind \in {"register", "connect"}
                 /\ c.waited \in BOOLEAN /\ c.changed \in BOOLEAN /\ c.epoch \in Nat
      BY DEF Typed, CallTypes, CallRight, Works
    <2>3. \A s \in streams : s.pc \in {"open", "ended", "offline"} /\ s.id # 0
      BY DEF Typed, StreamTypes, Tasks
    <2>4. row # NoRow => row.boot \in Procs /\ row.epoch \in Nat \ {0}
      BY RowKnown DEF Typed, Rows
    <2> QED
      BY <2>1, <2>2, <2>3, <2>4 DEF TypeOK, Typed, CountTypes, TroubleTypes, Apart, Pcs
  <1> QED
    BY <1>1, StandingInit, StandingNext, PTL DEF Spec

----------------------------------------------------------------------------
(* The fence.  As long as no two processes' calls were at work at once,    *)
(* the row is the last registration written, and whoever has read it       *)
(* is still to be given what it says.                                      *)
Mixed == \E m \in met : Cardinality(m) > 1

Lone == \A c, d \in calls : c.proc = d.proc

RowIsLast ==
  /\ row = NoRow <=> issued = {}
  /\ row # NoRow => /\ [proc |-> row.boot, epoch |-> row.epoch] \in issued
                    /\ row.uid = said[row.boot].uid
                    /\ \A x \in issued : x.epoch <= row.epoch

Announced == \A c \in calls : c.pc \in {"hash", "row"} => c.epoch = NextEpoch(c.proc)

Fences ==
  \A x, y \in issued : x.epoch <= y.epoch =>
    \/ x = y
    \/ /\ x.epoch < y.epoch
       /\ x.proc = y.proc => \E z \in issued : /\ z.proc # x.proc
                                                /\ x.epoch < z.epoch /\ z.epoch < y.epoch

Fenced == ~Mixed => Lone /\ RowIsLast /\ Announced /\ Fences

RowKept ==
  /\ row = NoRow <=> row' = NoRow
  /\ row # NoRow => row'.boot = row.boot /\ row'.uid = row.uid /\ row'.epoch = row.epoch

CallsFrom ==
  \A d \in calls' : \E c \in calls :
    /\ d.proc = c.proc
    /\ d.pc \in {"hash", "row"} => \/ d.epoch = NextEpoch(d.proc)
                                   \/ c.pc \in {"hash", "row"} /\ d.epoch = c.epoch

LEMMA NextEpochKept ==
  ASSUME RowKept, said' = said, NEW p
  PROVE  NextEpoch(p)' = NextEpoch(p)
  BY DEF RowKept, NextEpoch

LEMMA MixedStays ==
  ASSUME met \subseteq met', Mixed
  PROVE  Mixed'
  BY DEF Mixed

LEMMA FencedKept ==
  ASSUME Fenced, RowKept, CallsFrom, said' = said, issued' = issued, met \subseteq met'
  PROVE  Fenced'
  <1> SUFFICES ASSUME ~Mixed, Lone, RowIsLast, Announced, Fences
               PROVE  (Lone /\ RowIsLast /\ Announced /\ Fences)'
    BY MixedStays DEF Fenced
  <1>1. Lone'
    BY DEF Lone, CallsFrom
  <1>2. RowIsLast'
    BY DEF RowIsLast, RowKept
  <1>3. \A d \in calls' : d.pc \in {"hash", "row"} => d.epoch = NextEpoch(d.proc)
    BY DEF CallsFrom, Announced
  <1>4. Announced'
    BY <1>3, NextEpochKept DEF Announced
  <1>5. Fences'
    BY DEF Fences
  <1> QED
    BY <1>1, <1>2, <1>4, <1>5

LEMMA EnterFenced ==
  ASSUME Fenced, NEW p, NEW k, Enter(Call(p, k)), row' = row, said' = said, issued' = issued
  PROVE  Fenced'
  <1>1. PICK c : c = Call(p, k)
    OBVIOUS
  <1>2. /\ c.proc = p /\ c.pc = "read" /\ calls' = calls \cup {c}
        /\ met' = met \cup {{c.proc, d.proc} : d \in calls}
    BY <1>1 DEF Call, Enter
  <1> SUFFICES ASSUME ~Mixed'
               PROVE  (Lone /\ RowIsLast /\ Announced /\ Fences)'
    BY DEF Fenced
  <1>3. Lone /\ RowIsLast /\ Announced /\ Fences
    BY <1>2, MixedStays DEF Fenced
  <1>4. ASSUME NEW d \in calls
        PROVE  d.proc = p
    <2> SUFFICES ASSUME d.proc # p PROVE FALSE
      OBVIOUS
    <2> DEFINE m == {c.proc, d.proc}
    <2>1. m \in met'
      BY <1>2
    <2>2. IsFiniteSet({c.proc}) /\ Cardinality({c.proc}) = 1
      BY FS_Singleton
    <2>3. Cardinality({c.proc} \cup {d.proc}) = 2
      <3> DEFINE S == {c.proc}
      <3>1. IsFiniteSet(S) /\ Cardinality(S) = 1 /\ d.proc \notin S
        BY <1>2, <2>2
      <3> HIDE DEF S
      <3>2. Cardinality(S \cup {d.proc}) = Cardinality(S) + 1
        BY <3>1, FS_AddElement
      <3>3. Cardinality(S \cup {d.proc}) = 2
        BY <3>1, <3>2
      <3> QED
        BY <3>3 DEF S
    <2>4. m = {c.proc} \cup {d.proc}
      OBVIOUS
    <2> QED
      BY <2>1, <2>3, <2>4 DEF Mixed
  <1>5. Lone'
    BY <1>2, <1>4 DEF Lone
  <1>6. RowIsLast' /\ Fences'
    BY <1>3 DEF RowIsLast, Fences
  <1>7. Announced'
    <2>1. \A q : NextEpoch(q)' = NextEpoch(q)
      BY DEF NextEpoch
    <2> QED
      BY <1>2, <1>3, <2>1 DEF Announced
  <1> QED
    BY <1>5, <1>6, <1>7

(* The row is written: the same process again, or the next epoch.          *)
LEMMA WriteRowFenced ==
  ASSUME Typed, Fenced, NEW c \in calls, WriteRow(c)
  PROVE  Fenced'
  <1>1. said' = said /\ met' = met
    BY DEF WriteRow
  <1> SUFFICES ASSUME ~Mixed, Lone, RowIsLast, Announced, Fences
               PROVE  (Lone /\ RowIsLast /\ Announced /\ Fences)'
    BY <1>1 DEF Fenced, Mixed
  <1>2. c.epoch = NextEpoch(c.proc) /\ c.epoch \in Nat \ {0} /\ c.proc \in Procs
    BY WriteRowCall DEF Announced, CallRight, Works
  <1>3. ASSUME NEW x \in issued
        PROVE  /\ x.epoch \in Nat \ {0} /\ x.proc \in Procs
               /\ x = [proc |-> x.proc, epoch |-> x.epoch]
    BY DEF Typed, IssuedTypes
  <1>4. CASE calls' = calls \ {c} /\ row' = row /\ issued' = issued
    <2>1. CallsFrom /\ RowKept
      BY <1>4 DEF CallsFrom, RowKept
    <2> QED
      BY <1>1, <1>4, <2>1, FencedKept DEF Fenced, Mixed
  <1>5. ASSUME NEW d, Becomes(c, d), d.proc = c.proc, d.pc \notin {"hash", "row"},
               row' \in Rows, row'.boot = c.proc, row'.uid = said[c.proc].uid,
               row'.epoch = c.epoch,
               issued' = issued \cup {[proc |-> c.proc, epoch |-> c.epoch]}
        PROVE  (Lone /\ RowIsLast /\ Announced /\ Fences)'
    <2>1. Lone' /\ \A e \in calls' : e.proc = c.proc
      BY <1>5 DEF Lone, Becomes
    <2>2. row' # NoRow
      BY <1>5, RegistryAssumption DEF Rows, NoRow
    <2>3. \A x \in issued : x.epoch <= c.epoch
      <3>1. CASE row = NoRow
        BY <3>1 DEF RowIsLast
      <3>2. CASE row # NoRow
        <4>1. row.epoch \in Nat /\ c.epoch \in {row.epoch, row.epoch + 1}
          BY <1>2, <3>2, RowKnown DEF NextEpoch, Typed, Rows
        <4> QED
          BY <1>3, <3>2, <4>1 DEF RowIsLast
      <3> QED
        BY <3>1, <3>2
    <2>4. RowIsLast'
      <3> DEFINE w == [proc |-> c.proc, epoch |-> c.epoch]
      <3>1. w = [proc |-> row'.boot, epoch |-> row'.epoch] /\ w \in issued' /\ w.epoch = c.epoch
        BY <1>5
      <3>2. \A x \in issued' : x = w \/ x \in issued
        BY <1>5
      <3> HIDE DEF w
      <3>3. \A x \in issued' : x.epoch <= row'.epoch
        BY <1>2, <1>5, <2>3, <3>1, <3>2
      <3>4. row'.uid = said'[row'.boot].uid
        BY <1>1, <1>5
      <3> QED
        BY <2>2, <3>1, <3>3, <3>4 DEF RowIsLast
    <2>5. Announced'
      <3>1. NextEpoch(c.proc)' = c.epoch
        BY <1>1, <1>5, <2>2 DEF NextEpoch
      <3>2. \A e \in calls' : e.pc \in {"hash", "row"} => e.epoch = c.epoch
        BY <1>2, <1>5, <2>1 DEF Announced, Becomes
      <3> QED
        BY <2>1, <3>1, <3>2 DEF Announced
    <2>6. Fences'
      <3> DEFINE w == [proc |-> c.proc, epoch |-> c.epoch]
      <3>1. CASE w \in issued
        <4>1. issued' = issued
          BY <1>5, <3>1
        <4> QED
          BY <4>1 DEF Fences
      <3>2. CASE row = NoRow
        <4>1. issued' = {w}
          BY <1>5, <3>2 DEF RowIsLast
        <4> QED
          BY <4>1 DEF Fences
      <3>3. CASE w \notin issued /\ row # NoRow
        <4>1. row \in Rows /\ row.epoch \in Nat
          BY <3>3, RowKnown DEF Typed, Rows
        <4>2. row.boot # c.proc /\ c.epoch = row.epoch + 1
          BY <1>2, <3>3 DEF RowIsLast, NextEpoch
        <4> DEFINE z == [proc |-> row.boot, epoch |-> row.epoch]
        <4>3. z \in issued /\ z.proc = row.boot /\ z.epoch = row.epoch
          BY <3>3 DEF RowIsLast
        <4>4. w.proc = c.proc /\ w.epoch = c.epoch
          OBVIOUS
        <4> HIDE DEF w, z
        <4>5. ASSUME NEW x \in issued
              PROVE  /\ x.epoch < w.epoch
                     /\ x.proc = w.proc => /\ z.proc # x.proc
                                           /\ x.epoch < z.epoch /\ z.epoch < w.epoch
          <5>1. x.epoch <= row.epoch /\ x.epoch \in Nat
            BY <1>3, <3>3 DEF RowIsLast
          <5>2. x.proc = w.proc => x.epoch < z.epoch
            BY <4>2, <4>3, <4>4, <5>1 DEF Fences
          <5> QED
            BY <4>1, <4>2, <4>3, <4>4, <5>1, <5>2
        <4>6. issued' = issued \cup {w}
          BY <1>5 DEF w
        <4>7. w.epoch \in Nat /\ \A x \in issued : x.epoch \in Nat
          BY <1>2, <1>3, <4>4
        <4>8. ASSUME NEW x \in issued', NEW y \in issued', x.epoch <= y.epoch
              PROVE  \/ x = y
                     \/ /\ x.epoch < y.epoch
                        /\ x.proc = y.proc => \E v \in issued' :
                             /\ v.proc # x.proc
                             /\ x.epoch < v.epoch /\ v.epoch < y.epoch
          <5>1. CASE x \in issued /\ y \in issued
            BY <4>6, <4>8, <5>1 DEF Fences
          <5>2. CASE x \in issued /\ y = w
            BY <4>3, <4>5, <4>6, <5>2
          <5>3. CASE x = w /\ y \in issued
            BY <4>5, <4>7, <4>8, <5>3
          <5>4. CASE x = w /\ y = w
            BY <5>4
          <5> QED
            BY <4>6, <5>1, <5>2, <5>3, <5>4
        <4> QED
          BY <4>8 DEF Fences
      <3> QED
        BY <3>1, <3>2, <3>3
    <2> QED
      BY <2>1, <2>4, <2>5, <2>6
  <1>6. \/ calls' = calls \ {c} /\ row' = row /\ issued' = issued
        \/ /\ \E d : Becomes(c, d) /\ d.proc = c.proc /\ d.pc \in {"history", "lease"}
           /\ row' \in Rows /\ row'.boot = c.proc /\ row'.uid = said[c.proc].uid
           /\ row'.epoch = c.epoch
           /\ issued' = issued \cup {[proc |-> c.proc, epoch |-> c.epoch]}
    BY WriteRowCall
  <1> QED
    BY <1>4, <1>5, <1>6

LEMMA FencedNext ==
  ASSUME Standing, Fenced, [Next]_vars
  PROVE  Fenced'
  <1> USE DEF Standing
  <1>a. ASSUME calls' \subseteq calls
        PROVE  CallsFrom
    BY <1>a DEF CallsFrom
  <1>b. row' = row => RowKept
    BY DEF RowKept
  <1>c. ASSUME NEW c \in calls, NEW d, Becomes(c, d), d.proc = c.proc,
               d.pc \in {"hash", "row"} => \/ d.epoch = NextEpoch(d.proc)
                                           \/ c.pc = "hash" /\ d.epoch = c.epoch
        PROVE  CallsFrom
    BY <1>c DEF CallsFrom, Becomes
  <1>d. ASSUME NEW p, calls' = Deserted(p)
        PROVE  CallsFrom
    <2>1. \A c \in calls : c \in Works
      BY DEF Typed, CallTypes, CallRight
    <2>2. \A d \in calls' : \E c \in calls :
             d.proc = c.proc /\ d.pc = c.pc /\ d.epoch = c.epoch
      BY <1>d, <2>1 DEF Deserted, Works
    <2> QED
      BY <2>2 DEF CallsFrom
  <1>1. ASSUME NEW p \in Procs,
               \/ CallFails(p) \/ StreamCloses(p) \/ Arm(p) \/ Look(p) \/ Leave(p) \/ Wake(p)
               \/ Lasts(p) \/ Message(p) \/ StopSet(p) \/ StopNotify(p)
               \/ Start(p) \/ Dial(p) \/ Recover(p) \/ Cut(p) \/ Die(p)
        PROVE  Fenced'
    <2>1. row' = row /\ said' = said /\ issued' = issued
      BY <1>1 DEF CallFails, StreamCloses, Arm, Look, Leave, Wake, Lasts, Message, StopSet,
                  StopNotify, Start, Dial, Recover, Cut, Die, Hears, history
    <2>2. \/ calls' = calls /\ met' = met
          \/ \E k \in {"register", "connect"} : Enter(Call(p, k))
          \/ calls' = Deserted(p) /\ met' = met
      BY <1>1 DEF CallFails, StreamCloses, Arm, Look, Leave, Wake, Lasts, Message, StopSet,
                  StopNotify, Start, Dial, Recover, Cut, Die, Hears, history
    <2>3. CASE calls' = calls /\ met' = met
      BY <1>a, <1>b, <2>1, <2>3, FencedKept
    <2>4. CASE \E k \in {"register", "connect"} : Enter(Call(p, k))
      BY <2>1, <2>4, EnterFenced
    <2>5. CASE calls' = Deserted(p) /\ met' = met
      BY <1>b, <1>d, <2>1, <2>5, FencedKept
    <2> QED
      BY <2>2, <2>3, <2>4, <2>5
  <1>2. ASSUME NEW c \in calls, Handle(c), ~WriteRow(c)
        PROVE  Fenced'
    <2>1. said' = said /\ issued' = issued /\ met' = met
      BY <1>2 DEF Handle, ReadInstance, ReadHash, WriteHistory, WriteLease, ReadEpoch, Insert,
                  Admit, history
    <2>2. RowKept
      <3>1. CASE Admit(c)
        BY <1>b, <3>1, StatusKept DEF Admit, Typed, RowKept
      <3>2. CASE ~Admit(c)
        BY <1>2, <1>b, <3>2 DEF Handle, ReadInstance, ReadHash, WriteHistory, WriteLease,
                                ReadEpoch, Insert
      <3> QED
        BY <3>1, <3>2
    <2>3. CallsFrom
      <3>1. CASE ReadInstance(c)
        BY <1>a, <1>c, <3>1, ReadInstanceCall
      <3>2. CASE ReadHash(c)
        BY <1>c, <3>2, ReadHashCall
      <3>3. CASE WriteHistory(c)
        BY <1>a, <1>c, <3>3, WriteHistoryCall DEF Fails
      <3>4. CASE WriteLease(c)
        BY <1>a, <3>4 DEF WriteLease, Fails
      <3>5. CASE ReadEpoch(c)
        BY <1>a, <1>c, <3>5, ReadEpochCall DEF Fails
      <3>6. CASE Insert(c)
        BY <1>c, <3>6, InsertCall
      <3>7. CASE Admit(c)
        BY <1>a, <3>7 DEF Admit
      <3> QED
        BY <1>2, <3>1, <3>2, <3>3, <3>4, <3>5, <3>6, <3>7 DEF Handle
    <2> QED
      BY <2>1, <2>2, <2>3, FencedKept
  <1>3. ASSUME NEW c \in calls, DropCall(c)
        PROVE  Fenced'
    BY <1>3, <1>a, <1>b, FencedKept DEF DropCall, Fails
  <1>4. ASSUME NEW s \in streams, Reader(s)
        PROVE  Fenced'
    <2>1. RowKept
      <3>1. CASE SetOffline(s)
        BY <1>b, <3>1, StatusKept DEF SetOffline, Typed, RowKept
      <3> QED
        BY <1>4, <1>b, <3>1 DEF Reader, EndStream, Disconnect
    <2>2. calls' = calls /\ said' = said /\ issued' = issued /\ met' = met
      BY <1>4 DEF Reader, EndStream, Disconnect, SetOffline, history
    <2> QED
      BY <1>a, <2>1, <2>2, FencedKept
  <1>5. CASE ServerRestarts
    BY <1>5, <1>a, <1>b, FencedKept DEF ServerRestarts
  <1>6. CASE UNCHANGED vars
    BY <1>6, <1>a, <1>b, FencedKept DEF vars, history
  <1> QED
    BY <1>1, <1>2, <1>3, <1>4, <1>5, <1>6, WriteRowFenced DEF Next, Client

(* The fence holds: as long as two processes of one agent never have calls *)
(* at work at once, no two of them are given one epoch, and none takes a   *)
(* new one unless another came in between.                                 *)
THEOREM EpochsFence ==
  Spec => []EpochFences
  <1>1. Init => Fenced
    BY DEF Init, Fenced, Lone, RowIsLast, Announced, Fences
  <1>2. Standing /\ Fenced /\ [Next]_vars => Fenced'
    BY FencedNext
  <1>3. Fenced => EpochFences
    BY DEF Fenced, Mixed, Fences, EpochFences
  <1> QED
    BY <1>1, <1>2, <1>3, StandingInit, StandingNext, PTL DEF Spec

----------------------------------------------------------------------------
(* The pause.                                                              *)
LEMMA PartOfHalf ==
  ASSUME NEW half \in Nat, NEW W \in Nat \ {0}, NEW h \in 0 .. W - 1
  PROVE  /\ ((half * h) % (W * W)) \div W \in Nat
         /\ ((half * h) % (W * W)) \div W <= half
  <1> DEFINE x == half * h
             r == x % (W * W)
             d == r \div W
  <1>1. x \in Nat /\ x <= half * W
    <2>1. PICK g \in Nat : W = h + g
      <3>1. W - h \in Nat /\ W = h + (W - h)
        OBVIOUS
      <3> QED
        BY <3>1
    <2>2. half * W = half * h + half * g /\ half * g \in Nat /\ half * h \in Nat
      BY <2>1
    <2> QED
      BY <2>2
  <1>2. W * W \in Nat /\ W * W > 0
    OBVIOUS
  <1> HIDE DEF x
  <1>3. r \in Nat /\ r <= x
    <2> DEFINE V == W * W
    <2>1. V \in Nat \ {0}
      BY <1>2
    <2> HIDE DEF V
    <2>2. x % V \in Nat /\ x % V <= x
      BY <1>1, <2>1
    <2> QED
      BY <2>2 DEF V
  <1> HIDE DEF r
  <1>4. d \in Nat /\ d * W <= r
    BY <1>3
  <1> HIDE DEF d
  <1>5. d <= half
    <2> SUFFICES ASSUME d > half PROVE FALSE
      BY <1>4
    <2>1. PICK g \in Nat : d = half + 1 + g
      <3>1. d - half - 1 \in Nat /\ d = half + 1 + (d - half - 1)
        BY <1>4
      <3> QED
        BY <3>1
    <2>2. d * W = half * W + W + g * W /\ g * W \in Nat /\ half * W \in Nat /\ d * W \in Nat
      BY <2>1
    <2> QED
      BY <1>1, <1>3, <1>4, <2>2
  <1> QED
    BY <1>4, <1>5 DEF d, r, x

LEMMA DelayBounds ==
  ASSUME NEW m \in Nat, m % 2 = 0, NEW h \in 0 .. HalfWord - 1
  PROVE  Delay(m, h) \in Nat /\ Delay(m, h) <= m /\ 2 * Delay(m, h) >= m
  <1> DEFINE half == m \div 2
             part == ((half * h) % (HalfWord * HalfWord)) \div HalfWord
  <1>1. half \in Nat /\ m = 2 * half
    OBVIOUS
  <1> HIDE DEF half
  <1>2. part \in Nat /\ part <= half
    BY <1>1, PartOfHalf, RegistryAssumption
  <1>3. Delay(m, h) = half + part
    BY DEF Delay, half
  <1> HIDE DEF part
  <1> QED
    BY <1>1, <1>2, <1>3

(* Only the end of a session begins a pause.                               *)
LEMMA PauseBegins ==
  ASSUME Standing, Next, NEW p \in Procs, At(p, "backoff")', ~At(p, "backoff")
  PROVE  proc'[p] = Ended(p)
  <1>0. proc \in [Procs -> Clients] /\ \A q \in Procs : proc[q] \in Clients
    BY DEF Standing, Typed, ProcTypes
  <1>1. proc'[p].pc = "backoff" /\ proc[p].pc # "backoff"
    BY DEF At
  <1>2. ASSUME NEW q \in Procs,
               \/ CallFails(q) \/ StreamCloses(q) \/ Dial(q) \/ Cut(q) \/ Leave(q) \/ Die(q)
        PROVE  proc'[p] = Ended(p)
    <2>1. EndSession(q) => proc'[p] = Ended(p)
      BY <1>0, <1>1 DEF EndSession
    <2>2. ASSUME NEW w \in {"stopped", "dead"}, proc' = [proc EXCEPT ![q] = [Ended(q) EXCEPT !.pc = w]]
          PROVE  FALSE
      <3>1. CASE p = q
        BY <1>0, <1>1, <2>2, <3>1, GoneRight DEF Standing, Typed
      <3>2. CASE p # q
        BY <1>0, <1>1, <2>2, <3>2
      <3> QED
        BY <3>1, <3>2
    <2>3. proc' = [proc EXCEPT ![q].pc = "registering"] => FALSE
      BY <1>0, <1>1 DEF Clients
    <2> QED
      BY <1>2, <2>1, <2>2, <2>3 DEF CallFails, StreamCloses, Dial, Cut, Leave, Die
  <1>3. ASSUME NEW q \in Procs,
               \/ Recover(q) \/ Arm(q) \/ Look(q) \/ Wake(q) \/ Lasts(q) \/ Message(q)
               \/ StopSet(q) \/ StopNotify(q) \/ Start(q)
        PROVE  FALSE
    BY <1>0, <1>1, <1>3 DEF Recover, Arm, Look, Wake, Lasts, Message, StopSet, StopNotify,
                            Start, Hears, Clients
  <1>4. ASSUME NEW c \in calls, Handle(c) \/ DropCall(c)
        PROVE  FALSE
    <2>1. CASE proc' = proc
      BY <1>1, <2>1
    <2>2. CASE WriteLease(c) \/ Admit(c)
      BY <1>0, <1>1, <2>2 DEF WriteLease, Admit, Clients
    <2> QED
      BY <1>4, <2>1, <2>2
      DEF Handle, ReadInstance, ReadHash, WriteRow, WriteHistory, ReadEpoch, Insert, DropCall
  <1>5. ASSUME \/ \E s \in streams : Reader(s)
               \/ ServerRestarts
        PROVE  FALSE
    BY <1>1, <1>5 DEF Reader, EndStream, Disconnect, SetOffline, ServerRestarts
  <1> QED
    BY <1>2, <1>3, <1>4, <1>5 DEF Next, Client

(* The policy's pauses are counted in nanoseconds and given in larger      *)
(* units, so their halves are whole.                                       *)
HalvesAreWhole == Initial % 2 = 0 /\ Ceiling % 2 = 0

(* However sessions end, the next pause is at least half of twice the last *)
(* one's base, up to the ceiling, unless the session lasted, and never     *)
(* above its own base: the product's wrap at the word does not bring the   *)
(* jitter out of its half (client.rs:151-193).                             *)
THEOREM PausesGrow ==
  ASSUME HalvesAreWhole
  PROVE  Spec => BacksOff
  <1> DEFINE Grows(p) ==
        Listening(p)' /\ At(p, "backoff")' /\ ~At(p, "backoff") =>
             LET n == proc[p].base  m == proc'[p].base IN
             \A h \in 0 .. HalfWord - 1 :
                 /\ Delay(m, h) <= m /\ 2 * Delay(m, h) >= Initial
                 /\ ~proc[p].lasted => 2 * Delay(m, h) >= Least(2 * n, Ceiling)
  <1>1. ASSUME Standing, Next, NEW p \in Procs
        PROVE  Grows(p)
    <2> SUFFICES ASSUME At(p, "backoff")', ~At(p, "backoff"), NEW h \in 0 .. HalfWord - 1
                 PROVE  LET n == proc[p].base  m == proc'[p].base IN
                        /\ Delay(m, h) <= m /\ 2 * Delay(m, h) >= Initial
                        /\ ~proc[p].lasted => 2 * Delay(m, h) >= Least(2 * n, Ceiling)
      OBVIOUS
    <2>1. PICK n \in Initial .. Ceiling : n = proc[p].base
      BY <1>1 DEF Standing, Typed, ProcTypes, Clients
    <2>2. PICK m : m = proc'[p].base
      OBVIOUS
    <2>3. m = IF proc[p].lasted THEN Initial ELSE Doubled(n)
      BY <1>1, <2>1, <2>2, PauseBegins, EndedRight DEF Standing, Typed
    <2>4. /\ m \in Nat /\ m % 2 = 0 /\ m >= Initial
          /\ ~proc[p].lasted => m = Least(2 * n, Ceiling)
      BY <2>1, <2>3, RegistryAssumption DEF HalvesAreWhole, Doubled, Least
    <2>5. Delay(m, h) \in Nat /\ Delay(m, h) <= m /\ 2 * Delay(m, h) >= m
      BY <2>4, DelayBounds
    <2>6. 2 * Delay(m, h) >= Initial
      BY <2>4, <2>5, RegistryAssumption
    <2> QED
      BY <2>1, <2>2, <2>4, <2>5, <2>6
  <1>2. Standing /\ [Next]_vars => [\A p \in Procs : Grows(p)]_vars
    BY <1>1
  <1> QED
    BY <1>2, StandingInit, StandingNext, PTL DEF Spec, BacksOff
=============================================================================
