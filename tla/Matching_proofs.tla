-------------------------- MODULE Matching_proofs --------------------------
(***************************************************************************)
(* Proofs about Matching, for any jobs, agents, limits and schedule.       *)
(*                                                                         *)
(* Three layers: Typed; Waits, what a tick's rows say of the jobs; Covered,*)
(* that a tick reads every job an agent holds before it rebuilds the       *)
(* ledger, that the ledger covers what the agents hold and are to get, and *)
(* that this fits the limits.  The last needs that no read is cut off at   *)
(* the window: a held job that a read leaves out has no permit, and its    *)
(* slot is given away a second time.                                       *)
(*                                                                         *)
(* That a stopped agent gets nothing is apart from these: it rests on what *)
(* the schedule's windows cover (CoversIsWithin) and on which of them      *)
(* decides (StoppedHasNone).                                               *)
(***************************************************************************)
EXTENDS Matching, FiniteSetTheorems, WellFoundedInduction, TLAPS

JobRows == [state : States \cup {"Absent"}, agent : Agents \cup {0},
            attempt : 0 .. MaxAttempts - 1]
Phases == {"idle", "reconcile", "queue", "read", "dispatch"}
Reads == [job : Jobs, agent : Agents]
Losses == [job : Jobs, from : States]

Typed == TypeOK /\ \A j \in Jobs : Held(j) => job[j].agent \in Agents

(* What waits for a place is still as it was read, and waits once.  What   *)
(* cannot be placed is never held.                                         *)
WhereItWaits ==
  /\ tick.at \in {"idle", "reconcile"} => tick.queue = {}
  /\ tick.at # "dispatch" => tick.chosen = {}
  /\ tick.at \in {"idle", "reconcile", "queue"} => tick.reads = 0

WaitsAsRead ==
  /\ \A q \in tick.queue : job[q.job].state = q.from
  /\ \A x \in tick.chosen :
       /\ job[x.job].state = x.from /\ x.agent \in tick.fleet
       /\ \A q \in tick.queue : q.job # x.job
       /\ \A y \in tick.chosen : y.job = x.job => y = x

StuckStay == \A j \in Stuck : ~Held(j)

Waits == WhereItWaits /\ WaitsAsRead /\ StuckStay

(* A held job is read, or in a state still to be read: jobs only move on   *)
(* in the order in which the states are read.                              *)
Unread(s) == \E i \in tick.reads + 1 .. 4 : HeldOrder[i] = s

ReadsFind ==
  tick.at = "read" =>
    \A j \in Jobs : Held(j) => \/ [job |-> j, agent |-> job[j].agent] \in tick.seen
                               \/ Unread(job[j].state)

(* What an agent holds, and what it is to get.                             *)
Promised(a) == {x.job : x \in {y \in tick.chosen : y.agent = a}}
Booked(a) == HeldBy(a) \cup Promised(a)

LedgerCovers == tick.at = "dispatch" => \A a \in tick.fleet : Booked(a) \subseteq held[a]

Like(S, c) == {i \in S : Class[i] = c}

Fits(S) ==
  /\ Cardinality(S) <= Slots
  /\ \A j \in S : Cardinality(Like(S, Class[j])) <= ClassSlots[Class[j]]
  /\ Cardinality(S \cap Large) <= LargeSlots

Covered == ReadsFind /\ LedgerCovers /\ \A a \in Agents : Fits(Booked(a))

(* No read of held jobs is cut off at the window.                          *)
NothingCutOff ==
  \A i \in 1 .. 4 : Cardinality({j \in Jobs : job[j].state = HeldOrder[i]}) <= QueueWindow

----------------------------------------------------------------------------
(* The four states, in the order they are read.                            *)
LEMMA HeldStates ==
  /\ Len(HeldOrder) = 4
  /\ HeldOrder[1] = "Assigned" /\ HeldOrder[2] = "Running"
  /\ HeldOrder[3] = "Verifying" /\ HeldOrder[4] = "Committing"
  BY DEF HeldOrder

(* What a write of one row does.                                           *)
LEMMA PutMeans ==
  ASSUME TypeOK, NEW j \in Jobs, NEW s \in States \cup {"Absent"},
         NEW a \in Agents \cup {0}, Put(j, s, a)
  PROVE  /\ job' \in [Jobs -> JobRows]
         /\ job'[j].state = s /\ job'[j].agent = a
         /\ \A i \in Jobs \ {j} : job'[i] = job[i]
  <1>1. job \in [Jobs -> JobRows]
    BY DEF TypeOK, JobRows
  <1>2. job[j] \in JobRows
    BY <1>1
  <1> DEFINE y == [job[j] EXCEPT !.state = s, !.agent = a]
  <1>3. y \in JobRows /\ y.state = s /\ y.agent = a
    BY <1>2 DEF JobRows
  <1>4. job' = [job EXCEPT ![j] = y]
    BY <1>1 DEF Put
  <1> HIDE DEF y
  <1> QED
    BY <1>1, <1>3, <1>4

LEMMA AgainMeans ==
  ASSUME TypeOK, NEW j \in Jobs, Again(j)
  PROVE  /\ job' \in [Jobs -> JobRows]
         /\ job'[j].state \in {"Eligible", "DeadLettered"}
         /\ \A i \in Jobs \ {j} : job'[i] = job[i]
  <1>1. job \in [Jobs -> JobRows] /\ MaxAttempts \in Nat
    BY MatchingAssumption DEF TypeOK, JobRows
  <1>2. job[j] \in JobRows
    BY <1>1
  <1> DEFINE n == job[j].attempt + 1
             y == [state |-> "Eligible", agent |-> 0, attempt |-> n]
  <1>3. job[j].attempt \in 0 .. MaxAttempts - 1
    BY <1>2 DEF JobRows
  <1>4. CASE n < MaxAttempts
    <2>1. n \in 0 .. MaxAttempts - 1
      BY <1>1, <1>3, <1>4
    <2>2. y \in JobRows /\ y.state = "Eligible"
      <3> HIDE DEF n
      <3> QED
        BY <2>1 DEF JobRows, States
    <2>3. job' = [job EXCEPT ![j] = y]
      BY <1>4 DEF Again
    <2> HIDE DEF y
    <2> QED
      BY <1>1, <2>2, <2>3
  <1>5. CASE ~(n < MaxAttempts)
    <2>1. Put(j, "DeadLettered", 0)
      BY <1>5 DEF Again
    <2>2. "DeadLettered" \in States
      BY DEF States, Terminal
    <2> QED
      BY <2>1, <2>2, PutMeans
  <1> QED
    BY <1>4, <1>5

(* Only a placement makes a job held; otherwise jobs let go of their       *)
(* agents, or keep them and move on.                                       *)
GoesOn ==
  \A j \in Jobs : HoldsCapacity(job'[j].state) =>
    /\ Held(j) /\ job'[j].agent = job[j].agent
    /\ Unread(job[j].state) => Unread(job'[j].state)
    /\ job'[j].state = "Assigned" => job[j].state = "Assigned"

QueuedStay == \A j \in Jobs : Queued(j) => job'[j].state = job[j].state

LEMMA MovesOnwards ==
  ASSUME TypeOK, NEW m \in Moves
  PROVE  /\ m[1] \in States /\ m[2] \in States /\ HoldsCapacity(m[1]) /\ HoldsCapacity(m[2])
         /\ Unread(m[1]) => Unread(m[2])
         /\ m[2] # "Assigned"
  <1>1. tick.reads \in Nat
    BY DEF TypeOK, HeldOrder
  <1>2. \/ m[1] = "Assigned" /\ m[2] = "Running"
        \/ m[1] = "Running" /\ m[2] = "Verifying"
        \/ m[1] = "Verifying" /\ m[2] = "Committing"
    BY DEF Moves
  <1>3. \A i \in 1 .. 4 : \A k \in 1 .. 4 : HeldOrder[i] = HeldOrder[k] => i = k
    BY DEF HeldOrder
  <1>4. ASSUME Unread(m[1]) PROVE Unread(m[2])
    <2>1. PICK i \in tick.reads + 1 .. 4 : HeldOrder[i] = m[1]
      BY <1>4 DEF Unread
    <2>2. i \in 1 .. 3 /\ HeldOrder[i + 1] = m[2]
      BY <1>1, <1>2, <1>3, <2>1, HeldStates
    <2>3. i + 1 \in tick.reads + 1 .. 4
      BY <1>1, <2>1, <2>2
    <2> QED
      BY <2>2, <2>3 DEF Unread
  <1> QED
    BY <1>2, <1>4 DEF States, HoldsCapacity

LEMMA AdvanceGoesOn ==
  ASSUME Typed, NEW j \in Jobs, Advance(j)
  PROVE  job' \in [Jobs -> JobRows] /\ GoesOn /\ QueuedStay
  <1>1. TypeOK /\ job[j] \in JobRows /\ Held(j)
    BY DEF Typed, TypeOK, JobRows, Advance
  <1>2. job[j].agent \in Agents \cup {0} /\ ~Queued(j)
    BY <1>1 DEF JobRows, Held, HoldsCapacity, Queued
  <1>3. ASSUME NEW s \in States \cup {"Absent"}, ~HoldsCapacity(s),
               job' \in [Jobs -> JobRows], job'[j].state = s,
               \A i \in Jobs \ {j} : job'[i] = job[i]
        PROVE  job' \in [Jobs -> JobRows] /\ GoesOn /\ QueuedStay
    BY <1>2, <1>3, Zenon DEF GoesOn, QueuedStay, Held
  <1>4. CASE \E m \in Moves : job[j].state = m[1] /\ Put(j, m[2], job[j].agent)
    <2>1. PICK m \in Moves : job[j].state = m[1] /\ Put(j, m[2], job[j].agent)
      BY <1>4
    <2>2. /\ m[1] \in States /\ m[2] \in States /\ HoldsCapacity(m[1])
          /\ Unread(m[1]) => Unread(m[2])
          /\ m[2] # "Assigned"
      BY <1>1, MovesOnwards
    <2>3. /\ job' \in [Jobs -> JobRows]
          /\ job'[j].state = m[2] /\ job'[j].agent = job[j].agent
          /\ \A i \in Jobs \ {j} : job'[i] = job[i]
      BY <1>1, <1>2, <2>1, <2>2, PutMeans
    <2>4. ASSUME NEW i \in Jobs, HoldsCapacity(job'[i].state)
          PROVE  /\ Held(i) /\ job'[i].agent = job[i].agent
                 /\ Unread(job[i].state) => Unread(job'[i].state)
                 /\ job'[i].state = "Assigned" => job[i].state = "Assigned"
      <3>1. CASE i = j
        BY <1>1, <2>1, <2>2, <2>3, <3>1, Zenon
      <3>2. CASE i # j
        <4>1. job'[i] = job[i]
          BY <2>3, <3>2
        <4> QED
          BY <2>4, <4>1, Zenon DEF Held
      <3> QED
        BY <3>1, <3>2
    <2>5. QueuedStay
      BY <1>2, <2>3, Zenon DEF QueuedStay
    <2> QED
      BY <2>3, <2>4, <2>5 DEF GoesOn
  <1>5. CASE Put(j, "Succeeded", 0)
    <2>1. "Succeeded" \in States /\ ~HoldsCapacity("Succeeded")
      BY DEF States, Terminal, HoldsCapacity
    <2> QED
      BY <1>1, <1>3, <1>5, <2>1, PutMeans
  <1>6. CASE Again(j)
    <2>1. /\ job' \in [Jobs -> JobRows]
          /\ job'[j].state \in {"Eligible", "DeadLettered"}
          /\ \A i \in Jobs \ {j} : job'[i] = job[i]
      BY <1>1, <1>6, AgainMeans
    <2>2. job'[j].state \in States \cup {"Absent"} /\ ~HoldsCapacity(job'[j].state)
      BY <2>1 DEF States, Terminal, HoldsCapacity
    <2> QED
      BY <1>3, <2>1, <2>2
  <1> QED
    BY <1>4, <1>5, <1>6 DEF Advance

LEMMA CreateGoesOn ==
  ASSUME Typed, NEW j \in Jobs, Create(j)
  PROVE  job' \in [Jobs -> JobRows] /\ GoesOn /\ QueuedStay
  <1>1. TypeOK /\ job[j].state = "Absent" /\ Put(j, "Pending", 0)
    BY DEF Typed, Create
  <1>2. "Pending" \in States /\ ~HoldsCapacity("Pending") /\ ~Queued(j)
    BY <1>1 DEF States, HoldsCapacity, Queued
  <1>3. /\ job' \in [Jobs -> JobRows] /\ job'[j].state = "Pending"
        /\ \A i \in Jobs \ {j} : job'[i] = job[i]
    BY <1>1, <1>2, PutMeans
  <1> QED
    BY <1>2, <1>3, Zenon DEF GoesOn, QueuedStay, Held

LEMMA SameGoesOn ==
  ASSUME Typed, job' = job
  PROVE  job' \in [Jobs -> JobRows] /\ GoesOn /\ QueuedStay
  <1>1. job \in [Jobs -> JobRows]
    BY DEF Typed, TypeOK, JobRows
  <1> QED
    BY <1>1, Zenon DEF GoesOn, QueuedStay, Held

(* Another attempt, or what is for an operator: a tick's own letting go.   *)
LEMMA AgainGoesOn ==
  ASSUME Typed, NEW j \in Jobs, Again(j)
  PROVE  job' \in [Jobs -> JobRows] /\ GoesOn /\ ~HoldsCapacity(job'[j].state)
         /\ \A i \in Jobs \ {j} : job'[i] = job[i]
  <1>1. /\ job' \in [Jobs -> JobRows]
        /\ job'[j].state \in {"Eligible", "DeadLettered"}
        /\ \A i \in Jobs \ {j} : job'[i] = job[i]
    BY AgainMeans DEF Typed
  <1>2. ~HoldsCapacity(job'[j].state)
    BY <1>1 DEF HoldsCapacity
  <1> QED
    BY <1>1, <1>2, Zenon DEF GoesOn, Held

LEMMA ReclaimGoesOn ==
  ASSUME Typed, NEW x \in tick.lost, Reclaim(x)
  PROVE  job' \in [Jobs -> JobRows] /\ GoesOn
  <1>1. x.job \in Jobs
    BY DEF Typed, TypeOK
  <1>2. CASE job' = job
    BY <1>2, SameGoesOn
  <1>3. CASE Put(x.job, "NeedsOperator", 0)
    <2>1. "NeedsOperator" \in States /\ ~HoldsCapacity("NeedsOperator")
      BY DEF States, Terminal, HoldsCapacity
    <2>2. /\ job' \in [Jobs -> JobRows] /\ job'[x.job].state = "NeedsOperator"
          /\ \A i \in Jobs \ {x.job} : job'[i] = job[i]
      BY <1>1, <1>3, <2>1, PutMeans DEF Typed
    <2> QED
      BY <2>1, <2>2, Zenon DEF GoesOn, Held
  <1>4. CASE Again(x.job)
    BY <1>1, <1>4, AgainGoesOn
  <1> QED
    BY <1>2, <1>3, <1>4 DEF Reclaim

----------------------------------------------------------------------------
(* The types.                                                              *)
Ticks ==
  [at : Phases, lost : SUBSET Losses, queue : SUBSET QueueRows, fleet : SUBSET Agents,
   reads : 0 .. 4, seen : SUBSET Reads, chosen : SUBSET Placements, asked : 0 .. MaxNow]

LEMMA TypesAre ==
  TypeOK <=> /\ job \in [Jobs -> JobRows] /\ connected \subseteq Agents
             /\ tick \in Ticks
             /\ known \subseteq Agents /\ held \in [Agents -> SUBSET Jobs]
             /\ now \in 0 .. MaxNow /\ drops \in 0 .. MaxDrops
  BY HeldStates DEF TypeOK, JobRows, Ticks, Phases, Losses, Reads

LEMMA TypesNext ==
  ASSUME job' \in [Jobs -> JobRows], (connected \subseteq Agents)', tick' \in Ticks,
         (known \subseteq Agents)', held' \in [Agents -> SUBSET Jobs],
         now' \in 0 .. MaxNow, drops' \in 0 .. MaxDrops
  PROVE  TypeOK'
  BY HeldStates DEF TypeOK, JobRows, Ticks, Phases, Losses, Reads

LEMMA IdleTick == Idle \in Ticks
  BY MatchingAssumption DEF Idle, Ticks, Phases

LEMMA UnpermittedTypes ==
  ASSUME TypeOK, NEW j
  PROVE  Unpermitted(j) \in [Agents -> SUBSET Jobs]
  BY DEF TypeOK, Unpermitted

LEMMA BeginTick ==
  ASSUME Typed, Begin
  PROVE  /\ tick' \in Ticks /\ tick'.at = "reconcile"
         /\ tick'.queue = {} /\ tick'.chosen = {} /\ tick'.reads = 0
  <1> DEFINE gone == {j \in Jobs : Held(j) /\ j \in InState(job[j].state)
                               /\ job[j].agent \notin connected}
             L == {[job |-> j, from |-> job[j].state] : j \in gone}
  <1>1. L \subseteq Losses
    <2>1. ASSUME NEW j \in gone
          PROVE  [job |-> j, from |-> job[j].state] \in Losses
      BY <2>1 DEF Losses, Held, HoldsCapacity, States
    <2> QED
      BY <2>1
  <1>2. tick' = [Idle EXCEPT !.at = "reconcile", !.lost = L]
    BY DEF Begin
  <1>3. Idle \in Ticks /\ Idle.queue = {} /\ Idle.chosen = {} /\ Idle.reads = 0
    BY IdleTick DEF Idle
  <1> HIDE DEF L
  <1> QED
    BY <1>1, <1>2, <1>3 DEF Ticks, Phases

LEMMA ReclaimTick ==
  ASSUME Typed, NEW x \in tick.lost, Reclaim(x)
  PROVE  /\ tick' \in Ticks /\ tick'.at = "reconcile"
         /\ tick'.queue = tick.queue /\ tick'.chosen = tick.chosen /\ tick'.reads = tick.reads
  <1>1. tick \in Ticks
    BY TypesAre DEF Typed
  <1> QED
    BY <1>1 DEF Reclaim, Ticks

LEMMA ReadQueueTick ==
  ASSUME Typed, ReadQueue
  PROVE  /\ tick' \in Ticks /\ tick'.at = "queue" /\ tick'.chosen = tick.chosen
         /\ tick'.reads = tick.reads
         /\ tick'.queue = {x \in QueueRows : x.from \in Dispatchable /\ x.job \in InState(x.from)}
  <1>1. tick \in Ticks
    BY TypesAre DEF Typed
  <1> DEFINE Q == {x \in QueueRows : x.from \in Dispatchable /\ x.job \in InState(x.from)}
  <1>2. Q \subseteq QueueRows
    OBVIOUS
  <1>3. tick' = [tick EXCEPT !.at = "queue", !.queue = Q]
    BY DEF ReadQueue
  <1> HIDE DEF Q
  <1>4. /\ tick' \in Ticks /\ tick'.at = "queue" /\ tick'.chosen = tick.chosen
        /\ tick'.queue = Q /\ tick'.reads = tick.reads
    BY <1>1, <1>2, <1>3 DEF Ticks, Phases
  <1> QED
    BY <1>4 DEF Q

LEMMA ReadFleetTick ==
  ASSUME Typed, ReadFleet
  PROVE  \/ tick' = Idle
         \/ /\ tick' \in Ticks /\ tick'.at = "read" /\ tick'.chosen = tick.chosen
            /\ tick'.queue = tick.queue /\ tick'.fleet = connected
            /\ tick'.reads = tick.reads /\ tick'.seen = tick.seen
  <1>1. tick \in Ticks /\ connected \subseteq Agents
    BY TypesAre DEF Typed
  <1>2. \/ tick' = Idle
        \/ tick' = [tick EXCEPT !.at = "read", !.fleet = connected]
    BY DEF ReadFleet
  <1> QED
    BY <1>1, <1>2 DEF Ticks, Phases

(* A job that in_state returns is in that state, and a held one has an     *)
(* agent.                                                                  *)
LEMMA ReadHeldTick ==
  ASSUME Typed, ReadHeld
  PROVE  /\ tick' \in Ticks /\ tick'.at = "read" /\ tick'.chosen = tick.chosen
         /\ tick'.queue = tick.queue /\ tick'.fleet = tick.fleet
         /\ tick.reads \in 0 .. 3 /\ tick'.reads = tick.reads + 1
         /\ tick'.seen = tick.seen \cup {[job |-> j, agent |-> job[j].agent] :
                                           j \in InState(HeldOrder[tick.reads + 1])}
  <1>1. tick \in Ticks /\ tick.at = "read"
    BY TypesAre DEF Typed, ReadHeld
  <1>2. tick.reads \in 0 .. 3
    BY <1>1, HeldStates DEF ReadHeld, Ticks
  <1> DEFINE n == tick.reads + 1
             S == {[job |-> j, agent |-> job[j].agent] : j \in InState(HeldOrder[tick.reads + 1])}
  <1>3. n \in 1 .. 4
    BY <1>2
  <1>4. ASSUME NEW j \in InState(HeldOrder[n])
        PROVE  j \in Jobs /\ Held(j)
    <2>1. j \in Jobs /\ job[j].state = HeldOrder[n]
      BY <1>4 DEF InState
    <2>2. HoldsCapacity(HeldOrder[n])
      BY <1>3, HeldStates DEF HoldsCapacity
    <2> QED
      BY <2>1, <2>2, Zenon DEF Held
  <1>5. S \subseteq Reads
    BY <1>4 DEF Typed, Reads
  <1>6. tick' = [tick EXCEPT !.reads = n, !.seen = tick.seen \cup S]
    BY <1>1 DEF ReadHeld
  <1>7. n \in 0 .. 4
    BY <1>3
  <1> HIDE DEF n, S
  <1>8. /\ tick' \in Ticks /\ tick'.at = "read" /\ tick'.chosen = tick.chosen
        /\ tick'.queue = tick.queue /\ tick'.fleet = tick.fleet
        /\ tick'.reads = n /\ tick'.seen = tick.seen \cup S
    BY <1>1, <1>5, <1>6, <1>7 DEF Ticks
  <1> QED
    BY <1>2, <1>8 DEF n, S

LEMMA RebuildTick ==
  ASSUME Typed, Rebuild
  PROVE  /\ tick.reads = 4
         /\ \/ tick' = Idle
            \/ /\ ~Paused
               /\ tick' \in Ticks /\ tick'.at = "dispatch" /\ tick'.chosen = tick.chosen
               /\ tick'.queue = tick.queue /\ tick'.fleet = tick.fleet /\ tick'.asked = now
  <1>1. tick \in Ticks /\ now \in 0 .. MaxNow /\ tick.reads = 4
    BY TypesAre, HeldStates DEF Typed, Rebuild
  <1>2. \/ tick' = Idle
        \/ ~Paused /\ tick' = [tick EXCEPT !.at = "dispatch", !.seen = {}, !.asked = now]
    BY Zenon DEF Rebuild
  <1> QED
    BY <1>1, <1>2 DEF Ticks, Phases

LEMMA RebuildLedger ==
  ASSUME Typed, Rebuild
  PROVE  /\ known' = known \cup tick.fleet /\ known' \subseteq Agents
         /\ held' \in [Agents -> SUBSET Jobs]
         /\ \A a \in tick.fleet : held'[a] = Rebuilt(a)
  <1>1. tick \in Ticks /\ known \subseteq Agents
    BY TypesAre DEF Typed
  <1>2. tick.fleet \subseteq Agents /\ tick.seen \subseteq Reads
    BY <1>1 DEF Ticks
  <1>3. \A a : Rebuilt(a) \subseteq Jobs
    BY <1>2 DEF Rebuilt, Reads
  <1>4. held' = [a \in Agents |-> IF a \in known' THEN Rebuilt(a) ELSE {}]
        /\ known' = known \cup tick.fleet
    BY DEF Rebuild
  <1> QED
    BY <1>1, <1>2, <1>3, <1>4

(* What the admission of a row does: it is dropped, or an agent with room  *)
(* is to get it.                                                           *)
LEMMA AdmitTick ==
  ASSUME Typed, NEW q \in tick.queue, Admit(q)
  PROVE  /\ q \in QueueRows
         /\ tick' \in Ticks /\ tick'.at = "dispatch" /\ tick'.queue = tick.queue \ {q}
         /\ tick'.fleet = tick.fleet /\ tick'.asked = tick.asked
         /\ \/ tick'.chosen = tick.chosen /\ held' = held
            \/ \E a \in tick.fleet :
                 /\ a \in Agents /\ HasRoom(a, q.job)
                 /\ tick'.chosen = tick.chosen \cup {[job |-> q.job, from |-> q.from, agent |-> a]}
                 /\ held' = [held EXCEPT ![a] = @ \cup {q.job}]
  <1>1. tick \in Ticks /\ q \in QueueRows /\ tick.at = "dispatch"
    BY TypesAre DEF Typed, Ticks, Admit
  <1>2. CASE tick' = [tick EXCEPT !.queue = @ \ {q}] /\ held' = held
    BY <1>1, <1>2 DEF Ticks
  <1>3. ASSUME NEW a \in tick.fleet, HasRoom(a, q.job),
               tick' = [tick EXCEPT
                 !.queue = @ \ {q},
                 !.chosen = @ \cup {[job |-> q.job, from |-> q.from, agent |-> a]}],
               held' = [held EXCEPT ![a] = @ \cup {q.job}]
        PROVE  /\ tick' \in Ticks /\ tick'.at = "dispatch" /\ tick'.queue = tick.queue \ {q}
               /\ tick'.fleet = tick.fleet /\ tick'.asked = tick.asked /\ a \in Agents
               /\ tick'.chosen = tick.chosen \cup {[job |-> q.job, from |-> q.from, agent |-> a]}
    <2> DEFINE x == [job |-> q.job, from |-> q.from, agent |-> a]
    <2>1. x \in Placements /\ a \in Agents
      BY <1>1 DEF QueueRows, Placements, Ticks
    <2>2. tick' = [tick EXCEPT !.queue = @ \ {q}, !.chosen = @ \cup {x}]
      BY <1>3
    <2> HIDE DEF x
    <2>3. /\ tick' \in Ticks /\ tick'.at = "dispatch" /\ tick'.queue = tick.queue \ {q}
          /\ tick'.fleet = tick.fleet /\ tick'.asked = tick.asked
          /\ tick'.chosen = tick.chosen \cup {x}
      BY <1>1, <2>1, <2>2 DEF Ticks
    <2> QED
      BY <2>1, <2>3 DEF x
  <1> QED
    BY <1>1, <1>2, <1>3 DEF Admit

LEMMA PlaceTick ==
  ASSUME Typed, NEW x \in tick.chosen, Place(x)
  PROVE  /\ x \in Placements
         /\ tick' \in Ticks /\ tick'.at = "dispatch" /\ tick'.chosen = tick.chosen \ {x}
         /\ tick'.fleet = tick.fleet /\ tick'.asked = tick.asked
         /\ tick.queue = {} /\ tick'.queue = {}
  <1>1. tick \in Ticks /\ x \in Placements /\ tick.at = "dispatch" /\ tick.queue = {}
    BY TypesAre DEF Typed, Ticks, Place
  <1>2. tick' = [tick EXCEPT !.chosen = @ \ {x}]
    BY DEF Place
  <1> QED
    BY <1>1, <1>2 DEF Ticks

(* Each placement either makes the agent hold the job, with the permit it  *)
(* was given, or hands the permit back.                                    *)
LEMMA PlaceJob ==
  ASSUME Typed, NEW x \in tick.chosen, Place(x)
  PROVE  /\ job' \in [Jobs -> JobRows] /\ held' \in [Agents -> SUBSET Jobs]
         /\ \/ /\ x.job \notin Stuck /\ held' = held
               /\ job'[x.job].state = "Assigned" /\ job'[x.job].agent = x.agent
               /\ \A i \in Jobs \ {x.job} : job'[i] = job[i]
            \/ /\ GoesOn /\ \A i \in Jobs \ {x.job} : job'[i] = job[i]
               /\ held' = Unpermitted(x.job)
  <1>1. TypeOK /\ x \in Placements /\ held \in [Agents -> SUBSET Jobs]
    BY TypesAre, PlaceTick DEF Typed
  <1>2. x.job \in Jobs /\ x.agent \in Agents
    BY <1>1 DEF Placements
  <1>3. CASE /\ x.job \notin Stuck /\ Put(x.job, "Assigned", x.agent) /\ held' = held
    <2>1. "Assigned" \in States
      BY DEF States
    <2> QED
      BY <1>1, <1>2, <1>3, <2>1, PutMeans
  <1>4. CASE job' = job /\ held' = Unpermitted(x.job)
    BY <1>1, <1>4, SameGoesOn, UnpermittedTypes
  <1>5. CASE Again(x.job) /\ held' = Unpermitted(x.job)
    BY <1>1, <1>2, <1>5, AgainGoesOn, UnpermittedTypes
  <1> QED
    BY <1>3, <1>4, <1>5 DEF Place

LEMMA GoesOnTyped ==
  ASSUME Typed, GoesOn
  PROVE  \A j \in Jobs : Held(j)' => job'[j].agent \in Agents
  BY Zenon DEF Typed, GoesOn, Held

LEMMA TypedInit == Init => Typed
  <1> SUFFICES ASSUME Init PROVE Typed
    OBVIOUS
  <1>1. job \in [Jobs -> JobRows]
    <2>1. [state |-> "Absent", agent |-> 0, attempt |-> 0] \in JobRows
      BY MatchingAssumption DEF JobRows
    <2> QED
      BY <2>1 DEF Init
  <1>2. \A j \in Jobs : job[j].state = "Absent"
    BY DEF Init
  <1>3. \A j \in Jobs : ~Held(j)
    BY <1>2 DEF Held, HoldsCapacity
  <1>4. /\ connected \subseteq Agents /\ tick \in Ticks
        /\ known \subseteq Agents /\ held \in [Agents -> SUBSET Jobs]
        /\ now \in 0 .. MaxNow /\ drops \in 0 .. MaxDrops
    BY IdleTick, MatchingAssumption DEF Init
  <1> QED
    BY <1>1, <1>3, <1>4, TypesAre DEF Typed

LEMMA TypedNext ==
  ASSUME Typed, [Next]_vars
  PROVE  Typed'
  <1>1. /\ job \in [Jobs -> JobRows] /\ connected \subseteq Agents
        /\ tick \in Ticks
        /\ known \subseteq Agents /\ held \in [Agents -> SUBSET Jobs]
        /\ now \in 0 .. MaxNow /\ drops \in 0 .. MaxDrops
    BY TypesAre DEF Typed
  <1> SUFFICES /\ TypeOK'
               /\ \A j \in Jobs : Held(j)' => job'[j].agent \in Agents
    BY DEF Typed
  <1>2. ASSUME UNCHANGED <<job, ledgerVars, worldVars>>, tick' \in Ticks
        PROVE  TypeOK' /\ \A j \in Jobs : Held(j)' => job'[j].agent \in Agents
    <2>1. job' = job /\ known' = known /\ held' = held
          /\ connected' = connected /\ now' = now /\ drops' = drops
      BY <1>2 DEF ledgerVars, worldVars
    <2> QED
      BY <1>1, <1>2, <2>1, TypesNext, SameGoesOn, GoesOnTyped
  <1>3. ASSUME job' \in [Jobs -> JobRows], GoesOn, UNCHANGED <<tick, ledgerVars>>,
               connected' \subseteq Agents, now' \in 0 .. MaxNow, drops' \in 0 .. MaxDrops
        PROVE  TypeOK' /\ \A j \in Jobs : Held(j)' => job'[j].agent \in Agents
    <2>1. tick' = tick /\ known' = known /\ held' = held
      BY <1>3 DEF ledgerVars
    <2> QED
      BY <1>1, <1>3, <2>1, TypesNext, GoesOnTyped
  <1>4. CASE Begin
    BY <1>2, <1>4, BeginTick DEF Begin
  <1>5. CASE ReadQueue
    BY <1>2, <1>5, ReadQueueTick DEF ReadQueue
  <1>6. CASE ReadFleet
    BY <1>2, <1>6, ReadFleetTick, IdleTick DEF ReadFleet
  <1>7. CASE ReadHeld
    BY <1>2, <1>7, ReadHeldTick DEF ReadHeld
  <1>8. CASE Rebuild
    <2>1. job' = job /\ connected' = connected /\ now' = now /\ drops' = drops
      BY <1>8 DEF Rebuild, worldVars
    <2>2. tick' \in Ticks /\ known' \subseteq Agents /\ held' \in [Agents -> SUBSET Jobs]
      BY <1>8, RebuildTick, RebuildLedger, IdleTick
    <2> QED
      BY <1>1, <2>1, <2>2, TypesNext, SameGoesOn, GoesOnTyped
  <1>9. CASE End
    BY <1>2, <1>9, IdleTick DEF End
  <1>10. ASSUME NEW q \in tick.queue, Admit(q)
         PROVE  TypeOK' /\ \A j \in Jobs : Held(j)' => job'[j].agent \in Agents
    <2>1. job' = job /\ known' = known /\ connected' = connected
          /\ now' = now /\ drops' = drops
      BY <1>10 DEF Admit, worldVars
    <2>2. tick' \in Ticks /\ q.job \in Jobs
      BY <1>10, AdmitTick DEF QueueRows
    <2>3. held' \in [Agents -> SUBSET Jobs]
      BY <1>1, <1>10, <2>2, AdmitTick
    <2> QED
      BY <1>1, <2>1, <2>2, <2>3, TypesNext, SameGoesOn, GoesOnTyped
  <1>11. ASSUME NEW x \in tick.chosen, Place(x)
         PROVE  TypeOK' /\ \A j \in Jobs : Held(j)' => job'[j].agent \in Agents
    <2>1. known' = known /\ connected' = connected /\ now' = now /\ drops' = drops
      BY <1>11 DEF Place, worldVars
    <2>2. tick' \in Ticks /\ job' \in [Jobs -> JobRows] /\ held' \in [Agents -> SUBSET Jobs]
      BY <1>11, PlaceTick, PlaceJob
    <2>3. TypeOK'
      BY <1>1, <2>1, <2>2, TypesNext
    <2>4. x.job \in Jobs /\ x.agent \in Agents
      BY <1>11, PlaceTick DEF Placements
    <2>5. CASE GoesOn
      BY <2>3, <2>5, GoesOnTyped
    <2>6. CASE job'[x.job].agent = x.agent /\ \A i \in Jobs \ {x.job} : job'[i] = job[i]
      <3>1. ASSUME NEW j \in Jobs, Held(j)' PROVE job'[j].agent \in Agents
        <4>1. CASE j = x.job
          BY <2>4, <2>6, <4>1
        <4>2. CASE j # x.job
          <5>1. job'[j] = job[j]
            BY <2>6, <4>2
          <5>2. Held(j)
            BY <3>1, <5>1 DEF Held
          <5> QED
            BY <5>1, <5>2 DEF Typed
        <4> QED
          BY <4>1, <4>2
      <3> QED
        BY <2>3, <3>1
    <2> QED
      BY <1>11, <2>5, <2>6, PlaceJob
  <1>12. ASSUME NEW x \in tick.lost, Reclaim(x)
         PROVE  TypeOK' /\ \A j \in Jobs : Held(j)' => job'[j].agent \in Agents
    <2>1. known' = known /\ connected' = connected /\ now' = now /\ drops' = drops
      BY <1>12 DEF Reclaim, worldVars
    <2>2. tick' \in Ticks /\ job' \in [Jobs -> JobRows] /\ GoesOn
      BY <1>12, ReclaimTick, ReclaimGoesOn
    <2>3. held' \in [Agents -> SUBSET Jobs]
      <3>1. held' = held \/ held' = Unpermitted(x.job)
        BY <1>12 DEF Reclaim
      <3> QED
        BY <1>1, <3>1, UnpermittedTypes DEF Typed
    <2> QED
      BY <1>1, <2>1, <2>2, <2>3, TypesNext, GoesOnTyped
  <1>13. ASSUME NEW j \in Jobs, Advance(j) \/ Create(j)
         PROVE  TypeOK' /\ \A i \in Jobs : Held(i)' => job'[i].agent \in Agents
    <2>1. UNCHANGED <<tick, ledgerVars, worldVars>>
      BY <1>13 DEF Advance, Create
    <2>2. connected' = connected /\ now' = now /\ drops' = drops
      BY <2>1 DEF worldVars
    <2> QED
      BY <1>1, <1>3, <1>13, <2>1, <2>2, AdvanceGoesOn, CreateGoesOn
  <1>14. ASSUME NEW a \in Agents, Connect(a) \/ Disconnect(a)
         PROVE  TypeOK' /\ \A j \in Jobs : Held(j)' => job'[j].agent \in Agents
    <2>1. job' = job /\ UNCHANGED <<tick, ledgerVars>> /\ now' = now
      BY <1>14 DEF Connect, Disconnect
    <2>2. connected' \subseteq Agents
      BY <1>1, <1>14 DEF Connect, Disconnect
    <2>3. drops' \in 0 .. MaxDrops
      BY <1>1, <1>14, MatchingAssumption DEF Connect, Disconnect
    <2> QED
      BY <1>1, <1>3, <2>1, <2>2, <2>3, SameGoesOn
  <1>15. CASE ServerRestart
    <2>1. /\ job' = job /\ now' = now /\ connected' = {} /\ tick' = Idle /\ known' = {}
          /\ held' = [a \in Agents |-> {}]
      BY <1>15 DEF ServerRestart
    <2>2. drops' \in 0 .. MaxDrops
      BY <1>1, <1>15, MatchingAssumption DEF ServerRestart
    <2> QED
      BY <1>1, <2>1, <2>2, TypesNext, IdleTick, SameGoesOn, GoesOnTyped
  <1>16. CASE Pass
    <2>1. job' = job /\ UNCHANGED <<tick, ledgerVars>> /\ connected' = connected /\ drops' = drops
      BY <1>16 DEF Pass
    <2>2. now' \in 0 .. MaxNow
      BY <1>1, <1>16, MatchingAssumption DEF Pass
    <2> QED
      BY <1>1, <1>3, <2>1, <2>2, SameGoesOn
  <1>17. CASE UNCHANGED vars
    BY <1>1, <1>2, <1>17 DEF vars
  <1> QED
    BY <1>4, <1>5, <1>6, <1>7, <1>8, <1>9, <1>10, <1>11, <1>12, <1>13, <1>14, <1>15, <1>16,
       <1>17 DEF Next, Tick

(* However reads, results, reconnects and restarts interleave, a job is in *)
(* a state of the table with an agent of the fleet or none, its attempts   *)
(* stay under the limit, and the ledger speaks of known jobs and agents.   *)
THEOREM TypeCorrect == Spec => []TypeOK
  <1>1. Typed => TypeOK
    BY DEF Typed
  <1> QED
    BY <1>1, TypedInit, TypedNext, PTL DEF Spec

----------------------------------------------------------------------------
(* What waits.                                                             *)
LEMMA StuckNext ==
  ASSUME StuckStay, GoesOn
  PROVE  StuckStay'
  <1>1. Stuck \subseteq Jobs
    BY MatchingAssumption
  <1> QED
    BY <1>1, Zenon DEF StuckStay, GoesOn, Held

LEMMA WaitsIdle ==
  ASSUME Waits, GoesOn, tick' = Idle
  PROVE  Waits'
  <1>1. tick'.at = "idle" /\ tick'.queue = {} /\ tick'.chosen = {} /\ tick'.reads = 0
    BY DEF Idle
  <1> QED
    BY <1>1, StuckNext DEF Waits, WhereItWaits, WaitsAsRead

(* A job that waits is in the state it was read in, so nothing but its     *)
(* placement moves it.                                                     *)
LEMMA WaitsKept ==
  ASSUME Typed, Waits, GoesOn, QueuedStay, tick' = tick
  PROVE  Waits'
  <1>1. tick.queue \subseteq QueueRows /\ tick.chosen \subseteq Placements
    BY TypesAre DEF Typed, Ticks
  <1>2. ASSUME NEW x \in tick.queue \cup tick.chosen
        PROVE  job'[x.job].state = x.from
    <2>1. x.job \in Jobs /\ x.from \in {"Pending", "Eligible"} /\ job[x.job].state = x.from
      BY <1>1, <1>2 DEF QueueRows, Placements, Waits, WaitsAsRead
    <2> QED
      BY <2>1 DEF QueuedStay, Queued
  <1>3. WaitsAsRead'
    BY <1>2 DEF Waits, WaitsAsRead
  <1> QED
    BY <1>3, StuckNext DEF Waits, WhereItWaits

LEMMA WaitsAdmit ==
  ASSUME Typed, Waits, NEW q \in tick.queue, Admit(q)
  PROVE  Waits'
  <1>1. /\ q \in QueueRows /\ job' = job /\ tick'.at = "dispatch"
        /\ tick'.queue = tick.queue \ {q} /\ tick'.fleet = tick.fleet
    BY AdmitTick DEF Admit
  <1>2. StuckStay'
    BY <1>1, SameGoesOn, StuckNext DEF Waits
  <1>3. tick.queue \subseteq QueueRows /\ tick.chosen \subseteq Placements
    BY TypesAre DEF Typed, Ticks
  <1>4. CASE tick'.chosen = tick.chosen
    BY <1>1, <1>2, <1>4 DEF Waits, WhereItWaits, WaitsAsRead
  <1>5. ASSUME NEW a \in tick.fleet,
               tick'.chosen = tick.chosen \cup {[job |-> q.job, from |-> q.from, agent |-> a]}
        PROVE  Waits'
    <2> DEFINE x == [job |-> q.job, from |-> q.from, agent |-> a]
    <2>1. x.job = q.job /\ x.from = q.from /\ x.agent = a
      OBVIOUS
    <2>2. tick'.chosen = tick.chosen \cup {x}
      BY <1>5
    <2> HIDE DEF x
    <2>3. ASSUME NEW r \in tick.queue \ {q} PROVE r.job # q.job
      <3>1. job[r.job].state = r.from /\ job[q.job].state = q.from
        BY DEF Waits, WaitsAsRead
      <3>2. r \in QueueRows
        BY <1>3
      <3>3. SUFFICES ASSUME r.job = q.job PROVE r = q
        OBVIOUS
      <3>4. r.from = q.from
        BY <3>1, <3>3
      <3> QED
        BY <1>1, <3>2, <3>3, <3>4 DEF QueueRows
    <2>4. \A y \in tick.chosen : y.job # x.job
      BY <2>1 DEF Waits, WaitsAsRead
    <2>5. WaitsAsRead'
      <3>1. \A r \in tick'.queue : job'[r.job].state = r.from
        BY <1>1 DEF Waits, WaitsAsRead
      <3>2. ASSUME NEW y \in tick'.chosen
            PROVE  /\ job'[y.job].state = y.from /\ y.agent \in tick'.fleet
                   /\ \A r \in tick'.queue : r.job # y.job
                   /\ \A z \in tick'.chosen : z.job = y.job => z = y
        <4>1. CASE y = x
          BY <1>1, <1>5, <2>1, <2>2, <2>3, <2>4, <4>1 DEF Waits, WaitsAsRead
        <4>2. CASE y # x
          BY <1>1, <2>1, <2>2, <2>4, <3>2, <4>2 DEF Waits, WaitsAsRead
        <4> QED
          BY <4>1, <4>2
      <3> QED
        BY <3>1, <3>2 DEF WaitsAsRead
    <2> QED
      BY <1>1, <1>2, <2>5 DEF Waits, WhereItWaits
  <1> QED
    BY <1>4, <1>5, AdmitTick

LEMMA WaitsPlace ==
  ASSUME Typed, Waits, NEW x \in tick.chosen, Place(x)
  PROVE  Waits'
  <1>1. /\ x \in Placements /\ tick'.at = "dispatch" /\ tick'.chosen = tick.chosen \ {x}
        /\ tick'.fleet = tick.fleet /\ tick'.queue = {}
    BY PlaceTick
  <1>2. \A i \in Jobs \ {x.job} : job'[i] = job[i]
    BY PlaceJob
  <1>3. tick.chosen \subseteq Placements
    BY TypesAre DEF Typed, Ticks
  <1>4. WaitsAsRead'
    <2>1. ASSUME NEW y \in tick'.chosen
          PROVE  y.job \in Jobs \ {x.job}
      BY <1>1, <1>3 DEF Placements, Waits, WaitsAsRead
    <2> QED
      BY <1>1, <1>2, <2>1 DEF Waits, WaitsAsRead
  <1>5. StuckStay'
    <2>1. CASE GoesOn
      BY <2>1, StuckNext DEF Waits
    <2>2. CASE x.job \notin Stuck
      <3>1. Stuck \subseteq Jobs
        BY MatchingAssumption
      <3> QED
        BY <1>2, <2>2, <3>1 DEF Waits, StuckStay, Held
    <2> QED
      BY <2>1, <2>2, PlaceJob
  <1> QED
    BY <1>1, <1>4, <1>5 DEF Waits, WhereItWaits

LEMMA WaitsInit == Init => Waits
  <1> SUFFICES ASSUME Init PROVE Waits
    OBVIOUS
  <1>1. tick.at = "idle" /\ tick.queue = {} /\ tick.chosen = {} /\ tick.reads = 0
    BY DEF Init, Idle
  <1>2. \A j \in Jobs : job[j].state = "Absent"
    BY DEF Init
  <1>3. StuckStay
    BY <1>2, MatchingAssumption DEF StuckStay, Held, HoldsCapacity
  <1> QED
    BY <1>1, <1>3 DEF Waits, WhereItWaits, WaitsAsRead

LEMMA WaitsNext ==
  ASSUME Typed, Waits, [Next]_vars
  PROVE  Waits'
  <1>1. CASE Begin
    <2>1. /\ tick'.at = "reconcile" /\ tick'.queue = {} /\ tick'.chosen = {} /\ tick'.reads = 0
          /\ job' = job
      BY <1>1, BeginTick DEF Begin
    <2> QED
      BY <2>1, SameGoesOn, StuckNext DEF Waits, WhereItWaits, WaitsAsRead
  <1>2. CASE ReadQueue
    <2>1. /\ tick'.at = "queue" /\ tick'.chosen = {} /\ job' = job /\ tick'.reads = 0
          /\ tick'.queue = {x \in QueueRows : x.from \in Dispatchable /\ x.job \in InState(x.from)}
      BY <1>2, ReadQueueTick DEF ReadQueue, Waits, WhereItWaits
    <2>2. \A q \in tick'.queue : job'[q.job].state = q.from
      BY <2>1 DEF InState
    <2> QED
      BY <2>1, <2>2, SameGoesOn, StuckNext DEF Waits, WhereItWaits, WaitsAsRead
  <1>3. ASSUME tick'.at \in {"read", "dispatch"}, tick'.queue = tick.queue,
               tick'.chosen = tick.chosen, tick.chosen = {}, job' = job
        PROVE  Waits'
    BY <1>3, SameGoesOn, StuckNext DEF Waits, WhereItWaits, WaitsAsRead
  <1>4. CASE ReadFleet
    <2>1. job' = job /\ tick.chosen = {}
      BY <1>4 DEF ReadFleet, Waits, WhereItWaits
    <2> QED
      BY <1>3, <1>4, <2>1, ReadFleetTick, WaitsIdle, SameGoesOn
  <1>5. CASE ReadHeld
    <2>1. job' = job /\ tick.chosen = {}
      BY <1>5 DEF ReadHeld, Waits, WhereItWaits
    <2> QED
      BY <1>3, <1>5, <2>1, ReadHeldTick
  <1>6. CASE Rebuild
    <2>1. job' = job /\ tick.chosen = {}
      BY <1>6 DEF Rebuild, Waits, WhereItWaits
    <2> QED
      BY <1>3, <1>6, <2>1, RebuildTick, WaitsIdle, SameGoesOn
  <1>7. CASE End \/ ServerRestart
    BY <1>7, WaitsIdle, SameGoesOn DEF End, ServerRestart
  <1>8. ASSUME NEW x \in tick.lost, Reclaim(x)
        PROVE  Waits'
    <2>1. /\ GoesOn /\ tick'.at = "reconcile" /\ tick'.queue = tick.queue
          /\ tick'.chosen = tick.chosen /\ tick'.reads = tick.reads /\ tick.at = "reconcile"
      BY <1>8, ReclaimTick, ReclaimGoesOn DEF Reclaim
    <2> QED
      BY <2>1, StuckNext DEF Waits, WhereItWaits, WaitsAsRead
  <1>9. ASSUME NEW q \in tick.queue, Admit(q)
        PROVE  Waits'
    BY <1>9, WaitsAdmit
  <1>10. ASSUME NEW x \in tick.chosen, Place(x)
         PROVE  Waits'
    BY <1>10, WaitsPlace
  <1>11. ASSUME NEW j \in Jobs, Advance(j) \/ Create(j)
         PROVE  Waits'
    BY <1>11, AdvanceGoesOn, CreateGoesOn, WaitsKept DEF Advance, Create
  <1>12. ASSUME NEW a \in Agents, Connect(a) \/ Disconnect(a)
         PROVE  Waits'
    BY <1>12, SameGoesOn, WaitsKept DEF Connect, Disconnect
  <1>13. CASE Pass \/ UNCHANGED vars
    BY <1>13, SameGoesOn, WaitsKept DEF Pass, vars
  <1> QED
    BY <1>1, <1>2, <1>4, <1>5, <1>6, <1>7, <1>8, <1>9, <1>10, <1>11, <1>12, <1>13
       DEF Next, Tick

----------------------------------------------------------------------------
(* What fits the limits.                                                   *)
LEMMA FiniteJobs ==
  ASSUME NEW S, S \subseteq Jobs
  PROVE  IsFiniteSet(S) /\ Cardinality(S) \in Nat
  BY MatchingAssumption, FS_Subset, FS_CardinalityType

LEMMA Smaller ==
  ASSUME NEW T, T \subseteq Jobs, NEW S, S \subseteq T
  PROVE  Cardinality(S) <= Cardinality(T)
  BY FiniteJobs, FS_Subset

LEMMA OneMore ==
  ASSUME NEW T, T \subseteq Jobs, NEW S, NEW j \in Jobs, S \subseteq T \cup {j}
  PROVE  Cardinality(S) <= Cardinality(T) + 1
  <1>1. IsFiniteSet(T) /\ Cardinality(T) \in Nat /\ Cardinality(S) \in Nat
    BY FiniteJobs
  <1>2. Cardinality(T \cup {j}) <= Cardinality(T) + 1
    BY <1>1, FS_AddElement
  <1>3. Cardinality(S) <= Cardinality(T \cup {j}) /\ Cardinality(T \cup {j}) \in Nat
    BY Smaller, FiniteJobs
  <1> QED
    BY <1>1, <1>2, <1>3

LEMMA LimitTypes ==
  Slots \in Nat /\ LargeSlots \in Nat /\ \A j \in Jobs : ClassSlots[Class[j]] \in Nat
  BY MatchingAssumption

LEMMA FitsLess ==
  ASSUME NEW T, T \subseteq Jobs, NEW S, S \subseteq T, Fits(T)
  PROVE  Fits(S)
  <1>1. Cardinality(S) <= Slots
    BY Smaller, FiniteJobs, LimitTypes DEF Fits
  <1>2. Cardinality(S \cap Large) <= LargeSlots
    <2>1. S \cap Large \subseteq T \cap Large /\ T \cap Large \subseteq Jobs
      OBVIOUS
    <2>2. /\ Cardinality(S \cap Large) \in Nat /\ Cardinality(T \cap Large) \in Nat
          /\ Cardinality(S \cap Large) <= Cardinality(T \cap Large)
      BY <2>1, Smaller, FiniteJobs
    <2> QED
      BY <2>2, LimitTypes DEF Fits
  <1>3. ASSUME NEW j \in S
        PROVE  Cardinality(Like(S, Class[j])) <= ClassSlots[Class[j]]
    <2>1. Like(S, Class[j]) \subseteq Like(T, Class[j]) /\ Like(T, Class[j]) \subseteq Jobs
      BY DEF Like
    <2>2. /\ Cardinality(Like(S, Class[j])) \in Nat /\ Cardinality(Like(T, Class[j])) \in Nat
          /\ Cardinality(Like(S, Class[j])) <= Cardinality(Like(T, Class[j]))
      BY <2>1, Smaller, FiniteJobs
    <2>3. Cardinality(Like(T, Class[j])) <= ClassSlots[Class[j]] /\ j \in Jobs
      BY DEF Fits
    <2> QED
      BY <2>2, <2>3, LimitTypes
  <1> QED
    BY <1>1, <1>2, <1>3 DEF Fits

(* try_acquire counts at least what is there, so one more fits.            *)
LEMMA FitsOneMore ==
  ASSUME TypeOK, NEW a \in Agents, NEW j \in Jobs, HasRoom(a, j),
         NEW S, S \subseteq held[a], Fits(S)
  PROVE  Fits(S \cup {j})
  <1> DEFINE H == held[a]
             R == S \cup {j}
             c == Class[j]
  <1>1. H \subseteq Jobs /\ R \subseteq Jobs
    BY DEF TypeOK
  <1>2. Cardinality(R) <= Slots
    <2>1. Cardinality(R) <= Cardinality(H) + 1
      BY <1>1, OneMore
    <2>2. Cardinality(R) \in Nat /\ Cardinality(H) \in Nat /\ Cardinality(H) < Slots
      BY <1>1, FiniteJobs DEF HasRoom
    <2> QED
      BY <2>1, <2>2, LimitTypes
  <1>3. Cardinality(R \cap Large) <= LargeSlots
    <2>1. CASE j \in Large
      <3>1. H \cap Large \subseteq Jobs /\ R \cap Large \subseteq (H \cap Large) \cup {j}
        BY <1>1
      <3>2. Cardinality(R \cap Large) <= Cardinality(H \cap Large) + 1
        BY <3>1, OneMore
      <3>3. /\ Cardinality(R \cap Large) \in Nat /\ Cardinality(H \cap Large) \in Nat
            /\ Cardinality(H \cap Large) < LargeSlots
        BY <1>1, <2>1, FiniteJobs DEF HasRoom
      <3> QED
        BY <3>2, <3>3, LimitTypes
    <2>2. CASE j \notin Large
      <3>1. R \cap Large = S \cap Large
        BY <2>2
      <3> QED
        BY <3>1 DEF Fits
    <2> QED
      BY <2>1, <2>2
  <1>4. ASSUME NEW i \in R
        PROVE  Cardinality(Like(R, Class[i])) <= ClassSlots[Class[i]]
    <2>1. CASE Class[i] = c
      <3>1. Like(H, c) \subseteq Jobs /\ Like(R, c) \subseteq Like(H, c) \cup {j}
            /\ Like(R, c) \subseteq Jobs
        BY <1>1 DEF Like
      <3>2. Cardinality(Like(R, c)) <= Cardinality(Like(H, c)) + 1
        BY <3>1, OneMore
      <3>3. Cardinality(Like(R, c)) \in Nat /\ Cardinality(Like(H, c)) \in Nat
        BY <3>1, FiniteJobs
      <3>4. Cardinality(Like(H, c)) < ClassSlots[c]
        BY DEF HasRoom, Like
      <3> QED
        BY <2>1, <3>2, <3>3, <3>4, LimitTypes
    <2>2. CASE Class[i] # c
      <3>1. i \in S /\ Like(R, Class[i]) = Like(S, Class[i])
        BY <2>2 DEF Like
      <3> QED
        BY <3>1 DEF Fits
    <2> QED
      BY <2>1, <2>2
  <1> QED
    BY <1>2, <1>3, <1>4 DEF Fits

----------------------------------------------------------------------------
(* What the ledger covers.                                                 *)
LEMMA BookedJobs ==
  ASSUME Typed, NEW a
  PROVE  Booked(a) \subseteq Jobs
  <1>1. tick.chosen \subseteq Placements
    BY TypesAre DEF Typed, Ticks
  <1> QED
    BY <1>1 DEF Booked, HeldBy, Promised, Placements

LEMMA HeldShrinks ==
  ASSUME GoesOn, NEW a
  PROVE  HeldBy(a)' \subseteq HeldBy(a)
  BY Zenon DEF GoesOn, HeldBy, Held

LEMMA BookedShrinks ==
  ASSUME GoesOn, tick'.chosen \subseteq tick.chosen, NEW a
  PROVE  Booked(a)' \subseteq Booked(a)
  <1>1. Promised(a)' \subseteq Promised(a)
    BY DEF Promised
  <1> QED
    BY <1>1, HeldShrinks DEF Booked

LEMMA FitsNext ==
  ASSUME Typed, Covered, GoesOn, tick'.chosen \subseteq tick.chosen
  PROVE  \A a \in Agents : Fits(Booked(a)')
  <1> TAKE a \in Agents
  <1>1. Fits(Booked(a)) /\ Booked(a) \subseteq Jobs /\ Booked(a)' \subseteq Booked(a)
    BY BookedJobs, BookedShrinks DEF Covered
  <1> QED
    BY <1>1, FitsLess

(* A step outside the reads and the round.                                 *)
LEMMA CoveredElsewhere ==
  ASSUME Typed, Covered, GoesOn, tick'.chosen \subseteq tick.chosen,
         tick'.at \notin {"read", "dispatch"}
  PROVE  Covered'
  <1>1. \A a \in Agents : Fits(Booked(a)')
    BY FitsNext
  <1>2. \A a \in Agents : Fits(Booked(a))'
    BY <1>1 DEF Fits, Like
  <1> QED
    BY <1>2 DEF Covered, ReadsFind, LedgerCovers

LEMMA CoveredKept ==
  ASSUME Typed, Covered, GoesOn, tick' = tick, held' = held
  PROVE  Covered'
  <1>1. ReadsFind'
    <2> SUFFICES ASSUME tick.at = "read", NEW j \in Jobs, HoldsCapacity(job'[j].state)
                 PROVE  \/ [job |-> j, agent |-> job'[j].agent] \in tick.seen
                        \/ Unread(job'[j].state)
      BY Zenon DEF ReadsFind, Held, Unread
    <2>1. /\ Held(j) /\ job'[j].agent = job[j].agent
          /\ Unread(job[j].state) => Unread(job'[j].state)
      BY DEF GoesOn
    <2>2. [job |-> j, agent |-> job[j].agent] \in tick.seen \/ Unread(job[j].state)
      BY <2>1 DEF Covered, ReadsFind
    <2> QED
      BY <2>1, <2>2, Zenon
  <1>2. LedgerCovers'
    <2> SUFFICES ASSUME tick.at = "dispatch", NEW a \in tick.fleet
                 PROVE  Booked(a)' \subseteq held[a]
      BY DEF LedgerCovers
    <2> QED
      BY BookedShrinks DEF Covered, LedgerCovers
  <1>3. \A a \in Agents : Fits(Booked(a))'
    BY FitsNext DEF Fits, Like
  <1> QED
    BY <1>1, <1>2, <1>3 DEF Covered

(* Nothing is read yet, and a held job is in one of the four states.       *)
LEMMA CoveredFleet ==
  ASSUME Typed, Waits, Covered, ReadFleet
  PROVE  Covered'
  <1>1. job' = job /\ tick.reads = 0 /\ tick.chosen = {} /\ GoesOn
    BY SameGoesOn DEF ReadFleet, Waits, WhereItWaits
  <1>2. CASE tick' = Idle
    <2>1. tick'.at = "idle" /\ tick'.chosen = {}
      BY <1>2 DEF Idle
    <2> QED
      BY <1>1, <2>1, CoveredElsewhere
  <1>3. CASE tick'.at = "read" /\ tick'.chosen = tick.chosen /\ tick'.reads = tick.reads
    <2>1. ASSUME NEW j \in Jobs, Held(j)
          PROVE  \E i \in tick'.reads + 1 .. 4 : HeldOrder[i] = job[j].state
      BY <1>1, <1>3, <2>1, HeldStates DEF Held, HoldsCapacity
    <2>2. ReadsFind'
      BY <1>1, <1>3, <2>1 DEF ReadsFind, Held, Unread
    <2>3. \A a \in Agents : Fits(Booked(a))'
      BY <1>1, <1>3, FitsNext DEF Fits, Like
    <2> QED
      BY <1>3, <2>2, <2>3 DEF Covered, LedgerCovers
  <1> QED
    BY <1>2, <1>3, ReadFleetTick

(* A read that is not cut off returns every job of its state.              *)
LEMMA WholeRead ==
  ASSUME NEW s, Cardinality({j \in Jobs : job[j].state = s}) <= QueueWindow
  PROVE  InState(s) = {j \in Jobs : job[j].state = s}
  <1> DEFINE all == {j \in Jobs : job[j].state = s}
  <1>1. ASSUME NEW j \in all
        PROVE  Cardinality({i \in all : i < j}) < QueueWindow
    <2> DEFINE ahead == {i \in all : i < j}
    <2>1. j \in Nat /\ QueueWindow \in Nat
      BY MatchingAssumption
    <2>2. ahead \subseteq all \ {j} /\ all \subseteq Jobs
      BY <2>1
    <2>3. /\ IsFiniteSet(all) /\ Cardinality(all) \in Nat
          /\ Cardinality(ahead) \in Nat /\ Cardinality(all \ {j}) \in Nat
      BY <2>2, FiniteJobs
    <2>4. Cardinality(all \ {j}) = Cardinality(all) - 1
      BY <2>3, FS_RemoveElement
    <2>5. Cardinality(ahead) <= Cardinality(all \ {j})
      BY <2>2, Smaller
    <2> QED
      BY <2>1, <2>3, <2>4, <2>5
  <1> QED
    BY <1>1 DEF InState

LEMMA CoveredRead ==
  ASSUME Typed, Waits, Covered, NothingCutOff, ReadHeld
  PROVE  Covered'
  <1> DEFINE n == tick.reads + 1
  <1>1. /\ tick'.at = "read" /\ tick'.chosen = tick.chosen /\ tick.reads \in 0 .. 3
        /\ tick'.reads = n
        /\ tick'.seen = tick.seen \cup {[job |-> j, agent |-> job[j].agent] :
                                          j \in InState(HeldOrder[n])}
    BY ReadHeldTick
  <1>2. job' = job /\ tick.at = "read" /\ GoesOn
    BY SameGoesOn DEF ReadHeld
  <1>3. n \in 1 .. 4
    BY <1>1
  <1>4. InState(HeldOrder[n]) = {j \in Jobs : job[j].state = HeldOrder[n]}
    BY <1>3, WholeRead DEF NothingCutOff
  <1>5. ASSUME NEW j \in Jobs, Held(j)
        PROVE  \/ [job |-> j, agent |-> job[j].agent] \in tick'.seen
               \/ \E i \in tick'.reads + 1 .. 4 : HeldOrder[i] = job[j].state
    <2>1. CASE [job |-> j, agent |-> job[j].agent] \in tick.seen
      BY <1>1, <2>1
    <2>2. CASE Unread(job[j].state)
      <3>1. PICK i \in n .. 4 : HeldOrder[i] = job[j].state
        BY <2>2 DEF Unread
      <3>2. CASE i = n
        BY <1>1, <1>4, <3>1, <3>2
      <3>3. CASE i # n
        <4>1. i \in n + 1 .. 4
          BY <1>3, <3>1, <3>3
        <4> QED
          BY <1>1, <3>1, <4>1
      <3> QED
        BY <3>2, <3>3
    <2> QED
      BY <1>2, <1>5, <2>1, <2>2 DEF Covered, ReadsFind
  <1>6. ReadsFind'
    BY <1>2, <1>5 DEF ReadsFind, Held, Unread
  <1>7. \A a \in Agents : Fits(Booked(a))'
    BY <1>1, <1>2, FitsNext DEF Fits, Like
  <1> QED
    BY <1>1, <1>6, <1>7 DEF Covered, LedgerCovers

(* Once the four states are read, every held job is.                       *)
LEMMA CoveredRebuild ==
  ASSUME Typed, Waits, Covered, Rebuild
  PROVE  Covered'
  <1>1. job' = job /\ GoesOn /\ tick.at = "read" /\ tick.chosen = {} /\ tick.reads = 4
    BY SameGoesOn, RebuildTick DEF Rebuild, Waits, WhereItWaits
  <1>2. CASE tick' = Idle
    <2>1. tick'.at = "idle" /\ tick'.chosen = {}
      BY <1>2 DEF Idle
    <2> QED
      BY <1>1, <2>1, CoveredElsewhere
  <1>3. CASE tick'.at = "dispatch" /\ tick'.chosen = tick.chosen /\ tick'.fleet = tick.fleet
    <2>1. \A j \in Jobs : Held(j) => [job |-> j, agent |-> job[j].agent] \in tick.seen
      BY <1>1 DEF Covered, ReadsFind, Unread
    <2>2. ASSUME NEW a, NEW j \in HeldBy(a)
          PROVE  j \in Rebuilt(a)
      <3> DEFINE x == [job |-> j, agent |-> job[j].agent]
      <3>1. x \in tick.seen /\ x.agent = a /\ x.job = j
        BY <2>1, <2>2 DEF HeldBy
      <3> HIDE DEF x
      <3> QED
        BY <3>1 DEF Rebuilt
    <2>3. \A a : Booked(a)' = HeldBy(a)
      BY <1>1, <1>3 DEF Booked, Promised, HeldBy, Held
    <2>4. LedgerCovers'
      <3> SUFFICES ASSUME NEW a \in tick.fleet PROVE Booked(a)' \subseteq held'[a]
        BY <1>3 DEF LedgerCovers
      <3> QED
        BY <2>2, <2>3, RebuildLedger
    <2>5. \A a \in Agents : Fits(Booked(a))'
      BY <1>1, <1>3, FitsNext DEF Fits, Like
    <2> QED
      BY <1>3, <2>4, <2>5 DEF Covered, ReadsFind
  <1> QED
    BY <1>2, <1>3, RebuildTick

LEMMA CoveredAdmit ==
  ASSUME Typed, Waits, Covered, NEW q \in tick.queue, Admit(q)
  PROVE  Covered'
  <1>1. /\ q \in QueueRows /\ tick'.at = "dispatch" /\ tick.at = "dispatch"
        /\ tick'.fleet = tick.fleet /\ job' = job /\ GoesOn
    BY AdmitTick, SameGoesOn DEF Admit
  <1>2. held \in [Agents -> SUBSET Jobs] /\ tick.fleet \subseteq Agents /\ TypeOK
        /\ q.job \in Jobs
    BY <1>1, TypesAre DEF Typed, Ticks, QueueRows
  <1>3. CASE tick'.chosen = tick.chosen /\ held' = held
    <2>1. LedgerCovers'
      <3> SUFFICES ASSUME NEW b \in tick.fleet PROVE Booked(b)' \subseteq held'[b]
        BY <1>1 DEF LedgerCovers
      <3> QED
        BY <1>1, <1>3, BookedShrinks DEF Covered, LedgerCovers
    <2>2. \A a \in Agents : Fits(Booked(a))'
      BY <1>1, <1>3, FitsNext DEF Fits, Like
    <2> QED
      BY <1>1, <2>1, <2>2 DEF Covered, ReadsFind
  <1>4. ASSUME NEW a \in tick.fleet, HasRoom(a, q.job),
               tick'.chosen = tick.chosen \cup {[job |-> q.job, from |-> q.from, agent |-> a]},
               held' = [held EXCEPT ![a] = @ \cup {q.job}]
        PROVE  Covered'
    <2> DEFINE x == [job |-> q.job, from |-> q.from, agent |-> a]
    <2>1. x.job = q.job /\ x.agent = a /\ tick'.chosen = tick.chosen \cup {x}
      BY <1>4
    <2> HIDE DEF x
    <2>2. \A b \in Agents : HeldBy(b)' = HeldBy(b)
      BY <1>1 DEF HeldBy, Held
    <2>3. Promised(a)' \subseteq Promised(a) \cup {q.job}
      BY <2>1 DEF Promised
    <2>4. \A b \in Agents \ {a} : Promised(b)' \subseteq Promised(b)
      BY <2>1 DEF Promised
    <2>5. Booked(a)' \subseteq Booked(a) \cup {q.job}
      BY <1>2, <2>2, <2>3 DEF Booked
    <2>6. \A b \in Agents \ {a} : Booked(b)' \subseteq Booked(b)
      BY <2>2, <2>4 DEF Booked
    <2>7. \A b \in tick.fleet : Booked(b) \subseteq held[b]
      BY <1>1 DEF Covered, LedgerCovers
    <2>8. LedgerCovers'
      <3> SUFFICES ASSUME NEW b \in tick.fleet PROVE Booked(b)' \subseteq held'[b]
        BY <1>1 DEF LedgerCovers
      <3>1. CASE b = a
        BY <1>2, <1>4, <2>5, <2>7, <3>1
      <3>2. CASE b # a
        BY <1>2, <1>4, <2>6, <2>7, <3>2
      <3> QED
        BY <3>1, <3>2
    <2>9. ASSUME NEW b \in Agents PROVE Fits(Booked(b)')
      <3>1. Fits(Booked(b)) /\ Booked(b) \subseteq Jobs
        BY BookedJobs DEF Covered
      <3>2. CASE b # a
        BY <2>6, <3>1, <3>2, FitsLess
      <3>3. CASE b = a
        <4>1. Fits(Booked(a) \cup {q.job})
          BY <1>2, <1>4, <2>7, <3>1, <3>3, FitsOneMore
        <4> QED
          BY <1>2, <2>5, <3>1, <3>3, <4>1, FitsLess
      <3> QED
        BY <3>2, <3>3
    <2>10. \A b \in Agents : Fits(Booked(b))'
      BY <2>9 DEF Fits, Like
    <2> QED
      BY <1>1, <2>8, <2>10 DEF Covered, ReadsFind
  <1> QED
    BY <1>3, <1>4, AdmitTick

(* A job that is placed moves from what its agent is to get to what it     *)
(* holds; otherwise nobody holds it, and the permit goes back.             *)
LEMMA CoveredPlace ==
  ASSUME Typed, Waits, Covered, NEW x \in tick.chosen, Place(x)
  PROVE  Covered'
  <1>1. /\ x \in Placements /\ tick'.at = "dispatch" /\ tick.at = "dispatch"
        /\ tick'.chosen = tick.chosen \ {x} /\ tick'.fleet = tick.fleet
    BY PlaceTick DEF Place
  <1>2. /\ held \in [Agents -> SUBSET Jobs] /\ tick.fleet \subseteq Agents
        /\ tick.chosen \subseteq Placements /\ x.job \in Jobs
        /\ x.from \in {"Pending", "Eligible"}
    BY <1>1, TypesAre DEF Typed, Ticks, Placements
  <1>3. \A a \in tick.fleet : Booked(a) \subseteq held[a]
    BY <1>1 DEF Covered, LedgerCovers
  <1>4. ASSUME held' = held, job'[x.job].state = "Assigned", job'[x.job].agent = x.agent,
               \A i \in Jobs \ {x.job} : job'[i] = job[i]
        PROVE  Covered'
    <2>1. ASSUME NEW a PROVE Booked(a)' \subseteq Booked(a)
      <3>1. Promised(a)' \subseteq Promised(a)
        BY <1>1 DEF Promised
      <3>2. ASSUME NEW j \in Jobs, HoldsCapacity(job'[j].state), job'[j].agent = a
            PROVE  j \in Booked(a)
        <4>1. CASE j = x.job
          BY <1>4, <3>2, <4>1 DEF Booked, Promised
        <4>2. CASE j # x.job
          <5>1. job'[j] = job[j]
            BY <1>4, <4>2
          <5> QED
            BY <3>2, <5>1 DEF Booked, HeldBy, Held
        <4> QED
          BY <4>1, <4>2
      <3> QED
        BY <3>1, <3>2 DEF Booked, HeldBy, Held
    <2>2. LedgerCovers'
      BY <1>1, <1>3, <1>4, <2>1 DEF LedgerCovers
    <2>3. ASSUME NEW a \in Agents PROVE Fits(Booked(a)')
      BY <2>1, BookedJobs, FitsLess DEF Covered
    <2>4. \A a \in Agents : Fits(Booked(a))'
      BY <2>3 DEF Fits, Like
    <2> QED
      BY <1>1, <2>2, <2>4 DEF Covered, ReadsFind
  <1>5. ASSUME GoesOn, held' = Unpermitted(x.job)
        PROVE  Covered'
    <2>1. \A a : Booked(a)' \subseteq Booked(a)
      BY <1>1, <1>5, BookedShrinks
    <2>2. ~Held(x.job)
      <3>1. job[x.job].state = x.from
        BY DEF Waits, WaitsAsRead
      <3> QED
        BY <1>2, <3>1 DEF Held, HoldsCapacity
    <2>3. \A a : x.job \notin HeldBy(a)'
      BY <1>5, <2>2, HeldShrinks DEF HeldBy
    <2>4. \A a : x.job \notin Promised(a)'
      BY <1>1 DEF Promised, Waits, WaitsAsRead
    <2>5. LedgerCovers'
      <3> SUFFICES ASSUME NEW a \in tick.fleet PROVE Booked(a)' \subseteq held'[a]
        BY <1>1 DEF LedgerCovers
      <3>1. held'[a] = held[a] \ {x.job}
        BY <1>2, <1>5 DEF Unpermitted
      <3>2. x.job \notin Booked(a)'
        BY <2>3, <2>4 DEF Booked
      <3> QED
        BY <1>3, <2>1, <3>1, <3>2
    <2>6. \A a \in Agents : Fits(Booked(a))'
      BY <1>1, <1>5, FitsNext DEF Fits, Like
    <2> QED
      BY <1>1, <2>5, <2>6 DEF Covered, ReadsFind
  <1> QED
    BY <1>4, <1>5, PlaceJob

LEMMA CoveredInit == Init => Covered
  <1> SUFFICES ASSUME Init PROVE Covered
    OBVIOUS
  <1>1. tick.at = "idle" /\ tick.chosen = {}
    BY DEF Init, Idle
  <1>2. \A j \in Jobs : job[j].state = "Absent"
    BY DEF Init
  <1>3. \A a : Booked(a) = {}
    BY <1>1, <1>2 DEF Booked, HeldBy, Promised, Held, HoldsCapacity
  <1>4. Fits({})
    <2>1. Cardinality({}) = 0 /\ {} \cap Large = {}
      BY FS_EmptySet
    <2> QED
      BY <2>1, LimitTypes DEF Fits
  <1> QED
    BY <1>1, <1>3, <1>4 DEF Covered, ReadsFind, LedgerCovers

LEMMA CoveredNext ==
  ASSUME Typed, Waits, Covered, NothingCutOff, [Next]_vars
  PROVE  Covered'
  <1>1. CASE Begin
    <2>1. tick'.at = "reconcile" /\ tick'.chosen = {} /\ GoesOn
      BY <1>1, BeginTick, SameGoesOn DEF Begin
    <2> QED
      BY <2>1, CoveredElsewhere
  <1>2. CASE ReadQueue
    <2>1. tick'.at = "queue" /\ tick'.chosen = tick.chosen /\ GoesOn
      BY <1>2, ReadQueueTick, SameGoesOn DEF ReadQueue
    <2> QED
      BY <2>1, CoveredElsewhere
  <1>3. CASE ReadFleet
    BY <1>3, CoveredFleet
  <1>4. CASE ReadHeld
    BY <1>4, CoveredRead
  <1>5. CASE Rebuild
    BY <1>5, CoveredRebuild
  <1>6. CASE End \/ ServerRestart
    <2>1. tick' = Idle /\ GoesOn
      BY <1>6, SameGoesOn DEF End, ServerRestart
    <2>2. tick'.at = "idle" /\ tick'.chosen = {}
      BY <2>1 DEF Idle
    <2> QED
      BY <2>1, <2>2, CoveredElsewhere
  <1>7. ASSUME NEW x \in tick.lost, Reclaim(x)
        PROVE  Covered'
    <2>1. tick'.at = "reconcile" /\ tick'.chosen = tick.chosen /\ GoesOn
      BY <1>7, ReclaimTick, ReclaimGoesOn
    <2> QED
      BY <2>1, CoveredElsewhere
  <1>8. ASSUME NEW q \in tick.queue, Admit(q)
        PROVE  Covered'
    BY <1>8, CoveredAdmit
  <1>9. ASSUME NEW x \in tick.chosen, Place(x)
        PROVE  Covered'
    BY <1>9, CoveredPlace
  <1>10. ASSUME NEW j \in Jobs, Advance(j) \/ Create(j)
         PROVE  Covered'
    BY <1>10, AdvanceGoesOn, CreateGoesOn, CoveredKept DEF Advance, Create, ledgerVars
  <1>11. ASSUME NEW a \in Agents, Connect(a) \/ Disconnect(a)
         PROVE  Covered'
    BY <1>11, SameGoesOn, CoveredKept DEF Connect, Disconnect, ledgerVars
  <1>12. CASE Pass \/ UNCHANGED vars
    BY <1>12, SameGoesOn, CoveredKept DEF Pass, vars, ledgerVars
  <1> QED
    BY <1>1, <1>2, <1>3, <1>4, <1>5, <1>6, <1>7, <1>8, <1>9, <1>10, <1>11, <1>12
       DEF Next, Tick

----------------------------------------------------------------------------
Inv == Typed /\ Waits /\ Covered

LEMMA NeverOver == Inv => NeverOverbooked /\ LedgerAgrees
  <1> SUFFICES ASSUME Inv PROVE NeverOverbooked /\ LedgerAgrees
    OBVIOUS
  <1>1. NeverOverbooked
    <2> SUFFICES ASSUME NEW a \in Agents
                 PROVE  /\ Cardinality(HeldBy(a)) <= Slots
                        /\ \A j \in HeldBy(a) :
                             Cardinality({i \in HeldBy(a) : Class[i] = Class[j]}) <= ClassSlots[Class[j]]
                        /\ Cardinality(HeldBy(a) \cap Large) <= LargeSlots
      BY DEF NeverOverbooked
    <2>1. HeldBy(a) \subseteq Booked(a) /\ Booked(a) \subseteq Jobs /\ Fits(Booked(a))
      BY BookedJobs DEF Inv, Booked, Covered
    <2>2. Fits(HeldBy(a))
      BY <2>1, FitsLess
    <2> QED
      BY <2>2 DEF Fits, Like
  <1>2. LedgerAgrees
    BY DEF LedgerAgrees, Inv, Covered, LedgerCovers, Booked
  <1> QED
    BY <1>1, <1>2

(* Whatever moves while a tick reads the table and places jobs, an agent   *)
(* never holds more jobs than its limits allow, as long as no read of held *)
(* jobs is cut off at the window.                                          *)
THEOREM NeverOverbooks == Spec /\ []NothingCutOff => []NeverOverbooked
  <1>1. Init => Inv
    BY TypedInit, WaitsInit, CoveredInit DEF Inv
  <1>2. Inv /\ NothingCutOff /\ [Next]_vars => Inv'
    BY TypedNext, WaitsNext, CoveredNext DEF Inv
  <1>3. Inv => NeverOverbooked
    BY NeverOver
  <1> QED
    BY <1>1, <1>2, <1>3, PTL DEF Spec

(* Under the same condition the ledger knows of every job that an agent it *)
(* may use holds, while a tick decides and places.                         *)
THEOREM LedgerKnows == Spec /\ []NothingCutOff => []LedgerAgrees
  <1>1. Init => Inv
    BY TypedInit, WaitsInit, CoveredInit DEF Inv
  <1>2. Inv /\ NothingCutOff /\ [Next]_vars => Inv'
    BY TypedNext, WaitsNext, CoveredNext DEF Inv
  <1>3. Inv => LedgerAgrees
    BY NeverOver
  <1> QED
    BY <1>1, <1>2, <1>3, PTL DEF Spec

(* A library whose placeable jobs are no more than the window is wide      *)
(* needs no such condition: they are the only ones ever held.              *)
THEOREM NeverOverbooksSmall ==
  ASSUME Cardinality(Jobs \ Stuck) <= QueueWindow
  PROVE  Spec => []NeverOverbooked
  <1>1. Init => Typed /\ Waits
    BY TypedInit, WaitsInit
  <1>2. Typed /\ Waits /\ [Next]_vars => (Typed /\ Waits)'
    BY TypedNext, WaitsNext
  <1>3. Waits => NothingCutOff
    <2> SUFFICES ASSUME Waits, NEW i \in 1 .. 4
                 PROVE  Cardinality({j \in Jobs : job[j].state = HeldOrder[i]}) <= QueueWindow
      BY DEF NothingCutOff
    <2> DEFINE S == {j \in Jobs : job[j].state = HeldOrder[i]}
    <2>1. HoldsCapacity(HeldOrder[i])
      BY HeldStates DEF HoldsCapacity
    <2>2. S \subseteq Jobs \ Stuck /\ Jobs \ Stuck \subseteq Jobs
      BY <2>1 DEF Waits, StuckStay, Held
    <2>3. /\ Cardinality(S) \in Nat /\ Cardinality(Jobs \ Stuck) \in Nat
          /\ Cardinality(S) <= Cardinality(Jobs \ Stuck)
      BY <2>2, FiniteJobs, Smaller
    <2> QED
      BY <2>3, MatchingAssumption
  <1> QED
    BY <1>1, <1>2, <1>3, NeverOverbooks, PTL DEF Spec

----------------------------------------------------------------------------
(* The schedule.  Minutes divide the day, and windows and overrides are    *)
(* what schedule.rs says of their fields.                                  *)
WindowRows ==
  [enabled : BOOLEAN, days : SUBSET Int, start : 0 .. MinutesPerDay - 1,
   end : 0 .. MinutesPerDay - 1, priority : Int, total : Nat \cup {Unset}]

OverrideRows ==
  [scope : Agents \cup {Everyone}, class : {Class[j] : j \in Jobs} \cup {Unset},
   slots : Nat, expires : Int]

ScheduleIsRead ==
  /\ Day % Minute = 0
  /\ Windows \in Seq(WindowRows)
  /\ Overrides \in Seq(OverrideRows)
  /\ Unset \notin Nat

LEMMA Greatest ==
  ASSUME NEW n \in Nat, NEW T, T \subseteq 1 .. n, T # {}
  PROVE  Max(T) \in T
  <1> DEFINE U == {n - i : i \in T}
             R == OpToRel(<, Nat)
  <1>1. U \subseteq Nat /\ U # {}
    <2>1. \A i \in T : n - i \in Nat
      OBVIOUS
    <2> QED
      BY <2>1
  <1>2. IsWellFoundedOn(R, Nat)
    BY NatLessThanWellFounded, Zenon
  <1>3. PICK u \in U : \A v \in U : ~(<<v, u>> \in R)
    <2> HIDE DEF R, U
    <2> QED
      BY <1>1, <1>2, WFMin
  <1>4. \A v \in U : ~(v < u)
    BY <1>1, <1>3 DEF OpToRel
  <1> HIDE DEF R
  <1>5. PICK x \in T : u = n - x
    OBVIOUS
  <1>6. ASSUME NEW y \in T PROVE x >= y
    <2>1. n - y \in U
      OBVIOUS
    <2>2. ~(n - y < n - x)
      BY <1>4, <1>5, <2>1
    <2>3. x \in Int /\ y \in Int
      OBVIOUS
    <2> HIDE DEF U
    <2> QED
      BY <2>2, <2>3
  <1> QED
    BY <1>6 DEF Max

LEMMA DayInMinutes ==
  ASSUME Day % Minute = 0
  PROVE  /\ MinutesPerDay \in Nat \ {0}
         /\ \A t \in Nat : Clock(t).minute \in 0 .. MinutesPerDay - 1
  <1>1. Day \in Nat \ {0} /\ Minute \in Nat \ {0} /\ Minute <= Day
    BY ScheduleAssumption
  <1>2. MinutesPerDay \in Nat /\ Day = MinutesPerDay * Minute
    BY <1>1 DEF MinutesPerDay
  <1>3. MinutesPerDay # 0
    BY <1>1, <1>2
  <1>4. ASSUME NEW t \in Nat PROVE Clock(t).minute \in 0 .. MinutesPerDay - 1
    <2> DEFINE x == t % Day
    <2>1. x \in 0 .. Day - 1
      BY <1>1
    <2>2. x \in 0 .. MinutesPerDay * Minute - 1
      BY <1>2, <2>1
    <2> HIDE DEF x
    <2>3. x \div Minute \in 0 .. MinutesPerDay - 1
      BY <1>1, <1>2, <1>3, <2>2
    <2> QED
      BY <2>3 DEF Clock, x
  <1> QED
    BY <1>2, <1>3, <1>4

(* Counting round the clock from a window's start says the same as the     *)
(* code's two cases.                                                       *)
LEMMA CoversIsWithin ==
  ASSUME MinutesPerDay \in Nat \ {0}, NEW w \in WindowRows, NEW at,
         at.minute \in 0 .. MinutesPerDay - 1
  PROVE  Covers(w, at) <=> Within(w, at)
  <1> DEFINE M == MinutesPerDay
             m == at.minute
             s == w.start
             e == w.end
  <1>1. m \in 0 .. M - 1 /\ s \in 0 .. M - 1 /\ e \in 0 .. M - 1
    BY DEF WindowRows
  <1>2. ASSUME NEW K \in Nat \ {0}, NEW x \in 0 .. K - 1, NEW y \in 0 .. K - 1
        PROVE  (x - y) % K = IF y <= x THEN x - y ELSE x - y + K
    <2>1. CASE y <= x
      <3>1. x - y \in 0 .. K - 1
        BY <2>1
      <3> QED
        BY <2>1, <3>1
    <2>2. CASE x < y
      <3>1. x - y \in -(K - 1) .. -1
        BY <2>2
      <3> QED
        BY <2>2, <3>1
    <2> QED
      BY <2>1, <2>2
  <1>3. /\ (m - s) % M = (IF s <= m THEN m - s ELSE m - s + M)
        /\ (e - s) % M = (IF s <= e THEN e - s ELSE e - s + M)
    BY <1>1, <1>2
  <1> DEFINE p == (m - s) % M
             q == (e - s) % M
  <1>4. ASSUME NEW K \in Nat \ {0}, NEW i \in 0 .. K - 1, NEW b \in 0 .. K - 1,
               NEW c \in 0 .. K - 1, NEW x, NEW y,
               x = (IF b <= i THEN i - b ELSE i - b + K),
               y = (IF b <= c THEN c - b ELSE c - b + K)
        PROVE  x < y <=> IF b <= c THEN b <= i /\ i < c ELSE b <= i \/ i < c
    BY <1>4
  <1>5. p < q <=> IF s <= e THEN s <= m /\ m < e ELSE s <= m \/ m < e
    <2> HIDE DEF p, q, m, s, e, M
    <2> QED
      BY <1>1, <1>3, <1>4 DEF p, q, M
  <1> QED
    BY <1>5 DEF Covers, Within

(* An agent that the schedule has stopped has no slot.                     *)
LEMMA StoppedHasNone ==
  ASSUME ScheduleIsRead, NEW a, NEW t \in Nat, StopsBy(a, t)
  PROVE  Effective(a, Slots, t) = 0
  <1> DEFINE at == Clock(t)
             covering == {i \in DOMAIN Windows : Covers(Windows[i], at)}
             highest == {i \in covering :
                           \A k \in covering : Windows[k].priority <= Windows[i].priority}
             forced == {i \in DOMAIN Overrides : LET o == Overrides[i] IN
                          Active(o, t) /\ AppliesTo(o, a) /\ o.class = Unset}
  <1>1. /\ MinutesPerDay \in Nat \ {0} /\ at.minute \in 0 .. MinutesPerDay - 1
    BY DayInMinutes DEF ScheduleIsRead
  <1>2. /\ Len(Windows) \in Nat /\ DOMAIN Windows = 1 .. Len(Windows)
        /\ \A i \in DOMAIN Windows : Windows[i] \in WindowRows
    BY DEF ScheduleIsRead
  <1> HIDE DEF at
  <1>3. \A i \in DOMAIN Windows : Covers(Windows[i], at) <=> Within(Windows[i], at)
    BY <1>1, <1>2, CoversIsWithin
  <1>4. PICK w \in ToSet(Windows) :
          /\ w.total = 0 /\ Within(w, at)
          /\ \A v \in ToSet(Windows) \ {w} : Within(v, at) => v.priority < w.priority
    BY DEF StopsBy, at
  <1>5. PICK n \in DOMAIN Windows : Windows[n] = w
    BY <1>4 DEF ToSet
  <1>6. n \in covering
    BY <1>3, <1>4, <1>5
  <1>7. ASSUME NEW k \in covering
        PROVE  Windows[k].priority <= w.priority
               /\ (Windows[k] # w => Windows[k].priority < w.priority)
    <2>1. Windows[k].priority \in Int
      BY <1>2 DEF WindowRows
    <2>2. CASE Windows[k] = w
      BY <2>1, <2>2
    <2>3. CASE Windows[k] # w
      <3>1. Windows[k] \in ToSet(Windows) \ {w} /\ Within(Windows[k], at)
        BY <1>3, <2>3 DEF ToSet
      <3>2. Windows[k].priority < w.priority /\ w.priority \in Int
        BY <1>2, <1>4, <1>5, <3>1 DEF WindowRows
      <3> QED
        BY <2>1, <3>2
    <2> QED
      BY <2>2, <2>3
  <1>8. n \in highest
    BY <1>5, <1>6, <1>7
  <1>9. \A i \in highest : Windows[i] = w
    <2> SUFFICES ASSUME NEW i \in highest, Windows[i] # w PROVE FALSE
      OBVIOUS
    <2>1. Windows[i].priority < w.priority /\ w.priority <= Windows[i].priority
      BY <1>5, <1>6, <1>7
    <2>2. Windows[i].priority \in Int /\ w.priority \in Int
      BY <1>2, <1>5 DEF WindowRows
    <2> QED
      BY <2>1, <2>2
  <1>10. Max(highest) \in highest
    <2>1. highest \subseteq 1 .. Len(Windows)
      BY <1>2
    <2> HIDE DEF highest
    <2> QED
      BY <1>2, <1>8, <2>1, Greatest
  <1>11. forced = {}
    <2> SUFFICES ASSUME NEW i \in DOMAIN Overrides, Active(Overrides[i], t),
                        AppliesTo(Overrides[i], a)
                 PROVE  FALSE
      OBVIOUS
    <2>1. Overrides[i] \in ToSet(Overrides) /\ Overrides[i].scope \in {a, Everyone}
      BY DEF ToSet, AppliesTo
    <2>2. Overrides[i].expires <= t
      BY <2>1 DEF StopsBy
    <2>3. Overrides[i] \in OverrideRows
      BY DEF ScheduleIsRead
    <2>4. Overrides[i].expires \in Int
      BY <2>3 DEF OverrideRows
    <2> QED
      BY <2>2, <2>4 DEF Active
  <1>12. Windows[Max(highest)].total = 0 /\ covering # {} /\ 0 # Unset
    BY <1>4, <1>6, <1>9, <1>10 DEF ScheduleIsRead
  <1> QED
    BY <1>11, <1>12 DEF Effective, at

(* A round is only begun when some agent has a slot.                       *)
Open == tick.at = "dispatch" => \E a \in tick.fleet : Effective(a, Slots, tick.asked) # 0

LEMMA OpenNext ==
  ASSUME Typed, Open, [Next]_vars
  PROVE  Open'
  <1>1. CASE tick'.at # "dispatch"
    BY <1>1 DEF Open
  <1>2. CASE tick' = Idle
    <2>1. tick'.at # "dispatch"
      BY <1>2 DEF Idle
    <2> QED
      BY <1>1, <2>1
  <1>3. CASE tick' = tick
    BY <1>3 DEF Open
  <1>4. CASE Rebuild
    <2>1. CASE ~Paused /\ tick'.fleet = tick.fleet /\ tick'.asked = now
      BY <2>1 DEF Open, Paused
    <2> QED
      BY <1>2, <1>4, <2>1, RebuildTick
  <1>5. ASSUME tick'.fleet = tick.fleet, tick'.asked = tick.asked, tick.at = "dispatch"
        PROVE  Open'
    BY <1>5 DEF Open
  <1>6. ASSUME NEW q \in tick.queue, Admit(q) PROVE Open'
    BY <1>5, <1>6, AdmitTick DEF Admit
  <1>7. ASSUME NEW x \in tick.chosen, Place(x) PROVE Open'
    BY <1>5, <1>7, PlaceTick DEF Place
  <1>8. ASSUME NEW x \in tick.lost, Reclaim(x) PROVE Open'
    BY <1>1, <1>8, ReclaimTick
  <1>9. CASE Begin \/ ReadQueue \/ ReadHeld
    BY <1>1, <1>9, BeginTick, ReadQueueTick, ReadHeldTick
  <1>10. CASE ReadFleet
    BY <1>1, <1>2, <1>10, ReadFleetTick
  <1>11. CASE End \/ ServerRestart
    BY <1>2, <1>11 DEF End, ServerRestart
  <1>12. ASSUME NEW j \in Jobs, Advance(j) \/ Create(j) PROVE Open'
    BY <1>3, <1>12 DEF Advance, Create
  <1>13. ASSUME NEW a \in Agents, Connect(a) \/ Disconnect(a) PROVE Open'
    BY <1>3, <1>13 DEF Connect, Disconnect
  <1>14. CASE Pass \/ UNCHANGED vars
    BY <1>3, <1>14 DEF Pass, vars
  <1> QED
    BY <1>4, <1>6, <1>7, <1>8, <1>9, <1>10, <1>11, <1>12, <1>13, <1>14 DEF Next, Tick

Starts(j) == job[j].state # "Assigned" /\ job'[j].state = "Assigned"

(* Only a placement starts a job.                                          *)
LEMMA OnlyRoundsStart ==
  ASSUME Typed, [Next]_vars, NEW j \in Jobs, Starts(j)
  PROVE  tick.at = "dispatch"
  <1>1. CASE GoesOn
    <2>1. HoldsCapacity("Assigned")
      BY DEF HoldsCapacity
    <2> QED
      BY <1>1, <2>1, Zenon DEF GoesOn, Starts
  <1>2. ASSUME NEW x \in tick.chosen, Place(x) PROVE tick.at = "dispatch"
    BY <1>2 DEF Place
  <1>3. CASE job' = job
    BY <1>1, <1>3, SameGoesOn
  <1>4. ASSUME NEW x \in tick.lost, Reclaim(x) PROVE GoesOn
    BY <1>4, ReclaimGoesOn
  <1>5. ASSUME NEW i \in Jobs, Advance(i) \/ Create(i) PROVE GoesOn
    BY <1>5, AdvanceGoesOn, CreateGoesOn
  <1>6. CASE Begin \/ ReadQueue \/ ReadFleet \/ ReadHeld \/ Rebuild \/ End
    BY <1>3, <1>6 DEF Begin, ReadQueue, ReadFleet, ReadHeld, Rebuild, End
  <1>7. ASSUME NEW q \in tick.queue, Admit(q) PROVE job' = job
    BY <1>7 DEF Admit
  <1>8. ASSUME NEW a \in Agents, Connect(a) \/ Disconnect(a) PROVE job' = job
    BY <1>8 DEF Connect, Disconnect
  <1>9. CASE ServerRestart \/ Pass \/ UNCHANGED vars
    BY <1>3, <1>9 DEF ServerRestart, Pass, vars
  <1> QED
    BY <1>1, <1>2, <1>3, <1>4, <1>5, <1>6, <1>7, <1>8, <1>9 DEF Next, Tick

(* No tick starts a job if every agent it could use was stopped, by a      *)
(* window's count of minutes round the clock, when it asked the schedule.  *)
THEOREM PauseHolds ==
  ASSUME ScheduleIsRead
  PROVE  Spec => PausedStartsNothing
  <1>1. Init => Typed /\ Open
    <2>1. Init => Open
      BY DEF Init, Idle, Open
    <2> QED
      BY <2>1, TypedInit
  <1>2. Typed /\ Open /\ [Next]_vars => (Typed /\ Open)'
    BY TypedNext, OpenNext
  <1>3. Typed /\ Open /\ [Next]_vars =>
          [\A j \in Jobs : (job[j].state # "Assigned" /\ job'[j].state = "Assigned")
                             => \E a \in tick.fleet : ~StopsBy(a, tick.asked)]_vars
    <2> SUFFICES ASSUME Typed, Open, [Next]_vars, NEW j \in Jobs, Starts(j)
                 PROVE  \E a \in tick.fleet : ~StopsBy(a, tick.asked)
      BY DEF Starts
    <2>1. PICK a \in tick.fleet : Effective(a, Slots, tick.asked) # 0
      BY OnlyRoundsStart DEF Open
    <2>2. tick.asked \in Nat
      BY TypesAre, MatchingAssumption DEF Typed, Ticks
    <2> QED
      BY <2>1, <2>2, StoppedHasNone
  <1> QED
    BY <1>1, <1>2, <1>3, PTL DEF Spec, PausedStartsNothing
=============================================================================
