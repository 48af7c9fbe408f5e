------------------------------ MODULE Matching ------------------------------
(***************************************************************************)
(* How queued jobs are matched to agents with room: the permit ledger      *)
(* (capacity.rs), the dispatcher (dispatch.rs), the schedule's pause, and  *)
(* the part of the orchestrator's tick that reads the job table for them,  *)
(* while the sessions move jobs and agents come and go.                    *)
(*                                                                         *)
(* Jobs are numbered as in_state orders them (priority, order_key, id) and *)
(* agents as the registry lists them (id), so a lower number comes first.  *)
(* The ledger is the tick's own: nobody else reads or writes it.  What a   *)
(* placement and a requeue write, step by step, is in Dispatch; here each  *)
(* is one step.                                                            *)
(*                                                                         *)
(* An operator named Mut... is a mutated form of the definition after it.  *)
(***************************************************************************)
EXTENDS Naturals, Sequences, FiniteSets, SequencesExt, JobStates, Schedule

CONSTANTS
  Jobs, Agents,  \* finite sets of positive numbers
  Class,         \* the class of each job
  Large,         \* the jobs in the large size band
  Capable,       \* the agents that satisfy and admit each job
  Stuck,         \* jobs every placement of which is refused
  Slots,         \* limits.total_slots, the same for every agent
  ClassSlots,    \* limits.per_class, for every class
  LargeSlots,    \* limits.large_slots
  QueueWindow,   \* how many rows of one state are read
  MaxAttempts,   \* job.max_attempts
  MaxDrops,      \* bound: how often a stream, or the server, is lost
  MaxNow         \* bound: how far the clock runs

ASSUME MatchingAssumption ==
  /\ IsFiniteSet(Jobs) /\ Jobs \subseteq Nat \ {0}
  /\ IsFiniteSet(Agents) /\ Agents \subseteq Nat \ {0}
  /\ Large \subseteq Jobs /\ Stuck \subseteq Jobs
  /\ Capable \in [Jobs -> SUBSET Agents]
  /\ DOMAIN Class = Jobs /\ ClassSlots \in [{Class[j] : j \in Jobs} -> Nat]
  /\ {Slots, LargeSlots, MaxDrops, MaxNow} \subseteq Nat
  /\ {QueueWindow, MaxAttempts} \subseteq Nat \ {0}

VARIABLES
  job,        \* each job's state and attempt, and the agent of a held one
  connected,  \* the agents in the fleet table
  tick,       \* what the tick has read so far
  known,      \* the ledger: agents whose limits are set
  held,       \* the ledger: the jobs that hold a permit of each agent
  now,        \* the clock
  drops       \* how much has been lost

ledgerVars == <<known, held>>
worldVars  == <<connected, now, drops>>
vars == <<job, tick, ledgerVars, worldVars>>

Held(j)   == HoldsCapacity(job[j].state)
Queued(j) == job[j].state \in {"Pending", "Eligible"}

(* at: how far it is; lost: jobs whose agent is gone; queue: rows to       *)
(* place; fleet: agents to place them on; reads: how many of the held      *)
(* states are read; seen: held jobs read; chosen: placements decided and   *)
(* not yet made; asked: when it asked the schedule.                        *)
Idle == [at |-> "idle", lost |-> {}, queue |-> {}, fleet |-> {}, reads |-> 0,
         seen |-> {}, chosen |-> {}, asked |-> 0]

QueueRows  == [job : Jobs, from : {"Pending", "Eligible"}]
Placements == [job : Jobs, from : {"Pending", "Eligible"}, agent : Agents]

(* The states a tick reads held jobs from, in the order it reads them.     *)
MutHeldOrder == <<"Committing", "Verifying", "Running", "Assigned">>
HeldOrder == <<"Assigned", "Running", "Verifying", "Committing">>

TypeOK ==
  /\ job \in [Jobs -> [state : States \cup {"Absent"}, agent : Agents \cup {0},
                       attempt : 0 .. MaxAttempts - 1]]
  /\ connected \subseteq Agents
  /\ tick \in [at : {"idle", "reconcile", "queue", "read", "dispatch"},
               lost : SUBSET [job : Jobs, from : States],
               queue : SUBSET QueueRows, fleet : SUBSET Agents,
               reads : 0 .. Len(HeldOrder), seen : SUBSET [job : Jobs, agent : Agents],
               chosen : SUBSET Placements, asked : 0 .. MaxNow]
  /\ known \subseteq Agents
  /\ held \in [Agents -> SUBSET Jobs]
  /\ now \in 0 .. MaxNow /\ drops \in 0 .. MaxDrops

Init ==
  /\ job = [j \in Jobs |-> [state |-> "Absent", agent |-> 0, attempt |-> 0]]
  /\ connected = {} /\ tick = Idle
  /\ known = {} /\ held = [a \in Agents |-> {}]
  /\ now = 0 /\ drops = 0

-----------------------------------------------------------------------------
(* The job table.                                                          *)

(* in_state: the first rows of a state, in queue order.                    *)
InState(s) ==
  LET all == {j \in Jobs : job[j].state = s}
  IN {j \in all : Cardinality({i \in all : i < j}) < QueueWindow}

MutDispatchable == {"Pending"} \* requeued jobs are not read
Dispatchable == {"Pending", "Eligible"}

(* The queue is the pending jobs and then the requeued ones.               *)
Sooner(x, y) ==
  \/ x.from = "Pending" /\ y.from = "Eligible"
  \/ x.from = y.from /\ x.job < y.job

IsFirst(x, S) == x \in S /\ \A y \in S \ {x} : Sooner(x, y)

Put(j, s, a) == job' = [job EXCEPT ![j].state = s, ![j].agent = a]

(* Another attempt, as long as there is one.                               *)
Again(j) ==
  LET n == job[j].attempt + 1 IN
  IF n < MaxAttempts
  THEN job' = [job EXCEPT ![j] = [state |-> "Eligible", agent |-> 0, attempt |-> n]]
  ELSE Put(j, "DeadLettered", 0)

Unpermitted(j) == [a \in Agents |-> held[a] \ {j}]

-----------------------------------------------------------------------------
(* The tick.  It holds the ledger's lock for a whole round of dispatch.    *)

Begin ==
  /\ tick.at = "idle"
  /\ LET gone == {j \in Jobs : Held(j) /\ j \in InState(job[j].state)
                               /\ job[j].agent \notin connected}
     IN tick' = [Idle EXCEPT !.at = "reconcile",
                             !.lost = {[job |-> j, from |-> job[j].state] : j \in gone}]
  /\ UNCHANGED <<job, ledgerVars, worldVars>>

(* A job that moved meanwhile is left where it is; its permit goes either  *)
(* way.  One that was committing is for an operator.                       *)
Reclaim(x) ==
  /\ tick.at = "reconcile" /\ x \in tick.lost
  /\ tick' = [tick EXCEPT !.lost = @ \ {x}]
  /\ IF job[x.job].state # x.from THEN UNCHANGED job
     ELSE IF x.from = "Committing" THEN Put(x.job, "NeedsOperator", 0)
     ELSE Again(x.job)
  /\ held' = IF x.from = "Committing" THEN held ELSE Unpermitted(x.job)
  /\ UNCHANGED <<known, worldVars>>

ReadQueue ==
  /\ tick.at = "reconcile" /\ tick.lost = {}
  /\ tick' = [tick EXCEPT
       !.at = "queue",
       !.queue = {x \in QueueRows : x.from \in Dispatchable /\ x.job \in InState(x.from)}]
  /\ UNCHANGED <<job, ledgerVars, worldVars>>

(* An empty fleet ends the tick.                                           *)
ReadFleet ==
  /\ tick.at = "queue"
  /\ tick' = IF connected = {} THEN Idle
             ELSE [tick EXCEPT !.at = "read", !.fleet = connected]
  /\ UNCHANGED <<job, ledgerVars, worldVars>>

(* rebuild_capacity reads one state after the other, while jobs move.      *)
ReadHeld ==
  /\ tick.at = "read" /\ tick.reads < Len(HeldOrder)
  /\ tick' = [tick EXCEPT
       !.reads = @ + 1,
       !.seen = @ \cup {[job |-> j, agent |-> job[j].agent] :
                          j \in InState(HeldOrder[tick.reads + 1])}]
  /\ UNCHANGED <<job, ledgerVars, worldVars>>

(* CapacityLedger::rebuild: what was there is forgotten, and the jobs of   *)
(* agents without limits are skipped.                                      *)
Rebuilt(a) == {x.job : x \in {y \in tick.seen : y.agent = a}}

(* The schedule stops a tick only if it leaves no agent a slot.            *)
Paused == \A a \in tick.fleet : Effective(a, Slots, now) = 0

Rebuild ==
  /\ tick.at = "read" /\ tick.reads = Len(HeldOrder)
  /\ known' = known \cup tick.fleet
  /\ held' = [a \in Agents |-> IF a \in known' THEN Rebuilt(a) ELSE {}]
  /\ tick' = IF Paused \/ tick.queue = {} THEN Idle
             ELSE [tick EXCEPT !.at = "dispatch", !.seen = {}, !.asked = now]
  /\ UNCHANGED <<job, worldVars>>

(* try_acquire: every permit a job needs, or none.                         *)
HasRoom(a, j) ==
  /\ a \in known
  /\ \A b \in Agents : j \notin held[b]
  /\ Cardinality(held[a]) < Slots
  /\ Cardinality({i \in held[a] : Class[i] = Class[j]}) < ClassSlots[Class[j]]
  /\ j \in Large => Cardinality(held[a] \cap Large) < LargeSlots

(* Of the agents that can run the first job of the queue and have room for *)
(* it the first gets it; without one it waits for another tick.            *)
Admit(q) ==
  LET able == {a \in tick.fleet \cap Capable[q.job] : HasRoom(a, q.job)} IN
  /\ tick.at = "dispatch" /\ IsFirst(q, tick.queue)
  /\ \/ /\ able = {}
        /\ tick' = [tick EXCEPT !.queue = @ \ {q}]
        /\ UNCHANGED held
     \/ \E a \in able :
          /\ \A b \in able : a <= b
          /\ tick' = [tick EXCEPT
               !.queue = @ \ {q},
               !.chosen = @ \cup {[job |-> q.job, from |-> q.from, agent |-> a]}]
          /\ held' = [held EXCEPT ![a] = @ \cup {q.job}]
  /\ UNCHANGED <<job, known, worldVars>>

(* A job that is stuck (the policy owes it no work by now, or its          *)
(* destination is reserved), that moved, or whose agent has gone is not    *)
(* placed; one whose agent goes at the last moment costs an attempt.  The  *)
(* permit is handed back.                                                  *)
Place(x) ==
  LET free == x.job \notin Stuck /\ job[x.job].state = x.from IN
  /\ tick.at = "dispatch" /\ tick.queue = {} /\ IsFirst(x, tick.chosen)
  /\ tick' = [tick EXCEPT !.chosen = @ \ {x}]
  /\ \/ /\ free /\ x.agent \in connected
        /\ Put(x.job, "Assigned", x.agent)
        /\ UNCHANGED held
     \/ /\ ~free \/ x.agent \notin connected
        /\ UNCHANGED job \/ (free /\ Again(x.job))
        /\ held' = Unpermitted(x.job)
  /\ UNCHANGED <<known, worldVars>>

End ==
  /\ tick.at = "dispatch" /\ tick.queue = {} /\ tick.chosen = {}
  /\ tick' = Idle
  /\ UNCHANGED <<job, ledgerVars, worldVars>>

Tick ==
  \/ Begin \/ ReadQueue \/ ReadFleet \/ ReadHeld \/ Rebuild \/ End
  \/ \E q \in tick.queue : Admit(q)
  \/ \E x \in tick.chosen : Place(x)
  \/ \E x \in tick.lost : Reclaim(x)

-----------------------------------------------------------------------------
(* The sessions, the fleet and the clock.                                  *)

Moves == {<<"Assigned", "Running">>, <<"Running", "Verifying">>,
          <<"Verifying", "Committing">>}

(* What an agent says of its job moves it on, back, or ends it; Succeeded  *)
(* stands for every end of a commit.                                       *)
Advance(j) ==
  /\ Held(j) /\ job[j].agent \in connected
  /\ \/ \E m \in Moves : job[j].state = m[1] /\ Put(j, m[2], job[j].agent)
     \/ job[j].state = "Committing" /\ Put(j, "Succeeded", 0)
     \/ job[j].state = "Running" /\ Again(j)
  /\ UNCHANGED <<tick, ledgerVars, worldVars>>

Create(j) ==
  /\ job[j].state = "Absent"
  /\ Put(j, "Pending", 0)
  /\ UNCHANGED <<tick, ledgerVars, worldVars>>

Connect(a) ==
  /\ a \notin connected
  /\ connected' = connected \cup {a}
  /\ UNCHANGED <<job, tick, ledgerVars, now, drops>>

Disconnect(a) ==
  /\ a \in connected /\ drops < MaxDrops
  /\ connected' = connected \ {a}
  /\ drops' = drops + 1
  /\ UNCHANGED <<job, tick, ledgerVars, now>>

ServerRestart ==
  /\ drops < MaxDrops /\ drops' = drops + 1
  /\ connected' = {} /\ tick' = Idle
  /\ known' = {} /\ held' = [a \in Agents |-> {}]
  /\ UNCHANGED <<job, now>>

Pass ==
  /\ now < MaxNow /\ now' = now + 1
  /\ UNCHANGED <<job, tick, ledgerVars, connected, drops>>

Next ==
  \/ Tick
  \/ \E j \in Jobs : Advance(j) \/ Create(j)
  \/ \E a \in Agents : Connect(a) \/ Disconnect(a)
  \/ ServerRestart \/ Pass

Spec == Init /\ [][Next]_vars

(* Ticks go on, agents reconnect and finish what they run, time passes.    *)
Fairness ==
  /\ WF_vars(Tick) /\ WF_vars(Pass)
  /\ \A j \in Jobs : WF_vars(Advance(j))
  /\ \A a \in Agents : WF_vars(Connect(a))

FairSpec == Spec /\ Fairness

-----------------------------------------------------------------------------
(* However reads, results, reconnects and restarts interleave, the table   *)
(* never gives an agent more jobs than its limits allow: in all, of one    *)
(* class, and large.                                                       *)
HeldBy(a) == {j \in Jobs : Held(j) /\ job[j].agent = a}

NeverOverbooked ==
  \A a \in Agents :
    /\ Cardinality(HeldBy(a)) <= Slots
    /\ \A j \in HeldBy(a) :
         Cardinality({i \in HeldBy(a) : Class[i] = Class[j]}) <= ClassSlots[Class[j]]
    /\ Cardinality(HeldBy(a) \cap Large) <= LargeSlots

(* While a tick decides and places, the ledger knows at least of every job *)
(* that an agent it may use holds, whatever moved while the table was      *)
(* being read and whatever a failed placement handed back.                 *)
LedgerAgrees ==
  tick.at = "dispatch" => \A a \in tick.fleet : HeldBy(a) \subseteq held[a]

(* Nothing is started by a tick that asked when every agent it could use   *)
(* was stopped.  Within says in another way what a window covers: counting *)
(* from its start, round the clock, one is not yet at its end.             *)
Within(w, at) ==
  /\ w.enabled /\ at.weekday \in w.days
  /\ (at.minute - w.start) % MinutesPerDay < (w.end - w.start) % MinutesPerDay

StopsBy(a, t) ==
  /\ \E w \in ToSet(Windows) :
       /\ w.total = 0 /\ Within(w, Clock(t))
       /\ \A v \in ToSet(Windows) \ {w} : Within(v, Clock(t)) => v.priority < w.priority
  /\ \A o \in ToSet(Overrides) : o.scope \in {a, Everyone} => o.expires <= t

PausedStartsNothing ==
  [][\A j \in Jobs : (job[j].state # "Assigned" /\ job'[j].state = "Assigned")
                       => \E a \in tick.fleet : ~StopsBy(a, tick.asked)]_vars

(* "Every capable agent is busy" is a queue that drains on its own         *)
(* (dispatch.rs:261): a job that some agent could run does not wait in the *)
(* queue for ever.                                                         *)
Drains ==
  \A j \in Jobs : (j \notin Stuck /\ Capable[j] # {}) => (Queued(j) ~> ~Queued(j))
=============================================================================
