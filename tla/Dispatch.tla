------------------------------ MODULE Dispatch ------------------------------
(***************************************************************************)
(* How a job gets from the queue onto an agent and back: the orchestrator's *)
(* tick (orchestrator.rs, reconcile.rs), the server's handlers of agent    *)
(* messages (session.rs), the fleet table (fleet.rs), the job and intent   *)
(* rows they share (job.rs, commit_intent.rs), and the agents that mount   *)
(* the library (client.rs, worker.rs).                                     *)
(*                                                                         *)
(* Every write to the store is one step, because the writer runs each op   *)
(* in its own savepoint on one thread; every multi-write operation is a    *)
(* program counter over those steps.  Thread 0 is the orchestrator, thread *)
(* k the handler of stream k, which takes one message at a time.           *)
(*                                                                         *)
(* An install is one step with a verdict here: CommitRitual has the inside.*)
(* An operator named Mut... is a mutated form of the definition after it.  *)
(***************************************************************************)
EXTENDS Naturals, Sequences, FiniteSets, SequencesExt, JobStates

CONSTANTS
  Jobs,        \* job ids, in the order the evaluator may create them
  Agents,      \* agents, each known to the registry
  Nobody,      \* no agent
  File,        \* the destination of each job
  MaxAttempts, \* job.max_attempts
  Trouble,     \* which kinds of trouble may happen
  MaxTrouble,  \* bound: how much trouble may happen in all
  MaxStreams   \* bound: how many streams may be opened in all

(* A write fails, the server or an agent restarts, a stream breaks, an     *)
(* agent is back before the server has noticed its absence, heartbeats are *)
(* late, an answer is late, an operator cancels, an agent is slow to let   *)
(* go of a job it has reported.                                            *)
Kinds == {"write", "server", "restart", "stream", "blip", "lease", "timeout", "cancel",
          "linger"}

ASSUME DispatchAssumption ==
  /\ Nobody \notin Agents /\ IsFiniteSet(Jobs)
  /\ MaxAttempts \in Nat \ {0} /\ MaxTrouble \in Nat /\ MaxStreams \in Nat
  /\ Trouble \subseteq Kinds

VARIABLES
  \* the store
  job,      \* the row of each job
  intent,   \* the commit_intent row of each (job, attempt)
  epoch,    \* the registry: each agent's fencing epoch
  lease,    \* the registry: whether each agent's lease is current
  online,   \* the registry: whether each agent's status is Online
  \* the server process
  fleet,    \* the stream each agent is connected by, or 0
  task,     \* what the orchestrator and each stream's handler are doing
  lost,     \* what is left of the reconciler's snapshot
  queue,    \* what is left of the dispatcher's snapshot
  willing,  \* the agents of that snapshot
  \* the streams
  conn,
  \* the agents
  session,  \* the stream each agent holds, or 0
  fresh,    \* agents whose process has not registered yet
  work,     \* the assignments each agent's process is executing
  claims,   \* the job ids each agent heartbeats as running
  revoked,  \* the job ids each agent has been told to stop
  \* the media
  installs, \* history: how often each job's output was installed
  trouble   \* how much trouble there has been

storeVars  == <<job, intent, epoch, lease, online>>
serverVars == <<fleet, task, lost, queue, willing>>
tables     == <<lost, queue, willing>>
agentVars  == <<session, fresh, work, claims, revoked>>
vars == <<storeVars, serverVars, conn, agentVars, installs, trouble>>

Attempts == 0 .. MaxAttempts
Streams  == 1 .. MaxStreams
Threads  == 0 .. MaxStreams

Held(j) == HoldsCapacity(job[j].state)
Open(j) == job[j].state \notin Terminal \cup {"Absent"}
Live(j, n) == intent[<<j, n>>].state = "live"

UpMessages ==
       [kind : {"result"}, job : Jobs, ok : BOOLEAN]
  \cup [kind : {"request"}, job : Jobs]
  \cup [kind : {"report"}, job : Jobs, label : {"installed", "source_intact", "needs_operator"}]

DownMessages ==
       [kind : {"assign"}, job : Jobs, attempt : Nat]
  \cup [kind : {"grant"}, job : Jobs, ok : BOOLEAN]
  \cup [kind : {"revoke"}, job : Jobs]

Items == [job : Jobs, attempt : Nat, stream : Streams,
          pc : {"encoding", "asking", "installing", "ending"}]

Idle == [pc |-> "idle"]

TypeOK ==
  /\ job \in [Jobs -> [state : States \cup {"Absent"}, agent : Agents \cup {Nobody},
                       epoch : Nat, attempt : Nat]]
  /\ intent \in [Jobs \X Attempts ->
                   [state : {"absent", "live", "resolved"},
                    agent : Agents \cup {Nobody}, epoch : Nat]]
  /\ epoch \in [Agents -> Nat]
  /\ lease \in [Agents -> BOOLEAN]
  /\ online \in [Agents -> BOOLEAN]
  /\ fleet \in [Agents -> {0} \cup Streams]
  /\ DOMAIN task = Threads
  /\ lost \subseteq [job : Jobs, from : States]
  /\ queue \subseteq [job : Jobs, from : {"Pending", "Eligible"}, attempt : Nat]
  /\ willing \subseteq Agents
  /\ \A k \in DOMAIN conn :
       /\ conn[k].agent \in Agents /\ conn[k].epoch \in Nat
       /\ conn[k].up \in Seq(UpMessages) /\ conn[k].down \in Seq(DownMessages)
       /\ conn[k].open \in BOOLEAN /\ conn[k].served \in BOOLEAN
  /\ DOMAIN conn \subseteq Streams
  /\ session \in [Agents -> {0} \cup Streams]
  /\ fresh \in SUBSET Agents
  /\ work \in [Agents -> SUBSET Items]
  /\ claims \in [Agents -> SUBSET Jobs]
  /\ revoked \in [Agents -> SUBSET Jobs]
  /\ installs \in [Jobs -> Nat]
  /\ trouble \in 0 .. MaxTrouble

Init ==
  /\ job = [j \in Jobs |-> [state |-> "Absent", agent |-> Nobody, epoch |-> 0,
                            attempt |-> 0]]
  /\ intent = [i \in Jobs \X Attempts |->
                 [state |-> "absent", agent |-> Nobody, epoch |-> 0]]
  /\ epoch = [a \in Agents |-> 0]
  /\ lease = [a \in Agents |-> FALSE] /\ online = [a \in Agents |-> FALSE]
  /\ fleet = [a \in Agents |-> 0]
  /\ task = [t \in Threads |-> Idle] /\ lost = {} /\ queue = {} /\ willing = {}
  /\ conn = <<>>
  /\ session = [a \in Agents |-> 0] /\ fresh = Agents
  /\ work = [a \in Agents |-> {}]
  /\ claims = [a \in Agents |-> {}] /\ revoked = [a \in Agents |-> {}]
  /\ installs = [j \in Jobs |-> 0]
  /\ trouble = 0

-----------------------------------------------------------------------------
(* Trouble, and what the store does.                                       *)

Happens(kind) ==
  /\ kind \in Trouble /\ trouble < MaxTrouble
  /\ trouble' = trouble + 1

(* A write is refused when its guard fails, and may fail for reasons of    *)
(* its own (a full disk, a poisoned op); either way nothing is written.    *)
Refused(guard) ==
  \/ ~guard /\ UNCHANGED trouble
  \/ guard /\ Happens("write")

MutCanMove(j, from, to) == CanTransition(from, to) \* the state is not compared

(* JobRepo::transition_op: legal, and the row is still in `from`.          *)
CanMove(j, from, to) == CanTransition(from, to) /\ job[j].state = from

Move(j, to) == job' = [job EXCEPT ![j].state = to]

(* CommitIntentRepo::resolve_op: only a live row is closed.                *)
Resolve(j, n) ==
  intent' = IF Live(j, n) THEN [intent EXCEPT ![<<j, n>>].state = "resolved"]
                          ELSE intent

(* CommitIntentRepo::grant_op: `job:attempt` is the primary key and one    *)
(* path has one live intent.                                               *)
CanGrant(j, n) ==
  /\ intent[<<j, n>>].state = "absent"
  /\ \A i \in Jobs, m \in Attempts : File[i] = File[j] => ~Live(i, m)

(* FleetTable::send: to whatever stream the agent has now, if it has one.  *)
Connected(a) == fleet[a] # 0

Send(a, m) ==
  conn' = IF Connected(a) /\ conn[fleet[a]].open
          THEN [conn EXCEPT ![fleet[a]].down = Append(@, m)]
          ELSE conn

-----------------------------------------------------------------------------
(* The tail that the orchestrator's requeue and the handler of a rejected  *)
(* encode share: close the attempt's intent, Retrying, decide_retry on the *)
(* attempt number read before, then another attempt or the dead letters.   *)
(* A thread at one of these steps holds job, attempt, and from.            *)

Then(t, pc) == task' = [task EXCEPT ![t].pc = pc]

(* The orchestrator goes on with its list, a handler waits for the next    *)
(* message.                                                                *)
Finish(t) ==
  task' = [task EXCEPT ![t] = IF t = 0 THEN [pc |-> task[0].back] ELSE Idle]

OnlyJobs(t)    == UNCHANGED <<intent, epoch, lease, online, fleet, tables, conn,
                              agentVars, installs>>
OnlyIntents(t) == UNCHANGED <<job, epoch, lease, online, fleet, tables, conn,
                              agentVars, installs>>

(* The job goes back without the destination it held.                      *)
MutRelease(t) ==
  /\ task[t].pc = "release"
  /\ Then(t, "retry") /\ UNCHANGED <<trouble, intent>>
  /\ OnlyIntents(t)

(* requeue gives up if this write fails; release_intent only logs it.      *)
Release(t) ==
  LET w == task[t] IN
  /\ w.pc = "release"
  /\ \/ Resolve(w.job, w.attempt) /\ Then(t, "retry") /\ UNCHANGED trouble
     \/ /\ Happens("write") /\ UNCHANGED intent
        /\ IF t = 0 THEN Finish(t) ELSE Then(t, "retry")
  /\ OnlyIntents(t)

(* decide_retry with a transient failure.                                  *)
Exhausted(n) == n + 1 >= MaxAttempts

Retry(t) ==
  LET w == task[t]
      guard == CanMove(w.job, w.from, "Retrying") IN
  /\ w.pc = "retry"
  /\ \/ /\ guard /\ Move(w.job, "Retrying") /\ UNCHANGED trouble
        /\ Then(t, IF Exhausted(w.attempt) THEN "bury" ELSE "bump")
     \/ Refused(guard) /\ UNCHANGED job /\ Finish(t)
  /\ OnlyJobs(t)

Bump(t) ==
  LET w == task[t] IN
  /\ w.pc = "bump"
  /\ \/ /\ job' = [job EXCEPT ![w.job].attempt = @ + 1]
        /\ Then(t, "queue") /\ UNCHANGED trouble
     \/ Happens("write") /\ UNCHANGED job /\ Finish(t)
  /\ OnlyJobs(t)

Requeue(t) ==
  LET w == task[t]
      to == IF w.pc = "queue" THEN "Eligible" ELSE "DeadLettered"
      guard == CanMove(w.job, "Retrying", to) IN
  /\ w.pc \in {"queue", "bury"}
  /\ \/ guard /\ Move(w.job, to) /\ UNCHANGED trouble
     \/ Refused(guard) /\ UNCHANGED job
  /\ Finish(t)
  /\ OnlyJobs(t)

-----------------------------------------------------------------------------
(* The orchestrator's tick: reconcile, sweep, dispatch.                    *)

At(pc) == task[0].pc = pc

(* Whoever had a lease when it was last heard is taken to be there.        *)
MutDeserted(j) == LET a == job[j].agent IN ~(a # Nobody /\ lease[a])

(* The reconciler judges one snapshot of the held jobs and the fleet.      *)
Deserted(j) ==
  LET a == job[j].agent IN
  ~(a # Nobody /\ Connected(a) /\ lease[a])

TickReconcile ==
  /\ At("idle")
  /\ lost' = {[job |-> j, from |-> job[j].state] :
                j \in {i \in Jobs : Held(i) /\ Deserted(i)}}
  /\ task' = [task EXCEPT ![0] = [pc |-> "reconcile"]]
  /\ UNCHANGED <<storeVars, fleet, queue, willing, conn, agentVars, installs, trouble>>

(* Mid-commit is never guessed; the failure of this write is ignored.      *)
Escalate(x) ==
  LET guard == CanMove(x.job, "Committing", "NeedsOperator") IN
  /\ At("reconcile") /\ x \in lost /\ x.from = "Committing"
  /\ lost' = lost \ {x}
  /\ \/ guard /\ Move(x.job, "NeedsOperator") /\ UNCHANGED trouble
     \/ Refused(guard) /\ UNCHANGED job
  /\ UNCHANGED <<intent, epoch, lease, online, fleet, task, queue, willing, conn,
                 agentVars, installs>>

BeginRequeue(j, from, back) ==
  task' = [task EXCEPT ![0] = [pc |-> "release", job |-> j, attempt |-> job[j].attempt,
                               from |-> from, back |-> back]]

Reclaim(x) ==
  /\ At("reconcile") /\ x \in lost /\ x.from # "Committing"
  /\ lost' = lost \ {x}
  /\ BeginRequeue(x.job, x.from, "reconcile")
  /\ UNCHANGED <<storeVars, fleet, queue, willing, conn, agentVars, installs, trouble>>

(* sweep_stranded_intents, then the snapshots the dispatcher works from:   *)
(* what is queued, and who is connected and, as the registry says, Online. *)
MutStranded(j, n) == Live(j, n) /\ job[j].state = "Absent" \* only a pruned job's

Stranded(j, n) ==
  /\ Live(j, n)
  /\ IsTerminal(job[j].state) /\ job[j].state # "NeedsOperator"

Sweep ==
  /\ At("reconcile") /\ lost = {}
  /\ \/ /\ intent' = [i \in DOMAIN intent |->
                        IF Stranded(i[1], i[2])
                        THEN [intent[i] EXCEPT !.state = "resolved"] ELSE intent[i]]
        /\ UNCHANGED trouble
     \/ /\ \E i \in DOMAIN intent : Stranded(i[1], i[2])
        /\ Happens("write") /\ UNCHANGED intent
  /\ queue' = {[job |-> j, from |-> job[j].state, attempt |-> job[j].attempt] :
                 j \in {i \in Jobs : job[i].state \in {"Pending", "Eligible"}}}
  /\ willing' = {a \in Agents : Connected(a) /\ online[a]}
  /\ task' = [task EXCEPT ![0] = [pc |-> "dispatch"]]
  /\ UNCHANGED <<job, epoch, lease, online, fleet, lost, conn, agentVars, installs>>

(* The dispatcher placed q on a; or a has gone, or there is no room, or    *)
(* the current policy owes the file no work.                               *)
PlaceStart(q, a) ==
  /\ At("dispatch") /\ q \in queue /\ a \in willing /\ Connected(a)
  /\ queue' = queue \ {q}
  /\ task' = [task EXCEPT ![0] =
                [pc |-> "grant", job |-> q.job, agent |-> a, from |-> q.from,
                 attempt |-> q.attempt, epoch |-> conn[fleet[a]].epoch,
                 back |-> "dispatch"]]
  /\ UNCHANGED <<storeVars, fleet, lost, willing, conn, agentVars, installs, trouble>>

Blocked(q) ==
  /\ At("dispatch") /\ q \in queue
  /\ queue' = queue \ {q}
  /\ UNCHANGED <<storeVars, fleet, task, lost, willing, conn, agentVars, installs,
                 trouble>>

EndTick ==
  /\ At("dispatch") /\ queue = {}
  /\ willing' = {}
  /\ task' = [task EXCEPT ![0] = Idle]
  /\ UNCHANGED <<storeVars, fleet, lost, queue, conn, agentVars, installs, trouble>>

(* The four steps of place; an error after the first leaves what the       *)
(* earlier ones wrote.                                                     *)
PlaceGrant ==
  LET w == task[0]
      guard == CanGrant(w.job, w.attempt) IN
  /\ At("grant")
  /\ \/ /\ guard /\ UNCHANGED trouble
        /\ intent' = [intent EXCEPT ![<<w.job, w.attempt>>] =
                        [state |-> "live", agent |-> w.agent, epoch |-> w.epoch]]
        /\ Then(0, IF w.from = "Pending" THEN "eligible" ELSE "assign")
     \/ Refused(guard) /\ UNCHANGED intent /\ Finish(0)
  /\ OnlyIntents(0)

PlaceEligible ==
  LET w == task[0]
      guard == CanMove(w.job, "Pending", "Eligible") IN
  /\ At("eligible")
  /\ \/ guard /\ Move(w.job, "Eligible") /\ Then(0, "assign") /\ UNCHANGED trouble
     \/ Refused(guard) /\ UNCHANGED job /\ Finish(0)
  /\ OnlyJobs(0)

PlaceAssign ==
  LET w == task[0]
      guard == job[w.job].state = "Eligible" IN
  /\ At("assign")
  /\ \/ /\ guard /\ UNCHANGED trouble
        /\ job' = [job EXCEPT ![w.job].state = "Assigned", ![w.job].agent = w.agent,
                              ![w.job].epoch = w.epoch]
        /\ Then(0, "send")
     \/ Refused(guard) /\ UNCHANGED job /\ Finish(0)
  /\ OnlyJobs(0)

(* An agent that has gone by now costs the job an attempt; a stream the    *)
(* agent has dropped may or may not have been noticed.                     *)
PlaceSend ==
  LET w == task[0] IN
  /\ At("send")
  /\ \/ /\ Connected(w.agent)
        /\ Send(w.agent, [kind |-> "assign", job |-> w.job, attempt |-> w.attempt])
        /\ Finish(0)
     \/ /\ ~(Connected(w.agent) /\ conn[fleet[w.agent]].open)
        /\ BeginRequeue(w.job, "Assigned", "dispatch")
        /\ UNCHANGED conn
  /\ UNCHANGED <<storeVars, fleet, tables, agentVars, installs, trouble>>

Tick ==
  \/ TickReconcile \/ Sweep \/ EndTick
  \/ \E x \in lost : Escalate(x) \/ Reclaim(x)
  \/ \E q \in queue : Blocked(q) \/ \E a \in willing : PlaceStart(q, a)
  \/ PlaceGrant \/ PlaceEligible \/ PlaceAssign \/ PlaceSend

-----------------------------------------------------------------------------
(* The server's handlers: one message of a stream at a time.               *)

Has(k, kind) ==
  /\ k \in DOMAIN conn /\ conn[k].served /\ task[k] = Idle
  /\ conn[k].up # <<>> /\ Head(conn[k].up).kind = kind

Message(k) == Head(conn[k].up)

Consume(k) == conn' = [conn EXCEPT ![k].up = Tail(@)]

(* The fence: the job was given to this agent under this stream's epoch.   *)
(* The attempt a result carries is not looked at.                          *)
GivenTo(j, k) == job[j].agent = conn[k].agent /\ job[j].epoch = conn[k].epoch

OnResult(k) ==
  LET m == Message(k) IN
  /\ Has(k, "result")
  /\ Consume(k)
  /\ task' = IF GivenTo(m.job, k)
             THEN [task EXCEPT ![k] =
                     [pc |-> IF job[m.job].state = "Assigned" THEN "start"
                             ELSE IF m.ok THEN "accept" ELSE "release",
                      job |-> m.job, attempt |-> job[m.job].attempt,
                      from |-> "Running", ok |-> m.ok]]
             ELSE task
  /\ UNCHANGED <<storeVars, fleet, tables, agentVars, installs, trouble>>

ResultStart(k) ==
  LET w == task[k]
      guard == CanMove(w.job, "Assigned", "Running") IN
  /\ w.pc = "start"
  /\ \/ /\ guard /\ Move(w.job, "Running") /\ UNCHANGED trouble
        /\ Then(k, IF w.ok THEN "accept" ELSE "release")
     \/ Refused(guard) /\ UNCHANGED job /\ Finish(k)
  /\ OnlyJobs(k)

ResultAccept(k) ==
  LET w == task[k]
      guard == CanMove(w.job, "Running", "Verifying") IN
  /\ w.pc = "accept"
  /\ \/ guard /\ Move(w.job, "Verifying") /\ UNCHANGED trouble
     \/ Refused(guard) /\ UNCHANGED job
  /\ Finish(k)
  /\ OnlyJobs(k)

(* judge_commit: the live intent of the job, whichever attempt it is of,   *)
(* was granted to this agent under this epoch.                             *)
GrantedTo(j, k) ==
  {n \in Attempts : /\ Live(j, n)
                    /\ intent[<<j, n>>].agent = conn[k].agent
                    /\ intent[<<j, n>>].epoch = conn[k].epoch}

(* Consume a message of stream k and send one to agent a.                  *)
Answer(k, a, m) ==
  conn' = [i \in DOMAIN conn |->
             LET c == IF i = k THEN [conn[i] EXCEPT !.up = Tail(@)] ELSE conn[i] IN
             IF i = fleet[a] /\ c.open THEN [c EXCEPT !.down = Append(@, m)] ELSE c]

Grant(j, ok) == [kind |-> "grant", job |-> j, ok |-> ok]

OnCommitRequest(k) ==
  LET j == Message(k).job IN
  /\ Has(k, "request")
  /\ IF GrantedTo(j, k) # {}
     THEN /\ Consume(k)
          /\ task' = [task EXCEPT ![k] = [pc |-> "commit", job |-> j]]
     ELSE /\ Answer(k, conn[k].agent, Grant(j, FALSE))
          /\ UNCHANGED task
  /\ UNCHANGED <<storeVars, fleet, tables, agentVars, installs, trouble>>

(* The grant goes out whether or not it could be written down.             *)
MutRequestCommit(k) ==
  LET j == task[k].job
      guard == CanMove(j, "Verifying", "Committing") IN
  /\ task[k].pc = "commit"
  /\ \/ guard /\ Move(j, "Committing") /\ UNCHANGED trouble
     \/ Refused(guard) /\ UNCHANGED job
  /\ Send(conn[k].agent, Grant(j, TRUE))
  /\ Finish(k)
  /\ UNCHANGED <<intent, epoch, lease, online, fleet, tables, agentVars, installs>>

(* Written down before the agent is told; a failure withdraws the grant.   *)
RequestCommit(k) ==
  LET j == task[k].job
      guard == CanMove(j, "Verifying", "Committing") IN
  /\ task[k].pc = "commit"
  /\ \/ /\ guard /\ Move(j, "Committing") /\ UNCHANGED trouble
        /\ Send(conn[k].agent, Grant(j, TRUE))
     \/ /\ Refused(guard) /\ UNCHANGED job
        /\ Send(conn[k].agent, Grant(j, FALSE))
  /\ Finish(k)
  /\ UNCHANGED <<intent, epoch, lease, online, fleet, tables, agentVars, installs>>

OnCommitReport(k) ==
  LET m == Message(k) IN
  /\ Has(k, "report")
  /\ Consume(k)
  /\ IF GrantedTo(m.job, k) = {} THEN UNCHANGED task
     ELSE \E n \in GrantedTo(m.job, k) :
            task' = [task EXCEPT ![k] = [pc |-> "resolve", job |-> m.job, attempt |-> n,
                                         label |-> m.label]]
  /\ UNCHANGED <<storeVars, fleet, tables, agentVars, installs, trouble>>

ReportResolve(k) ==
  LET w == task[k] IN
  /\ w.pc = "resolve"
  /\ \/ Resolve(w.job, w.attempt) /\ Then(k, "conclude") /\ UNCHANGED trouble
     \/ Happens("write") /\ UNCHANGED intent /\ Finish(k)
  /\ OnlyIntents(k)

(* Whatever left nothing for an operator counts as done.                   *)
MutOutcomeOf(label) == IF label = "needs_operator" THEN "NeedsOperator" ELSE "Succeeded"

OutcomeOf(label) ==
  CASE label = "installed"      -> "Succeeded"
    [] label = "needs_operator" -> "NeedsOperator"
    [] OTHER                    -> "Failed"

ReportConclude(k) ==
  LET w == task[k]
      to == OutcomeOf(w.label)
      guard == CanMove(w.job, "Committing", to) IN
  /\ w.pc = "conclude"
  /\ \/ guard /\ Move(w.job, to) /\ UNCHANGED trouble
     \/ Refused(guard) /\ UNCHANGED job
  /\ Finish(k)
  /\ OnlyJobs(k)

(* A heartbeat renews the lease and revokes what the server does not know  *)
(* as this agent's.  One that would change nothing is left out.            *)
Recognised(j, k) == GivenTo(j, k) /\ Held(j)

OnHeartbeat(a) ==
  LET k == session[a]
      unknown == {j \in claims[a] : ~Recognised(j, k)}
      revokes == [kind : {"revoke"}, job : unknown] IN
  /\ k # 0 /\ conn[k].served /\ task[k] = Idle
  /\ ~lease[a] \/ ~(revokes \subseteq ToSet(conn[k].down))
  /\ lease' = [lease EXCEPT ![a] = TRUE]
  /\ conn' = IF Connected(a)
             THEN [conn EXCEPT ![fleet[a]].down =
                     @ \o SetToSeq(revokes \ ToSet(conn[k].down))]
             ELSE conn
  /\ UNCHANGED <<job, intent, epoch, online, serverVars, agentVars, installs, trouble>>

(* The stream has ended and its messages are handled.  FleetTable::        *)
(* disconnect removes whatever stream the agent has under this epoch.      *)
Teardown(k) ==
  LET a == conn[k].agent IN
  /\ k \in DOMAIN conn /\ conn[k].served /\ ~conn[k].open
  /\ conn[k].up = <<>> /\ task[k] = Idle
  /\ conn' = [conn EXCEPT ![k].served = FALSE]
  /\ fleet' = IF Connected(a) /\ conn[fleet[a]].epoch = conn[k].epoch
              THEN [fleet EXCEPT ![a] = 0] ELSE fleet
  /\ online' = [online EXCEPT ![a] = FALSE]
  /\ UNCHANGED <<job, intent, epoch, lease, task, tables, agentVars, installs, trouble>>

Handle(k) ==
  \/ OnResult(k) \/ ResultStart(k) \/ ResultAccept(k)
  \/ OnCommitRequest(k) \/ RequestCommit(k)
  \/ OnCommitReport(k) \/ ReportResolve(k) \/ ReportConclude(k)
  \/ Teardown(k)

-----------------------------------------------------------------------------
(* The agents.                                                             *)

(* What the server still has to do about an agent's absence.               *)
Unnoticed(a) ==
  \/ Connected(a)
  \/ \E j \in Jobs : Held(j) /\ job[j].agent = a
  \/ At("grant") \/ At("eligible") \/ At("assign") \/ At("send")

(* VersionGate::evaluate, for an agent of a supported version.             *)
Epoch(a) == IF a \in fresh THEN epoch[a] + 1 ELSE epoch[a]

(* Register, then Connect: a process that is new to the registry bumps the *)
(* epoch; the newest stream displaces an older one.                        *)
Join(a) ==
  LET k == Len(conn) + 1
      e == Epoch(a) IN
  /\ session[a] = 0 /\ k \in Streams
  /\ Unnoticed(a) => "blip" \in Trouble
  /\ epoch' = [epoch EXCEPT ![a] = e]
  /\ lease' = [lease EXCEPT ![a] = TRUE]
  /\ online' = [online EXCEPT ![a] = TRUE]
  /\ conn' = Append(conn, [agent |-> a, epoch |-> e, up |-> <<>>, down |-> <<>>,
                           open |-> TRUE, served |-> TRUE])
  /\ fleet' = [fleet EXCEPT ![a] = k]
  /\ session' = [session EXCEPT ![a] = k]
  /\ fresh' = fresh \ {a}
  /\ UNCHANGED <<job, intent, task, tables, work, claims, revoked, installs, trouble>>

(* Items that are over take the claim and the revocation of their job with *)
(* them, though another item may be about the same job.                    *)
Drop(a, over) ==
  /\ claims' = [claims EXCEPT ![a] = @ \ {w.job : w \in over}]
  /\ revoked' = [revoked EXCEPT ![a] = @ \ {w.job : w \in over}]

Finished(a, w) == work' = [work EXCEPT ![a] = @ \ {w}] /\ Drop(a, {w})

(* Messages can be sent on the stream an assignment came by, and only as   *)
(* long as that stream lives.                                              *)
Report(k, ms) ==
  conn' = IF conn[k].open THEN [conn EXCEPT ![k].up = @ \o ms] ELSE conn

Take(a, i) == conn' = [conn EXCEPT ![session[a]].down = RemoveAt(@, i)]

(* Assignments and revocations are spawned as tasks, and may overtake each *)
(* other; grants are handled as they are read.                             *)
Arrived(a, i) == conn[session[a]].down[i]

OnAssignment(a, i) ==
  LET m == Arrived(a, i) IN
  /\ m.kind = "assign"
  /\ Take(a, i)
  /\ work' = [work EXCEPT ![a] = @ \cup {[job |-> m.job, attempt |-> m.attempt,
                                          stream |-> session[a], pc |-> "encoding"]}]
  /\ claims' = [claims EXCEPT ![a] = @ \cup {m.job}]
  /\ UNCHANGED <<storeVars, serverVars, session, fresh, revoked, installs, trouble>>

OnRevoke(a, i) ==
  LET m == Arrived(a, i) IN
  /\ m.kind = "revoke"
  /\ Take(a, i)
  /\ revoked' = [revoked EXCEPT ![a] = @ \cup {m.job}]
  /\ claims' = [claims EXCEPT ![a] = @ \ {m.job}]
  /\ UNCHANGED <<storeVars, serverVars, session, fresh, work, installs, trouble>>

(* The encode is over and judged.  The claim of a rejected one outlives    *)
(* the report a little, and a heartbeat can still carry it.  (So do other  *)
(* claims, but by then their jobs are not tried again.)                    *)
Rejected(a, w) ==
  /\ w \in work[a] /\ w.pc = "encoding"
  /\ Report(w.stream, <<[kind |-> "result", job |-> w.job, ok |-> FALSE]>>)
  /\ \/ Finished(a, w) /\ UNCHANGED trouble
     \/ /\ Happens("linger") /\ UNCHANGED <<claims, revoked>>
        /\ work' = [work EXCEPT ![a] = (@ \ {w}) \cup {[w EXCEPT !.pc = "ending"]}]
  /\ UNCHANGED <<storeVars, serverVars, session, fresh, installs>>

LetGo(a, w) ==
  /\ w \in work[a] /\ w.pc = "ending"
  /\ Finished(a, w)
  /\ UNCHANGED <<storeVars, serverVars, conn, session, fresh, installs, trouble>>

(* An accepted output that has not been revoked asks for permission.  A    *)
(* second request for a job supersedes the first, whose waiter reads that  *)
(* as a refusal; one that cannot be sent is a refusal too.                 *)
Asking(a, j) == {v \in work[a] : v.job = j /\ v.pc = "asking"}

Accepted(a, w) ==
  LET judged  == [kind |-> "result", job |-> w.job, ok |-> TRUE]
      request == [kind |-> "request", job |-> w.job]
      open    == conn[w.stream].open
      over    == Asking(a, w.job) \cup (IF open THEN {} ELSE {w}) IN
  /\ w \in work[a] /\ w.pc = "encoding"
  /\ IF w.job \in revoked[a]
     THEN Report(w.stream, <<judged>>) /\ Finished(a, w)
     ELSE /\ Report(w.stream, <<judged, request>>)
          /\ work' = [work EXCEPT ![a] =
                         (@ \ ({w} \cup over))
                           \cup (IF open THEN {[w EXCEPT !.pc = "asking"]} ELSE {})]
          /\ Drop(a, over)
  /\ UNCHANGED <<storeVars, serverVars, session, fresh, installs, trouble>>

(* The waiter is found by the job's id; an unmatched grant is ignored.     *)
OnGrant(a, i) ==
  LET m == Arrived(a, i)
      waiting == Asking(a, m.job)
      begun == IF m.ok THEN {[v EXCEPT !.pc = "installing"] : v \in waiting} ELSE {} IN
  /\ m.kind = "grant"
  /\ \A h \in 1 .. i - 1 : Arrived(a, h).kind # "grant"
  /\ Take(a, i)
  /\ work' = [work EXCEPT ![a] = (@ \ waiting) \cup begun]
  /\ Drop(a, IF m.ok THEN {} ELSE waiting)
  /\ UNCHANGED <<storeVars, serverVars, session, fresh, installs, trouble>>

(* No answer in time is a refusal.                                         *)
GrantTimeout(a, w) ==
  /\ w \in work[a] /\ w.pc = "asking"
  /\ IF conn[w.stream].open THEN Happens("timeout") ELSE UNCHANGED trouble
  /\ Finished(a, w)
  /\ UNCHANGED <<storeVars, serverVars, conn, session, fresh, installs>>

Install(a, w, label) ==
  /\ w \in work[a] /\ w.pc = "installing"
  /\ installs' = IF label = "installed" THEN [installs EXCEPT ![w.job] = @ + 1]
                                        ELSE installs
  /\ Report(w.stream, <<[kind |-> "report", job |-> w.job, label |-> label]>>)
  /\ Finished(a, w)
  /\ UNCHANGED <<storeVars, serverVars, session, fresh, trouble>>

Labels == {"installed", "source_intact", "needs_operator"}

Execute(a) ==
  \E w \in work[a] :
    \/ Rejected(a, w) \/ LetGo(a, w) \/ Accepted(a, w)
    \/ \E label \in Labels : Install(a, w, label)

Listen(a) ==
  session[a] # 0 /\ \E i \in DOMAIN conn[session[a]].down :
    OnAssignment(a, i) \/ OnRevoke(a, i) \/ OnGrant(a, i)

-----------------------------------------------------------------------------
(* The environment.                                                        *)

(* evaluator.rs creates a job for a file that has no open one.             *)
Create(j) ==
  /\ job[j].state = "Absent"
  /\ \A i \in Jobs : File[i] = File[j] => ~Open(i)
  /\ job' = [job EXCEPT ![j].state = "Pending"]
  /\ UNCHANGED <<intent, epoch, lease, online, serverVars, conn, agentVars, installs,
                 trouble>>

(* The command line cancels what is not finished and not committing.       *)
Cancel(j) ==
  /\ Happens("cancel")
  /\ Open(j) /\ job[j].state # "Committing"
  /\ Move(j, "Cancelled")
  /\ UNCHANGED <<intent, epoch, lease, online, serverVars, conn, agentVars, installs>>

(* What is on its way when a stream breaks is lost from some point on.     *)
Cut(k, n) ==
  [conn EXCEPT ![k].open = FALSE, ![k].down = <<>>, ![k].up = SubSeq(@, 1, n)]

Break(a) ==
  LET k == session[a] IN
  /\ k # 0 /\ Happens("stream")
  /\ \E n \in 0 .. Len(conn[k].up) : conn' = Cut(k, n)
  /\ session' = [session EXCEPT ![a] = 0]
  /\ UNCHANGED <<storeVars, serverVars, fresh, work, claims, revoked, installs>>

(* An install the agent died in may have happened; its journal settles it  *)
(* locally, and nobody reports it.                                         *)
AgentRestart(a) ==
  LET k == session[a] IN
  /\ Happens("restart")
  /\ IF k = 0 THEN UNCHANGED conn
     ELSE \E n \in 0 .. Len(conn[k].up) : conn' = Cut(k, n)
  /\ \E done \in SUBSET {w \in work[a] : w.pc = "installing"} :
       installs' = [j \in Jobs |-> installs[j] + Cardinality({w \in done : w.job = j})]
  /\ session' = [session EXCEPT ![a] = 0]
  /\ fresh' = fresh \cup {a}
  /\ work' = [work EXCEPT ![a] = {}]
  /\ claims' = [claims EXCEPT ![a] = {}]
  /\ revoked' = [revoked EXCEPT ![a] = {}]
  /\ UNCHANGED <<storeVars, serverVars>>

ServerRestart ==
  /\ Happens("server")
  /\ fleet' = [a \in Agents |-> 0]
  /\ task' = [t \in Threads |-> Idle]
  /\ lost' = {} /\ queue' = {} /\ willing' = {}
  /\ conn' = [k \in DOMAIN conn |->
                [conn[k] EXCEPT !.up = <<>>, !.down = <<>>, !.open = FALSE, !.served = FALSE]]
  /\ session' = [a \in Agents |-> 0]
  /\ UNCHANGED <<storeVars, fresh, work, claims, revoked, installs>>

(* Heartbeats are late, though the stream lives.                           *)
LeaseLapses(a) ==
  /\ lease[a] /\ Happens("lease")
  /\ lease' = [lease EXCEPT ![a] = FALSE]
  /\ UNCHANGED <<job, intent, epoch, online, serverVars, conn, agentVars, installs>>

Environment ==
  \/ \E j \in Jobs : Create(j) \/ Cancel(j)
  \/ \E a \in Agents : Break(a) \/ AgentRestart(a) \/ LeaseLapses(a)
  \/ ServerRestart

(* The tail, in whichever thread it runs.                                  *)
SettleFailure(t) == Release(t) \/ Retry(t) \/ Bump(t) \/ Requeue(t)

Next ==
  \/ Tick
  \/ \E t \in Threads : SettleFailure(t)
  \/ \E k \in Streams : Handle(k)
  \/ \E a \in Agents : Join(a) \/ OnHeartbeat(a) \/ Listen(a) \/ Execute(a)
  \/ \E a \in Agents : \E w \in work[a] : GrantTimeout(a, w)
  \/ Environment

Spec == Init /\ [][Next]_vars

(* The runtime schedules every task, the orchestrator keeps ticking, a     *)
(* client keeps reconnecting and heartbeating, and an encode ends.  The    *)
(* dispatcher may find no room for a job now and then, but not for ever    *)
(* while an agent takes work.                                              *)
PlaceSome(j) == \E q \in queue : q.job = j /\ \E a \in willing : PlaceStart(q, a)

Fairness ==
  /\ WF_vars(Tick \/ SettleFailure(0))
  /\ \A j \in Jobs : SF_vars(PlaceSome(j))
  /\ \A k \in Streams : WF_vars(Handle(k) \/ SettleFailure(k))
  /\ \A a \in Agents : /\ WF_vars(Join(a)) /\ WF_vars(OnHeartbeat(a))
                       /\ WF_vars(Listen(a)) /\ WF_vars(Execute(a))

FairSpec == Spec /\ Fairness

-----------------------------------------------------------------------------
Installing(j) == {a \in Agents : \E w \in work[a] : w.job = j /\ w.pc = "installing"}

(* A job whose output an agent may be installing, or has installed, is     *)
(* never put back in the queue, failed, cancelled or given up, whatever    *)
(* the reconciler, late messages and restarts do meanwhile.                *)
InstalledIsFinal ==
  \A j \in Jobs : (Installing(j) # {} \/ installs[j] > 0)
                    => job[j].state \in {"Committing", "Succeeded", "NeedsOperator"}

(* However often a job is retried, its output is installed at most once,   *)
(* and a job is called a success only if it was.                           *)
InstalledOnce ==
  \A j \in Jobs : /\ installs[j] <= 1
                   /\ job[j].state = "Succeeded" => installs[j] = 1

(* Two agents, or two jobs, are never both let onto one destination: what  *)
(* orchestrator.rs:503-506 says of the live intent.                        *)
OneInstaller ==
  \A i, j \in Jobs : \A a, b \in Agents :
    (File[i] = File[j] /\ a \in Installing(i) /\ b \in Installing(j)) => i = j /\ a = b

(* A job that waits in the queue does not reserve its own destination, for *)
(* its next placement would be refused: orchestrator.rs:585-590.           *)
InHand(j) == \E t \in Threads : "job" \in DOMAIN task[t] /\ task[t].job = j

QueuedIsFree ==
  \A j \in Jobs : (job[j].state \in {"Pending", "Eligible"} /\ ~InHand(j))
                    => \A n \in Attempts : ~Live(j, n)

(* Every job that is queued is finished, or handed to an operator, or      *)
(* waits for one to look at its destination: no state, and no lost         *)
(* message, is one nothing gets a job out of.                              *)
WithOperator(j) ==
  \E i \in Jobs, n \in Attempts :
    File[i] = File[j] /\ Live(i, n) /\ job[i].state = "NeedsOperator"

Settles ==
  \A j \in Jobs :
    job[j].state = "Pending" ~> (IsTerminal(job[j].state) \/ WithOperator(j))

(* No destination stays reserved, except for an operator to look at.       *)
DestinationFreed ==
  \A j \in Jobs : \A n \in Attempts :
    Live(j, n) ~> (~Live(j, n) \/ job[j].state = "NeedsOperator")
=============================================================================
