-------------------------- MODULE Dispatch_proofs ---------------------------
(***************************************************************************)
(* Proofs about Dispatch for any jobs, agents, streams and trouble.        *)
(*                                                                         *)
(* What lets an agent install a job's output, or tells of it, is a token:  *)
(* a grant on its way down, an install under way, a report on its way up,  *)
(* a handler at work on a report.  Safe says that a job has at most one    *)
(* token, in one place, and what its row and its history are when it has   *)
(* one.  Every step either thins the tokens out or moves one on, but for   *)
(* RequestCommit, which makes one for a job that is Verifying.             *)
(*                                                                         *)
(* What may still bring a verdict on a job is a word: its assignment on    *)
(* the way down, its encode, the result on its way up, a handler at work   *)
(* on a result.  Orderly says that a job has at most one word, of the job  *)
(* as its row has it, and that the tick has nothing in hand about such a   *)
(* job; from that, which intents are live.  The last theorem rests on it.  *)
(***************************************************************************)
EXTENDS Dispatch, SequenceTheorems, FiniteSetTheorems, TLAPS

-----------------------------------------------------------------------------
(* The types, in full.                                                     *)

Conns == [agent : Agents, epoch : Nat, up : Seq(UpMessages), down : Seq(DownMessages),
          open : BOOLEAN, served : BOOLEAN]

(* The steps of the tail and of place, and those of the handlers.          *)
OrchestratorTasks ==
       [pc : {"idle", "reconcile", "dispatch"}]
  \cup [pc : {"release", "retry", "bump", "queue", "bury"}, job : Jobs, attempt : Nat,
        from : States \ {"Committing"}, back : {"reconcile", "dispatch"}]
  \cup [pc : {"grant", "eligible", "assign", "send"}, job : Jobs,
        agent : Agents, from : {"Pending", "Eligible"}, attempt : Nat, epoch : Nat,
        back : {"dispatch"}]

HandlerTasks ==
       {Idle}
  \cup [pc : {"start", "accept", "release", "retry", "bump", "queue", "bury"},
        job : Jobs, attempt : Nat, from : {"Running"}, ok : BOOLEAN]
  \cup [pc : {"commit"}, job : Jobs]
  \cup [pc : {"resolve", "conclude"}, job : Jobs, attempt : Nat, label : Labels]

-----------------------------------------------------------------------------
(* Tokens.                                                                 *)

IsToken(m, j) ==
  m.job = j /\ (m.kind = "report" \/ (m.kind = "grant" /\ m.ok = TRUE))

Lone(s, j) == \A h, i \in DOMAIN s : IsToken(s[h], j) /\ IsToken(s[i], j) => h = i
Carries(s, j) == \E i \in DOMAIN s : IsToken(s[i], j)

Granting(j) == {k \in DOMAIN conn : Carries(conn[k].down, j)}
Reporting(j) == {k \in DOMAIN conn : Carries(conn[k].up, j)}
Telling(j) == {k \in Streams : task[k].pc \in {"resolve", "conclude"} /\ task[k].job = j}
InstallingItems(a, j) == {w \in work[a] : w.job = j /\ w.pc = "installing"}

Single(S) == \A x, y \in S : x = y

(* In at most one place, and there at most once.                           *)
OneToken(j) ==
  /\ Single(Granting(j)) /\ Single(Installing(j)) /\ Single(Reporting(j))
  /\ Single(Telling(j))
  /\ Granting(j) # {} => Installing(j) = {} /\ Reporting(j) = {} /\ Telling(j) = {}
  /\ Installing(j) # {} => Reporting(j) = {} /\ Telling(j) = {}
  /\ Reporting(j) # {} => Telling(j) = {}
  /\ \A k \in DOMAIN conn : Lone(conn[k].down, j) /\ Lone(conn[k].up, j)
  /\ \A a \in Agents : Single(InstallingItems(a, j))

(* The states of a job whose commit was granted.                           *)
Past == {"Committing", "Succeeded", "Failed", "NeedsOperator"}

Told(label, n) == n = IF label = "installed" THEN 1 ELSE 0

(* A job with a token, or an install, is past its grant; what is on its    *)
(* way down has installed nothing yet, and what is on its way up says      *)
(* whether it has.                                                         *)
Truthful(j) ==
  /\ (Granting(j) # {} \/ Installing(j) # {} \/ Reporting(j) # {} \/ Telling(j) # {}
        \/ installs[j] > 0) => job[j].state \in Past
  /\ Granting(j) # {} \/ Installing(j) # {} => installs[j] = 0
  /\ \A k \in DOMAIN conn : \A i \in DOMAIN conn[k].up :
       IsToken(conn[k].up[i], j) => Told(conn[k].up[i].label, installs[j])
  /\ \A k \in Telling(j) : Told(task[k].label, installs[j])
  /\ installs[j] <= 1
  /\ job[j].state = "Succeeded" => installs[j] = 1

(* A job fails on the word of a report that nothing was installed, which   *)
(* was its only token.                                                     *)
Failures(j) ==
  job[j].state = "Failed" => Granting(j) = {} /\ Installing(j) = {} /\ installs[j] = 0

OneAsks ==
  \A a \in Agents : \A v, w \in work[a] :
    v.pc = "asking" /\ w.pc = "asking" /\ v.job = w.job => v = w

Safe == OneAsks /\ \A j \in Jobs : OneToken(j) /\ Truthful(j) /\ Failures(j)

-----------------------------------------------------------------------------
(* Type correctness.                                                       *)

RowTypes ==
  /\ job \in [Jobs -> [state : States \cup {"Absent"}, agent : Agents \cup {Nobody},
                       epoch : Nat, attempt : Nat]]
  /\ intent \in [Jobs \X Attempts ->
                   [state : {"absent", "live", "resolved"},
                    agent : Agents \cup {Nobody}, epoch : Nat]]
  /\ installs \in [Jobs -> Nat]
  /\ trouble \in 0 .. MaxTrouble

TableTypes ==
  /\ epoch \in [Agents -> Nat]
  /\ lease \in [Agents -> BOOLEAN]
  /\ online \in [Agents -> BOOLEAN]
  /\ fleet \in [Agents -> {0} \cup Streams]
  /\ lost \subseteq [job : Jobs, from : States]
  /\ queue \subseteq [job : Jobs, from : {"Pending", "Eligible"}, attempt : Nat]
  /\ willing \subseteq Agents

AgentTypes ==
  /\ session \in [Agents -> {0} \cup Streams]
  /\ fresh \in SUBSET Agents
  /\ work \in [Agents -> SUBSET Items]
  /\ claims \in [Agents -> SUBSET Jobs]
  /\ revoked \in [Agents -> SUBSET Jobs]

TaskTypes ==
  /\ task \in [Threads -> OrchestratorTasks \cup HandlerTasks]
  /\ task[0] \in OrchestratorTasks
  /\ \A k \in Streams : task[k] \in HandlerTasks

ConnTypes ==
  /\ conn \in Seq(Conns) /\ Len(conn) <= MaxStreams
  /\ \A a \in Agents : fleet[a] <= Len(conn) /\ session[a] <= Len(conn)

Types == RowTypes /\ TableTypes /\ AgentTypes /\ TaskTypes /\ ConnTypes

TypesAndSafe == Types /\ Safe

Settling == {"release", "retry", "bump", "queue", "bury"}
Placing == {"grant", "eligible", "assign", "send"}

(* One thread's task is replaced by one it may have.                       *)
LEMMA TaskSet ==
  ASSUME TaskTypes, NEW t \in Threads, NEW x,
         t = 0 => x \in OrchestratorTasks, t # 0 => x \in HandlerTasks,
         task' = [task EXCEPT ![t] = x]
  PROVE  TaskTypes'
  BY DEF TaskTypes, Threads, Streams

(* What a thread in the tail has in hand; an orchestrator's task never     *)
(* comes from Committing.                                                  *)
LEMMA SettlingTypes ==
  ASSUME TaskTypes, NEW t \in Threads, task[t].pc \in Settling
  PROVE  /\ task[t].job \in Jobs /\ task[t].attempt \in Nat
         /\ task[t].from \in States \ {"Committing"}
         /\ t # 0 => task[t].from = "Running"
         /\ \A pc \in Settling :
              /\ t = 0 => [task[t] EXCEPT !.pc = pc] \in OrchestratorTasks
              /\ t # 0 => [task[t] EXCEPT !.pc = pc] \in HandlerTasks
         /\ t = 0 => [pc |-> task[0].back] \in OrchestratorTasks
<1>1. CASE t = 0
  <2>1. task[0] \in [pc : Settling, job : Jobs, attempt : Nat,
        from : States \ {"Committing"}, back : {"reconcile", "dispatch"}]
    BY <1>1 DEF TaskTypes, OrchestratorTasks, Settling
  <2>2. QED BY <1>1, <2>1 DEF OrchestratorTasks, Settling
<1>2. CASE t # 0
  <2>1. task[t] \in [pc : Settling,
        job : Jobs, attempt : Nat, from : {"Running"}, ok : BOOLEAN]
    BY <1>2 DEF TaskTypes, HandlerTasks, Settling, Idle, Threads, Streams
  <2>2. QED BY <1>2, <2>1 DEF HandlerTasks, Settling, States
<1>3. QED BY <1>1, <1>2

(* What the orchestrator has in hand while it places a job.                *)
LEMMA PlacingTypes ==
  ASSUME TaskTypes, task[0].pc \in Placing
  PROVE  /\ task[0].job \in Jobs /\ task[0].attempt \in Nat /\ task[0].epoch \in Nat
         /\ task[0].agent \in Agents
         /\ task[0].from \in {"Pending", "Eligible"}
         /\ \A pc \in Placing : [task[0] EXCEPT !.pc = pc] \in OrchestratorTasks
         /\ [pc |-> task[0].back] \in OrchestratorTasks
<1>1. task[0] \in [pc : {"grant", "eligible", "assign", "send"}, job : Jobs,
        agent : Agents, from : {"Pending", "Eligible"}, attempt : Nat, epoch : Nat,
        back : {"dispatch"}]
  BY DEF TaskTypes, OrchestratorTasks, Placing
<1>2. QED BY <1>1 DEF OrchestratorTasks, Placing

(* What a handler has in hand.                                             *)
LEMMA HandlingTypes ==
  ASSUME TaskTypes, NEW k \in Streams
  PROVE  /\ task[k].pc \in {"start", "accept"} =>
              /\ task[k].job \in Jobs
              /\ \A pc \in {"accept", "release"} : [task[k] EXCEPT !.pc = pc] \in HandlerTasks
         /\ task[k].pc = "commit" => task[k].job \in Jobs
         /\ task[k].pc \in {"resolve", "conclude"} =>
              /\ task[k].job \in Jobs /\ task[k].attempt \in Nat /\ task[k].label \in Labels
              /\ [task[k] EXCEPT !.pc = "conclude"] \in HandlerTasks
         /\ Idle \in HandlerTasks
<1>1. task[k] \in HandlerTasks
  BY DEF TaskTypes
<1>2. CASE task[k].pc \in {"start", "accept"}
  <2>1. task[k] \in [pc : {"start", "accept", "release", "retry", "bump", "queue", "bury"},
        job : Jobs, attempt : Nat, from : {"Running"}, ok : BOOLEAN]
    BY <1>1, <1>2 DEF HandlerTasks, Idle
  <2>2. QED BY <1>2, <2>1 DEF HandlerTasks
<1>3. CASE task[k].pc = "commit"
  BY <1>1, <1>3 DEF HandlerTasks, Idle
<1>4. CASE task[k].pc \in {"resolve", "conclude"}
  <2>1. task[k] \in [pc : {"resolve", "conclude"}, job : Jobs, attempt : Nat, label : Labels]
    BY <1>1, <1>4 DEF HandlerTasks, Idle
  <2>2. QED BY <1>4, <2>1 DEF HandlerTasks
<1>5. QED BY <1>2, <1>3, <1>4 DEF HandlerTasks

(* The tail goes on to another of its steps, or ends.                      *)
LEMMA SettleTasks ==
  ASSUME TaskTypes, NEW t \in Threads, SettleFailure(t)
  PROVE  TaskTypes'
<1>1. task[t].pc \in Settling
  BY DEF SettleFailure, Release, Retry, Bump, Requeue, Settling
<1>2. \/ \E pc \in Settling : Then(t, pc)
      \/ Finish(t)
  BY DEF SettleFailure, Release, Retry, Bump, Requeue, Settling
<1>3. CASE \E pc \in Settling : Then(t, pc)
  <2>1. PICK pc \in Settling : task' = [task EXCEPT ![t] = [task[t] EXCEPT !.pc = pc]]
    BY <1>3 DEF Then, TaskTypes
  <2>2. QED BY <1>1, <2>1, SettlingTypes, TaskSet
<1>4. CASE Finish(t)
  BY <1>1, <1>4, SettlingTypes, TaskSet DEF Finish, HandlerTasks
<1>5. QED BY <1>2, <1>3, <1>4

(* The orchestrator's own steps keep the tasks' types.                     *)
LEMMA TickTasks ==
  ASSUME DispatchAssumption, RowTypes, TableTypes, TaskTypes, ConnTypes, Tick
  PROVE  TaskTypes'
<1> DEFINE Sets(x) == task' = [task EXCEPT ![0] = x]
<1>0. /\ 0 \in Threads
      /\ \A x \in OrchestratorTasks : Sets(x) => TaskTypes'
  BY TaskSet DEF DispatchAssumption, Threads
<1>1. CASE task' = task
  BY <1>1 DEF TaskTypes
<1>2. CASE \E pc \in {"idle", "reconcile", "dispatch"} : Sets([pc |-> pc])
  BY <1>0, <1>2 DEF OrchestratorTasks
<1>3. CASE \E x \in lost : Reclaim(x)
  BY <1>0, <1>3 DEF Reclaim, BeginRequeue, TableTypes, RowTypes, OrchestratorTasks
<1>4. CASE \E q \in queue, a \in willing : PlaceStart(q, a)
  <2>1. PICK q \in queue, a \in willing : PlaceStart(q, a)
    BY <1>4
  <2>2. conn[fleet[a]] \in Conns
    BY <2>1, LenProperties, ElementOfSeq
       DEF PlaceStart, Connected, TableTypes, ConnTypes, Streams, DispatchAssumption
  <2>3. QED BY <1>0, <2>1, <2>2 DEF PlaceStart, TableTypes, OrchestratorTasks, Conns
<1>5. CASE PlaceGrant \/ PlaceEligible \/ PlaceAssign \/ PlaceSend
  <2>1. task[0].pc \in Placing
    BY <1>5 DEF PlaceGrant, PlaceEligible, PlaceAssign, PlaceSend, At, Placing
  <2>2. \/ \E pc \in Placing : Then(0, pc)
        \/ Finish(0)
        \/ BeginRequeue(task[0].job, "Assigned", "dispatch")
    BY <1>5 DEF PlaceGrant, PlaceEligible, PlaceAssign, PlaceSend, Placing
  <2>3. CASE \E pc \in Placing : Then(0, pc)
    <3>1. PICK pc \in Placing : Sets([task[0] EXCEPT !.pc = pc])
      BY <2>3 DEF Then, TaskTypes
    <3>2. QED BY <2>1, <3>1, <1>0, PlacingTypes
  <2>4. CASE Finish(0)
    BY <2>1, <2>4, <1>0, PlacingTypes DEF Finish
  <2>5. CASE BeginRequeue(task[0].job, "Assigned", "dispatch")
    BY <2>1, <2>5, <1>0, PlacingTypes DEF BeginRequeue, RowTypes, OrchestratorTasks, States
  <2>6. QED BY <2>2, <2>3, <2>4, <2>5
<1>6. QED
  BY <1>1, <1>2, <1>3, <1>4, <1>5
     DEF Tick, TickReconcile, Escalate, Sweep, Blocked, EndTick, Idle

(* So do the handlers'.                                                    *)
LEMMA HandlerTasksKept ==
  ASSUME DispatchAssumption, RowTypes, TaskTypes, ConnTypes, NEW k \in Streams, Handle(k)
  PROVE  TaskTypes'
<1> DEFINE Sets(x) == task' = [task EXCEPT ![k] = x]
<1>0. /\ k \in Threads /\ k # 0
      /\ \A x \in HandlerTasks : Sets(x) => TaskTypes'
  BY TaskSet DEF DispatchAssumption, Threads, Streams
<1>1. CASE task' = task
  BY <1>1 DEF TaskTypes
<1>2. CASE Finish(k)
  BY <1>0, <1>2, HandlingTypes DEF Finish
<1>3. ASSUME NEW pc \in {"accept", "release", "conclude"}, Then(k, pc),
             \/ task[k].pc \in {"start", "accept"} /\ pc # "conclude"
             \/ task[k].pc = "resolve" /\ pc = "conclude"
      PROVE  TaskTypes'
  <2>1. Sets([task[k] EXCEPT !.pc = pc])
    BY <1>3, <1>0 DEF Then, TaskTypes
  <2>2. QED BY <1>0, <1>3, <2>1, HandlingTypes
<1>4. CASE OnResult(k) \/ OnCommitRequest(k) \/ OnCommitReport(k)
  <2>1. conn[k] \in Conns /\ Message(k) \in UpMessages
    <3>1. k \in DOMAIN conn /\ conn[k].up # <<>>
      BY <1>4 DEF OnResult, OnCommitRequest, OnCommitReport, Has
    <3>2. conn[k] \in Conns
      BY <3>1, LenProperties, ElementOfSeq DEF ConnTypes
    <3>3. conn[k].up \in Seq(UpMessages)
      BY <3>2 DEF Conns
    <3>4. QED BY <3>1, <3>2, <3>3, HeadTailProperties DEF Message
  <2>2. Message(k).job \in Jobs
    BY <2>1 DEF UpMessages
  <2>3. CASE OnResult(k)
    <3>1. Message(k).ok \in BOOLEAN
      BY <2>1, <2>3 DEF UpMessages, OnResult, Has, Message
    <3>2. QED
      BY <1>0, <1>1, <2>2, <2>3, <3>1 DEF OnResult, HandlerTasks, RowTypes
  <2>4. CASE OnCommitRequest(k)
    BY <1>0, <1>1, <2>2, <2>4 DEF OnCommitRequest, HandlerTasks
  <2>5. CASE OnCommitReport(k)
    <3>1. Message(k).label \in Labels
      BY <2>1, <2>5 DEF UpMessages, OnCommitReport, Has, Message, Labels
    <3>2. CASE GrantedTo(Message(k).job, k) = {}
      BY <1>1, <2>5, <3>2 DEF OnCommitReport
    <3>3. CASE GrantedTo(Message(k).job, k) # {}
      <4>1. PICK n \in GrantedTo(Message(k).job, k) :
              Sets([pc |-> "resolve", job |-> Message(k).job, attempt |-> n,
                    label |-> Message(k).label])
        BY <2>5, <3>3 DEF OnCommitReport
      <4>2. n \in Nat
        BY <4>1 DEF GrantedTo, Attempts, DispatchAssumption
      <4>3. QED BY <1>0, <2>2, <3>1, <4>1, <4>2 DEF HandlerTasks
    <3>4. QED BY <3>2, <3>3
  <2>6. QED BY <1>4, <2>3, <2>4, <2>5
<1>7. QED
  BY <1>1, <1>2, <1>3, <1>4
     DEF Handle, ResultStart, ResultAccept, RequestCommit, ReportResolve, ReportConclude, Teardown

-----------------------------------------------------------------------------
(* Streams.                                                                *)

(* RemoveAt, element by element.                                           *)
LEMMA RemoveAtProperties ==
  ASSUME NEW S, NEW s \in Seq(S), NEW i \in DOMAIN s
  PROVE  /\ RemoveAt(s, i) \in Seq(S)
         /\ DOMAIN RemoveAt(s, i) = 1 .. Len(s) - 1
         /\ \A l \in 1 .. Len(s) - 1 : RemoveAt(s, i)[l] = s[IF l < i THEN l ELSE l + 1]
<1> DEFINE t == SubSeq(s, 1, i - 1)
           u == SubSeq(s, i + 1, Len(s))
<1>1. i \in 1 .. Len(s) /\ Len(s) \in Nat /\ \A l \in 1 .. Len(s) : s[l] \in S
  BY LenProperties, ElementOfSeq
<1>2. /\ t \in Seq(S) /\ Len(t) = i - 1
      /\ \A l \in 1 .. i - 1 : t[l] = s[l]
  <2>1. \A l \in 1 .. i - 1 : s[l] \in S
    BY <1>1
  <2>2. QED BY <1>1, <2>1, SubSeqProperties, SMTT(30)
<1>3. /\ u \in Seq(S) /\ Len(u) = Len(s) - i
      /\ \A l \in 1 .. Len(s) - i : u[l] = s[l + i]
  <2>1. \A l \in i + 1 .. Len(s) : s[l] \in S
    BY <1>1
  <2>2. QED BY <1>1, <2>1, SubSeqProperties, SMTT(30)
<1> HIDE DEF t, u
<1>4. /\ t \o u \in Seq(S) /\ Len(t \o u) = Len(s) - 1
      /\ \A l \in 1 .. Len(s) - 1 : (t \o u)[l] = IF l <= i - 1 THEN t[l] ELSE u[l - (i - 1)]
  <2>1. /\ t \o u \in Seq(S) /\ Len(t \o u) = Len(t) + Len(u)
        /\ \A l \in 1 .. Len(t) + Len(u) : (t \o u)[l] = IF l <= Len(t) THEN t[l] ELSE u[l - Len(t)]
    BY <1>2, <1>3, ConcatProperties
  <2>2. Len(t) + Len(u) = Len(s) - 1
    BY <1>1, <1>2, <1>3
  <2>3. QED BY <2>1, <2>2, <1>2
<1>5. ASSUME NEW l \in 1 .. Len(s) - 1
      PROVE  (t \o u)[l] = s[IF l < i THEN l ELSE l + 1]
  <2>1. CASE l < i
    BY <2>1, <1>1, <1>2, <1>4
  <2>2. CASE ~(l < i)
    <3>1. l - (i - 1) \in 1 .. Len(s) - i /\ (l - (i - 1)) + i = l + 1
      BY <2>2, <1>1
    <3>2. u[l - (i - 1)] = s[l + 1]
      BY <3>1, <1>3
    <3>3. (t \o u)[l] = u[l - (i - 1)]
      BY <2>2, <1>1, <1>4
    <3>4. QED BY <2>2, <3>2, <3>3
  <2>3. QED BY <2>1, <2>2
<1>6. QED BY <1>4, <1>5, LenProperties DEF RemoveAt, t, u

(* Nothing is in t that was not in s, as far as j's tokens go, and none    *)
(* of them twice.                                                          *)
Thins(t, s, j) ==
  /\ Lone(s, j) => Lone(t, j)
  /\ \A i \in DOMAIN t : IsToken(t[i], j) => \E h \in DOMAIN s : s[h] = t[i]

(* Nothing is thinner than a sequence is itself, and nothing is.           *)
LEMMA ThinsSame ==
  ASSUME NEW s, NEW j
  PROVE  Thins(s, s, j) /\ Thins(<<>>, s, j)
  BY DEF Thins, Lone

(* The rest of a sequence is thinner, and free of the token its head was.  *)
LEMMA ThinsTail ==
  ASSUME NEW S, NEW s \in Seq(S), s # <<>>, NEW j
  PROVE  /\ Tail(s) \in Seq(S)
         /\ Thins(Tail(s), s, j)
         /\ IsToken(Head(s), j) /\ Lone(s, j) => ~Carries(Tail(s), j)
<1>1. /\ Tail(s) \in Seq(S) /\ DOMAIN Tail(s) = 1 .. Len(s) - 1
      /\ DOMAIN s = 1 .. Len(s) /\ Len(s) \in Nat /\ Len(s) # 0
      /\ \A i \in DOMAIN Tail(s) : i + 1 \in DOMAIN s /\ Tail(s)[i] = s[i + 1] /\ i + 1 # 1
      /\ Head(s) = s[1] /\ 1 \in DOMAIN s
  BY HeadTailProperties, LenProperties, EmptySeq
<1>2. Lone(s, j) => Lone(Tail(s), j)
  BY <1>1 DEF Lone
<1>3. QED BY <1>1, <1>2 DEF Thins, Lone, Carries

(* So is a sequence without one element.                                   *)
LEMMA ThinsRemove ==
  ASSUME NEW S, NEW s \in Seq(S), NEW i \in DOMAIN s, NEW j
  PROVE  /\ RemoveAt(s, i) \in Seq(S)
         /\ Thins(RemoveAt(s, i), s, j)
         /\ IsToken(s[i], j) /\ Lone(s, j) => ~Carries(RemoveAt(s, i), j)
<1> DEFINE t == RemoveAt(s, i)
           f(l) == IF l < i THEN l ELSE l + 1
<1>1. /\ t \in Seq(S) /\ DOMAIN t = 1 .. Len(s) - 1
      /\ DOMAIN s = 1 .. Len(s) /\ Len(s) \in Nat
      /\ \A l \in DOMAIN t : t[l] = s[f(l)]
  BY RemoveAtProperties, LenProperties
<1>2. \A l \in DOMAIN t : f(l) \in DOMAIN s /\ f(l) # i
  BY <1>1
<1>3. \A l, h \in DOMAIN t : f(l) = f(h) => l = h
  BY <1>1
<1> HIDE DEF t, f
<1>4. Lone(s, j) => Lone(t, j)
  BY <1>1, <1>2, <1>3 DEF Lone
<1>5. Thins(t, s, j)
  BY <1>1, <1>2, <1>4 DEF Thins
<1>6. IsToken(s[i], j) /\ Lone(s, j) => ~Carries(t, j)
  BY <1>1, <1>2 DEF Lone, Carries
<1>7. QED BY <1>1, <1>5, <1>6 DEF t

(* So is what is left of a sequence cut short.                             *)
LEMMA ThinsCut ==
  ASSUME NEW S, NEW s \in Seq(S), NEW n \in 0 .. Len(s), NEW j
  PROVE  SubSeq(s, 1, n) \in Seq(S) /\ Thins(SubSeq(s, 1, n), s, j)
<1> DEFINE t == SubSeq(s, 1, n)
<1>1. Len(s) \in Nat /\ DOMAIN s = 1 .. Len(s) /\ \A l \in 1 .. Len(s) : s[l] \in S
  BY LenProperties, ElementOfSeq
<1>2. \A l \in 1 .. n : s[l] \in S
  BY <1>1
<1>3. t \in Seq(S) /\ Len(t) = n /\ \A l \in 1 .. n : t[l] = s[l]
  BY <1>1, <1>2, SubSeqProperties, SMTT(30)
<1> HIDE DEF t
<1>4. DOMAIN t = 1 .. n /\ \A l \in DOMAIN t : l \in DOMAIN s /\ t[l] = s[l]
  BY <1>1, <1>3, LenProperties
<1>5. QED BY <1>3, <1>4 DEF Thins, Lone, t

(* What holds no token adds none.                                          *)
LEMMA ThinsConcat ==
  ASSUME NEW S, NEW s \in Seq(S), NEW t \in Seq(S), NEW j, ~Carries(t, j)
  PROVE  s \o t \in Seq(S) /\ Thins(s \o t, s, j)
<1>1. /\ s \o t \in Seq(S) /\ DOMAIN (s \o t) = 1 .. Len(s) + Len(t)
      /\ Len(s) \in Nat /\ Len(t) \in Nat /\ DOMAIN s = 1 .. Len(s) /\ DOMAIN t = 1 .. Len(t)
      /\ \A i \in 1 .. Len(s) + Len(t) :
           (s \o t)[i] = IF i <= Len(s) THEN s[i] ELSE t[i - Len(s)]
  BY ConcatProperties, LenProperties
<1>2. ASSUME NEW i \in DOMAIN (s \o t), IsToken((s \o t)[i], j)
      PROVE  i \in DOMAIN s /\ (s \o t)[i] = s[i]
  <2>1. CASE i <= Len(s)
    BY <1>1, <2>1
  <2>2. CASE ~(i <= Len(s))
    <3>1. i - Len(s) \in DOMAIN t /\ (s \o t)[i] = t[i - Len(s)]
      BY <1>1, <2>2
    <3>2. QED BY <1>2, <3>1 DEF Carries
  <2>3. QED BY <2>1, <2>2
<1>3. QED BY <1>1, <1>2 DEF Thins, Lone

(* One element added to a sequence without tokens is the only one it can   *)
(* have.                                                                   *)
LEMMA ThinsAppend ==
  ASSUME NEW S, NEW s \in Seq(S), NEW m \in S, NEW j
  PROVE  /\ Append(s, m) \in Seq(S)
         /\ ~IsToken(m, j) => Thins(Append(s, m), s, j)
         /\ ~Carries(s, j) => Lone(Append(s, m), j)
         /\ \A i \in DOMAIN Append(s, m) : ~Carries(s, j) /\ IsToken(Append(s, m)[i], j)
                                             => Append(s, m)[i] = m
<1> DEFINE t == Append(s, m)
<1>1. /\ t \in Seq(S) /\ DOMAIN t = 1 .. Len(s) + 1 /\ Len(s) \in Nat
      /\ DOMAIN s = 1 .. Len(s) /\ t[Len(s) + 1] = m
      /\ \A i \in DOMAIN s : t[i] = s[i]
  BY AppendProperties, LenProperties
<1> HIDE DEF t
<1>2. \A i \in DOMAIN t : i \in DOMAIN s \/ i = Len(s) + 1
  BY <1>1
<1>3. ~IsToken(m, j) => Thins(t, s, j)
  BY <1>1, <1>2 DEF Thins, Lone
<1>4. ~Carries(s, j) => Lone(t, j) /\ \A i \in DOMAIN t : IsToken(t[i], j) => t[i] = m
  BY <1>1, <1>2 DEF Carries, Lone
<1>5. QED BY <1>1, <1>3, <1>4 DEF t

(* The parts of a stream.                                                  *)
LEMMA ConnElement ==
  ASSUME conn \in Seq(Conns), NEW k \in DOMAIN conn
  PROVE  /\ conn[k] \in Conns
         /\ conn[k].up \in Seq(UpMessages) /\ conn[k].down \in Seq(DownMessages)
<1>1. conn[k] \in Conns
  BY LenProperties, ElementOfSeq
<1>2. QED BY <1>1 DEF Conns

(* What a step does to the streams, as far as j's tokens go.               *)
StreamsThin(j) ==
  \A k \in DOMAIN conn' :
    IF k \in DOMAIN conn
    THEN Thins(conn'[k].up, conn[k].up, j) /\ Thins(conn'[k].down, conn[k].down, j)
    ELSE conn'[k].up = <<>> /\ conn'[k].down = <<>>

ConnKept == conn' \in Seq(Conns) /\ Len(conn') = Len(conn)

(* Streams nothing happens to.                                             *)
LEMMA SameStreams ==
  ASSUME conn \in Seq(Conns), NEW j, conn' = conn
  PROVE  ConnKept /\ StreamsThin(j)
  BY ThinsSame DEF ConnKept, StreamsThin

(* One stream is replaced.                                                 *)
LEMMA OneStream ==
  ASSUME conn \in Seq(Conns), NEW k, NEW c, NEW j,
         k \in DOMAIN conn => c \in Conns,
         conn' = [conn EXCEPT ![k] = c]
  PROVE  /\ ConnKept
         /\ (k \in DOMAIN conn =>
               Thins(c.up, conn[k].up, j) /\ Thins(c.down, conn[k].down, j)) => StreamsThin(j)
<1>1. CASE k \in DOMAIN conn
  <2>1. ConnKept /\ DOMAIN conn' = DOMAIN conn
    BY <1>1, ExceptSeq, LenProperties DEF ConnKept
  <2>2. \A i \in DOMAIN conn : conn'[i] = IF i = k THEN c ELSE conn[i]
    OBVIOUS
  <2>3. QED BY <1>1, <2>1, <2>2, ThinsSame DEF StreamsThin
<1>2. CASE k \notin DOMAIN conn
  <2>1. conn' = conn
    BY <1>2, LenProperties
  <2>2. QED BY <2>1, SameStreams
<1>3. QED BY <1>1, <1>2

(* The messages to one agent are replaced.                                 *)
LEMMA DownStream ==
  ASSUME conn \in Seq(Conns), NEW k, NEW ds, NEW j,
         k \in DOMAIN conn => ds \in Seq(DownMessages),
         conn' = [conn EXCEPT ![k].down = ds]
  PROVE  /\ ConnKept
         /\ (k \in DOMAIN conn => Thins(ds, conn[k].down, j)) => StreamsThin(j)
<1> DEFINE c == [conn[k] EXCEPT !.down = ds]
<1>1. k \in DOMAIN conn => c \in Conns /\ c.up = conn[k].up /\ c.down = ds
  BY ConnElement DEF Conns
<1>2. conn' = [conn EXCEPT ![k] = c]
  OBVIOUS
<1> HIDE DEF c
<1>3. QED BY <1>1, <1>2, OneStream, ThinsSame

(* The messages from one agent are replaced.                               *)
LEMMA UpStream ==
  ASSUME conn \in Seq(Conns), NEW k, NEW us, NEW j,
         k \in DOMAIN conn => us \in Seq(UpMessages),
         conn' = [conn EXCEPT ![k].up = us]
  PROVE  /\ ConnKept
         /\ (k \in DOMAIN conn => Thins(us, conn[k].up, j)) => StreamsThin(j)
<1> DEFINE c == [conn[k] EXCEPT !.up = us]
<1>1. k \in DOMAIN conn => c \in Conns /\ c.down = conn[k].down /\ c.up = us
  BY ConnElement DEF Conns
<1>2. conn' = [conn EXCEPT ![k] = c]
  OBVIOUS
<1> HIDE DEF c
<1>3. QED BY <1>1, <1>2, OneStream, ThinsSame

(* A message to an agent, if it is no token.                               *)
LEMMA Sends ==
  ASSUME conn \in Seq(Conns), NEW a, NEW m \in DownMessages, NEW j, Send(a, m)
  PROVE  ConnKept /\ (~IsToken(m, j) => StreamsThin(j))
<1>1. CASE conn' = conn
  BY <1>1, SameStreams
<1>2. CASE conn' = [conn EXCEPT ![fleet[a]].down = Append(conn[fleet[a]].down, m)]
  <2>1. fleet[a] \in DOMAIN conn => conn[fleet[a]].down \in Seq(DownMessages)
    BY ConnElement
  <2>2. QED BY <1>2, <2>1, ThinsAppend, DownStream
<1>3. QED BY <1>1, <1>2 DEF Send

(* Messages from an agent, if none is a token.                             *)
LEMMA Reports ==
  ASSUME conn \in Seq(Conns), NEW k, NEW ms \in Seq(UpMessages), NEW j, Report(k, ms)
  PROVE  ConnKept /\ (~Carries(ms, j) => StreamsThin(j))
<1>1. CASE conn' = conn
  BY <1>1, SameStreams
<1>2. CASE conn' = [conn EXCEPT ![k].up = conn[k].up \o ms]
  <2>1. k \in DOMAIN conn => conn[k].up \in Seq(UpMessages)
    BY ConnElement
  <2>2. k \in DOMAIN conn => conn[k].up \o ms \in Seq(UpMessages)
    BY <2>1, ConcatProperties
  <2>3. QED BY <1>2, <2>1, <2>2, ThinsConcat, UpStream
<1>3. QED BY <1>1, <1>2 DEF Report

(* A handler takes the first message of its stream.                        *)
LEMMA Consumes ==
  ASSUME conn \in Seq(Conns), NEW k \in DOMAIN conn, conn[k].up # <<>>, NEW j, Consume(k)
  PROVE  ConnKept /\ StreamsThin(j)
<1>1. Tail(conn[k].up) \in Seq(UpMessages) /\ Thins(Tail(conn[k].up), conn[k].up, j)
  BY ConnElement, ThinsTail
<1>2. conn' = [conn EXCEPT ![k].up = Tail(conn[k].up)]
  BY DEF Consume
<1>3. QED BY <1>1, <1>2, UpStream

(* An agent takes any message of its stream.                               *)
LEMMA Takes ==
  ASSUME conn \in Seq(Conns), NEW a, session[a] \in DOMAIN conn, NEW j,
         NEW i \in DOMAIN conn[session[a]].down, Take(a, i)
  PROVE  ConnKept /\ StreamsThin(j)
<1> DEFINE k == session[a]
           ds == RemoveAt(conn[k].down, i)
<1>1. ds \in Seq(DownMessages) /\ Thins(ds, conn[k].down, j)
  BY ConnElement, ThinsRemove
<1>2. conn' = [conn EXCEPT ![k].down = ds]
  BY DEF Take
<1> HIDE DEF k, ds
<1>3. QED BY <1>1, <1>2, DownStream

(* A stream breaks.                                                        *)
LEMMA Cuts ==
  ASSUME conn \in Seq(Conns), NEW k \in DOMAIN conn, NEW n \in 0 .. Len(conn[k].up), NEW j,
         conn' = Cut(k, n)
  PROVE  ConnKept /\ StreamsThin(j)
<1> DEFINE us == SubSeq(conn[k].up, 1, n)
           c == [conn[k] EXCEPT !.open = FALSE, !.down = <<>>, !.up = us]
<1>1. conn[k] \in Conns /\ conn[k].up \in Seq(UpMessages)
  BY ConnElement
<1>2. us \in Seq(UpMessages) /\ Thins(us, conn[k].up, j)
  BY <1>1, ThinsCut
<1>3. conn' = [conn EXCEPT ![k] = c]
  BY DEF Cut
<1> HIDE DEF us
<1>4. c \in Conns /\ c.up = us /\ c.down = <<>>
  BY <1>1, <1>2, EmptySeq DEF Conns
<1>5. Thins(c.up, conn[k].up, j) /\ Thins(c.down, conn[k].down, j)
  BY <1>2, <1>4, ThinsSame
<1> HIDE DEF c
<1>6. QED BY <1>3, <1>4, <1>5, OneStream

(* What a step must do about streams to keep their types.                  *)
LEMMA ConnTypesKept ==
  ASSUME ConnTypes, ConnKept,
         \A a \in Agents : fleet'[a] \in {0, fleet[a]} /\ session'[a] \in {0, session[a]}
  PROVE  ConnTypes'
  BY LenProperties DEF ConnTypes, ConnKept

(* The orchestrator sends assignments only.                                *)
LEMMA TickStreams ==
  ASSUME ConnTypes, TaskTypes, Tick, NEW j
  PROVE  ConnTypes' /\ StreamsThin(j)
<1>1. UNCHANGED <<fleet, session>>
  BY DEF Tick, TickReconcile, Escalate, Reclaim, Sweep, PlaceStart, Blocked, EndTick,
         PlaceGrant, PlaceEligible, PlaceAssign, PlaceSend, OnlyJobs, OnlyIntents, agentVars
<1>2. CASE conn' = conn
  BY <1>1, <1>2, SameStreams, ConnTypesKept DEF ConnTypes
<1>3. CASE PlaceSend
  <2> DEFINE m == [kind |-> "assign", job |-> task[0].job, attempt |-> task[0].attempt]
  <2>1. CASE Send(task[0].agent, m)
    <3>1. m \in DownMessages /\ ~IsToken(m, j)
      BY <1>3, PlacingTypes DEF PlaceSend, At, Placing, DownMessages, IsToken
    <3> HIDE DEF m
    <3>2. QED BY <1>1, <2>1, <3>1, Sends, ConnTypesKept DEF ConnTypes
  <2>2. QED BY <1>2, <1>3, <2>1 DEF PlaceSend
<1>4. QED
  BY <1>2, <1>3
     DEF Tick, TickReconcile, Escalate, Reclaim, Sweep, PlaceStart, Blocked, EndTick,
         PlaceGrant, PlaceEligible, PlaceAssign, OnlyJobs, OnlyIntents

(* The tail sends nothing.                                                 *)
LEMMA SettleStreams ==
  ASSUME ConnTypes, NEW t, SettleFailure(t), NEW j
  PROVE  ConnTypes' /\ StreamsThin(j)
<1>1. UNCHANGED <<fleet, session, conn>>
  BY DEF SettleFailure, Release, Retry, Bump, Requeue, OnlyJobs, OnlyIntents, agentVars
<1>2. QED BY <1>1, SameStreams, ConnTypesKept DEF ConnTypes

(* A function of a sequence's indices is a sequence.                       *)
LEMMA Mapped ==
  ASSUME NEW S, NEW T, NEW s \in Seq(S), NEW f \in [DOMAIN s -> T]
  PROVE  f \in Seq(T) /\ Len(f) = Len(s) /\ DOMAIN f = DOMAIN s
  BY LenProperties

(* A refusal is no token.                                                  *)
LEMMA Answers ==
  ASSUME conn \in Seq(Conns), NEW k \in DOMAIN conn, conn[k].up # <<>>, NEW a,
         NEW m \in DownMessages, NEW j, Answer(k, a, m)
  PROVE  ConnKept /\ (~IsToken(m, j) => StreamsThin(j))
<1>1. ASSUME NEW i \in DOMAIN conn
      PROVE  /\ conn'[i] \in Conns
             /\ Thins(conn'[i].up, conn[i].up, j)
             /\ ~IsToken(m, j) => Thins(conn'[i].down, conn[i].down, j)
  <2> DEFINE c == IF i = k THEN [conn[i] EXCEPT !.up = Tail(@)] ELSE conn[i]
             d == IF i = fleet[a] /\ c.open THEN [c EXCEPT !.down = Append(@, m)] ELSE c
  <2>0. conn'[i] = d
    BY DEF Answer
  <2>1. conn[i] \in Conns /\ conn[i].up \in Seq(UpMessages) /\ conn[i].down \in Seq(DownMessages)
    BY ConnElement
  <2>2. /\ i = k => Tail(conn[i].up) \in Seq(UpMessages) /\ Thins(Tail(conn[i].up), conn[i].up, j)
        /\ Thins(conn[i].up, conn[i].up, j) /\ Thins(conn[i].down, conn[i].down, j)
    BY <2>1, ThinsTail, ThinsSame
  <2>3. c \in Conns /\ Thins(c.up, conn[i].up, j) /\ c.down = conn[i].down
    BY <2>1, <2>2 DEF Conns
  <2>4. /\ Append(c.down, m) \in Seq(DownMessages)
        /\ ~IsToken(m, j) => Thins(Append(c.down, m), conn[i].down, j)
    BY <2>1, <2>3, ThinsAppend
  <2> HIDE DEF c
  <2>5. d \in Conns /\ d.up = c.up /\ d.down \in {c.down, Append(c.down, m)}
    BY <2>3, <2>4 DEF Conns
  <2> HIDE DEF d
  <2>6. QED BY <2>0, <2>2, <2>3, <2>4, <2>5
<1>2. conn' \in [DOMAIN conn -> Conns]
  <2>1. conn' = [i \in DOMAIN conn |-> conn'[i]]
    BY DEF Answer
  <2>2. QED BY <1>1, <2>1
<1>3. QED BY <1>1, <1>2, Mapped DEF ConnKept, StreamsThin

(* Of the handlers' steps, only the granting of a commit makes a token.    *)
LEMMA HandlerStreams ==
  ASSUME ConnTypes, TableTypes, AgentTypes, TaskTypes, NEW k \in Streams, Handle(k), NEW j
  PROVE  /\ ConnTypes'
         /\ (RequestCommit(k) => task[k].job # j) => StreamsThin(j)
<1>1. ASSUME UNCHANGED <<fleet, session>>, ConnKept
      PROVE  ConnTypes'
  BY <1>1, ConnTypesKept DEF ConnTypes
<1>2. CASE UNCHANGED <<fleet, session, conn>>
  BY <1>1, <1>2, SameStreams DEF ConnTypes
<1>3. CASE /\ Consume(k) /\ UNCHANGED <<fleet, session>>
           /\ \E kind \in {"result", "request", "report"} : Has(k, kind)
  BY <1>1, <1>3, Consumes DEF Has, ConnTypes
<1>4. CASE OnCommitRequest(k)
  <2> DEFINE i == Message(k).job
  <2>1. k \in DOMAIN conn /\ conn[k].up # <<>> /\ UNCHANGED <<fleet, session>>
    BY <1>4 DEF OnCommitRequest, Has, agentVars
  <2>2. i \in Jobs
    BY <2>1, ConnElement, HeadTailProperties DEF Message, UpMessages, ConnTypes
  <2>3. Grant(i, FALSE) \in DownMessages /\ ~IsToken(Grant(i, FALSE), j)
    BY <2>2 DEF Grant, DownMessages, IsToken
  <2>4. CASE Answer(k, conn[k].agent, Grant(i, FALSE))
    BY <1>1, <2>1, <2>3, <2>4, Answers DEF ConnTypes
  <2>5. QED BY <1>3, <1>4, <2>1, <2>4 DEF OnCommitRequest
<1>5. CASE RequestCommit(k)
  <2> DEFINE i == task[k].job
  <2>1. i \in Jobs /\ UNCHANGED <<fleet, session>>
    BY <1>5, HandlingTypes DEF RequestCommit, agentVars
  <2>2. \A ok \in BOOLEAN : Grant(i, ok) \in DownMessages /\ (i # j => ~IsToken(Grant(i, ok), j))
    BY <2>1 DEF Grant, DownMessages, IsToken
  <2>3. \E ok \in BOOLEAN : Send(conn[k].agent, Grant(i, ok))
    BY <1>5 DEF RequestCommit
  <2> HIDE DEF i
  <2>4. ConnKept /\ (i # j => StreamsThin(j))
    BY <2>2, <2>3, Sends DEF ConnTypes
  <2>5. QED BY <1>1, <1>5, <2>1, <2>4 DEF i
<1>6. CASE Teardown(k)
  <2> DEFINE c == [conn[k] EXCEPT !.served = FALSE]
  <2>1. conn' = [conn EXCEPT ![k] = c] /\ k \in DOMAIN conn
    BY <1>6 DEF Teardown
  <2>2. c \in Conns /\ c.up = conn[k].up /\ c.down = conn[k].down /\ conn[k].agent \in Agents
    BY <2>1, ConnElement DEF Conns, ConnTypes
  <2> HIDE DEF c
  <2>3. ConnKept /\ StreamsThin(j)
    BY <2>1, <2>2, OneStream, ThinsSame DEF ConnTypes
  <2>4. \A a \in Agents : fleet'[a] \in {0, fleet[a]} /\ session'[a] = session[a]
    BY <1>6 DEF Teardown, TableTypes, agentVars
  <2>5. QED BY <2>3, <2>4, ConnTypesKept
<1>7. QED
  BY <1>2, <1>3, <1>4, <1>5, <1>6
     DEF Handle, OnResult, ResultStart, ResultAccept, OnCommitReport, ReportResolve,
         ReportConclude, OnlyJobs, OnlyIntents, agentVars

(* A heartbeat is answered with revocations, or not at all.                *)
LEMMA Revocations ==
  ASSUME DispatchAssumption, AgentTypes, NEW a \in Agents, OnHeartbeat(a)
  PROVE  \E ms \in Seq(DownMessages) :
           /\ \A i \in DOMAIN ms : ms[i].kind = "revoke"
           /\ conn' \in {conn, [conn EXCEPT ![fleet[a]].down = conn[fleet[a]].down \o ms]}
<1> DEFINE unknown == {i \in claims[a] : ~Recognised(i, session[a])}
           revokes == [kind : {"revoke"}, job : unknown]
           new == revokes \ ToSet(conn[session[a]].down)
           ms == SetToSeq(new)
<1>1. IsFiniteSet(new)
  <2>1. unknown \in SUBSET Jobs
    BY DEF AgentTypes
  <2>2. IsFiniteSet(unknown)
    BY <2>1, FS_Subset DEF DispatchAssumption
  <2> HIDE DEF unknown
  <2>3. [i \in unknown |-> [kind |-> "revoke", job |-> i]] \in Surjection(unknown, revokes)
    BY DEF Surjection
  <2>4. IsFiniteSet(revokes)
    BY <2>2, <2>3, FS_Surjection
  <2>5. QED BY <2>4, FS_Subset
<1>2. ms \in Seq(new)
  <2>1. PICK f \in Bijection(1 .. Cardinality(new), new) : TRUE
    BY <1>1, FS_CardinalityType DEF ExistsBijection
  <2>2. f \in [1 .. Cardinality(new) -> new] /\ IsInjective(f)
    BY <2>1 DEF Bijection, Injection, IsInjective
  <2>3. ms \in [1 .. Cardinality(new) -> new]
    BY <2>2 DEF SetToSeq
  <2>4. QED BY <1>1, <2>3, FS_CardinalityType
<1> HIDE DEF ms
<1>3. new \subseteq DownMessages /\ \A m \in new : m.kind = "revoke"
  BY DEF AgentTypes, DownMessages
<1> HIDE DEF new
<1>4. ms \in Seq(DownMessages) /\ \A i \in DOMAIN ms : ms[i].kind = "revoke"
  BY <1>2, <1>3, SeqMonotonic, ElementOfSeq, LenProperties
<1>5. conn' \in {conn, [conn EXCEPT ![fleet[a]].down = conn[fleet[a]].down \o ms]}
  BY DEF OnHeartbeat, ms, new
<1>6. QED BY <1>4, <1>5

(* Revocations are no tokens.                                              *)
LEMMA HeartbeatStreams ==
  ASSUME DispatchAssumption, ConnTypes, AgentTypes, NEW a \in Agents, OnHeartbeat(a), NEW j
  PROVE  ConnTypes' /\ StreamsThin(j)
<1> DEFINE k == fleet[a]
<1>1. UNCHANGED <<fleet, session>>
  BY DEF OnHeartbeat, serverVars, agentVars
<1>2. PICK ms \in Seq(DownMessages) :
             /\ \A i \in DOMAIN ms : ms[i].kind = "revoke"
             /\ conn' \in {conn, [conn EXCEPT ![k].down = conn[k].down \o ms]}
  BY Revocations
<1>3. CASE conn' = conn
  BY <1>1, <1>3, SameStreams, ConnTypesKept DEF ConnTypes
<1>4. CASE conn' = [conn EXCEPT ![k].down = conn[k].down \o ms]
  <2>1. k \in DOMAIN conn => conn[k].down \in Seq(DownMessages)
    BY ConnElement DEF ConnTypes
  <2>2. ~Carries(ms, j)
    BY <1>2 DEF Carries, IsToken
  <2>3. k \in DOMAIN conn => conn[k].down \o ms \in Seq(DownMessages)
                              /\ Thins(conn[k].down \o ms, conn[k].down, j)
    BY <1>2, <2>1, <2>2, ThinsConcat
  <2> HIDE DEF k
  <2>4. ConnKept /\ StreamsThin(j)
    BY <1>4, <2>3, DownStream DEF ConnTypes
  <2>5. QED BY <1>1, <2>4, ConnTypesKept DEF ConnTypes
<1>5. QED
  BY <1>2, <1>3, <1>4

(* A new stream is empty.                                                  *)
LEMMA JoinStreams ==
  ASSUME DispatchAssumption, ConnTypes, TableTypes, AgentTypes, NEW a \in Agents, Join(a), NEW j
  PROVE  ConnTypes' /\ StreamsThin(j)
<1> DEFINE c == [agent |-> a, epoch |-> Epoch(a), up |-> <<>>, down |-> <<>>,
                 open |-> TRUE, served |-> TRUE]
<1>1. c \in Conns
  BY EmptySeq DEF Conns, Epoch, TableTypes
<1>2. /\ conn' = Append(conn, c) /\ Len(conn) + 1 \in Streams
      /\ fleet' = [fleet EXCEPT ![a] = Len(conn) + 1]
      /\ session' = [session EXCEPT ![a] = Len(conn) + 1]
  BY DEF Join
<1>3. c.up = <<>> /\ c.down = <<>>
  OBVIOUS
<1> HIDE DEF c
<1>4. /\ conn' \in Seq(Conns) /\ Len(conn') = Len(conn) + 1
      /\ DOMAIN conn = 1 .. Len(conn) /\ DOMAIN conn' = 1 .. Len(conn) + 1
      /\ \A k \in DOMAIN conn : conn'[k] = conn[k]
      /\ conn'[Len(conn) + 1] = c /\ Len(conn) \in Nat
  BY <1>1, <1>2, AppendProperties, LenProperties DEF ConnTypes
<1>5. StreamsThin(j)
  BY <1>3, <1>4, ThinsSame DEF StreamsThin
<1>6. \A b \in Agents : fleet'[b] <= Len(conn) + 1 /\ session'[b] <= Len(conn) + 1
  <2>1. ASSUME NEW b \in Agents
        PROVE  fleet[b] <= Len(conn) /\ session[b] <= Len(conn)
               /\ fleet[b] \in Nat /\ session[b] \in Nat
    BY DEF ConnTypes, TableTypes, AgentTypes, Streams, DispatchAssumption
  <2>2. ASSUME NEW b \in Agents
        PROVE  fleet'[b] \in {fleet[b], Len(conn) + 1} /\ session'[b] \in {session[b], Len(conn) + 1}
    BY <1>2 DEF TableTypes, AgentTypes
  <2>3. QED BY <1>4, <2>1, <2>2
<1>7. QED BY <1>2, <1>4, <1>5, <1>6 DEF ConnTypes, Streams, DispatchAssumption

(* An agent that reads a message sends nothing.                            *)
LEMMA ListenStreams ==
  ASSUME ConnTypes, AgentTypes, NEW a \in Agents, Listen(a), NEW j
  PROVE  ConnTypes' /\ StreamsThin(j)
<1>1. PICK i \in DOMAIN conn[session[a]].down :
             session[a] # 0 /\ (OnAssignment(a, i) \/ OnRevoke(a, i) \/ OnGrant(a, i))
  BY DEF Listen
<1>2. Take(a, i) /\ UNCHANGED <<fleet, session>>
  BY <1>1 DEF OnAssignment, OnRevoke, OnGrant, serverVars
<1>3. session[a] \in DOMAIN conn
  BY <1>1, LenProperties DEF ConnTypes, AgentTypes, Streams
<1>4. QED BY <1>2, <1>3, Takes, ConnTypesKept DEF ConnTypes

(* Sequences of one and two messages.                                      *)
LEMMA FewTokens ==
  ASSUME NEW S, NEW j, NEW x \in S, NEW y \in S, ~IsToken(x, j), ~IsToken(y, j)
  PROVE  /\ <<x>> \in Seq(S) /\ ~Carries(<<x>>, j)
         /\ <<x, y>> \in Seq(S) /\ ~Carries(<<x, y>>, j)
  BY DEF Carries

(* Of an agent's steps, only the end of an install sends a token.          *)
LEMMA ExecuteStreams ==
  ASSUME ConnTypes, AgentTypes, NEW a \in Agents, NEW j,
         \/ Execute(a) \/ \E w \in work[a] : GrantTimeout(a, w)
  PROVE  /\ ConnTypes'
         /\ (\A w \in work[a], label \in Labels : Install(a, w, label) => w.job # j)
               => StreamsThin(j)
<1>1. PICK w \in work[a] :
             \/ Rejected(a, w) \/ LetGo(a, w) \/ Accepted(a, w) \/ GrantTimeout(a, w)
             \/ \E label \in Labels : Install(a, w, label)
  BY DEF Execute
<1>2. w.job \in Jobs
  BY DEF AgentTypes, Items
<1>3. UNCHANGED <<fleet, session>>
  BY <1>1 DEF Rejected, LetGo, Accepted, GrantTimeout, Install, serverVars
<1>4. CASE conn' = conn
  BY <1>3, <1>4, SameStreams, ConnTypesKept DEF ConnTypes
<1>5. ASSUME NEW ms \in Seq(UpMessages), Report(w.stream, ms)
      PROVE  ConnTypes' /\ (~Carries(ms, j) => StreamsThin(j))
  BY <1>3, <1>5, Reports, ConnTypesKept DEF ConnTypes
<1> DEFINE accepted == [kind |-> "result", job |-> w.job, ok |-> TRUE]
           rejected == [kind |-> "result", job |-> w.job, ok |-> FALSE]
           request == [kind |-> "request", job |-> w.job]
           report(label) == [kind |-> "report", job |-> w.job, label |-> label]
<1>6. /\ accepted \in UpMessages /\ ~IsToken(accepted, j)
      /\ rejected \in UpMessages /\ ~IsToken(rejected, j)
      /\ request \in UpMessages /\ ~IsToken(request, j)
      /\ \A label \in Labels : /\ report(label) \in UpMessages
                               /\ w.job # j => ~IsToken(report(label), j)
  BY <1>2 DEF UpMessages, IsToken, Labels
<1> HIDE DEF accepted, rejected, request, report
<1>7. CASE Rejected(a, w) \/ Accepted(a, w)
  <2>1. \/ Report(w.stream, <<rejected>>) \/ Report(w.stream, <<accepted>>)
        \/ Report(w.stream, <<accepted, request>>)
    BY <1>7 DEF Rejected, Accepted, accepted, rejected, request
  <2>2. <<rejected>> \in Seq(UpMessages) /\ ~Carries(<<rejected>>, j)
    BY <1>6, FewTokens
  <2>3. <<accepted>> \in Seq(UpMessages) /\ ~Carries(<<accepted>>, j)
    BY <1>6, FewTokens
  <2>4. <<accepted, request>> \in Seq(UpMessages) /\ ~Carries(<<accepted, request>>, j)
    BY <1>6, FewTokens
  <2>5. QED BY <1>5, <2>1, <2>2, <2>3, <2>4
<1>8. CASE \E label \in Labels : Install(a, w, label)
  <2>1. PICK label \in Labels : Install(a, w, label)
    BY <1>8
  <2>2. Report(w.stream, <<report(label)>>)
    BY <2>1 DEF Install, report
  <2>3. <<report(label)>> \in Seq(UpMessages) /\ (w.job # j => ~Carries(<<report(label)>>, j))
    BY <1>6 DEF Carries
  <2>4. QED BY <1>5, <2>1, <2>2, <2>3
<1>9. QED BY <1>1, <1>4, <1>7, <1>8 DEF LetGo, GrantTimeout

(* Breaks and restarts lose messages, and make none.                       *)
LEMMA EnvironmentStreams ==
  ASSUME ConnTypes, AgentTypes, TableTypes, Environment, NEW j
  PROVE  ConnTypes' /\ StreamsThin(j)
<1>1. CASE UNCHANGED <<fleet, session, conn>>
  BY <1>1, SameStreams, ConnTypesKept DEF ConnTypes
<1>2. CASE \E a \in Agents : Break(a) \/ AgentRestart(a)
  <2>1. PICK a \in Agents : Break(a) \/ AgentRestart(a)
    BY <1>2
  <2>2. fleet' = fleet /\ session' = [session EXCEPT ![a] = 0]
    BY <2>1 DEF Break, AgentRestart, serverVars
  <2>3. CASE conn' = conn
    BY <2>2, <2>3, SameStreams, ConnTypesKept DEF ConnTypes, AgentTypes
  <2>4. CASE session[a] # 0
    <3>1. session[a] \in DOMAIN conn
      BY <2>4, LenProperties DEF ConnTypes, AgentTypes, Streams
    <3>2. \E n \in 0 .. Len(conn[session[a]].up) : conn' = Cut(session[a], n)
      BY <2>1, <2>4 DEF Break, AgentRestart
    <3>3. QED BY <2>2, <3>1, <3>2, Cuts, ConnTypesKept DEF ConnTypes, AgentTypes
  <2>5. QED BY <2>1, <2>3, <2>4 DEF Break, AgentRestart
<1>3. CASE ServerRestart
  <2> DEFINE c(k) == [conn[k] EXCEPT !.up = <<>>, !.down = <<>>, !.open = FALSE, !.served = FALSE]
  <2>1. conn' = [k \in DOMAIN conn |-> c(k)]
    BY <1>3 DEF ServerRestart
  <2>2. \A k \in DOMAIN conn : c(k) \in Conns /\ c(k).up = <<>> /\ c(k).down = <<>>
    BY ConnElement, EmptySeq DEF Conns, ConnTypes
  <2> HIDE DEF c
  <2>3. conn' \in [DOMAIN conn -> Conns]
    BY <2>1, <2>2
  <2>4. ConnKept /\ StreamsThin(j)
    BY <2>1, <2>2, <2>3, Mapped, ThinsSame DEF ConnKept, StreamsThin, ConnTypes
  <2>5. \A a \in Agents : fleet'[a] = 0 /\ session'[a] = 0
    BY <1>3 DEF ServerRestart
  <2>6. QED BY <2>4, <2>5, ConnTypesKept
<1>4. QED
  BY <1>1, <1>2, <1>3
     DEF Environment, Create, Cancel, LeaseLapses, serverVars, agentVars

-----------------------------------------------------------------------------
(* Rows, tables and agents.                                                *)

JobTypes == job \in [Jobs -> [state : States \cup {"Absent"}, agent : Agents \cup {Nobody},
                             epoch : Nat, attempt : Nat]]
IntentTypes == intent \in [Jobs \X Attempts ->
                   [state : {"absent", "live", "resolved"},
                    agent : Agents \cup {Nobody}, epoch : Nat]]
TroubleTypes == trouble \in 0 .. MaxTrouble

(* A job's new state.                                                      *)
LEMMA Moves ==
  ASSUME JobTypes, NEW j, NEW to \in States, Move(j, to)
  PROVE  JobTypes'
  BY DEF JobTypes, Move

(* An intent's new state.                                                  *)
LEMMA Resolves ==
  ASSUME IntentTypes, NEW j, NEW n, Resolve(j, n)
  PROVE  IntentTypes'
  BY DEF IntentTypes, Resolve

(* The count of troubles stays within its bound.                           *)
LEMMA Troubles ==
  ASSUME DispatchAssumption, TroubleTypes,
         UNCHANGED trouble \/ \E kind \in Kinds : Happens(kind)
  PROVE  TroubleTypes'
  BY DEF TroubleTypes, Happens, DispatchAssumption

(* The orchestrator keeps the rows' types.                                 *)
LEMMA TickRows ==
  ASSUME DispatchAssumption, RowTypes, TableTypes, TaskTypes, Tick
  PROVE  RowTypes'
<1> USE DEF Kinds
<1>0. JobTypes /\ IntentTypes /\ TroubleTypes
  BY DEF RowTypes, JobTypes, IntentTypes, TroubleTypes
<1>1. UNCHANGED installs
  BY DEF Tick, TickReconcile, Escalate, Reclaim, Sweep, PlaceStart, Blocked, EndTick,
         PlaceGrant, PlaceEligible, PlaceAssign, PlaceSend, OnlyJobs, OnlyIntents
<1>2. UNCHANGED trouble \/ \E kind \in Kinds : Happens(kind)
  BY DEF Tick, TickReconcile, Escalate, Reclaim, Sweep, PlaceStart, Blocked, EndTick,
         PlaceGrant, PlaceEligible, PlaceAssign, PlaceSend, Refused
<1>3. TroubleTypes'
  BY <1>0, <1>2, Troubles
<1>4. JobTypes'
  <2>1. CASE UNCHANGED job
    BY <1>0, <2>1 DEF JobTypes
  <2>2. \A j : \A to \in {"NeedsOperator", "Eligible"} : Move(j, to) => JobTypes'
    BY <1>0, Moves DEF States, Terminal
  <2>3. CASE PlaceAssign
    <3>1. task[0].agent \in Agents /\ task[0].epoch \in Nat
      BY <2>3, PlacingTypes DEF PlaceAssign, At, Placing
    <3>2. QED BY <1>0, <2>1, <2>3, <3>1 DEF PlaceAssign, JobTypes, States
  <2>4. CASE PlaceEligible \/ \E x \in lost : Escalate(x)
    BY <2>1, <2>2, <2>4 DEF PlaceEligible, Escalate
  <2>5. QED
    BY <2>1, <2>3, <2>4
       DEF Tick, TickReconcile, Reclaim, Sweep, PlaceStart, Blocked, EndTick,
           PlaceGrant, PlaceSend, OnlyIntents, storeVars
<1>5. IntentTypes'
  <2>1. CASE UNCHANGED intent
    BY <1>0, <2>1 DEF IntentTypes
  <2>2. CASE Sweep
    BY <1>0, <2>2 DEF Sweep, IntentTypes
  <2>3. CASE PlaceGrant
    <3>1. task[0].agent \in Agents /\ task[0].epoch \in Nat
      BY <2>3, PlacingTypes DEF PlaceGrant, At, Placing
    <3>2. QED BY <1>0, <2>1, <2>3, <3>1 DEF PlaceGrant, IntentTypes
  <2>4. QED
    BY <2>1, <2>2, <2>3
       DEF Tick, TickReconcile, Escalate, Reclaim, PlaceStart, Blocked, EndTick,
           PlaceEligible, PlaceAssign, PlaceSend, OnlyJobs, storeVars
<1>6. QED BY <1>1, <1>3, <1>4, <1>5 DEF RowTypes, JobTypes, IntentTypes, TroubleTypes

(* So does the tail.                                                       *)
LEMMA SettleRows ==
  ASSUME DispatchAssumption, RowTypes, TaskTypes, NEW t \in Threads, SettleFailure(t)
  PROVE  RowTypes'
<1> USE DEF Kinds
<1>0. JobTypes /\ IntentTypes /\ TroubleTypes
  BY DEF RowTypes, JobTypes, IntentTypes, TroubleTypes
<1>1. UNCHANGED installs /\ (UNCHANGED trouble \/ \E kind \in Kinds : Happens(kind))
  BY DEF SettleFailure, Release, Retry, Bump, Requeue, Refused, OnlyJobs, OnlyIntents
<1>2. TroubleTypes'
  BY <1>0, <1>1, Troubles
<1>3. JobTypes'
  <2>1. CASE UNCHANGED job
    BY <1>0, <2>1 DEF JobTypes
  <2>2. \A j : \A to \in {"Retrying", "Eligible", "DeadLettered"} : Move(j, to) => JobTypes'
    BY <1>0, Moves DEF States, Terminal
  <2>3. CASE Bump(t)
    <3>1. CASE job' = [job EXCEPT ![task[t].job].attempt = job[task[t].job].attempt + 1]
      <4>1. task[t].job \in Jobs => job[task[t].job].attempt + 1 \in Nat
        BY <1>0 DEF JobTypes
      <4>2. QED BY <1>0, <3>1, <4>1 DEF JobTypes
    <3>2. QED BY <2>1, <2>3, <3>1 DEF Bump
  <2>4. CASE Retry(t) \/ Requeue(t)
    BY <2>1, <2>2, <2>4 DEF Retry, Requeue
  <2>5. QED
    BY <2>1, <2>3, <2>4 DEF SettleFailure, Release, OnlyIntents
<1>4. IntentTypes'
  <2>1. CASE UNCHANGED intent
    BY <1>0, <2>1 DEF IntentTypes
  <2>2. CASE Release(t)
    BY <1>0, <2>1, <2>2, Resolves DEF Release
  <2>3. QED
    BY <2>1, <2>2 DEF SettleFailure, Retry, Bump, Requeue, OnlyJobs
<1>5. QED BY <1>1, <1>2, <1>3, <1>4 DEF RowTypes, JobTypes, IntentTypes, TroubleTypes

(* So do the handlers.                                                     *)
LEMMA HandlerRows ==
  ASSUME DispatchAssumption, RowTypes, TaskTypes, NEW k \in Streams, Handle(k)
  PROVE  RowTypes'
<1> USE DEF Kinds
<1>0. JobTypes /\ IntentTypes /\ TroubleTypes
  BY DEF RowTypes, JobTypes, IntentTypes, TroubleTypes
<1>1. UNCHANGED installs /\ (UNCHANGED trouble \/ \E kind \in Kinds : Happens(kind))
  BY DEF Handle, OnResult, ResultStart, ResultAccept, OnCommitRequest, RequestCommit,
         OnCommitReport, ReportResolve, ReportConclude, Teardown, Refused, OnlyJobs, OnlyIntents
<1>2. TroubleTypes'
  BY <1>0, <1>1, Troubles
<1>3. JobTypes'
  <2>1. CASE UNCHANGED job
    BY <1>0, <2>1 DEF JobTypes
  <2>2. \A j : \A to \in {"Running", "Verifying", "Committing", "Succeeded", "NeedsOperator",
                         "Failed"} : Move(j, to) => JobTypes'
    BY <1>0, Moves DEF States, Terminal
  <2>3. CASE ResultStart(k) \/ ResultAccept(k) \/ RequestCommit(k)
    BY <2>1, <2>2, <2>3 DEF ResultStart, ResultAccept, RequestCommit
  <2>4. CASE ReportConclude(k)
    BY <2>1, <2>2, <2>4 DEF ReportConclude, OutcomeOf
  <2>5. QED
    BY <2>1, <2>3, <2>4
       DEF Handle, OnResult, OnCommitRequest, OnCommitReport, ReportResolve, Teardown,
           OnlyIntents, storeVars
<1>4. IntentTypes'
  <2>1. CASE UNCHANGED intent
    BY <1>0, <2>1 DEF IntentTypes
  <2>2. CASE ReportResolve(k)
    BY <1>0, <2>1, <2>2, Resolves DEF ReportResolve
  <2>3. QED
    BY <2>1, <2>2
       DEF Handle, OnResult, ResultStart, ResultAccept, OnCommitRequest, RequestCommit,
           OnCommitReport, ReportConclude, Teardown, OnlyJobs, storeVars
<1>5. QED BY <1>1, <1>2, <1>3, <1>4 DEF RowTypes, JobTypes, IntentTypes, TroubleTypes

(* So do the agents.                                                       *)
LEMMA AgentRows ==
  ASSUME DispatchAssumption, RowTypes, AgentTypes, NEW a \in Agents,
         \/ Join(a) \/ OnHeartbeat(a) \/ Listen(a) \/ Execute(a)
         \/ \E w \in work[a] : GrantTimeout(a, w)
  PROVE  RowTypes'
<1> USE DEF Kinds
<1>1. UNCHANGED <<job, intent>> /\ (UNCHANGED trouble \/ \E kind \in Kinds : Happens(kind))
  BY DEF Join, OnHeartbeat, Listen, OnAssignment, OnRevoke, OnGrant, Execute, Rejected, LetGo,
         Accepted, Install, GrantTimeout, storeVars
<1>2. CASE UNCHANGED installs
  BY <1>1, <1>2, Troubles DEF RowTypes, TroubleTypes
<1>3. CASE \E w \in work[a], label \in Labels : Install(a, w, label)
  <2>1. PICK w \in work[a], label \in Labels : Install(a, w, label)
    BY <1>3
  <2>2. installs' \in [Jobs -> Nat]
    <3>1. w.job \in Jobs /\ installs[w.job] + 1 \in Nat
      BY DEF AgentTypes, Items, RowTypes
    <3>2. QED BY <2>1, <3>1 DEF Install, RowTypes
  <2>3. QED BY <1>1, <2>2, Troubles DEF RowTypes, TroubleTypes
<1>4. QED
  BY <1>2, <1>3
     DEF Join, OnHeartbeat, Listen, OnAssignment, OnRevoke, OnGrant, Execute, Rejected, LetGo,
         Accepted, GrantTimeout

(* A set with no two elements has one, or none.                            *)
LEMMA SingleCardinality ==
  ASSUME NEW S, Single(S)
  PROVE  Cardinality(S) = IF S = {} THEN 0 ELSE 1
<1>1. CASE S = {}
  BY <1>1, FS_EmptySet
<1>2. CASE S # {}
  <2>1. PICK x \in S : TRUE
    BY <1>2
  <2>2. S = {x}
    BY <2>1 DEF Single
  <2>3. QED BY <2>2, FS_Singleton
<1>3. QED BY <1>1, <1>2

(* An agent that restarts leaves at most one install of a job behind.      *)
LEMMA RestartInstalls ==
  ASSUME RowTypes, AgentTypes, Safe, NEW a \in Agents, AgentRestart(a)
  PROVE  /\ installs' \in [Jobs -> Nat]
         /\ \A j \in Jobs :
              \/ installs'[j] = installs[j]
              \/ a \in Installing(j) /\ installs'[j] = installs[j] + 1
<1>1. PICK done \in SUBSET {w \in work[a] : w.pc = "installing"} :
        installs' = [j \in Jobs |-> installs[j] + Cardinality({w \in done : w.job = j})]
  BY DEF AgentRestart
<1> DEFINE mine(j) == {w \in done : w.job = j}
           count(j) == Cardinality(mine(j))
<1>2. ASSUME NEW j \in Jobs
      PROVE  count(j) = 0 \/ (a \in Installing(j) /\ count(j) = 1)
  <2>1. mine(j) \subseteq InstallingItems(a, j) /\ (mine(j) # {} => a \in Installing(j))
    BY DEF InstallingItems, Installing
  <2>2. Single(mine(j))
    BY <2>1 DEF Safe, OneToken, Single
  <2> HIDE DEF mine
  <2>3. Cardinality(mine(j)) = IF mine(j) = {} THEN 0 ELSE 1
    BY <2>2, SingleCardinality
  <2>4. QED BY <2>1, <2>3
<1>3. installs' = [j \in Jobs |-> installs[j] + count(j)]
  BY <1>1, Zenon
<1> HIDE DEF count
<1>4. installs \in [Jobs -> Nat]
  BY DEF RowTypes
<1>5. \A j \in Jobs : installs'[j] = installs[j] + count(j)
  BY <1>3
<1>6. \A j \in Jobs : count(j) = 0 \/ (a \in Installing(j) /\ count(j) = 1)
  BY <1>2
<1>7. QED BY <1>3, <1>4, <1>5, <1>6

(* The environment keeps the rows' types.                                  *)
LEMMA EnvironmentRows ==
  ASSUME DispatchAssumption, RowTypes, AgentTypes, Safe, Environment
  PROVE  RowTypes'
<1> USE DEF Kinds
<1>1. UNCHANGED intent /\ (UNCHANGED trouble \/ \E kind \in Kinds : Happens(kind))
  BY DEF Environment, Create, Cancel, Break, AgentRestart, ServerRestart, LeaseLapses, storeVars
<1>2. installs' \in [Jobs -> Nat]
  <2>1. CASE \E a \in Agents : AgentRestart(a)
    BY <2>1, RestartInstalls
  <2>2. CASE UNCHANGED installs
    BY <2>2 DEF RowTypes
  <2>3. QED
    BY <2>1, <2>2 DEF Environment, Create, Cancel, Break, ServerRestart, LeaseLapses
<1>3. JobTypes'
  <2>0. JobTypes
    BY DEF RowTypes, JobTypes
  <2>1. CASE UNCHANGED job
    BY <2>0, <2>1 DEF JobTypes
  <2>2. CASE \E j \in Jobs : Create(j) \/ Cancel(j)
    <3>1. \E j \in Jobs : Move(j, "Pending") \/ Move(j, "Cancelled")
      BY <2>2 DEF Create, Cancel, Move
    <3>2. QED BY <2>0, <3>1, Moves DEF States, Terminal
  <2>3. QED
    BY <2>1, <2>2 DEF Environment, Break, AgentRestart, ServerRestart, LeaseLapses, storeVars
<1>4. QED BY <1>1, <1>2, <1>3, Troubles DEF RowTypes, JobTypes, TroubleTypes

(* The orchestrator keeps the types of the tables and its snapshots.       *)
LEMMA TickTables ==
  ASSUME RowTypes, TableTypes, TaskTypes, Tick
  PROVE  TableTypes'
<1>1. UNCHANGED <<epoch, lease, online, fleet>>
  BY DEF Tick, TickReconcile, Escalate, Reclaim, Sweep, PlaceStart, Blocked, EndTick,
         PlaceGrant, PlaceEligible, PlaceAssign, PlaceSend, OnlyJobs, OnlyIntents, storeVars
<1>2. CASE UNCHANGED tables
  BY <1>1, <1>2 DEF TableTypes, tables
<1>3. CASE TickReconcile
  <2>1. lost' \subseteq [job : Jobs, from : States] /\ UNCHANGED <<queue, willing>>
    BY <1>3 DEF TickReconcile, RowTypes, Held, HoldsCapacity, States
  <2>2. QED BY <1>1, <2>1 DEF TableTypes
<1>4. CASE \E x \in lost : Escalate(x) \/ Reclaim(x)
  <2>1. lost' \subseteq lost /\ UNCHANGED <<queue, willing>>
    BY <1>4 DEF Escalate, Reclaim
  <2>2. QED BY <1>1, <2>1 DEF TableTypes
<1>5. CASE Sweep
  <2>1. /\ queue' \subseteq [job : Jobs, from : {"Pending", "Eligible"}, attempt : Nat]
        /\ willing' \subseteq Agents /\ UNCHANGED lost
    BY <1>5 DEF Sweep, RowTypes
  <2>2. QED BY <1>1, <2>1 DEF TableTypes
<1>6. CASE EndTick \/ \E q \in queue : Blocked(q) \/ \E a \in willing : PlaceStart(q, a)
  <2>1. queue' \subseteq queue /\ willing' \subseteq willing /\ UNCHANGED lost
    BY <1>6 DEF EndTick, Blocked, PlaceStart
  <2>2. QED BY <1>1, <2>1 DEF TableTypes
<1>7. QED
  BY <1>2, <1>3, <1>4, <1>5, <1>6
     DEF Tick, PlaceGrant, PlaceEligible, PlaceAssign, PlaceSend, OnlyJobs, OnlyIntents

(* So does everyone else.                                                  *)
LEMMA OtherTables ==
  ASSUME DispatchAssumption, TableTypes, AgentTypes,
         \/ \E t \in Threads : SettleFailure(t)
         \/ \E k \in Streams : Handle(k)
         \/ \E a \in Agents : Join(a) \/ OnHeartbeat(a) \/ Listen(a) \/ Execute(a)
         \/ \E a \in Agents : \E w \in work[a] : GrantTimeout(a, w)
         \/ Environment
  PROVE  TableTypes'
<1>1. CASE UNCHANGED <<epoch, lease, online, fleet, tables>>
  BY <1>1 DEF TableTypes, tables
<1>2. CASE \E t \in Threads : SettleFailure(t)
  BY <1>1, <1>2 DEF SettleFailure, Release, Retry, Bump, Requeue, OnlyJobs, OnlyIntents
<1>3. CASE \E k \in Streams : Handle(k)
  <2>1. PICK k \in Streams : Handle(k)
    BY <1>3
  <2>2. CASE Teardown(k)
    BY <2>2 DEF Teardown, TableTypes, tables
  <2>3. QED
    BY <1>1, <2>1, <2>2
       DEF Handle, OnResult, ResultStart, ResultAccept, OnCommitRequest, RequestCommit,
           OnCommitReport, ReportResolve, ReportConclude, OnlyJobs, OnlyIntents, storeVars
<1>4. CASE \E a \in Agents : Join(a)
  <2>1. PICK a \in Agents : Join(a)
    BY <1>4
  <2>2. Epoch(a) \in Nat /\ Len(conn) + 1 \in Streams
    BY <2>1 DEF Join, Epoch, TableTypes
  <2>3. QED BY <2>1, <2>2 DEF Join, TableTypes, tables
<1>5. CASE \E a \in Agents : OnHeartbeat(a) \/ LeaseLapses(a)
  BY <1>5 DEF OnHeartbeat, LeaseLapses, TableTypes, serverVars
<1>6. CASE ServerRestart
  BY <1>6 DEF ServerRestart, TableTypes, storeVars
<1>7. CASE \E a \in Agents : Listen(a) \/ Execute(a) \/ \E w \in work[a] : GrantTimeout(a, w)
  <2>1. PICK a \in Agents : Listen(a) \/ Execute(a) \/ \E w \in work[a] : GrantTimeout(a, w)
    BY <1>7
  <2>2. UNCHANGED <<storeVars, serverVars>>
    BY <2>1 DEF Listen, OnAssignment, OnRevoke, OnGrant, Execute, Rejected, LetGo, Accepted,
                Install, GrantTimeout
  <2>3. QED BY <1>1, <2>2 DEF storeVars, serverVars, tables
<1>8. CASE Environment
  <2>1. ASSUME UNCHANGED <<epoch, lease, online, serverVars>>
        PROVE  TableTypes'
    BY <1>1, <2>1 DEF serverVars, tables
  <2>2. CASE \E j \in Jobs : Create(j) \/ Cancel(j)
    BY <2>1, <2>2 DEF Create, Cancel
  <2>3. CASE \E a \in Agents : Break(a) \/ AgentRestart(a)
    BY <2>1, <2>3 DEF Break, AgentRestart, storeVars
  <2>4. QED BY <1>5, <1>6, <1>8, <2>2, <2>3 DEF Environment
<1>9. QED
  BY <1>2, <1>3, <1>4, <1>5, <1>7, <1>8

(* Every step keeps the agents' types.                                     *)
LEMMA AgentsKept ==
  ASSUME DispatchAssumption, ConnTypes, AgentTypes, Next
  PROVE  AgentTypes'
<1>1. CASE UNCHANGED agentVars
  BY <1>1 DEF AgentTypes, agentVars
<1>2. CASE Tick
  BY <1>1, <1>2
     DEF Tick, TickReconcile, Escalate, Reclaim, Sweep, PlaceStart, Blocked, EndTick,
         PlaceGrant, PlaceEligible, PlaceAssign, PlaceSend, OnlyJobs, OnlyIntents, agentVars
<1>3. CASE \E t \in Threads : SettleFailure(t)
  BY <1>1, <1>3 DEF SettleFailure, Release, Retry, Bump, Requeue, OnlyJobs, OnlyIntents, agentVars
<1>4. CASE \E k \in Streams : Handle(k)
  BY <1>1, <1>4
     DEF Handle, OnResult, ResultStart, ResultAccept, OnCommitRequest, RequestCommit,
         OnCommitReport, ReportResolve, ReportConclude, Teardown, OnlyJobs, OnlyIntents, agentVars
<1>5. CASE \E a \in Agents : Join(a) \/ OnHeartbeat(a)
  BY <1>1, <1>5 DEF Join, OnHeartbeat, AgentTypes, agentVars
<1>6. CASE \E a \in Agents : Listen(a)
  <2>0. PICK a \in Agents : Listen(a)
    BY <1>6
  <2>1. PICK i \in DOMAIN conn[session[a]].down :
          session[a] # 0 /\ (OnAssignment(a, i) \/ OnRevoke(a, i) \/ OnGrant(a, i))
    BY <2>0 DEF Listen
  <2>2. session[a] \in Streams /\ session[a] \in DOMAIN conn
    BY <2>1, LenProperties DEF ConnTypes, AgentTypes, Streams
  <2>3. Arrived(a, i) \in DownMessages
    BY <2>1, <2>2, ConnElement, ElementOfSeq, LenProperties DEF Arrived, ConnTypes
  <2>4. CASE OnAssignment(a, i)
    <3> DEFINE m == Arrived(a, i)
               w == [job |-> m.job, attempt |-> m.attempt, stream |-> session[a], pc |-> "encoding"]
    <3>1. w \in Items
      BY <2>2, <2>3, <2>4 DEF DownMessages, Items, OnAssignment
    <3>2. m.job \in Jobs
      BY <2>3 DEF DownMessages
    <3>3. /\ work' = [work EXCEPT ![a] = @ \cup {w}] /\ claims' = [claims EXCEPT ![a] = @ \cup {m.job}]
          /\ UNCHANGED <<session, fresh, revoked>>
      BY <2>4 DEF OnAssignment
    <3> HIDE DEF w, m
    <3>4. QED BY <3>1, <3>2, <3>3 DEF AgentTypes
  <2>5. CASE OnRevoke(a, i)
    <3>1. Arrived(a, i).job \in Jobs
      BY <2>3 DEF DownMessages
    <3>2. QED BY <2>5, <3>1 DEF OnRevoke, AgentTypes
  <2>6. CASE OnGrant(a, i)
    <3> DEFINE waiting == Asking(a, Arrived(a, i).job)
               begun == IF Arrived(a, i).ok THEN {[v EXCEPT !.pc = "installing"] : v \in waiting}
                                            ELSE {}
    <3>1. waiting \subseteq Items /\ begun \subseteq Items
      BY DEF AgentTypes, Asking, Items
    <3>2. /\ work' = [work EXCEPT ![a] = (@ \ waiting) \cup begun]
          /\ \E over : Drop(a, over) /\ UNCHANGED <<session, fresh>>
      BY <2>6 DEF OnGrant
    <3> HIDE DEF waiting, begun
    <3>3. QED BY <3>1, <3>2 DEF AgentTypes, Drop
  <2>7. QED BY <2>1, <2>4, <2>5, <2>6
<1>7. CASE \E a \in Agents : Execute(a) \/ \E w \in work[a] : GrantTimeout(a, w)
  <2>0. PICK a \in Agents : Execute(a) \/ \E w \in work[a] : GrantTimeout(a, w)
    BY <1>7
  <2>1. PICK w \in work[a] :
          \/ Rejected(a, w) \/ LetGo(a, w) \/ Accepted(a, w) \/ GrantTimeout(a, w)
          \/ \E label \in Labels : Install(a, w, label)
    BY <2>0 DEF Execute
  <2>2. \A pc \in {"ending", "asking"} : [w EXCEPT !.pc = pc] \in Items
    BY DEF AgentTypes, Items
  <2>3. UNCHANGED <<session, fresh>>
    BY <2>1 DEF Rejected, LetGo, Accepted, GrantTimeout, Install
  <2>4. (\E over : Drop(a, over)) \/ UNCHANGED <<claims, revoked>>
    BY <2>1 DEF Rejected, LetGo, Accepted, GrantTimeout, Install, Finished
  <2>5. \E W : /\ W \subseteq work[a] \cup {[w EXCEPT !.pc = "ending"], [w EXCEPT !.pc = "asking"]}
               /\ work' = [work EXCEPT ![a] = W]
    BY <2>1 DEF Rejected, LetGo, Accepted, GrantTimeout, Install, Finished
  <2>6. QED BY <2>2, <2>3, <2>4, <2>5 DEF AgentTypes, Drop
<1>8. CASE Environment
  <2>1. CASE \E j \in Jobs : Create(j) \/ Cancel(j)
    BY <1>1, <2>1 DEF Create, Cancel
  <2>2. CASE \E a \in Agents : Break(a) \/ AgentRestart(a) \/ LeaseLapses(a)
    BY <2>2 DEF Break, AgentRestart, LeaseLapses, AgentTypes, agentVars
  <2>3. CASE ServerRestart
    BY <2>3 DEF ServerRestart, AgentTypes
  <2>4. QED BY <1>8, <2>1, <2>2, <2>3 DEF Environment
<1>9. QED
  BY <1>2, <1>3, <1>4, <1>5, <1>6, <1>7, <1>8 DEF Next

-----------------------------------------------------------------------------
(* Steps that thin the tokens of j out.                                    *)

JobSafe(j) == OneToken(j) /\ Truthful(j) /\ Failures(j)

WorkThin(j) ==
  \A a \in Agents : \A w \in work'[a] :
    w.job = j /\ w.pc = "installing" => w \in work[a]

TellingThin(j) ==
  \A k \in Streams :
    task'[k].pc \in {"resolve", "conclude"} /\ task'[k].job = j =>
      /\ task[k].pc \in {"resolve", "conclude"} /\ task[k].job = j
      /\ task'[k].label = task[k].label

RowKept(j) ==
  /\ job[j].state \in Past => job'[j].state \in Past
  /\ job'[j].state \in {"Succeeded", "Failed"} => job'[j].state = job[j].state

(* Where tokens are thinned out, no new place holds one.                   *)
LEMMA ThinnedPlaces ==
  ASSUME NEW j
  PROVE  /\ StreamsThin(j) => /\ Granting(j)' \subseteq Granting(j)
                              /\ Reporting(j)' \subseteq Reporting(j)
         /\ WorkThin(j) => /\ Installing(j)' \subseteq Installing(j)
                           /\ \A a \in Agents : InstallingItems(a, j)' \subseteq InstallingItems(a, j)
         /\ TellingThin(j) => Telling(j)' \subseteq Telling(j)
<1>1. ASSUME StreamsThin(j), NEW k \in DOMAIN conn'
      PROVE  /\ Carries(conn'[k].down, j) => k \in DOMAIN conn /\ Carries(conn[k].down, j)
             /\ Carries(conn'[k].up, j) => k \in DOMAIN conn /\ Carries(conn[k].up, j)
  BY <1>1 DEF StreamsThin, Thins, Carries
<1>2. StreamsThin(j) => /\ Granting(j)' \subseteq Granting(j)
                        /\ Reporting(j)' \subseteq Reporting(j)
  BY <1>1 DEF Granting, Reporting
<1>3. WorkThin(j) => /\ Installing(j)' \subseteq Installing(j)
                     /\ \A a \in Agents : InstallingItems(a, j)' \subseteq InstallingItems(a, j)
  BY DEF WorkThin, Installing, InstallingItems
<1>4. TellingThin(j) => Telling(j)' \subseteq Telling(j)
  BY DEF TellingThin, Telling
<1>5. QED BY <1>2, <1>3, <1>4

(* Within one stream or one agent.                                         *)
Unrepeated(j) ==
  /\ \A k \in DOMAIN conn : Lone(conn[k].down, j) /\ Lone(conn[k].up, j)
  /\ \A a \in Agents : Single(InstallingItems(a, j))

(* Nor does any place hold one twice.                                      *)
LEMMA ThinnedRepeats ==
  ASSUME NEW j, Unrepeated(j), StreamsThin(j)
  PROVE  \A k \in DOMAIN conn' : Lone(conn'[k].down, j) /\ Lone(conn'[k].up, j)
  BY DEF Unrepeated, StreamsThin, Thins, Lone

(* A step that only thins j's tokens out, and says nothing of its          *)
(* installs, is safe for it.                                               *)
LEMMA Thinned ==
  ASSUME NEW j, JobSafe(j), StreamsThin(j), WorkThin(j), TellingThin(j), RowKept(j),
         installs'[j] = installs[j]
  PROVE  JobSafe(j)'
<1>1. /\ Granting(j)' \subseteq Granting(j) /\ Reporting(j)' \subseteq Reporting(j)
      /\ Installing(j)' \subseteq Installing(j) /\ Telling(j)' \subseteq Telling(j)
      /\ \A a \in Agents : InstallingItems(a, j)' \subseteq InstallingItems(a, j)
  BY ThinnedPlaces
<1>2. \A k \in DOMAIN conn' : Lone(conn'[k].down, j) /\ Lone(conn'[k].up, j)
  BY ThinnedRepeats DEF JobSafe, OneToken, Unrepeated
<1>3. OneToken(j)'
  BY <1>1, <1>2 DEF JobSafe, OneToken, Single
<1>4. Failures(j)'
  BY <1>1 DEF JobSafe, Failures, RowKept
<1>5. \A k \in DOMAIN conn' : \A i \in DOMAIN conn'[k].up :
        IsToken(conn'[k].up[i], j) => Told(conn'[k].up[i].label, installs'[j])
  BY DEF JobSafe, Truthful, StreamsThin, Thins
<1>6. \A k \in Telling(j)' : Told(task'[k].label, installs'[j])
  BY DEF JobSafe, Truthful, TellingThin, Telling
<1>7. Truthful(j)'
  BY <1>1, <1>5, <1>6 DEF JobSafe, Truthful, RowKept
<1>8. QED BY <1>3, <1>4, <1>7 DEF JobSafe

(* A job past its grant leaves Committing for an end, or not at all.       *)
LEMMA MoveKept ==
  ASSUME JobTypes, NEW j \in Jobs, NEW i, NEW from, NEW to, CanMove(i, from, to), Move(i, to),
         from = "Committing" => to = "NeedsOperator", to \notin {"Succeeded", "Failed"}
  PROVE  RowKept(j)
  BY DEF JobTypes, CanMove, CanTransition, IsTerminal, Terminal, Move, RowKept, Past

(* The orchestrator never takes a job past its grant back, makes no token  *)
(* and installs nothing.                                                   *)
LEMMA TickThins ==
  ASSUME DispatchAssumption, RowTypes, TableTypes, TaskTypes, Tick, NEW j \in Jobs
  PROVE  WorkThin(j) /\ TellingThin(j) /\ RowKept(j) /\ installs'[j] = installs[j]
<1>0. JobTypes
  BY DEF RowTypes, JobTypes
<1>1. UNCHANGED <<work, installs>>
  BY DEF Tick, TickReconcile, Escalate, Reclaim, Sweep, PlaceStart, Blocked, EndTick,
         PlaceGrant, PlaceEligible, PlaceAssign, PlaceSend, OnlyJobs, OnlyIntents, agentVars
<1>2. TellingThin(j)
  <2>1. task' = task \/ \E x : task' = [task EXCEPT ![0] = x]
    BY DEF Tick, TickReconcile, Escalate, Reclaim, Sweep, PlaceStart, Blocked, EndTick,
           PlaceGrant, PlaceEligible, PlaceAssign, PlaceSend, Then, Finish, BeginRequeue
  <2>2. \A k \in Streams : task'[k] = task[k]
    BY <2>1 DEF TaskTypes, Streams, Threads, DispatchAssumption
  <2>3. QED BY <2>2 DEF TellingThin
<1>3. RowKept(j)
  <2>1. CASE UNCHANGED job
    BY <2>1 DEF RowKept
  <2>2. CASE \E x \in lost : Escalate(x)
    BY <1>0, <2>1, <2>2, MoveKept DEF Escalate
  <2>3. CASE PlaceEligible
    BY <1>0, <2>1, <2>3, MoveKept DEF PlaceEligible
  <2>4. CASE PlaceAssign
    BY <1>0, <2>1, <2>4 DEF PlaceAssign, JobTypes, RowKept, Past
  <2>5. QED
    BY <2>1, <2>2, <2>3, <2>4
       DEF Tick, TickReconcile, Reclaim, Sweep, PlaceStart, Blocked, EndTick,
           PlaceGrant, PlaceSend, OnlyIntents, storeVars
<1>4. QED BY <1>1, <1>2, <1>3 DEF WorkThin

(* Nor does the tail, whose jobs were not Committing when it took them.    *)
LEMMA SettleThins ==
  ASSUME DispatchAssumption, RowTypes, TaskTypes, NEW t \in Threads, SettleFailure(t), NEW j \in Jobs
  PROVE  WorkThin(j) /\ TellingThin(j) /\ RowKept(j) /\ installs'[j] = installs[j]
<1>0. JobTypes
  BY DEF RowTypes, JobTypes
<1>1. UNCHANGED <<work, installs>>
  BY DEF SettleFailure, Release, Retry, Bump, Requeue, OnlyJobs, OnlyIntents, agentVars
<1>2. TellingThin(j)
  <2>1. \/ \E pc \in Settling : task' = [task EXCEPT ![t].pc = pc]
        \/ t = 0 /\ \E x : task' = [task EXCEPT ![t] = x]
        \/ t # 0 /\ task' = [task EXCEPT ![t] = Idle]
    BY DEF SettleFailure, Release, Retry, Bump, Requeue, Then, Finish, Settling
  <2>2. \A k \in Streams : k # 0 /\ k \in Threads
    BY DEF Streams, Threads, DispatchAssumption
  <2>3. task[t].pc \in Settling
    BY DEF SettleFailure, Release, Retry, Bump, Requeue, Settling
  <2>4. ASSUME NEW k \in Streams
        PROVE  task'[k] = task[k] \/ task'[k].pc \notin {"resolve", "conclude"}
    <3>1. CASE \E pc \in Settling : task' = [task EXCEPT ![t].pc = pc]
      <4>1. PICK pc \in Settling : task' = [task EXCEPT ![t] = [task[t] EXCEPT !.pc = pc]]
        BY <3>1
      <4>2. k = t => [task[t] EXCEPT !.pc = pc] \in HandlerTasks
        BY <2>2, <2>3, SettlingTypes
      <4>3. k = t => task[t] \in HandlerTasks
        BY DEF TaskTypes
      <4>4. k = t => "pc" \in DOMAIN task[t]
        BY <4>3 DEF HandlerTasks, Idle
      <4>5. k = t => task'[k].pc = pc
        BY <4>1, <4>4 DEF TaskTypes
      <4>6. QED BY <4>1, <4>5, <2>2 DEF TaskTypes, Settling
    <3>2. QED BY <2>1, <2>2, <3>1 DEF TaskTypes, Idle
  <2>5. QED BY <2>4 DEF TellingThin
<1>3. RowKept(j)
  <2>1. CASE UNCHANGED job
    BY <2>1 DEF RowKept
  <2>2. CASE Retry(t)
    <3>1. task[t].from # "Committing"
      BY <2>2, SettlingTypes DEF Retry, Settling
    <3>2. QED BY <1>0, <2>1, <2>2, <3>1, MoveKept DEF Retry
  <2>3. CASE Bump(t)
    BY <1>0, <2>1, <2>3 DEF Bump, JobTypes, RowKept
  <2>4. CASE Requeue(t)
    BY <1>0, <2>1, <2>4, MoveKept DEF Requeue
  <2>5. QED
    BY <2>1, <2>2, <2>3, <2>4 DEF SettleFailure, Release, OnlyIntents
<1>4. QED BY <1>1, <1>2, <1>3 DEF WorkThin

(* A handler takes a token in hand from a report, and ends a job at its    *)
(* conclusion.                                                             *)
LEMMA HandlerThins ==
  ASSUME DispatchAssumption, RowTypes, TaskTypes, NEW k \in Streams, Handle(k), NEW j \in Jobs
  PROVE  /\ WorkThin(j) /\ installs'[j] = installs[j]
         /\ (OnCommitReport(k) => Message(k).job # j \/ UNCHANGED task) => TellingThin(j)
         /\ (ReportConclude(k) => task[k].job # j \/ UNCHANGED job) => RowKept(j)
<1>0. JobTypes /\ k # 0 /\ k \in Threads
  BY DEF RowTypes, JobTypes, Streams, Threads, DispatchAssumption
<1>1. UNCHANGED <<work, installs>>
  BY DEF Handle, OnResult, ResultStart, ResultAccept, OnCommitRequest, RequestCommit,
         OnCommitReport, ReportResolve, ReportConclude, Teardown, OnlyJobs, OnlyIntents, agentVars
<1>2. ASSUME OnCommitReport(k) => Message(k).job # j \/ UNCHANGED task
      PROVE  TellingThin(j)
  <2>0. ASSUME NEW x, task' = [task EXCEPT ![k] = x], x.pc \in {"resolve", "conclude"} => x.job # j
        PROVE  TellingThin(j)
    BY <1>0, <2>0 DEF TellingThin, TaskTypes
  <2>1. CASE task' = task
    BY <2>1 DEF TellingThin
  <2>2. CASE OnResult(k)
    <3> DEFINE m == Message(k)
               x == [pc |-> IF job[m.job].state = "Assigned" THEN "start"
                            ELSE IF m.ok THEN "accept" ELSE "release",
                     job |-> m.job, attempt |-> job[m.job].attempt,
                     from |-> "Running", ok |-> m.ok]
    <3>1. task' = task \/ task' = [task EXCEPT ![k] = x]
      BY <2>2 DEF OnResult
    <3>2. x.pc \notin {"resolve", "conclude"}
      OBVIOUS
    <3> HIDE DEF x
    <3>3. QED BY <2>0, <2>1, <3>1, <3>2
  <2>3. CASE OnCommitRequest(k)
    <3>1. task' = task \/ task' = [task EXCEPT ![k] = [pc |-> "commit", job |-> Message(k).job]]
      BY <2>3 DEF OnCommitRequest
    <3>2. QED BY <2>0, <2>1, <3>1
  <2>4. CASE OnCommitReport(k)
    <3>1. task' = task \/ \E n : task' = [task EXCEPT ![k] =
            [pc |-> "resolve", job |-> Message(k).job, attempt |-> n, label |-> Message(k).label]]
      BY <2>4 DEF OnCommitReport
    <3>2. QED BY <1>2, <2>0, <2>1, <2>4, <3>1
  <2>5. CASE ResultStart(k)
    <3>1. CASE \E pc \in {"accept", "release"} : Then(k, pc)
      <4>1. PICK pc \in {"accept", "release"} : task' = [task EXCEPT ![k] = [task[k] EXCEPT !.pc = pc]]
        BY <3>1 DEF Then
      <4>2. [task[k] EXCEPT !.pc = pc].pc = pc
        <5>1. task[k] \in HandlerTasks
          BY DEF TaskTypes
        <5>2. QED BY <5>1 DEF HandlerTasks, Idle
      <4>3. QED BY <2>0, <4>1, <4>2
    <3>2. QED BY <1>0, <2>0, <2>5, <3>1 DEF ResultStart, Finish, Idle
  <2>6. CASE ResultAccept(k) \/ RequestCommit(k) \/ ReportConclude(k)
    BY <1>0, <2>0, <2>6 DEF ResultAccept, RequestCommit, ReportConclude, Finish, Idle
  <2>7. CASE ReportResolve(k)
    <3>1. CASE Then(k, "conclude")
      <4>1. task' = [task EXCEPT ![k] = [task[k] EXCEPT !.pc = "conclude"]]
        BY <3>1 DEF Then
      <4>2. [task[k] EXCEPT !.pc = "conclude"].job = task[k].job
            /\ [task[k] EXCEPT !.pc = "conclude"].label = task[k].label
        OBVIOUS
      <4>3. task[k].pc = "resolve"
        BY <2>7 DEF ReportResolve
      <4>4. QED BY <1>0, <4>1, <4>2, <4>3 DEF TellingThin, TaskTypes
    <3>2. QED BY <1>0, <2>0, <2>7, <3>1 DEF ReportResolve, Finish, Idle
  <2>8. CASE Teardown(k)
    BY <2>1, <2>8 DEF Teardown
  <2>9. QED BY <2>2, <2>3, <2>4, <2>5, <2>6, <2>7, <2>8 DEF Handle
<1>3. ASSUME ReportConclude(k) => task[k].job # j \/ UNCHANGED job
      PROVE  RowKept(j)
  <2>1. CASE UNCHANGED job
    BY <2>1 DEF RowKept
  <2>2. CASE ResultStart(k) \/ ResultAccept(k) \/ RequestCommit(k)
    <3>1. CASE ResultStart(k)
      BY <1>0, <2>1, <3>1, MoveKept DEF ResultStart
    <3>2. CASE ResultAccept(k)
      BY <1>0, <2>1, <3>2, MoveKept DEF ResultAccept
    <3>3. CASE RequestCommit(k)
      <4>1. \/ UNCHANGED job
            \/ /\ CanMove(task[k].job, "Verifying", "Committing")
               /\ Move(task[k].job, "Committing")
        BY <3>3 DEF RequestCommit
      <4>2. QED BY <1>0, <2>1, <4>1, MoveKept
    <3>4. QED BY <2>2, <3>1, <3>2, <3>3
  <2>3. CASE ReportConclude(k)
    BY <1>0, <1>3, <2>1, <2>3 DEF ReportConclude, Move, JobTypes, RowKept
  <2>4. QED
    BY <2>1, <2>2, <2>3
       DEF Handle, OnResult, OnCommitRequest, OnCommitReport, ReportResolve, Teardown,
           OnlyIntents, storeVars
<1>4. QED BY <1>1, <1>2, <1>3 DEF WorkThin

(* The environment installs only by an agent that restarts.                *)
LEMMA EnvironmentThins ==
  ASSUME DispatchAssumption, RowTypes, TaskTypes, AgentTypes, Environment, NEW j \in Jobs
  PROVE  /\ WorkThin(j) /\ TellingThin(j) /\ RowKept(j)
         /\ (\A a \in Agents : ~AgentRestart(a)) => installs'[j] = installs[j]
<1>1. CASE \E i \in Jobs : Create(i) \/ Cancel(i)
  <2>1. UNCHANGED <<work, task, installs>>
    BY <1>1 DEF Create, Cancel, agentVars, serverVars
  <2>2. RowKept(j)
    BY <1>1 DEF Create, Cancel, Move, Open, Terminal, RowKept, Past, RowTypes
  <2>3. QED BY <2>1, <2>2 DEF WorkThin, TellingThin
<1>2. CASE \E a \in Agents : Break(a) \/ LeaseLapses(a)
  BY <1>2 DEF Break, LeaseLapses, agentVars, serverVars, storeVars, WorkThin, TellingThin, RowKept
<1>3. CASE \E a \in Agents : AgentRestart(a)
  <2>1. UNCHANGED <<task, job>> /\ \E a \in Agents : work' = [work EXCEPT ![a] = {}]
    BY <1>3 DEF AgentRestart, storeVars, serverVars
  <2>2. QED BY <1>3, <2>1 DEF WorkThin, TellingThin, RowKept, AgentTypes
<1>4. CASE ServerRestart
  <2>1. UNCHANGED <<work, job, installs>> /\ task' = [t \in Threads |-> Idle]
    BY <1>4 DEF ServerRestart, storeVars
  <2>2. \A k \in Streams : task'[k].pc = "idle"
    BY <2>1 DEF Idle, Streams, Threads, DispatchAssumption
  <2>3. QED BY <2>1, <2>2 DEF WorkThin, TellingThin, RowKept
<1>5. QED BY <1>1, <1>2, <1>3, <1>4 DEF Environment

(* An agent begins an install on a grant, and ends it by Install.          *)
LEMMA AgentThins ==
  ASSUME RowTypes, AgentTypes, NEW a \in Agents, NEW j \in Jobs,
         \/ Join(a) \/ OnHeartbeat(a) \/ Listen(a) \/ Execute(a)
         \/ \E w \in work[a] : GrantTimeout(a, w)
  PROVE  /\ TellingThin(j) /\ RowKept(j)
         /\ (session[a] # 0 => \A i \in DOMAIN conn[session[a]].down :
                                 OnGrant(a, i) => Arrived(a, i).job # j)
               => WorkThin(j)
         /\ (\A w \in work[a], label \in Labels : Install(a, w, label) => w.job # j)
               => installs'[j] = installs[j]
<1>1. UNCHANGED <<task, job>>
  BY DEF Join, OnHeartbeat, Listen, OnAssignment, OnRevoke, OnGrant, Execute, Rejected, LetGo,
         Accepted, Install, GrantTimeout, storeVars, serverVars
<1>2. TellingThin(j) /\ RowKept(j)
  BY <1>1 DEF TellingThin, RowKept
<1>3. ASSUME \A w \in work[a], label \in Labels : Install(a, w, label) => w.job # j
      PROVE  installs'[j] = installs[j]
  <2>1. UNCHANGED installs \/ \E w \in work[a], label \in Labels : Install(a, w, label)
    BY DEF Join, OnHeartbeat, Listen, OnAssignment, OnRevoke, OnGrant, Execute, Rejected, LetGo,
           Accepted, GrantTimeout, agentVars
  <2>2. QED BY <1>3, <2>1 DEF Install, RowTypes
<1> SUFFICES ASSUME session[a] # 0 => \A i \in DOMAIN conn[session[a]].down :
                                        OnGrant(a, i) => Arrived(a, i).job # j
             PROVE  WorkThin(j)
  BY <1>2, <1>3
<1>4. ASSUME NEW W, work' = [work EXCEPT ![a] = W],
             \A w \in W : w.job = j /\ w.pc = "installing" => w \in work[a]
      PROVE  WorkThin(j)
  BY <1>4 DEF WorkThin, AgentTypes
<1>5. CASE UNCHANGED work
  BY <1>5 DEF WorkThin
<1>6. CASE Listen(a)
  <2>1. PICK i \in DOMAIN conn[session[a]].down :
          session[a] # 0 /\ (OnAssignment(a, i) \/ OnRevoke(a, i) \/ OnGrant(a, i))
    BY <1>6 DEF Listen
  <2>2. CASE OnAssignment(a, i)
    <3> DEFINE w == [job |-> Arrived(a, i).job, attempt |-> Arrived(a, i).attempt,
                     stream |-> session[a], pc |-> "encoding"]
    <3>1. work' = [work EXCEPT ![a] = work[a] \cup {w}] /\ w.pc = "encoding"
      BY <2>2 DEF OnAssignment
    <3> HIDE DEF w
    <3>2. QED BY <1>4, <3>1
  <2>3. CASE OnGrant(a, i)
    <3> DEFINE waiting == Asking(a, Arrived(a, i).job)
               begun == IF Arrived(a, i).ok THEN {[v EXCEPT !.pc = "installing"] : v \in waiting}
                                            ELSE {}
    <3>1. work' = [work EXCEPT ![a] = (work[a] \ waiting) \cup begun]
      BY <2>3 DEF OnGrant
    <3>2. \A w \in begun : w.job = Arrived(a, i).job
      BY DEF Asking, AgentTypes, Items
    <3> HIDE DEF waiting, begun
    <3>3. \A w \in (work[a] \ waiting) \cup begun :
            w.job = j /\ w.pc = "installing" => w \in work[a]
      BY <2>1, <2>3, <3>2
    <3>4. QED BY <1>4, <3>1, <3>3
  <2>4. QED BY <1>5, <2>1, <2>2, <2>3 DEF OnRevoke
<1>7. CASE Execute(a) \/ \E w \in work[a] : GrantTimeout(a, w)
  <2>1. PICK w \in work[a] :
          \/ Rejected(a, w) \/ LetGo(a, w) \/ Accepted(a, w) \/ GrantTimeout(a, w)
          \/ \E label \in Labels : Install(a, w, label)
    BY <1>7 DEF Execute
  <2>2. \A pc \in {"ending", "asking"} : [w EXCEPT !.pc = pc].pc = pc
    BY DEF AgentTypes, Items
  <2>3. \E W : /\ W \subseteq work[a] \cup {[w EXCEPT !.pc = "ending"], [w EXCEPT !.pc = "asking"]}
               /\ work' = [work EXCEPT ![a] = W]
    BY <2>1 DEF Rejected, LetGo, Accepted, GrantTimeout, Install, Finished
  <2>4. QED BY <1>4, <2>2, <2>3
<1>8. CASE Join(a) \/ OnHeartbeat(a)
  BY <1>5, <1>8 DEF Join, OnHeartbeat, agentVars
<1>9. QED BY <1>6, <1>7, <1>8

-----------------------------------------------------------------------------
(* Steps that make a token, or move one on.                                *)

(* RequestCommit makes a grant of a job that is Verifying, and has none.   *)
LEMMA Requested ==
  ASSUME ConnTypes, RowTypes, NEW k \in Streams, TaskTypes, RequestCommit(k), Handle(k),
         DispatchAssumption, NEW j \in Jobs, JobSafe(j), task[k].job = j
  PROVE  JobSafe(j)'
<1>1. WorkThin(j) /\ TellingThin(j) /\ RowKept(j) /\ installs'[j] = installs[j]
  <2>1. ~OnCommitReport(k) /\ ~ReportConclude(k)
    BY DEF RequestCommit, OnCommitReport, ReportConclude, Has, Idle
  <2>2. QED BY <2>1, HandlerThins
<1>2. CASE Send(conn[k].agent, Grant(j, FALSE))
  <2>1. Grant(j, FALSE) \in DownMessages /\ ~IsToken(Grant(j, FALSE), j)
    BY DEF Grant, DownMessages, IsToken
  <2>2. StreamsThin(j)
    BY <1>2, <2>1, Sends DEF ConnTypes
  <2>3. QED BY <1>1, <2>2, Thinned
<1>3. CASE /\ CanMove(j, "Verifying", "Committing") /\ Move(j, "Committing")
           /\ Send(conn[k].agent, Grant(j, TRUE))
  <2> DEFINE f == fleet[conn[k].agent]
             m == Grant(j, TRUE)
  <2>1. job[j].state = "Verifying" /\ job'[j].state = "Committing"
    BY <1>3 DEF CanMove, Move, RowTypes
  <2>2. /\ Granting(j) = {} /\ Installing(j) = {} /\ Reporting(j) = {} /\ Telling(j) = {}
        /\ installs[j] = 0
    BY <2>1 DEF JobSafe, Truthful, Past, RowTypes
  <2>3. /\ Installing(j)' = {} /\ Telling(j)' = {}
        /\ \A a \in Agents : InstallingItems(a, j)' \subseteq InstallingItems(a, j)
    BY <1>1, <2>2, ThinnedPlaces
  <2>4. m \in DownMessages
    BY DEF Grant, DownMessages
  <2>5. /\ DOMAIN conn' = DOMAIN conn
        /\ \A i \in DOMAIN conn' :
             /\ conn'[i].up = conn[i].up
             /\ conn'[i].down = conn[i].down
                  \/ (i = f /\ conn'[i].down = Append(conn[i].down, m))
    <3>1. CASE conn' = [conn EXCEPT ![f].down = Append(conn[f].down, m)]
      <4>1. \A i \in DOMAIN conn : conn[i] \in Conns
        BY ConnElement DEF ConnTypes
      <4>2. QED BY <3>1, <4>1 DEF Conns
    <3>2. QED BY <1>3, <3>1 DEF Send
  <2>6. \A i \in DOMAIN conn : /\ conn[i].down \in Seq(DownMessages)
                               /\ ~Carries(conn[i].down, j) /\ ~Carries(conn[i].up, j)
    BY <2>2, ConnElement DEF Granting, Reporting, ConnTypes
  <2> HIDE DEF f, m
  <2>7. Reporting(j)' = {} /\ \A i \in Granting(j)' : i = f
    BY <2>5, <2>6 DEF Reporting, Granting
  <2>8. \A i \in DOMAIN conn' : Lone(conn'[i].down, j) /\ Lone(conn'[i].up, j)
    <3>1. \A i \in DOMAIN conn : Lone(conn[i].down, j) /\ Lone(conn[i].up, j)
      BY <2>6 DEF Carries, Lone
    <3>2. \A i \in DOMAIN conn : Lone(Append(conn[i].down, m), j)
      BY <2>4, <2>6, ThinsAppend
    <3>3. QED BY <2>5, <3>1, <3>2
  <2>9. OneToken(j)'
    BY <2>3, <2>7, <2>8 DEF JobSafe, OneToken, Single
  <2>10. \A i \in DOMAIN conn' : ~Carries(conn'[i].up, j)
    BY <2>5, <2>6
  <2>11. Truthful(j)'
    BY <1>1, <2>1, <2>2, <2>3, <2>7, <2>10 DEF Truthful, Past, Carries
  <2>12. QED BY <2>1, <2>9, <2>11 DEF JobSafe, Failures
<1>4. QED BY <1>2, <1>3 DEF RequestCommit

(* A report is taken off its stream by the handler that will act on it.    *)
LEMMA Heard ==
  ASSUME DispatchAssumption, ConnTypes, TaskTypes, RowTypes, NEW k \in Streams, Handle(k),
         OnCommitReport(k), NEW j \in Jobs, JobSafe(j), Message(k).job = j, StreamsThin(j)
  PROVE  JobSafe(j)'
<1> DEFINE m == Message(k)
           us == conn[k].up
<1>1. /\ k \in DOMAIN conn /\ us # <<>> /\ us \in Seq(UpMessages) /\ m.kind = "report"
      /\ UNCHANGED job
  BY ConnElement DEF OnCommitReport, Has, Message, ConnTypes, storeVars
<1>2. WorkThin(j) /\ RowKept(j) /\ installs'[j] = installs[j]
  <2>1. ~ReportConclude(k) \/ UNCHANGED job
    BY <1>1
  <2>2. QED BY <2>1, HandlerThins
<1>3. 1 \in DOMAIN us /\ m = us[1] /\ IsToken(m, j)
  BY <1>1, LenProperties, EmptySeq DEF Message, IsToken
<1>4. CASE UNCHANGED task
  BY <1>2, <1>4, Thinned DEF TellingThin
<1>5. CASE \E n : task' = [task EXCEPT ![k] = [pc |-> "resolve", job |-> m.job, attempt |-> n,
                                             label |-> m.label]]
  <2>1. task'[k].job = j /\ task'[k].label = m.label /\ \A i \in Streams \ {k} : task'[i] = task[i]
    BY <1>5 DEF TaskTypes, Threads, Streams, DispatchAssumption
  <2>2. k \in Reporting(j)
    BY <1>1, <1>3 DEF Reporting, Carries
  <2>3. /\ Granting(j) = {} /\ Installing(j) = {} /\ Telling(j) = {} /\ Reporting(j) = {k}
        /\ Lone(us, j)
    BY <1>1, <2>2 DEF JobSafe, OneToken, Single
  <2>4. conn'[k].up = Tail(us)
    BY <1>1, ConnElement DEF OnCommitReport, Consume, ConnTypes, Conns
  <2>5. ~Carries(conn'[k].up, j)
    BY <1>1, <1>3, <2>3, <2>4, ThinsTail DEF Message
  <2>6. /\ Granting(j)' = {} /\ Installing(j)' = {} /\ Reporting(j)' = {}
        /\ \A a \in Agents : InstallingItems(a, j)' \subseteq InstallingItems(a, j)
    <3>1. k \notin Reporting(j)'
      BY <2>5 DEF Reporting
    <3>2. QED BY <1>2, <2>3, <3>1, ThinnedPlaces
  <2>7. \A i \in Telling(j)' : i = k
    BY <2>1, <2>3 DEF Telling
  <2>8. \A i \in DOMAIN conn' : Lone(conn'[i].down, j) /\ Lone(conn'[i].up, j)
    BY ThinnedRepeats DEF JobSafe, OneToken, Unrepeated
  <2>9. OneToken(j)'
    BY <2>6, <2>7, <2>8 DEF JobSafe, OneToken, Single
  <2>10. Told(m.label, installs[j])
    BY <1>1, <1>3 DEF JobSafe, Truthful
  <2>11. \A i \in DOMAIN conn' : ~Carries(conn'[i].up, j)
    BY <2>6 DEF Reporting
  <2>12. Truthful(j)'
    BY <1>1, <1>2, <2>1, <2>2, <2>6, <2>7, <2>10, <2>11 DEF JobSafe, Truthful, Carries
  <2>13. QED BY <1>2, <2>6, <2>9, <2>12, <1>1 DEF JobSafe, Failures
<1>6. QED BY <1>4, <1>5 DEF OnCommitReport

(* The report's outcome is written down, and it is the last of its token.  *)
LEMMA Concluded ==
  ASSUME DispatchAssumption, TaskTypes, RowTypes, NEW k \in Streams, Handle(k),
         ReportConclude(k), NEW j \in Jobs, JobSafe(j), task[k].job = j, StreamsThin(j)
  PROVE  JobSafe(j)'
<1>1. WorkThin(j) /\ TellingThin(j) /\ installs'[j] = installs[j]
  <2>1. ~OnCommitReport(k)
    BY DEF ReportConclude, OnCommitReport, Has, Idle
  <2>2. QED BY <2>1, HandlerThins
<1>2. CASE UNCHANGED job
  BY <1>1, <1>2, Thinned DEF RowKept
<1>3. CASE CanMove(j, "Committing", OutcomeOf(task[k].label)) /\ Move(j, OutcomeOf(task[k].label))
  <2>1. k \in Telling(j) /\ task[k].label \in Labels
    BY HandlingTypes DEF Telling, ReportConclude
  <2>2. /\ Granting(j) = {} /\ Installing(j) = {} /\ Reporting(j) = {} /\ Telling(j) = {k}
        /\ Told(task[k].label, installs[j])
    BY <2>1 DEF JobSafe, OneToken, Single, Truthful
  <2>3. task'[k] = Idle
    BY DEF ReportConclude, Finish, TaskTypes, Threads, Streams, DispatchAssumption
  <2>4. k \notin Telling(j)'
    BY <2>3 DEF Telling, Idle
  <2>5. /\ Granting(j)' = {} /\ Installing(j)' = {} /\ Reporting(j)' = {} /\ Telling(j)' = {}
        /\ \A a \in Agents : InstallingItems(a, j)' \subseteq InstallingItems(a, j)
    BY <1>1, <2>2, <2>4, ThinnedPlaces
  <2>6. \A i \in DOMAIN conn' : Lone(conn'[i].down, j) /\ Lone(conn'[i].up, j)
    BY ThinnedRepeats DEF JobSafe, OneToken, Unrepeated
  <2>7. OneToken(j)'
    BY <2>5, <2>6 DEF JobSafe, OneToken, Single
  <2>8. job'[j].state = OutcomeOf(task[k].label)
    BY <1>3 DEF Move, RowTypes
  <2>9. /\ job'[j].state \in Past
        /\ job'[j].state = "Succeeded" => installs'[j] = 1
        /\ job'[j].state = "Failed" => installs'[j] = 0
    BY <1>1, <2>1, <2>2, <2>8 DEF OutcomeOf, Past, Told, Labels
  <2>10. \A i \in DOMAIN conn' : ~Carries(conn'[i].up, j)
    BY <2>5 DEF Reporting
  <2>11. Truthful(j)'
    BY <1>1, <2>5, <2>9, <2>10 DEF JobSafe, Truthful, Carries
  <2>12. QED BY <2>5, <2>7, <2>9, <2>11 DEF JobSafe, Failures
<1>4. QED BY <1>2, <1>3 DEF ReportConclude

(* A grant is taken off its stream by the install it lets begin.           *)
LEMMA Granted ==
  ASSUME ConnTypes, AgentTypes, RowTypes, OneAsks, NEW a \in Agents, session[a] # 0,
         NEW i \in DOMAIN conn[session[a]].down, OnGrant(a, i),
         NEW j \in Jobs, JobSafe(j), Arrived(a, i).job = j, StreamsThin(j)
  PROVE  JobSafe(j)'
<1> DEFINE k == session[a]
           ds == conn[k].down
           m == Arrived(a, i)
           waiting == Asking(a, j)
           begun == IF m.ok THEN {[v EXCEPT !.pc = "installing"] : v \in waiting} ELSE {}
<1>1. /\ k \in DOMAIN conn /\ ds \in Seq(DownMessages) /\ m = ds[i]
      /\ m.kind = "grant" /\ m.job = j
  <2>1. k \in DOMAIN conn
    BY LenProperties DEF ConnTypes, AgentTypes, Streams
  <2>2. QED BY <2>1, ConnElement DEF OnGrant, Arrived, ConnTypes
<1>2. m.ok \in BOOLEAN
  <2>1. m \in DownMessages
    BY <1>1, ElementOfSeq, LenProperties
  <2>2. QED BY <1>1, <2>1 DEF DownMessages
<1>3. TellingThin(j) /\ RowKept(j) /\ UNCHANGED <<job, task, installs>>
  BY DEF OnGrant, storeVars, serverVars, TellingThin, RowKept
<1>4. /\ work'[a] = (work[a] \ waiting) \cup begun
      /\ \A b \in Agents : b # a => work'[b] = work[b]
  BY DEF OnGrant, AgentTypes
<1>5. /\ \A v \in waiting : v \in work[a] /\ v \in Items /\ v.job = j /\ v.pc = "asking"
      /\ \A w \in begun : \E v \in waiting : w = [v EXCEPT !.pc = "installing"]
  BY DEF Asking, AgentTypes
<1>6. conn'[k].down = RemoveAt(ds, i)
  BY <1>1, ConnElement DEF OnGrant, Take, ConnTypes, Conns
<1>7. CASE m.ok = FALSE
  <2>1. begun = {}
    BY <1>7
  <2> HIDE DEF begun, waiting, m, ds, k
  <2>2. WorkThin(j)
    BY <1>4, <2>1 DEF WorkThin
  <2>3. QED BY <1>3, <2>2, Thinned
<1>8. CASE m.ok = TRUE
  <2>1. IsToken(m, j)
    BY <1>1, <1>8 DEF IsToken
  <2> HIDE DEF begun, waiting, m, ds
  <2>2. k \in Granting(j)
    BY <1>1, <2>1 DEF Granting, Carries, ds
  <2>3. /\ Granting(j) = {k} /\ Installing(j) = {} /\ Reporting(j) = {} /\ Telling(j) = {}
        /\ installs[j] = 0 /\ job[j].state \in Past /\ job[j].state # "Failed"
        /\ Lone(ds, j)
    BY <1>1, <2>2 DEF JobSafe, OneToken, Single, Truthful, Failures, ds
  <2>4. ~Carries(conn'[k].down, j)
    BY <1>1, <1>6, <2>1, <2>3, ThinsRemove DEF ds
  <2> HIDE DEF k
  <2>5. Granting(j)' = {} /\ Reporting(j)' = {} /\ Telling(j)' = {}
    <3>1. k \notin Granting(j)'
      BY <2>4 DEF Granting
    <3>2. QED BY <1>3, <2>3, <3>1, ThinnedPlaces
  <2>6. \A b \in Agents : \A w \in work[b] : ~(w.job = j /\ w.pc = "installing")
    BY <2>3 DEF Installing
  <2>7. Installing(j)' \subseteq {a}
    BY <1>4, <2>6 DEF Installing
  <2>8. \A v, w \in begun : v = w
    BY <1>5 DEF OneAsks
  <2>9. \A b \in Agents : Single(InstallingItems(b, j)')
    <3>1. \A b \in Agents : b # a => InstallingItems(b, j)' = {}
      BY <1>4, <2>6 DEF InstallingItems
    <3>2. InstallingItems(a, j)' \subseteq begun
      BY <1>4, <2>6 DEF InstallingItems
    <3>3. QED BY <2>8, <3>1, <3>2 DEF Single
  <2>10. \A n \in DOMAIN conn' : Lone(conn'[n].down, j) /\ Lone(conn'[n].up, j)
    BY ThinnedRepeats DEF JobSafe, OneToken, Unrepeated
  <2>11. OneToken(j)'
    BY <2>5, <2>7, <2>9, <2>10 DEF OneToken, Single
  <2>12. \A n \in DOMAIN conn' : ~Carries(conn'[n].up, j)
    BY <2>5 DEF Reporting
  <2>13. job'[j].state = job[j].state /\ installs'[j] = 0
    BY <1>3, <2>3
  <2>14. Truthful(j)'
    <3>1. job'[j].state = "Succeeded" => installs'[j] = 1
      BY <2>3, <2>13 DEF JobSafe, Truthful
    <3>2. QED BY <2>3, <2>5, <2>12, <2>13, <3>1 DEF Truthful, Carries
  <2>15. QED BY <2>3, <2>11, <2>13, <2>14 DEF JobSafe, Failures
<1>9. QED BY <1>2, <1>7, <1>8

(* An install is over, and reports what it did if its stream still lives.  *)
LEMMA Installed ==
  ASSUME ConnTypes, AgentTypes, RowTypes, NEW a \in Agents, NEW w \in work[a],
         NEW label \in Labels, Install(a, w, label), NEW j \in Jobs, JobSafe(j), w.job = j
  PROVE  JobSafe(j)'
<1> DEFINE k == w.stream
           m == [kind |-> "report", job |-> j, label |-> label]
<1>1. UNCHANGED <<job, task>> /\ TellingThin(j)
  BY DEF Install, storeVars, serverVars, TellingThin
<1>2. w.pc = "installing" /\ a \in Installing(j) /\ w \in InstallingItems(a, j)
  BY DEF Install, Installing, InstallingItems
<1>3. /\ Granting(j) = {} /\ Installing(j) = {a} /\ Reporting(j) = {} /\ Telling(j) = {}
      /\ InstallingItems(a, j) = {w}
      /\ installs[j] = 0 /\ job[j].state \in Past /\ job[j].state # "Failed"
      /\ job[j].state # "Succeeded"
  BY <1>2 DEF JobSafe, OneToken, Single, Truthful, Failures
<1>4. /\ work'[a] = work[a] \ {w} /\ \A b \in Agents : b # a => work'[b] = work[b]
  BY DEF Install, Finished, AgentTypes
<1>5. Installing(j)' = {} /\ \A b \in Agents : InstallingItems(b, j)' \subseteq InstallingItems(b, j)
  <2>1. \A b \in Agents : InstallingItems(b, j)' \subseteq InstallingItems(b, j)
    BY <1>4 DEF InstallingItems
  <2>2. \A b \in Agents : b # a => b \notin Installing(j)'
    BY <1>3, <1>4 DEF Installing
  <2>3. a \notin Installing(j)'
    BY <1>3, <1>4 DEF Installing, InstallingItems
  <2>4. Installing(j)' \subseteq Agents
    BY DEF Installing
  <2>5. QED BY <2>1, <2>2, <2>3, <2>4
<1>6. Told(label, installs'[j])
  BY <1>3 DEF Install, RowTypes, Told
<1>7. installs'[j] \in {0, 1}
  BY <1>6 DEF Told
<1>8. m \in UpMessages /\ m.label = label
  BY DEF UpMessages, Labels
<1>9. /\ DOMAIN conn' = DOMAIN conn
      /\ \A i \in DOMAIN conn' :
           /\ conn'[i].down = conn[i].down
           /\ conn'[i].up = conn[i].up \/ (i = k /\ conn'[i].up = Append(conn[i].up, m))
  <2>1. Report(k, <<m>>)
    BY DEF Install
  <2>2. CASE conn' = [conn EXCEPT ![k].up = conn[k].up \o <<m>>]
    <3>1. \A i \in DOMAIN conn : conn[i] \in Conns /\ conn[i].up \in Seq(UpMessages)
      BY ConnElement DEF ConnTypes
    <3> HIDE DEF m
    <3>2. \A i \in DOMAIN conn : conn[i].up \o <<m>> = Append(conn[i].up, m)
      BY <1>8, <3>1, AppendIsConcat
    <3>3. QED BY <2>2, <3>1, <3>2 DEF Conns
  <2>3. QED BY <2>1, <2>2 DEF Report
<1>10. \A i \in DOMAIN conn : /\ conn[i].up \in Seq(UpMessages)
                              /\ ~Carries(conn[i].down, j) /\ ~Carries(conn[i].up, j)
  BY <1>3, ConnElement DEF Granting, Reporting, ConnTypes
<1> HIDE DEF k, m
<1>11. Granting(j)' = {} /\ \A i \in Reporting(j)' : i = k
  BY <1>9, <1>10 DEF Granting, Reporting
<1>12. ASSUME NEW i \in DOMAIN conn'
       PROVE  /\ Lone(conn'[i].down, j) /\ Lone(conn'[i].up, j)
              /\ \A n \in DOMAIN conn'[i].up : IsToken(conn'[i].up[n], j) => conn'[i].up[n] = m
  <2>1. i \in DOMAIN conn /\ Lone(conn[i].down, j) /\ Lone(conn[i].up, j)
    BY <1>9, <1>10 DEF Carries, Lone
  <2>2. /\ Lone(Append(conn[i].up, m), j)
        /\ \A n \in DOMAIN Append(conn[i].up, m) :
             IsToken(Append(conn[i].up, m)[n], j) => Append(conn[i].up, m)[n] = m
    BY <1>8, <1>10, <2>1, ThinsAppend
  <2>3. Lone(conn'[i].down, j)
    BY <1>9, <2>1
  <2>4. CASE conn'[i].up = conn[i].up
    BY <1>10, <2>1, <2>3, <2>4 DEF Carries
  <2>5. CASE conn'[i].up = Append(conn[i].up, m)
    BY <2>2, <2>3, <2>5
  <2>6. QED BY <1>9, <2>4, <2>5
<1>13. Telling(j)' = {}
  BY <1>1, <1>3 DEF Telling
<1>14. OneToken(j)'
  BY <1>3, <1>5, <1>11, <1>12, <1>13 DEF JobSafe, OneToken, Single
<1>15. Truthful(j)'
  BY <1>1, <1>3, <1>5, <1>6, <1>7, <1>8, <1>11, <1>12, <1>13 DEF Truthful
<1>16. QED BY <1>1, <1>3, <1>14, <1>15 DEF JobSafe, Failures

(* An agent that restarts reports nothing, whatever it has installed.      *)
LEMMA Restarted ==
  ASSUME DispatchAssumption, RowTypes, TaskTypes, AgentTypes, Safe, NEW a \in Agents,
         AgentRestart(a), NEW j \in Jobs, StreamsThin(j)
  PROVE  JobSafe(j)'
<1>1. WorkThin(j) /\ TellingThin(j) /\ RowKept(j) /\ UNCHANGED <<task, job>>
  BY EnvironmentThins DEF Environment, AgentRestart, serverVars, storeVars
<1>2. JobSafe(j)
  BY DEF Safe, JobSafe
<1>3. CASE installs'[j] = installs[j]
  BY <1>1, <1>2, <1>3, Thinned
<1>4. CASE a \in Installing(j) /\ installs'[j] = installs[j] + 1
  <2>1. /\ Granting(j) = {} /\ Installing(j) = {a} /\ Reporting(j) = {} /\ Telling(j) = {}
        /\ installs[j] = 0 /\ job[j].state \in Past
        /\ job[j].state # "Failed" /\ job[j].state # "Succeeded"
    BY <1>2, <1>4 DEF JobSafe, OneToken, Single, Truthful, Failures
  <2>2. a \notin Installing(j)'
    BY DEF AgentRestart, AgentTypes, Installing
  <2>3. /\ Granting(j)' = {} /\ Installing(j)' = {} /\ Reporting(j)' = {} /\ Telling(j)' = {}
        /\ \A b \in Agents : InstallingItems(b, j)' \subseteq InstallingItems(b, j)
    BY <1>1, <2>1, <2>2, ThinnedPlaces
  <2>4. \A n \in DOMAIN conn' : Lone(conn'[n].down, j) /\ Lone(conn'[n].up, j)
    BY <1>2, ThinnedRepeats DEF JobSafe, OneToken, Unrepeated
  <2>5. OneToken(j)'
    BY <1>2, <2>3, <2>4 DEF JobSafe, OneToken, Single
  <2>6. \A n \in DOMAIN conn' : ~Carries(conn'[n].up, j)
    BY <2>3 DEF Reporting
  <2>7. installs'[j] = 1
    BY <1>4, <2>1
  <2>8. Truthful(j)'
    BY <1>1, <2>1, <2>3, <2>6, <2>7 DEF Truthful, Carries
  <2>9. QED BY <1>1, <2>1, <2>5, <2>8 DEF JobSafe, Failures
<1>5. QED BY <1>3, <1>4, RestartInstalls

-----------------------------------------------------------------------------
(* An agent asks once for a job.                                           *)

AsksThin == \A a \in Agents : \A v \in work'[a] : v.pc = "asking" => v \in work[a]

(* A second request for a job takes the first one's place.                 *)
LEMMA AsksKept ==
  ASSUME AgentTypes, OneAsks, Next
  PROVE  OneAsks'
<1>0. AsksThin => OneAsks'
  BY DEF OneAsks, AsksThin
<1>1. CASE UNCHANGED work
  BY <1>0, <1>1 DEF AsksThin
<1>2. ASSUME NEW a \in Agents, Listen(a)
      PROVE  OneAsks'
  <2>1. PICK i : OnAssignment(a, i) \/ OnRevoke(a, i) \/ OnGrant(a, i)
    BY <1>2 DEF Listen
  <2>2. CASE OnAssignment(a, i)
    <3> DEFINE w == [job |-> Arrived(a, i).job, attempt |-> Arrived(a, i).attempt,
                     stream |-> session[a], pc |-> "encoding"]
    <3>1. work' = [work EXCEPT ![a] = work[a] \cup {w}] /\ w.pc = "encoding"
      BY <2>2 DEF OnAssignment
    <3> HIDE DEF w
    <3>2. QED BY <1>0, <3>1 DEF AsksThin, AgentTypes
  <2>3. CASE OnGrant(a, i)
    <3> DEFINE waiting == Asking(a, Arrived(a, i).job)
               begun == IF Arrived(a, i).ok THEN {[v EXCEPT !.pc = "installing"] : v \in waiting}
                                            ELSE {}
    <3>1. work' = [work EXCEPT ![a] = (work[a] \ waiting) \cup begun]
      BY <2>3 DEF OnGrant
    <3>2. \A w \in begun : w.pc = "installing"
      BY DEF Asking, AgentTypes, Items
    <3> HIDE DEF waiting, begun
    <3>3. QED BY <1>0, <3>1, <3>2 DEF AsksThin, AgentTypes
  <2>4. QED BY <1>1, <2>1, <2>2, <2>3 DEF OnRevoke
<1>3. ASSUME NEW a \in Agents, Execute(a) \/ \E w \in work[a] : GrantTimeout(a, w)
      PROVE  OneAsks'
  <2>1. PICK w \in work[a] :
          \/ Rejected(a, w) \/ LetGo(a, w) \/ Accepted(a, w) \/ GrantTimeout(a, w)
          \/ \E label \in Labels : Install(a, w, label)
    BY <1>3 DEF Execute
  <2>2. w \in Items
    BY DEF AgentTypes
  <2>3. CASE Finished(a, w)
    BY <1>0, <2>3 DEF Finished, AsksThin, AgentTypes
  <2>4. CASE Rejected(a, w)
    <3> DEFINE u == [w EXCEPT !.pc = "ending"]
    <3>1. u.pc = "ending"
      BY <2>2 DEF Items
    <3> HIDE DEF u
    <3>2. CASE work' = [work EXCEPT ![a] = (work[a] \ {w}) \cup {u}]
      BY <1>0, <3>1, <3>2 DEF AsksThin, AgentTypes
    <3>3. QED BY <2>3, <2>4, <3>2 DEF Rejected, u
  <2>5. CASE Accepted(a, w)
    <3> DEFINE u == [w EXCEPT !.pc = "asking"]
    <3>1. u.job = w.job /\ u.pc = "asking"
      BY <2>2 DEF Items
    <3> HIDE DEF u
    <3>2. CASE work' = [work EXCEPT ![a] = (work[a] \ ({w} \cup (Asking(a, w.job) \cup {w}))) \cup {}]
      BY <1>0, <3>2 DEF AsksThin, AgentTypes
    <3>3. CASE work' = [work EXCEPT ![a] = (work[a] \ ({w} \cup (Asking(a, w.job) \cup {}))) \cup {u}]
      <4>1. /\ work'[a] = (work[a] \ ({w} \cup Asking(a, w.job))) \cup {u}
            /\ \A b \in Agents : b # a => work'[b] = work[b]
        BY <3>3 DEF AgentTypes
      <4>2. \A v \in work'[a] : v = u \/ (v \in work[a] /\ ~(v.pc = "asking" /\ v.job = u.job))
        BY <3>1, <4>1 DEF Asking
      <4>3. QED BY <4>1, <4>2 DEF OneAsks
    <3>4. QED
      BY <2>3, <2>5, <3>2, <3>3 DEF Accepted, u
  <2>6. QED BY <2>1, <2>3, <2>4, <2>5 DEF LetGo, GrantTimeout, Install
<1>4. CASE Environment
  <2>1. CASE \E a \in Agents : AgentRestart(a)
    BY <1>0, <2>1 DEF AgentRestart, AsksThin, AgentTypes
  <2>2. QED
    BY <1>1, <1>4, <2>1
       DEF Environment, Create, Cancel, Break, LeaseLapses, ServerRestart, agentVars
<1>5. CASE Tick \/ \E t \in Threads : SettleFailure(t)
  BY <1>1, <1>5
     DEF Tick, TickReconcile, Escalate, Reclaim, Sweep, PlaceStart, Blocked, EndTick,
         PlaceGrant, PlaceEligible, PlaceAssign, PlaceSend, SettleFailure, Release, Retry,
         Bump, Requeue, OnlyJobs, OnlyIntents, agentVars
<1>6. CASE \E k \in Streams : Handle(k)
  BY <1>1, <1>6
     DEF Handle, OnResult, ResultStart, ResultAccept, OnCommitRequest, RequestCommit,
         OnCommitReport, ReportResolve, ReportConclude, Teardown, OnlyJobs, OnlyIntents,
         agentVars
<1>7. CASE \E a \in Agents : Join(a) \/ OnHeartbeat(a)
  BY <1>1, <1>7 DEF Join, OnHeartbeat, agentVars
<1>8. QED BY <1>2, <1>3, <1>4, <1>5, <1>6, <1>7 DEF Next

-----------------------------------------------------------------------------
(* Everything together.                                                    *)

(* The types need Safe, for an install count stays small only because an   *)
(* agent that restarts was installing a job once.                          *)
LEMMA TypesKept ==
  ASSUME DispatchAssumption, TypesAndSafe, Next
  PROVE  Types'
<1> USE DEF TypesAndSafe, Types
<1>1. AgentTypes'
  BY AgentsKept
<1>2. CASE Tick
  BY <1>1, <1>2, TickRows, TickTables, TickTasks, TickStreams
<1>3. CASE \E t \in Threads : SettleFailure(t)
  BY <1>1, <1>3, SettleRows, OtherTables, SettleTasks, SettleStreams
<1>4. CASE \E k \in Streams : Handle(k)
  BY <1>1, <1>4, HandlerRows, OtherTables, HandlerTasksKept, HandlerStreams
<1>5. ASSUME NEW a \in Agents,
             \/ Join(a) \/ OnHeartbeat(a) \/ Listen(a) \/ Execute(a)
             \/ \E w \in work[a] : GrantTimeout(a, w)
      PROVE  Types'
  <2>1. UNCHANGED task
    BY <1>5
       DEF Join, OnHeartbeat, Listen, OnAssignment, OnRevoke, OnGrant, Execute, Rejected,
           LetGo, Accepted, Install, GrantTimeout, serverVars
  <2>2. ConnTypes'
    BY <1>5, JoinStreams, HeartbeatStreams, ListenStreams, ExecuteStreams
  <2>3. RowTypes' /\ TableTypes'
    BY <1>5, AgentRows, OtherTables
  <2>4. TaskTypes'
    BY <2>1 DEF TaskTypes
  <2>5. QED BY <1>1, <2>2, <2>3, <2>4
<1>6. CASE Environment
  <2>1. TaskTypes'
    <3>1. CASE UNCHANGED task
      BY <3>1 DEF TaskTypes
    <3>2. CASE task' = [t \in Threads |-> Idle]
      BY <3>2 DEF TaskTypes, OrchestratorTasks, HandlerTasks, Idle, Threads, Streams,
                  DispatchAssumption
    <3>3. QED
      BY <1>6, <3>1, <3>2
         DEF Environment, Create, Cancel, Break, AgentRestart, LeaseLapses, ServerRestart,
             serverVars
  <2>2. QED BY <1>1, <1>6, <2>1, EnvironmentRows, OtherTables, EnvironmentStreams
<1>7. QED BY <1>2, <1>3, <1>4, <1>5, <1>6 DEF Next

(* A step makes j's token, moves it on, or thins.                          *)
LEMMA SafeKept ==
  ASSUME DispatchAssumption, TypesAndSafe, Next, NEW j \in Jobs
  PROVE  JobSafe(j)'
<1> USE DEF TypesAndSafe, Types
<1>0. JobSafe(j) /\ Safe /\ OneAsks
  BY DEF Safe, JobSafe
<1>1. CASE Tick
  BY <1>0, <1>1, TickStreams, TickThins, Thinned
<1>2. CASE \E t \in Threads : SettleFailure(t)
  BY <1>0, <1>2, SettleStreams, SettleThins, Thinned
<1>3. ASSUME NEW k \in Streams, Handle(k)
      PROVE  JobSafe(j)'
  <2>1. CASE RequestCommit(k) /\ task[k].job = j
    BY <1>0, <1>3, <2>1, Requested
  <2>2. CASE ~(RequestCommit(k) /\ task[k].job = j)
    <3>1. StreamsThin(j)
      BY <1>3, <2>2, HandlerStreams
    <3>2. CASE OnCommitReport(k) /\ Message(k).job = j
      BY <1>0, <1>3, <3>1, <3>2, Heard
    <3>3. CASE ReportConclude(k) /\ task[k].job = j
      BY <1>0, <1>3, <3>1, <3>3, Concluded
    <3>4. CASE /\ ~(OnCommitReport(k) /\ Message(k).job = j)
               /\ ~(ReportConclude(k) /\ task[k].job = j)
      <4>1. /\ WorkThin(j) /\ TellingThin(j) /\ RowKept(j) /\ installs'[j] = installs[j]
        BY <1>3, <3>4, HandlerThins
      <4>2. QED BY <1>0, <3>1, <4>1, Thinned
    <3>5. QED BY <3>2, <3>3, <3>4
  <2>3. QED BY <2>1, <2>2
<1>4. ASSUME NEW a \in Agents,
             \/ Join(a) \/ OnHeartbeat(a) \/ Listen(a) \/ Execute(a)
             \/ \E w \in work[a] : GrantTimeout(a, w)
      PROVE  JobSafe(j)'
  <2>1. CASE \E w \in work[a], label \in Labels : Install(a, w, label) /\ w.job = j
    BY <1>0, <2>1, Installed
  <2>2. CASE ~ \E w \in work[a], label \in Labels : Install(a, w, label) /\ w.job = j
    <3>1. StreamsThin(j)
      BY <1>4, <2>2, JoinStreams, HeartbeatStreams, ListenStreams, ExecuteStreams
    <3>2. CASE \E i \in DOMAIN conn[session[a]].down :
                 session[a] # 0 /\ OnGrant(a, i) /\ Arrived(a, i).job = j
      BY <1>0, <3>1, <3>2, Granted
    <3>3. CASE ~ \E i \in DOMAIN conn[session[a]].down :
                   session[a] # 0 /\ OnGrant(a, i) /\ Arrived(a, i).job = j
      <4>1. WorkThin(j) /\ TellingThin(j) /\ RowKept(j) /\ installs'[j] = installs[j]
        BY <1>4, <2>2, <3>3, AgentThins
      <4>2. QED BY <1>0, <3>1, <4>1, Thinned
    <3>4. QED BY <3>2, <3>3
  <2>3. QED BY <2>1, <2>2
<1>5. CASE Environment
  <2>1. StreamsThin(j)
    BY <1>5, EnvironmentStreams
  <2>2. CASE \E a \in Agents : AgentRestart(a)
    BY <1>0, <2>1, <2>2, Restarted
  <2>3. CASE ~ \E a \in Agents : AgentRestart(a)
    <3>1. WorkThin(j) /\ TellingThin(j) /\ RowKept(j) /\ installs'[j] = installs[j]
      BY <1>5, <2>3, EnvironmentThins
    <3>2. QED BY <1>0, <2>1, <3>1, Thinned
  <2>4. QED BY <2>2, <2>3
<1>6. QED BY <1>1, <1>2, <1>3, <1>4, <1>5 DEF Next

(* There are no tokens, no streams and no work at the start.               *)
LEMMA StartsSafe ==
  ASSUME DispatchAssumption, Init
  PROVE  TypesAndSafe
<1>1. conn = <<>> /\ conn \in Seq(Conns) /\ Len(conn) = 0 /\ DOMAIN conn = {}
  BY EmptySeq, LenProperties DEF Init
<1>2. RowTypes
  BY DEF Init, RowTypes, Attempts, DispatchAssumption
<1>3. TableTypes
  BY DEF Init, TableTypes
<1>4. AgentTypes
  BY DEF Init, AgentTypes
<1>5. TaskTypes
  BY DEF Init, TaskTypes, OrchestratorTasks, HandlerTasks, Idle, Threads, Streams,
         DispatchAssumption
<1>6. ConnTypes
  BY <1>1 DEF Init, ConnTypes, DispatchAssumption
<1>7. OneAsks
  BY DEF Init, OneAsks
<1>8. ASSUME NEW j \in Jobs
      PROVE  OneToken(j) /\ Truthful(j) /\ Failures(j)
  <2>1. Granting(j) = {} /\ Reporting(j) = {}
    BY <1>1 DEF Granting, Reporting
  <2>2. Installing(j) = {} /\ \A a \in Agents : InstallingItems(a, j) = {}
    BY DEF Init, Installing, InstallingItems
  <2>3. Telling(j) = {}
    <3>1. \A k \in Streams : task[k].pc = "idle"
      BY DEF Init, Idle, Threads, Streams, DispatchAssumption
    <3>2. QED BY <3>1 DEF Telling
  <2>4. installs[j] = 0 /\ job[j].state = "Absent"
    BY DEF Init
  <2>5. QED BY <1>1, <2>1, <2>2, <2>3, <2>4 DEF OneToken, Truthful, Failures, Single
<1>9. QED BY <1>2, <1>3, <1>4, <1>5, <1>6, <1>7, <1>8 DEF TypesAndSafe, Types, Safe

(* Every step, stutters included, keeps the invariant.                     *)
LEMMA StepsSafe ==
  ASSUME DispatchAssumption, TypesAndSafe, [Next]_vars
  PROVE  TypesAndSafe'
<1>1. CASE Next
  <2>1. OneAsks'
    BY <1>1, AsksKept DEF TypesAndSafe, Types, Safe
  <2>2. \A j \in Jobs : JobSafe(j)'
    BY <1>1, SafeKept
  <2>3. QED BY <1>1, <2>1, <2>2, TypesKept DEF TypesAndSafe, Safe, JobSafe
<1>2. CASE UNCHANGED vars
  <2>1. UNCHANGED <<job, intent, epoch, lease, online, fleet, task, lost, queue, willing, conn,
                    session, fresh, work, claims, revoked, installs, trouble>>
    BY <1>2 DEF vars, storeVars, serverVars, agentVars
  <2>2. Types'
    <3>1. RowTypes' /\ TableTypes' /\ AgentTypes'
      BY <2>1 DEF TypesAndSafe, Types, RowTypes, TableTypes, AgentTypes
    <3>2. TaskTypes'
      BY <2>1 DEF TypesAndSafe, Types, TaskTypes
    <3>3. ConnTypes'
      BY <2>1 DEF TypesAndSafe, Types, ConnTypes
    <3>4. QED BY <3>1, <3>2, <3>3 DEF Types
  <2>3. Safe'
    <3>1. OneAsks'
      BY <2>1 DEF TypesAndSafe, Safe, OneAsks
    <3>2. ASSUME NEW j \in Jobs
          PROVE  JobSafe(j)'
      <4>1. StreamsThin(j)
        BY <2>1, SameStreams DEF TypesAndSafe, Types, ConnTypes
      <4>2. WorkThin(j) /\ TellingThin(j) /\ RowKept(j) /\ installs'[j] = installs[j]
        BY <2>1 DEF WorkThin, TellingThin, RowKept
      <4>3. JobSafe(j)
        BY DEF TypesAndSafe, Safe, JobSafe
      <4>4. QED BY <4>1, <4>2, <4>3, Thinned
    <3>3. QED BY <3>1, <3>2 DEF Safe, JobSafe
  <2>4. QED BY <2>2, <2>3 DEF TypesAndSafe
<1>3. QED BY <1>1, <1>2

(* The inductive invariant always holds: types, one token per job, and its *)
(* row and history in step with it.                                        *)
THEOREM SafeAlways == Spec => []TypesAndSafe
<1>1. DispatchAssumption
  BY DispatchAssumption
<1>2. Init => TypesAndSafe
  BY <1>1, StartsSafe
<1>3. TypesAndSafe /\ [Next]_vars => TypesAndSafe'
  BY <1>1, StepsSafe
<1>4. QED BY <1>2, <1>3, PTL DEF Spec

(* The parts imply the module's own type invariant, which says less of     *)
(* tasks.                                                                  *)
LEMMA TypesAreOK ==
  ASSUME DispatchAssumption, TypesAndSafe
  PROVE  TypeOK
<1> USE DEF TypesAndSafe, Types
<1>1. conn \in Seq(Conns) /\ DOMAIN conn = 1 .. Len(conn) /\ Len(conn) \in Nat
  BY LenProperties DEF ConnTypes
<1>2. DOMAIN conn \subseteq Streams
  BY <1>1 DEF ConnTypes, Streams, DispatchAssumption
<1>3. \A k \in DOMAIN conn : conn[k] \in Conns
  BY <1>1, ConnElement
<1>4. QED
  BY <1>2, <1>3 DEF TypeOK, RowTypes, TableTypes, AgentTypes, TaskTypes, Conns

(* The two properties of the runs are part of what Safe says of one job.   *)
LEMMA SafeIsFinal ==
  ASSUME TypesAndSafe
  PROVE  InstalledIsFinal /\ InstalledOnce
<1>1. installs \in [Jobs -> Nat]
  BY DEF TypesAndSafe, Types, RowTypes
<1>2. ASSUME NEW j \in Jobs
      PROVE  Truthful(j) /\ Failures(j) /\ (installs[j] > 0 <=> installs[j] # 0)
  BY <1>1 DEF TypesAndSafe, Safe
<1>3. InstalledIsFinal
  BY <1>2 DEF InstalledIsFinal, Truthful, Failures, Past
<1>4. InstalledOnce
  BY <1>2 DEF InstalledOnce, Truthful
<1>5. QED BY <1>3, <1>4

(* Rows, tables, streams and the agents' work keep their types, whatever   *)
(* messages, failures and restarts do.                                     *)
THEOREM TypeCorrect == Spec => []TypeOK
<1>1. TypesAndSafe => TypeOK
  BY DispatchAssumption, TypesAreOK
<1>2. QED BY <1>1, SafeAlways, PTL

(* A job that is being installed, or was, is never requeued, failed,       *)
(* cancelled or given up, for any number of jobs, agents and troubles.     *)
THEOREM InstalledIsFinalHolds == Spec => []InstalledIsFinal
<1>1. TypesAndSafe => InstalledIsFinal
  BY SafeIsFinal
<1>2. QED BY <1>1, SafeAlways, PTL

(* No job is installed twice, and none succeeds uninstalled.               *)
THEOREM InstalledOnceHolds == Spec => []InstalledOnce
<1>1. TypesAndSafe => InstalledOnce
  BY SafeIsFinal
<1>2. QED BY <1>1, SafeAlways, PTL

(* Two agents never install one job.  Two jobs of one destination can be   *)
(* installed at once (see the run dispatch_orphan), so each has its own.   *)
THEOREM OneInstallerHolds ==
  ASSUME \A i, j \in Jobs : File[i] = File[j] => i = j
  PROVE  Spec => []OneInstaller
<1>1. TypesAndSafe => OneInstaller
  BY DEF TypesAndSafe, Safe, OneToken, Single, OneInstaller
<1>2. QED BY <1>1, SafeAlways, PTL

-----------------------------------------------------------------------------
(* A job that waits does not reserve its own destination.  Words of a job  *)
(* on a stream are what may still bring a verdict on it: an assignment on  *)
(* its way down, an encode, a result on its way up, a handler at work on   *)
(* one.  As long as no write fails, the server does not restart, and an    *)
(* agent is not called absent while it is there nor back before that was   *)
(* noticed, a job has one word at most, it is of the job as its row has    *)
(* it, and the tick has nothing in hand about the job.                     *)
Calm == Trouble \cap {"write", "server", "lease", "blip"} = {}

IsWord(m, j) == m.job = j /\ m.kind \in {"assign", "result"}
Says(s, j) == \E i \in DOMAIN s : IsWord(s[i], j)
SaysOnce(s, j) == \A h, i \in DOMAIN s : IsWord(s[h], j) /\ IsWord(s[i], j) => h = i

Attending == Settling \cup Placing \cup {"start", "accept"}
Attends(t, j) == task[t].pc \in Attending /\ task[t].job = j

Encodes(k, j) ==
  {w \in work[conn[k].agent] :
     w.job = j /\ w.stream = k /\ w.pc = "encoding" /\ conn[k].open}

Due(k, j) ==
  \/ Says(conn[k].down, j) \/ Encodes(k, j) # {} \/ Says(conn[k].up, j) \/ Attends(k, j)

OneWord(k, j) ==
  /\ SaysOnce(conn[k].down, j) /\ SaysOnce(conn[k].up, j) /\ Single(Encodes(k, j))
  /\ Says(conn[k].down, j) => Encodes(k, j) = {} /\ ~Says(conn[k].up, j) /\ ~Attends(k, j)
  /\ Encodes(k, j) # {} => ~Says(conn[k].up, j) /\ ~Attends(k, j)
  /\ Says(conn[k].up, j) => ~Attends(k, j)

Served == {k \in DOMAIN conn : conn[k].served}

(* What the tick has in hand.                                              *)
TickHas(j) ==
  Attends(0, j) \/ (\E x \in lost : x.job = j) \/ (\E q \in queue : q.job = j)

(* A job that is no longer to be placed, nor tried again.                  *)
Under(j) == Held(j) \/ IsTerminal(job[j].state)

Word(k, j) ==
  /\ OneWord(k, j)
  /\ Due(k, j) => GivenTo(j, k) /\ ~TickHas(j) /\ (Under(j) \/ Attends(k, j))

Words == \A k \in Served, j \in Jobs : Word(k, j)

(* An agent's streams: the fleet table has the one that is served, and the *)
(* agent holds none other that is open.                                    *)
Linked ==
  /\ \A a \in Agents : fleet[a] # 0 =>
       fleet[a] \in Served /\ conn[fleet[a]].agent = a /\ lease[a]
  /\ \A a \in Agents : session[a] # 0 =>
       session[a] \in DOMAIN conn /\ conn[session[a]].open /\ conn[session[a]].agent = a
  /\ \A k \in DOMAIN conn :
       /\ conn[k].open => conn[k].served
       /\ conn[k].served => fleet[conn[k].agent] = k
  /\ \A k \in Streams : task[k] # Idle => k \in Served
  /\ \A a \in Agents : \A w \in work[a] : w.stream \in DOMAIN conn /\ conn[w.stream].agent = a

(* The tick has a job in hand in one place.                                *)
Snapshots ==
  /\ queue = {} \/ lost = {}
  /\ task[0].pc = "idle" => queue = {}
  /\ \A x, y \in lost : x.job = y.job => x = y
  /\ \A x, y \in queue : x.job = y.job => x = y
  /\ \A j \in Jobs :
       Attends(0, j) => (\A x \in lost : x.job # j) /\ (\A q \in queue : q.job # j)

(* An agent that a job is being placed with is still there, under the      *)
(* epoch its row is to have, or is gone.                                   *)
OnRoad ==
  task[0].pc \in Placing =>
    LET a == task[0].agent  j == task[0].job IN
    /\ fleet[a] # 0 => conn[fleet[a]].epoch = task[0].epoch
    /\ task[0].pc = "send" => job[j].agent = a /\ job[j].epoch = task[0].epoch

(* A job is as it was read, or over.                                       *)
AsRead(j, s, n) == job[j].attempt = n /\ (job[j].state = s \/ IsTerminal(job[j].state))

InTask(j, w) ==
  /\ w.pc \in Settling \cup {"start", "accept"} => Under(j) \/ job[j].state = "Retrying"
  /\ w.pc \notin {"queue", "bury"} => w.attempt = job[j].attempt
  /\ w.pc = "bump" => w.attempt + 1 < MaxAttempts
  /\ w.pc = "grant" => AsRead(j, w.from, w.attempt)
  /\ w.pc = "eligible" => AsRead(j, "Pending", w.attempt)
  /\ w.pc = "assign" => AsRead(j, "Eligible", w.attempt)
  /\ w.pc = "send" => Under(j)

RowOf(j) ==
  /\ job[j].attempt < MaxAttempts
  /\ \A x \in lost : x.job = j => Under(j)
  /\ \A q \in queue : q.job = j => AsRead(j, q.from, q.attempt)
  /\ \A t \in Threads : Attends(t, j) => InTask(j, task[t])

Rows == \A j \in Jobs : RowOf(j)

(* A live intent is the current attempt's, of a job that is held or over,  *)
(* or about to be assigned; a tail that has released it finds none.        *)
ReservedBy(j) ==
  /\ \A n \in Attempts : Live(j, n) =>
       /\ n = job[j].attempt
       /\ Under(j) \/ (Attends(0, j) /\ task[0].pc \in {"eligible", "assign"})
  /\ \A t \in Threads :
       Attends(t, j) /\ task[t].pc \in {"retry", "bump", "queue", "bury"} =>
         \A n \in Attempts : ~Live(j, n)

Reserved == \A j \in Jobs : ReservedBy(j)

Orderly == Linked /\ Snapshots /\ Words /\ OnRoad /\ Rows /\ Reserved

-----------------------------------------------------------------------------
(* Streams, as far as words go.                                            *)
Sparser(t, s, j) ==
  /\ SaysOnce(s, j) => SaysOnce(t, j)
  /\ Says(t, j) => Says(s, j)

LEMMA SparserSame ==
  ASSUME NEW s, NEW j
  PROVE  Sparser(s, s, j) /\ Sparser(<<>>, s, j)
  BY DEF Sparser, SaysOnce, Says

(* The rest of a sequence, free of the word its head was.                  *)
LEMMA SparserTail ==
  ASSUME NEW S, NEW s \in Seq(S), s # <<>>, NEW j
  PROVE  /\ Sparser(Tail(s), s, j)
         /\ IsWord(Head(s), j) => Says(s, j) /\ (SaysOnce(s, j) => ~Says(Tail(s), j))
<1>1. /\ DOMAIN Tail(s) = 1 .. Len(s) - 1
      /\ DOMAIN s = 1 .. Len(s) /\ Len(s) \in Nat /\ Len(s) # 0
      /\ \A i \in DOMAIN Tail(s) : i + 1 \in DOMAIN s /\ Tail(s)[i] = s[i + 1] /\ i + 1 # 1
      /\ Head(s) = s[1] /\ 1 \in DOMAIN s
  BY HeadTailProperties, LenProperties, EmptySeq
<1>2. SaysOnce(s, j) => SaysOnce(Tail(s), j)
  BY <1>1 DEF SaysOnce
<1>3. QED BY <1>1, <1>2 DEF Sparser, SaysOnce, Says

(* A sequence without one of its elements.                                 *)
LEMMA SparserRemove ==
  ASSUME NEW S, NEW s \in Seq(S), NEW i \in DOMAIN s, NEW j
  PROVE  /\ Sparser(RemoveAt(s, i), s, j)
         /\ IsWord(s[i], j) => Says(s, j) /\ (SaysOnce(s, j) => ~Says(RemoveAt(s, i), j))
<1> DEFINE t == RemoveAt(s, i)
           f(l) == IF l < i THEN l ELSE l + 1
<1>1. /\ t \in Seq(S) /\ DOMAIN t = 1 .. Len(s) - 1
      /\ DOMAIN s = 1 .. Len(s) /\ Len(s) \in Nat
      /\ \A l \in DOMAIN t : t[l] = s[f(l)]
  BY RemoveAtProperties, LenProperties
<1>2. \A l \in DOMAIN t : f(l) \in DOMAIN s /\ f(l) # i
  BY <1>1
<1>3. \A l, h \in DOMAIN t : f(l) = f(h) => l = h
  BY <1>1
<1> HIDE DEF t, f
<1>4. SaysOnce(s, j) => SaysOnce(t, j)
  BY <1>1, <1>2, <1>3 DEF SaysOnce
<1>5. Sparser(t, s, j)
  BY <1>1, <1>2, <1>4 DEF Sparser, Says
<1>6. IsWord(s[i], j) => Says(s, j) /\ (SaysOnce(s, j) => ~Says(t, j))
  BY <1>1, <1>2 DEF SaysOnce, Says
<1>7. QED BY <1>5, <1>6 DEF t

(* What is left of a sequence cut short.                                   *)
LEMMA SparserCut ==
  ASSUME NEW S, NEW s \in Seq(S), NEW n \in 0 .. Len(s), NEW j
  PROVE  Sparser(SubSeq(s, 1, n), s, j)
<1> DEFINE t == SubSeq(s, 1, n)
<1>1. Len(s) \in Nat /\ DOMAIN s = 1 .. Len(s) /\ \A l \in 1 .. Len(s) : s[l] \in S
  BY LenProperties, ElementOfSeq
<1>2. \A l \in 1 .. n : s[l] \in S
  BY <1>1
<1>3. t \in Seq(S) /\ Len(t) = n /\ \A l \in 1 .. n : t[l] = s[l]
  BY <1>1, <1>2, SubSeqProperties, SMTT(30)
<1> HIDE DEF t
<1>4. DOMAIN t = 1 .. n /\ \A l \in DOMAIN t : l \in DOMAIN s /\ t[l] = s[l]
  BY <1>1, <1>3, LenProperties
<1>5. QED BY <1>4 DEF Sparser, SaysOnce, Says, t

(* What says nothing adds nothing; what says one thing to a sequence that  *)
(* says none makes one that says it once.                                  *)
LEMMA SparserConcat ==
  ASSUME NEW S, NEW s \in Seq(S), NEW t \in Seq(S), NEW j
  PROVE  /\ ~Says(t, j) => Sparser(s \o t, s, j)
         /\ ~Says(s, j) /\ SaysOnce(t, j) => SaysOnce(s \o t, j)
<1>1. /\ DOMAIN (s \o t) = 1 .. Len(s) + Len(t)
      /\ Len(s) \in Nat /\ Len(t) \in Nat /\ DOMAIN s = 1 .. Len(s) /\ DOMAIN t = 1 .. Len(t)
      /\ \A i \in 1 .. Len(s) + Len(t) :
           (s \o t)[i] = IF i <= Len(s) THEN s[i] ELSE t[i - Len(s)]
  BY ConcatProperties, LenProperties
<1>2. ASSUME NEW i \in DOMAIN (s \o t)
      PROVE  \/ i \in DOMAIN s /\ (s \o t)[i] = s[i]
             \/ i - Len(s) \in DOMAIN t /\ (s \o t)[i] = t[i - Len(s)]
  BY <1>1
<1>3. ~Says(t, j) => Sparser(s \o t, s, j)
  BY <1>2 DEF Says, SaysOnce, Sparser
<1>4. ASSUME ~Says(s, j), SaysOnce(t, j),
             NEW h \in DOMAIN (s \o t), NEW i \in DOMAIN (s \o t),
             IsWord((s \o t)[h], j), IsWord((s \o t)[i], j)
      PROVE  h = i
  <2>1. h - Len(s) \in DOMAIN t /\ (s \o t)[h] = t[h - Len(s)]
    BY <1>2, <1>4 DEF Says
  <2>2. i - Len(s) \in DOMAIN t /\ (s \o t)[i] = t[i - Len(s)]
    BY <1>2, <1>4 DEF Says
  <2>3. h - Len(s) = i - Len(s)
    BY <1>4, <2>1, <2>2 DEF SaysOnce
  <2>4. QED BY <1>1, <2>3
<1>5. QED BY <1>3, <1>4 DEF SaysOnce

LEMMA SparserAppend ==
  ASSUME NEW S, NEW s \in Seq(S), NEW m \in S, NEW j
  PROVE  /\ ~IsWord(m, j) => Sparser(Append(s, m), s, j)
         /\ ~Says(s, j) => SaysOnce(Append(s, m), j)
<1>1. /\ DOMAIN Append(s, m) = 1 .. Len(s) + 1 /\ Len(s) \in Nat
      /\ DOMAIN s = 1 .. Len(s) /\ Append(s, m)[Len(s) + 1] = m
      /\ \A i \in DOMAIN s : Append(s, m)[i] = s[i]
  BY AppendProperties, LenProperties
<1>2. \A i \in DOMAIN Append(s, m) : i \in DOMAIN s \/ i = Len(s) + 1
  BY <1>1
<1>3. QED BY <1>1, <1>2 DEF Sparser, SaysOnce, Says

(* What a step leaves alone in a stream, and does to its words.            *)
Steady(k) ==
  /\ conn'[k].agent = conn[k].agent /\ conn'[k].epoch = conn[k].epoch
  /\ conn'[k].open = conn[k].open /\ conn'[k].served = conn[k].served

Milder(k, j) ==
  Sparser(conn'[k].up, conn[k].up, j) /\ Sparser(conn'[k].down, conn[k].down, j)

AllSteady == DOMAIN conn' = DOMAIN conn /\ \A k \in DOMAIN conn : Steady(k)
AllMilder(j) == \A k \in DOMAIN conn : Milder(k, j)

LEMMA SameMilder ==
  ASSUME UNCHANGED conn, NEW j
  PROVE  AllSteady /\ AllMilder(j)
  BY SparserSame DEF AllSteady, AllMilder, Steady, Milder

(* One side of one stream is replaced.                                     *)
LEMMA UpEdited ==
  ASSUME conn \in Seq(Conns), NEW k, NEW us, conn' = [conn EXCEPT ![k].up = us]
  PROVE  /\ AllSteady
         /\ \A i \in DOMAIN conn : /\ conn'[i].down = conn[i].down
                                   /\ conn'[i].up = IF i = k THEN us ELSE conn[i].up
<1>1. DOMAIN conn' = DOMAIN conn
  OBVIOUS
<1>2. ASSUME NEW i \in DOMAIN conn
      PROVE  /\ Steady(i) /\ conn'[i].down = conn[i].down
             /\ conn'[i].up = IF i = k THEN us ELSE conn[i].up
  <2>1. conn[i] \in Conns
    BY ConnElement
  <2>2. conn'[i] = IF i = k THEN [conn[i] EXCEPT !.up = us] ELSE conn[i]
    OBVIOUS
  <2>3. QED BY <2>1, <2>2 DEF Conns, Steady
<1>3. QED BY <1>1, <1>2 DEF AllSteady

LEMMA DownEdited ==
  ASSUME conn \in Seq(Conns), NEW k, NEW ds, conn' = [conn EXCEPT ![k].down = ds]
  PROVE  /\ AllSteady
         /\ \A i \in DOMAIN conn : /\ conn'[i].up = conn[i].up
                                   /\ conn'[i].down = IF i = k THEN ds ELSE conn[i].down
<1>1. DOMAIN conn' = DOMAIN conn
  OBVIOUS
<1>2. ASSUME NEW i \in DOMAIN conn
      PROVE  /\ Steady(i) /\ conn'[i].up = conn[i].up
             /\ conn'[i].down = IF i = k THEN ds ELSE conn[i].down
  <2>1. conn[i] \in Conns
    BY ConnElement
  <2>2. conn'[i] = IF i = k THEN [conn[i] EXCEPT !.down = ds] ELSE conn[i]
    OBVIOUS
  <2>3. QED BY <2>1, <2>2 DEF Conns, Steady
<1>3. QED BY <1>1, <1>2 DEF AllSteady

(* A message is sent; it is a word of its own stream only.                 *)
LEMMA SendsWord ==
  ASSUME conn \in Seq(Conns), NEW a, NEW m \in DownMessages, Send(a, m), NEW j
  PROVE  /\ AllSteady
         /\ ~IsWord(m, j) => AllMilder(j)
         /\ \A k \in DOMAIN conn :
              /\ conn'[k].up = conn[k].up
              /\ k # fleet[a] => conn'[k].down = conn[k].down
              /\ ~Says(conn[k].down, j) => SaysOnce(conn'[k].down, j)
<1>1. CASE UNCHANGED conn
  BY <1>1, SameMilder DEF Says, SaysOnce
<1>2. CASE conn' = [conn EXCEPT ![fleet[a]].down = Append(conn[fleet[a]].down, m)]
  <2> DEFINE ds == Append(conn[fleet[a]].down, m)
  <2>1. conn' = [conn EXCEPT ![fleet[a]].down = ds]
    BY <1>2
  <2>2. ASSUME NEW k \in DOMAIN conn
        PROVE  /\ ~IsWord(m, j) => Sparser(Append(conn[k].down, m), conn[k].down, j)
               /\ ~Says(conn[k].down, j) => SaysOnce(Append(conn[k].down, m), j)
    BY ConnElement, SparserAppend
  <2>3. \A k \in DOMAIN conn : ~Says(conn[k].down, j) => SaysOnce(conn[k].down, j)
    BY DEF Says, SaysOnce
  <2>4. fleet[a] \in DOMAIN conn =>
          /\ ~IsWord(m, j) => Sparser(ds, conn[fleet[a]].down, j)
          /\ ~Says(conn[fleet[a]].down, j) => SaysOnce(ds, j)
    BY <2>2
  <2> HIDE DEF ds
  <2>5. AllSteady /\ \A i \in DOMAIN conn :
           /\ conn'[i].up = conn[i].up
           /\ conn'[i].down = IF i = fleet[a] THEN ds ELSE conn[i].down
    BY <2>1, DownEdited
  <2>6. QED BY <2>3, <2>4, <2>5, SparserSame DEF AllMilder, Milder
<1>3. QED BY <1>1, <1>2 DEF Send

(* Messages are reported.                                                  *)
LEMMA ReportsWord ==
  ASSUME conn \in Seq(Conns), NEW k, NEW ms \in Seq(UpMessages), Report(k, ms), NEW j
  PROVE  /\ AllSteady
         /\ ~Says(ms, j) => AllMilder(j)
         /\ \A i \in DOMAIN conn :
              /\ conn'[i].down = conn[i].down
              /\ i # k \/ ~conn[k].open => conn'[i].up = conn[i].up
              /\ ~Says(conn[i].up, j) /\ SaysOnce(ms, j) => SaysOnce(conn'[i].up, j)
<1>1. CASE UNCHANGED conn
  BY <1>1, SameMilder DEF Says, SaysOnce
<1>2. CASE conn[k].open /\ conn' = [conn EXCEPT ![k].up = conn[k].up \o ms]
  <2> DEFINE us == conn[k].up \o ms
  <2>1. conn' = [conn EXCEPT ![k].up = us]
    BY <1>2
  <2>2. ASSUME NEW i \in DOMAIN conn
        PROVE  /\ ~Says(ms, j) => Sparser(conn[i].up \o ms, conn[i].up, j)
               /\ ~Says(conn[i].up, j) /\ SaysOnce(ms, j) => SaysOnce(conn[i].up \o ms, j)
    BY ConnElement, SparserConcat
  <2>3. \A i \in DOMAIN conn : ~Says(conn[i].up, j) => SaysOnce(conn[i].up, j)
    BY DEF Says, SaysOnce
  <2>4. k \in DOMAIN conn =>
          /\ ~Says(ms, j) => Sparser(us, conn[k].up, j)
          /\ ~Says(conn[k].up, j) /\ SaysOnce(ms, j) => SaysOnce(us, j)
    BY <2>2
  <2> HIDE DEF us
  <2>5. AllSteady /\ \A i \in DOMAIN conn :
           /\ conn'[i].down = conn[i].down
           /\ conn'[i].up = IF i = k THEN us ELSE conn[i].up
    BY <2>1, UpEdited
  <2>6. QED BY <1>2, <2>3, <2>4, <2>5, SparserSame DEF AllMilder, Milder
<1>3. QED BY <1>1, <1>2 DEF Report

(* A handler takes the first message of its stream.                        *)
LEMMA ConsumesWord ==
  ASSUME conn \in Seq(Conns), NEW k \in DOMAIN conn, conn[k].up # <<>>, Consume(k), NEW j
  PROVE  /\ AllSteady /\ AllMilder(j)
         /\ IsWord(Message(k), j) =>
              Says(conn[k].up, j) /\ (SaysOnce(conn[k].up, j) => ~Says(conn'[k].up, j))
<1>1. /\ Sparser(Tail(conn[k].up), conn[k].up, j)
      /\ IsWord(Message(k), j) =>
           /\ Says(conn[k].up, j)
           /\ SaysOnce(conn[k].up, j) => ~Says(Tail(conn[k].up), j)
  BY ConnElement, SparserTail DEF Message
<1>2. conn' = [conn EXCEPT ![k].up = Tail(conn[k].up)]
  BY DEF Consume
<1>3. AllSteady /\ \A i \in DOMAIN conn :
         /\ conn'[i].down = conn[i].down
         /\ conn'[i].up = IF i = k THEN Tail(conn[k].up) ELSE conn[i].up
  BY <1>2, UpEdited
<1>4. QED BY <1>1, <1>3, SparserSame DEF AllMilder, Milder

(* An agent takes any message of its stream.                               *)
LEMMA TakesWord ==
  ASSUME conn \in Seq(Conns), NEW a, session[a] \in DOMAIN conn,
         NEW i \in DOMAIN conn[session[a]].down, Take(a, i), NEW j
  PROVE  /\ AllSteady /\ AllMilder(j)
         /\ \A k \in DOMAIN conn : conn'[k].up = conn[k].up
         /\ IsWord(Arrived(a, i), j) =>
              /\ Says(conn[session[a]].down, j)
              /\ SaysOnce(conn[session[a]].down, j) => ~Says(conn'[session[a]].down, j)
<1> DEFINE k == session[a]
           ds == RemoveAt(conn[k].down, i)
<1>1. /\ Sparser(ds, conn[k].down, j)
      /\ IsWord(Arrived(a, i), j) =>
           /\ Says(conn[k].down, j)
           /\ SaysOnce(conn[k].down, j) => ~Says(ds, j)
  BY ConnElement, SparserRemove DEF Arrived
<1>2. conn' = [conn EXCEPT ![k].down = ds]
  BY DEF Take
<1>3. k \in DOMAIN conn
  OBVIOUS
<1> HIDE DEF ds
<1>4. AllSteady /\ \A l \in DOMAIN conn :
         /\ conn'[l].up = conn[l].up
         /\ conn'[l].down = IF l = k THEN ds ELSE conn[l].down
  BY <1>2, DownEdited
<1>5. QED BY <1>1, <1>3, <1>4, SparserSame DEF AllMilder, Milder

(* A message is answered; the answer is no word.                           *)
LEMMA AnswersWord ==
  ASSUME conn \in Seq(Conns), NEW k \in DOMAIN conn, conn[k].up # <<>>, NEW a,
         NEW m \in DownMessages, NEW j, ~IsWord(m, j), Answer(k, a, m)
  PROVE  AllSteady /\ AllMilder(j)
<1>1. ASSUME NEW i \in DOMAIN conn
      PROVE  Steady(i) /\ Milder(i, j)
  <2> DEFINE c == IF i = k THEN [conn[i] EXCEPT !.up = Tail(@)] ELSE conn[i]
             d == IF i = fleet[a] /\ c.open THEN [c EXCEPT !.down = Append(@, m)] ELSE c
  <2>0. conn'[i] = d
    BY DEF Answer
  <2>1. conn[i] \in Conns /\ conn[i].up \in Seq(UpMessages) /\ conn[i].down \in Seq(DownMessages)
    BY ConnElement
  <2>2. /\ i = k => Sparser(Tail(conn[i].up), conn[i].up, j)
                    /\ Tail(conn[i].up) \in Seq(UpMessages)
        /\ Sparser(conn[i].up, conn[i].up, j) /\ Sparser(conn[i].down, conn[i].down, j)
        /\ Sparser(Append(conn[i].down, m), conn[i].down, j)
        /\ Append(conn[i].down, m) \in Seq(DownMessages)
    BY <2>1, SparserTail, SparserSame, SparserAppend, HeadTailProperties, AppendProperties
  <2>3. /\ c \in Conns /\ Sparser(c.up, conn[i].up, j) /\ c.down = conn[i].down
        /\ c.agent = conn[i].agent /\ c.epoch = conn[i].epoch
        /\ c.open = conn[i].open /\ c.served = conn[i].served
    BY <2>1, <2>2 DEF Conns
  <2> HIDE DEF c
  <2>4. /\ d.up = c.up /\ Sparser(d.down, conn[i].down, j)
        /\ d.agent = c.agent /\ d.epoch = c.epoch
        /\ d.open = c.open /\ d.served = c.served
    BY <2>2, <2>3 DEF Conns
  <2> HIDE DEF d
  <2>5. QED BY <2>0, <2>3, <2>4 DEF Steady, Milder
<1>2. DOMAIN conn' = DOMAIN conn
  BY DEF Answer
<1>3. QED BY <1>1, <1>2 DEF AllSteady, AllMilder

(* A stream breaks.                                                        *)
LEMMA CutsWord ==
  ASSUME conn \in Seq(Conns), NEW k \in DOMAIN conn, NEW n \in 0 .. Len(conn[k].up), NEW j,
         conn' = Cut(k, n)
  PROVE  /\ DOMAIN conn' = DOMAIN conn /\ AllMilder(j)
         /\ \A i \in DOMAIN conn :
              /\ conn'[i].agent = conn[i].agent /\ conn'[i].epoch = conn[i].epoch
              /\ conn'[i].served = conn[i].served
              /\ IF i = k THEN conn'[i].open = FALSE ELSE conn'[i] = conn[i]
<1> DEFINE us == SubSeq(conn[k].up, 1, n)
           c == [conn[k] EXCEPT !.open = FALSE, !.down = <<>>, !.up = us]
<1>1. conn[k] \in Conns /\ conn[k].up \in Seq(UpMessages)
  BY ConnElement
<1>2. Sparser(us, conn[k].up, j) /\ Sparser(<<>>, conn[k].down, j)
  BY <1>1, SparserCut, SparserSame
<1>3. conn' = [conn EXCEPT ![k] = c]
  BY DEF Cut
<1> HIDE DEF us
<1>4. /\ c.up = us /\ c.down = <<>> /\ c.agent = conn[k].agent /\ c.epoch = conn[k].epoch
      /\ c.open = FALSE /\ c.served = conn[k].served
  BY <1>1 DEF Conns
<1> HIDE DEF c
<1>5. /\ DOMAIN conn' = DOMAIN conn
      /\ \A i \in DOMAIN conn : conn'[i] = IF i = k THEN c ELSE conn[i]
  BY <1>3
<1>6. QED BY <1>2, <1>4, <1>5, SparserSame DEF AllMilder, Milder

(* What a step leaves alone of a job's row when there is a word of it.     *)
RowHolds(k, j) ==
  /\ job'[j].agent = job[j].agent /\ job'[j].epoch = job[j].epoch
  /\ ~TickHas(j)'
  /\ Under(j) => Under(j)' \/ Attends(k, j)'

SameOwner(k) == conn'[k].agent = conn[k].agent /\ conn'[k].epoch = conn[k].epoch

(* A step that only makes the words of a stream fewer.                     *)
LEMMA WordThins ==
  ASSUME NEW k, NEW j, Word(k, j), SameOwner(k), Milder(k, j),
         Encodes(k, j)' \subseteq Encodes(k, j),
         Attends(k, j)' => Attends(k, j),
         Due(k, j) => RowHolds(k, j)
  PROVE  Word(k, j)'
<1>1. OneWord(k, j)'
  BY DEF Word, OneWord, Single, Milder, Sparser
<1>2. Due(k, j)' => Due(k, j)
  BY DEF Due, Milder, Sparser
<1>3. ASSUME Due(k, j)'
      PROVE  Attends(k, j)' \/ Under(j)
  BY <1>2, <1>3 DEF Word, OneWord, Due, Milder, Sparser
<1>4. QED BY <1>1, <1>2, <1>3 DEF Word, RowHolds, GivenTo, SameOwner

(* A step that moves a word on.                                            *)
LEMMA WordMoves ==
  ASSUME NEW k, NEW j, Word(k, j), SameOwner(k), OneWord(k, j)',
         Due(k, j), RowHolds(k, j), Under(j) \/ Attends(k, j)'
  PROVE  Word(k, j)'
  BY DEF Word, RowHolds, GivenTo, SameOwner

(* One stream per agent is served, so one stream has words of a job.       *)
LEMMA OneDue ==
  ASSUME TypesAndSafe, Linked, Words, NEW j \in Jobs, NEW k \in Served, NEW l \in Served,
         Due(k, j), Due(l, j)
  PROVE  k = l
<1>1. GivenTo(j, k) /\ GivenTo(j, l)
  BY DEF Words, Word
<1>2. conn[k].agent = conn[l].agent
  BY <1>1 DEF GivenTo
<1>3. fleet[conn[k].agent] = k /\ fleet[conn[l].agent] = l
  BY DEF Linked, Served
<1>4. QED BY <1>2, <1>3

(* What handlers attend to is a word.                                      *)
LEMMA AttendsIsDue ==
  ASSUME DispatchAssumption, TypesAndSafe, Linked, NEW k \in Streams, NEW j,
         task[k].pc \in Attending, task[k].job = j
  PROVE  k \in Served /\ k \in DOMAIN conn /\ Attends(k, j) /\ Due(k, j)
<1>1. task[k] # Idle
  BY DEF Idle, Attending, Settling, Placing
<1>2. QED BY <1>1 DEF Linked, Served, Attends, Due

-----------------------------------------------------------------------------
(* The agents' steps keep the order.                                       *)

(* Streams are numbered, and an agent's.                                   *)
LEMMA StreamNumbers ==
  ASSUME DispatchAssumption, TypesAndSafe, NEW k \in DOMAIN conn
  PROVE  k \in Streams /\ conn[k] \in Conns /\ conn[k].agent \in Agents
<1>1. conn \in Seq(Conns) /\ Len(conn) <= MaxStreams
  BY DEF TypesAndSafe, Types, ConnTypes
<1>2. conn[k] \in Conns
  BY <1>1, ConnElement
<1>3. k \in Streams
  BY <1>1, LenProperties DEF Streams, DispatchAssumption
<1>4. QED BY <1>2, <1>3 DEF Conns

Rest == <<job, intent, task, lost, queue>>

(* What depends on rows, tasks and tables alone.                           *)
LEMMA RestKept ==
  ASSUME UNCHANGED Rest, Snapshots, Rows, Reserved
  PROVE  /\ Snapshots' /\ Rows' /\ Reserved'
         /\ \A k \in Streams, j \in Jobs :
              /\ Attends(k, j)' = Attends(k, j)
              /\ ~TickHas(j) => RowHolds(k, j)
<1>1. UNCHANGED <<job, intent, task, lost, queue>>
  BY DEF Rest
<1>2. Snapshots'
  BY <1>1 DEF Snapshots, Attends
<1>3. Rows'
  BY <1>1 DEF Rows, RowOf, Under, Held, AsRead, Attends, InTask
<1>4. Reserved'
  BY <1>1 DEF Reserved, ReservedBy, Live, Under, Held, Attends
<1>5. ASSUME NEW k, NEW j
      PROVE  Attends(k, j)' = Attends(k, j) /\ TickHas(j)' = TickHas(j) /\ Under(j)' = Under(j)
  BY <1>1 DEF Attends, TickHas, Under, Held
<1>6. QED BY <1>1, <1>2, <1>3, <1>4, <1>5 DEF RowHolds

(* Streams that are not replaced stay where they are.                      *)
LEMMA SteadyLinks ==
  ASSUME Linked, AllSteady, UNCHANGED <<fleet, session>>,
         \A k \in Streams : task'[k] = task[k] \/ k \in Served,
         \A a \in Agents : lease'[a] = lease[a] \/ lease'[a] = TRUE,
         \A a \in Agents : \A v \in work'[a] :
           (v.stream = session[a] /\ session[a] # 0) \/ \E u \in work[a] : u.stream = v.stream
  PROVE  Linked' /\ Served' = Served
<1>1. Served' = Served
  BY DEF Served, AllSteady, Steady
<1>2. \A a \in Agents : fleet[a] # 0 => fleet[a] \in DOMAIN conn /\ conn[fleet[a]].agent = a
  BY DEF Linked, Served
<1>3. \A a \in Agents : fleet'[a] # 0 =>
        fleet'[a] \in Served' /\ conn'[fleet'[a]].agent = a /\ lease'[a]
  BY <1>1, <1>2 DEF Linked, AllSteady, Steady
<1>4. \A a \in Agents : session'[a] # 0 =>
        session'[a] \in DOMAIN conn' /\ conn'[session'[a]].open /\ conn'[session'[a]].agent = a
  BY DEF Linked, AllSteady, Steady
<1>5. \A k \in DOMAIN conn' :
        /\ conn'[k].open => conn'[k].served
        /\ conn'[k].served => fleet'[conn'[k].agent] = k
  BY DEF Linked, AllSteady, Steady
<1>6. \A k \in Streams : task'[k] # Idle => k \in Served'
  BY <1>1 DEF Linked
<1>7. \A a \in Agents : \A w \in work'[a] : w.stream \in DOMAIN conn' /\ conn'[w.stream].agent = a
  BY DEF Linked, AllSteady, Steady
<1>8. QED BY <1>1, <1>3, <1>4, <1>5, <1>6, <1>7 DEF Linked

LEMMA RoadKept ==
  ASSUME TypesAndSafe, Linked, OnRoad, AllSteady, UNCHANGED fleet, task'[0] = task[0],
         \A j \in Jobs : job'[j].agent = job[j].agent /\ job'[j].epoch = job[j].epoch
  PROVE  OnRoad'
<1>1. \A a \in Agents : fleet[a] # 0 => fleet[a] \in DOMAIN conn
  BY DEF Linked, Served
<1>2. task[0].pc \in Placing => task[0].agent \in Agents /\ task[0].job \in Jobs
  BY PlacingTypes DEF TypesAndSafe, Types
<1>3. QED BY <1>1, <1>2 DEF OnRoad, AllSteady, Steady

(* Encodes come from assignments alone.                                    *)
LEMMA EncodesFew ==
  ASSUME TypesAndSafe, AllSteady, NEW k \in DOMAIN conn, NEW j,
         \A v \in work'[conn[k].agent] :
           v.pc = "encoding" /\ v.job = j /\ v.stream = k => v \in work[conn[k].agent]
  PROVE  Encodes(k, j)' \subseteq Encodes(k, j)
<1>1. Steady(k)
  BY DEF AllSteady
<1>2. QED BY <1>1, Zenon DEF Encodes, Steady

(* All words stay, or are fewer.                                           *)
LEMMA AgentWordThins ==
  ASSUME DispatchAssumption, TypesAndSafe, Words, Snapshots, Rows, Reserved, UNCHANGED Rest,
         AllSteady, NEW k \in Served, NEW j \in Jobs, Milder(k, j),
         \A v \in work'[conn[k].agent] :
           v.pc = "encoding" /\ v.job = j /\ v.stream = k => v \in work[conn[k].agent]
  PROVE  Word(k, j)'
<1>1. k \in DOMAIN conn /\ k \in Streams
  BY StreamNumbers DEF Served
<1>2. Word(k, j) /\ SameOwner(k)
  BY <1>1 DEF Words, AllSteady, Steady, SameOwner
<1>3. Encodes(k, j)' \subseteq Encodes(k, j)
  BY <1>1, EncodesFew
<1>4. Due(k, j) => RowHolds(k, j)
  BY <1>1, <1>2, RestKept DEF Word
<1>5. QED BY <1>1, <1>2, <1>3, <1>4, RestKept, WordThins

(* An agent begins to encode.                                              *)
LEMMA AssignmentOrder ==
  ASSUME DispatchAssumption, TypesAndSafe, TypesAndSafe', Orderly, NEW a \in Agents,
         session[a] # 0, NEW i \in DOMAIN conn[session[a]].down, OnAssignment(a, i)
  PROVE  Orderly'
<1> USE DEF Orderly
<1>0. PICK k : k = session[a]
  OBVIOUS
<1> DEFINE m == Arrived(a, i)
           item == [job |-> m.job, attempt |-> m.attempt, stream |-> k, pc |-> "encoding"]
<1>1. k \in DOMAIN conn /\ conn[k].open /\ conn[k].agent = a /\ k \in Served /\ k \in Streams
  BY <1>0, StreamNumbers DEF Linked, Served
<1>2. /\ UNCHANGED Rest /\ UNCHANGED <<job, task, fleet, session, lease>>
      /\ Take(a, i) /\ m.kind = "assign"
      /\ work' = [work EXCEPT ![a] = @ \cup {item}]
  BY <1>0 DEF OnAssignment, storeVars, serverVars, tables, Rest
<1>3. conn \in Seq(Conns) /\ work \in [Agents -> SUBSET Items]
  BY DEF TypesAndSafe, Types, ConnTypes, AgentTypes
<1>4. ASSUME NEW j
      PROVE  /\ AllSteady /\ AllMilder(j)
             /\ conn'[k].up = conn[k].up
             /\ IsWord(m, j) => /\ Says(conn[k].down, j)
                                /\ SaysOnce(conn[k].down, j) => ~Says(conn'[k].down, j)
  BY <1>0, <1>1, <1>2, <1>3, TakesWord
<1>5. item.job = m.job /\ item.stream = k
  OBVIOUS
<1>6. \A b \in Agents : work'[b] = IF b = a THEN work[a] \cup {item} ELSE work[b]
  BY <1>2, <1>3
<1> HIDE DEF item, m
<1>7. Linked' /\ OnRoad' /\ Served' = Served
  BY <1>0, <1>2, <1>4, <1>5, <1>6, SteadyLinks, RoadKept DEF Rest
<1>8. ASSUME NEW l \in Served, NEW j \in Jobs
      PROVE  Word(l, j)'
  <2>0. l \in DOMAIN conn /\ conn[l].agent \in Agents
    BY ConnElement, <1>3 DEF Served, Conns
  <2>1. CASE l = k /\ m.job = j
    <3>1. Word(k, j) /\ IsWord(m, j) /\ SameOwner(k)
      BY <1>1, <1>2, <1>4, <2>1 DEF Words, IsWord, AllSteady, Steady, SameOwner
    <3>2. /\ Says(conn[k].down, j) /\ Due(k, j) /\ Encodes(k, j) = {}
          /\ ~Says(conn'[k].down, j) /\ ~Says(conn'[k].up, j) /\ ~Attends(k, j)
      BY <1>4, <3>1 DEF Word, OneWord, Due
    <3>3. Attends(k, j)' = Attends(k, j) /\ RowHolds(k, j)
      BY <1>1, <1>2, <3>1, <3>2, RestKept DEF Word
    <3>4. Encodes(k, j)' \subseteq {item}
      BY <1>1, <1>4, <1>6, <3>2 DEF Encodes, AllSteady, Steady
    <3>5. OneWord(k, j)'
      BY <3>2, <3>3, <3>4 DEF OneWord, Single, Says, SaysOnce
    <3>6. Under(j)
      BY <3>1, <3>2 DEF Word
    <3>7. QED BY <2>1, <3>1, <3>2, <3>3, <3>5, <3>6, WordMoves
  <2>2. CASE ~(l = k /\ m.job = j)
    <3>1. \A v \in work'[conn[l].agent] :
            v.pc = "encoding" /\ v.job = j /\ v.stream = l => v \in work[conn[l].agent]
      BY <1>5, <1>6, <2>0, <2>2
    <3>2. QED BY <1>2, <1>4, <2>0, <3>1, AgentWordThins DEF AllMilder
  <2>3. QED BY <2>1, <2>2
<1>9. Words'
  BY <1>7, <1>8 DEF Words
<1>10. QED BY <1>2, <1>7, <1>9, RestKept

(* An agent's step that begins no encode, and sends no word.               *)
LEMMA AgentQuietOrder ==
  ASSUME DispatchAssumption, TypesAndSafe, TypesAndSafe', Orderly,
         UNCHANGED Rest, UNCHANGED <<fleet, session>>, AllSteady, \A j \in Jobs : AllMilder(j),
         \A a \in Agents : lease'[a] = lease[a] \/ lease'[a] = TRUE,
         \A a \in Agents : \A v \in work'[a] :
           /\ v.pc = "encoding" => v \in work[a]
           /\ \E u \in work[a] : u.stream = v.stream
  PROVE  Orderly'
<1> USE DEF Orderly
<1>1. Linked' /\ OnRoad' /\ Served' = Served
  BY SteadyLinks, RoadKept DEF Rest
<1>2. ASSUME NEW k \in Served, NEW j \in Jobs
      PROVE  Word(k, j)'
  <2>1. k \in DOMAIN conn /\ conn[k].agent \in Agents
    BY StreamNumbers DEF Served
  <2>2. Milder(k, j)
    BY <2>1 DEF AllMilder
  <2>3. QED BY <2>1, <2>2, AgentWordThins
<1>3. Words'
  BY <1>1, <1>2 DEF Words
<1>4. QED BY <1>1, <1>3, RestKept

(* What is told or granted to an agent is no word.                         *)
LEMMA ListenOrder ==
  ASSUME DispatchAssumption, TypesAndSafe, TypesAndSafe', Orderly, NEW a \in Agents, Listen(a)
  PROVE  Orderly'
<1>1. PICK i \in DOMAIN conn[session[a]].down :
             session[a] # 0 /\ (OnAssignment(a, i) \/ OnRevoke(a, i) \/ OnGrant(a, i))
  BY DEF Listen
<1>2. CASE OnAssignment(a, i)
  BY <1>1, <1>2, AssignmentOrder
<1>3. CASE OnRevoke(a, i) \/ OnGrant(a, i)
  <2>1. /\ Take(a, i) /\ UNCHANGED <<fleet, session, lease>> /\ UNCHANGED Rest
    BY <1>3 DEF OnRevoke, OnGrant, storeVars, serverVars, tables, Rest
  <2>2. session[a] \in DOMAIN conn /\ conn \in Seq(Conns) /\ work \in [Agents -> SUBSET Items]
    BY <1>1 DEF Orderly, Linked, TypesAndSafe, Types, ConnTypes, AgentTypes
  <2>3. AllSteady /\ \A j \in Jobs : AllMilder(j)
    <3>1. \A j : AllSteady /\ AllMilder(j)
      BY <2>1, <2>2, TakesWord
    <3>2. QED BY <3>1
  <2>4. ASSUME NEW b \in Agents, NEW v \in work'[b]
        PROVE  /\ v.pc = "encoding" => v \in work[b]
               /\ \E u \in work[b] : u.stream = v.stream
    <3>1. CASE v \in work[b]
      BY <3>1
    <3>2. CASE OnGrant(a, i) /\ \E u \in work[b] : v = [u EXCEPT !.pc = "installing"]
      <4>1. PICK u \in work[b] : v = [u EXCEPT !.pc = "installing"]
        BY <3>2
      <4>2. u \in Items
        BY <2>2
      <4>3. QED BY <4>1, <4>2 DEF Items
    <3>3. QED BY <1>3, <2>2, <3>1, <3>2 DEF OnRevoke, OnGrant, Asking
  <2>5. QED BY <2>1, <2>3, <2>4, AgentQuietOrder
<1>4. QED BY <1>1, <1>2, <1>3

(* Nor is a revocation.                                                    *)
LEMMA HeartbeatOrder ==
  ASSUME DispatchAssumption, TypesAndSafe, TypesAndSafe', Orderly, NEW a \in Agents, OnHeartbeat(a)
  PROVE  Orderly'
<1> DEFINE k == fleet[a]
<1>1. UNCHANGED <<fleet, session, work>> /\ UNCHANGED Rest
      /\ lease' = [lease EXCEPT ![a] = TRUE]
  BY DEF OnHeartbeat, serverVars, agentVars, tables, Rest
<1>2. conn \in Seq(Conns) /\ lease \in [Agents -> BOOLEAN] /\ AgentTypes
  BY DEF TypesAndSafe, Types, ConnTypes, TableTypes
<1>3. PICK ms \in Seq(DownMessages) :
             /\ \A i \in DOMAIN ms : ms[i].kind = "revoke"
             /\ conn' \in {conn, [conn EXCEPT ![k].down = conn[k].down \o ms]}
  BY <1>2, Revocations
<1>4. ASSUME NEW j
      PROVE  AllSteady /\ AllMilder(j)
  <2>1. CASE conn' = conn
    BY <2>1, SameMilder
  <2>2. CASE conn' = [conn EXCEPT ![k].down = conn[k].down \o ms]
    <3>1. ~Says(ms, j)
      BY <1>3 DEF Says, IsWord
    <3>2. k \in DOMAIN conn => Sparser(conn[k].down \o ms, conn[k].down, j)
      BY <1>2, <3>1, ConnElement, SparserConcat
    <3> DEFINE ds == conn[k].down \o ms
    <3> HIDE DEF ds
    <3>3. conn' = [conn EXCEPT ![k].down = ds]
      BY <2>2 DEF ds
    <3> HIDE DEF k
    <3>4. AllSteady /\ \A i \in DOMAIN conn :
             /\ conn'[i].up = conn[i].up
             /\ conn'[i].down = IF i = k THEN ds ELSE conn[i].down
      BY <1>2, <3>3, DownEdited
    <3>5. QED BY <3>2, <3>4, SparserSame DEF AllMilder, Milder, ds
  <2>3. QED BY <1>3, <2>1, <2>2
<1>5. \A b \in Agents : lease'[b] = lease[b] \/ lease'[b] = TRUE
  BY <1>1, <1>2
<1>6. \A b \in Agents : \A v \in work'[b] : v \in work[b]
  BY <1>1
<1>7. AllSteady /\ \A j \in Jobs : AllMilder(j)
  BY <1>4
<1>8. QED BY <1>1, <1>5, <1>6, <1>7, AgentQuietOrder

(* The end of an encode is told once, if it can be.                        *)
LEMMA EncodedOrder ==
  ASSUME DispatchAssumption, TypesAndSafe, TypesAndSafe', Orderly, NEW a \in Agents,
         NEW w \in work[a], w.pc = "encoding", NEW ms \in Seq(UpMessages), Report(w.stream, ms),
         SaysOnce(ms, w.job), \A j \in Jobs : j # w.job => ~Says(ms, j),
         UNCHANGED Rest, UNCHANGED <<fleet, session, lease>>,
         \A b \in Agents : \A v \in work'[b] :
           /\ v.pc = "encoding" => v \in work[b] /\ (b = a => v # w)
           /\ \E u \in work[b] : u.stream = v.stream
  PROVE  Orderly'
<1> USE DEF Orderly
<1>0. PICK k, i : k = w.stream /\ i = w.job
  OBVIOUS
<1>1. k \in DOMAIN conn /\ conn[k].agent = a /\ k \in Streams /\ i \in Jobs
  BY <1>0, StreamNumbers DEF Linked, TypesAndSafe, Types, AgentTypes, Items
<1>2. conn \in Seq(Conns)
  BY DEF TypesAndSafe, Types, ConnTypes
<1>3. ASSUME NEW j
      PROVE  /\ AllSteady /\ (~Says(ms, j) => AllMilder(j))
             /\ \A l \in DOMAIN conn :
                  /\ conn'[l].down = conn[l].down
                  /\ l # k \/ ~conn[k].open => conn'[l].up = conn[l].up
                  /\ ~Says(conn[l].up, j) /\ SaysOnce(ms, j) => SaysOnce(conn'[l].up, j)
  BY <1>0, <1>2, ReportsWord
<1>4. Linked' /\ OnRoad' /\ Served' = Served
  BY <1>3, SteadyLinks, RoadKept DEF Rest
<1>5. ASSUME NEW l \in Served, NEW j \in Jobs
      PROVE  Word(l, j)'
  <2>0. l \in DOMAIN conn /\ conn[l].agent \in Agents
    BY StreamNumbers DEF Served
  <2>1. CASE l = k /\ j = i /\ conn[k].open
    <3>1. Word(k, i) /\ SameOwner(k) /\ conn[k].served
      BY <1>1, <1>3, <2>1 DEF Words, AllSteady, Steady, SameOwner, Served
    <3>2. w \in Encodes(k, i)
      BY <1>0, <1>1, <2>1 DEF Encodes
    <3>3. /\ Due(k, i) /\ ~Says(conn[k].down, i) /\ ~Says(conn[k].up, i) /\ ~Attends(k, i)
          /\ Single(Encodes(k, i))
      BY <3>1, <3>2 DEF Word, OneWord, Due
    <3>4. Attends(k, i)' = Attends(k, i) /\ RowHolds(k, i)
      BY <1>1, <3>1, <3>3, RestKept DEF Word
    <3>5. Encodes(k, i)' = {}
      <4>1. Encodes(k, i)' \subseteq Encodes(k, i)
        BY <1>1, <1>3, EncodesFew
      <4>2. w \notin Encodes(k, i)'
        BY <1>1, <1>3 DEF Encodes, AllSteady, Steady
      <4>3. QED BY <3>2, <3>3, <4>1, <4>2 DEF Single
    <3>6. SaysOnce(conn'[k].up, i) /\ ~Says(conn'[k].down, i)
      BY <1>0, <1>1, <1>3, <3>3
    <3>7. OneWord(k, i)'
      BY <3>3, <3>4, <3>5, <3>6 DEF OneWord, Single, Says, SaysOnce
    <3>8. Under(i)
      BY <3>1, <3>3 DEF Word
    <3>9. QED BY <2>1, <3>1, <3>3, <3>4, <3>7, <3>8, WordMoves
  <2>2. CASE ~(l = k /\ j = i /\ conn[k].open)
    <3>1. Milder(l, j)
      <4>1. CASE j # i
        BY <1>0, <1>3, <2>0, <4>1 DEF AllMilder
      <4>2. CASE l # k \/ ~conn[k].open
        BY <1>3, <2>0, <4>2, SparserSame DEF Milder
      <4>3. QED BY <2>2, <4>1, <4>2
    <3>2. QED BY <1>3, <2>0, <3>1, AgentWordThins
  <2>3. QED BY <2>1, <2>2
<1>6. Words'
  BY <1>4, <1>5 DEF Words
<1>7. QED BY <1>4, <1>6, RestKept

(* One result says one word.                                               *)
LEMMA ResultWords ==
  ASSUME NEW x \in UpMessages, NEW y \in UpMessages, x.kind = "result", y.kind = "request"
  PROVE  /\ <<x>> \in Seq(UpMessages) /\ <<x, y>> \in Seq(UpMessages)
         /\ \A j : SaysOnce(<<x>>, j) /\ SaysOnce(<<x, y>>, j)
         /\ \A j : j # x.job => ~Says(<<x>>, j) /\ ~Says(<<x, y>>, j)
  BY DEF SaysOnce, Says, IsWord

(* An agent's own steps.                                                   *)
LEMMA ExecuteOrder ==
  ASSUME DispatchAssumption, TypesAndSafe, TypesAndSafe', Orderly, NEW a \in Agents,
         Execute(a) \/ \E w \in work[a] : GrantTimeout(a, w)
  PROVE  Orderly'
<1>1. PICK w \in work[a] :
             \/ Rejected(a, w) \/ LetGo(a, w) \/ Accepted(a, w) \/ GrantTimeout(a, w)
             \/ \E label \in Labels : Install(a, w, label)
  BY DEF Execute
<1>2. work \in [Agents -> SUBSET Items] /\ w \in Items /\ conn \in Seq(Conns)
  BY DEF TypesAndSafe, Types, AgentTypes, ConnTypes
<1>3. UNCHANGED Rest /\ UNCHANGED <<fleet, session, lease>>
  BY <1>1 DEF Rejected, LetGo, Accepted, GrantTimeout, Install, storeVars, serverVars, tables, Rest
<1> DEFINE Replaced(over, x) ==
             work' \in {[work EXCEPT ![a] = @ \ over], [work EXCEPT ![a] = (@ \ over) \cup {x}]}
<1>4. ASSUME NEW x, x.pc # "encoding", x.stream = w.stream, NEW over, Replaced(over, x)
      PROVE  \A b \in Agents : \A v \in work'[b] :
               /\ v.pc = "encoding" => v \in work[b] /\ (b = a => v \notin over)
               /\ \E u \in work[b] : u.stream = v.stream
  <2>1. ASSUME NEW b \in Agents, NEW v \in work'[b]
        PROVE  (v \in work[b] /\ (b = a => v \notin over)) \/ (b = a /\ v = x)
    BY <1>2, <1>4
  <2>2. ASSUME NEW b \in Agents, NEW v \in work'[b], b = a, v = x
        PROVE  v.pc # "encoding" /\ \E u \in work[b] : u.stream = v.stream
    BY <1>4, <2>2
  <2>3. ASSUME NEW b \in Agents, NEW v \in work'[b]
        PROVE  /\ v.pc = "encoding" => v \in work[b] /\ (b = a => v \notin over)
               /\ \E u \in work[b] : u.stream = v.stream
    <3>1. CASE v \in work[b] /\ (b = a => v \notin over)
      BY <3>1
    <3>2. CASE b = a /\ v = x
      BY <2>2, <3>2
    <3>3. QED BY <2>1, <3>1, <3>2
  <2>4. QED BY <2>3
<1>5. CASE LetGo(a, w) \/ GrantTimeout(a, w) \/ \E label \in Labels : Install(a, w, label)
  <2>1. work' = [work EXCEPT ![a] = @ \ {w}]
    BY <1>5 DEF LetGo, GrantTimeout, Install, Finished
  <2>2. \A b \in Agents : \A v \in work'[b] : v \in work[b]
    BY <1>2, <2>1
  <2>3. AllSteady /\ \A j \in Jobs : AllMilder(j)
    <3>1. CASE UNCHANGED conn
      BY <3>1, SameMilder
    <3>2. ASSUME NEW label \in Labels, Install(a, w, label)
          PROVE  AllSteady /\ \A j \in Jobs : AllMilder(j)
      <4> DEFINE m == [kind |-> "report", job |-> w.job, label |-> label]
      <4>1. m \in UpMessages /\ m.kind = "report" /\ Report(w.stream, <<m>>)
        BY <1>2, <3>2 DEF UpMessages, Labels, Install, Items
      <4> HIDE DEF m
      <4>2. <<m>> \in Seq(UpMessages) /\ \A j : ~Says(<<m>>, j)
        BY <4>1 DEF Says, IsWord
      <4>3. \A j : AllSteady /\ AllMilder(j)
        BY <1>2, <4>1, <4>2, ReportsWord
      <4>4. QED BY <4>3
    <3>3. QED BY <1>5, <3>1, <3>2 DEF LetGo, GrantTimeout
  <2>4. QED BY <1>3, <2>2, <2>3, AgentQuietOrder
<1>6. CASE Rejected(a, w) \/ Accepted(a, w)
  <2> DEFINE accepted == [kind |-> "result", job |-> w.job, ok |-> TRUE]
             rejected == [kind |-> "result", job |-> w.job, ok |-> FALSE]
             request == [kind |-> "request", job |-> w.job]
  <2>1. /\ accepted \in UpMessages /\ rejected \in UpMessages /\ request \in UpMessages
        /\ accepted.kind = "result" /\ rejected.kind = "result" /\ request.kind = "request"
        /\ accepted.job = w.job /\ rejected.job = w.job
    BY <1>2 DEF UpMessages, Items
  <2>2. \/ Report(w.stream, <<rejected>>) \/ Report(w.stream, <<accepted>>)
        \/ Report(w.stream, <<accepted, request>>)
    BY <1>6 DEF Rejected, Accepted
  <2> HIDE DEF accepted, rejected, request
  <2>3. PICK ms \in Seq(UpMessages) :
               /\ Report(w.stream, ms) /\ SaysOnce(ms, w.job)
               /\ \A j \in Jobs : j # w.job => ~Says(ms, j)
    BY <2>1, <2>2, ResultWords
  <2>4. w.pc = "encoding"
    BY <1>6 DEF Rejected, Accepted
  <2>5. \A b \in Agents : \A v \in work'[b] :
          /\ v.pc = "encoding" => v \in work[b] /\ (b = a => v # w)
          /\ \E u \in work[b] : u.stream = v.stream
    <3>1. CASE Rejected(a, w)
      <4> DEFINE x == [w EXCEPT !.pc = "ending"]
                 over == {w}
      <4>1. Replaced(over, x)
        BY <3>1 DEF Rejected, Finished
      <4>2. x.pc # "encoding" /\ x.stream = w.stream /\ w \in over
        BY <1>2 DEF Items
      <4> HIDE DEF x, over, Replaced
      <4>3. QED BY <4>1, <4>2, <1>4
    <3>2. CASE Accepted(a, w)
      <4> DEFINE x == [w EXCEPT !.pc = "asking"]
      <4>1. \E over : w \in over /\ Replaced(over, x)
        <5> DEFINE rest == {w} \cup (Asking(a, w.job) \cup (IF conn[w.stream].open THEN {} ELSE {w}))
        <5>1. CASE w.job \in revoked[a]
          <6> DEFINE over == {w}
          <6>1. work' = [work EXCEPT ![a] = @ \ over] /\ w \in over
            BY <3>2, <5>1 DEF Accepted, Finished
          <6> HIDE DEF over
          <6>2. QED BY <6>1
        <5>2. CASE w.job \notin revoked[a] /\ conn[w.stream].open
          <6>1. work' = [work EXCEPT ![a] = (@ \ rest) \cup {x}] /\ w \in rest
            BY <3>2, <5>2 DEF Accepted
          <6> HIDE DEF rest, x
          <6>2. QED BY <6>1
        <5>3. CASE w.job \notin revoked[a] /\ ~conn[w.stream].open
          <6>1. work' = [work EXCEPT ![a] = (@ \ rest) \cup {}]
            BY <3>2, <5>3 DEF Accepted
          <6> HIDE DEF rest
          <6>2. work' = [work EXCEPT ![a] = @ \ rest] /\ w \in rest
            BY <6>1 DEF rest
          <6>3. QED BY <6>2
        <5>4. QED BY <5>1, <5>2, <5>3
      <4>2. x.pc # "encoding" /\ x.stream = w.stream
        BY <1>2 DEF Items
      <4> HIDE DEF x, Replaced
      <4>3. QED BY <4>1, <4>2, <1>4
    <3>3. QED BY <1>6, <3>1, <3>2
  <2>6. QED BY <1>3, <2>3, <2>4, <2>5, EncodedOrder
<1>7. QED BY <1>1, <1>5, <1>6

(* An agent that is back comes by a new stream, and finds none served and  *)
(* no job being placed with it.                                            *)
LEMMA JoinOrder ==
  ASSUME DispatchAssumption, Calm, TypesAndSafe, TypesAndSafe', Orderly, NEW a \in Agents, Join(a)
  PROVE  Orderly'
<1> USE DEF Orderly
<1>0. PICK n : n = Len(conn) + 1
  OBVIOUS
<1> DEFINE c == [agent |-> a, epoch |-> Epoch(a), up |-> <<>>, down |-> <<>>,
                 open |-> TRUE, served |-> TRUE]
<1>1. c \in Conns /\ conn \in Seq(Conns)
  BY EmptySeq DEF Conns, Epoch, TypesAndSafe, Types, TableTypes, ConnTypes
<1>2. /\ conn' = Append(conn, c) /\ n \in Streams
      /\ fleet' = [fleet EXCEPT ![a] = n] /\ session' = [session EXCEPT ![a] = n]
      /\ lease' = [lease EXCEPT ![a] = TRUE]
      /\ UNCHANGED work /\ UNCHANGED Rest
  BY <1>0 DEF Join, tables, Rest
<1>3. ~Connected(a) /\ ~At("grant") /\ ~At("eligible") /\ ~At("assign") /\ ~At("send")
  <2>1. "blip" \notin Trouble
    BY DEF Calm
  <2>2. ~Unnoticed(a)
    BY <2>1 DEF Join
  <2>3. QED BY <2>2 DEF Unnoticed
<1>4. /\ c.up = <<>> /\ c.down = <<>> /\ c.agent = a /\ c.open /\ c.served
  OBVIOUS
<1> HIDE DEF c
<1>5. /\ DOMAIN conn = 1 .. n - 1 /\ DOMAIN conn' = 1 .. n /\ n \in Nat \ {0}
      /\ \A k \in DOMAIN conn : conn'[k] = conn[k]
      /\ conn'[n] = c
  BY <1>0, <1>1, <1>2, AppendProperties, LenProperties
<1>6. /\ n \notin DOMAIN conn /\ n \in DOMAIN conn' /\ n # 0 /\ DOMAIN conn \subseteq DOMAIN conn'
      /\ DOMAIN conn' = DOMAIN conn \cup {n}
  BY <1>5
<1>7. /\ fleet \in [Agents -> {0} \cup Streams] /\ session \in [Agents -> {0} \cup Streams]
      /\ lease \in [Agents -> BOOLEAN] /\ work \in [Agents -> SUBSET Items]
  BY DEF TypesAndSafe, Types, TableTypes, AgentTypes
<1>8. \A k \in DOMAIN conn : conn[k].served => conn[k].agent # a
  BY <1>3, <1>5 DEF Linked, Connected
<1>9. Served' = Served \cup {n}
  BY <1>4, <1>5, <1>6 DEF Served
<1>10. Linked'
  <2>1. \A b \in Agents : fleet'[b] # 0 =>
          fleet'[b] \in Served' /\ conn'[fleet'[b]].agent = b /\ lease'[b]
    <3>1. fleet'[a] = n /\ lease'[a]
      BY <1>2, <1>7
    <3>2. \A b \in Agents : b # a => fleet'[b] = fleet[b] /\ lease'[b] = lease[b]
      BY <1>2, <1>7
    <3>3. ASSUME NEW b \in Agents, b # a, fleet[b] # 0
          PROVE  /\ fleet[b] \in Served /\ conn'[fleet[b]] = conn[fleet[b]]
                 /\ conn[fleet[b]].agent = b /\ lease[b]
      BY <1>5, <3>3 DEF Linked, Served
    <3>4. QED BY <1>4, <1>5, <1>9, <3>1, <3>2, <3>3
  <2>2. \A b \in Agents : session'[b] # 0 =>
          session'[b] \in DOMAIN conn' /\ conn'[session'[b]].open /\ conn'[session'[b]].agent = b
    <3>1. session'[a] = n /\ \A b \in Agents : b # a => session'[b] = session[b]
      BY <1>2, <1>7
    <3>2. ASSUME NEW b \in Agents, b # a, session[b] # 0
          PROVE  /\ session[b] \in DOMAIN conn' /\ conn'[session[b]] = conn[session[b]]
                 /\ conn[session[b]].open /\ conn[session[b]].agent = b
      BY <1>5, <1>6, <3>2 DEF Linked
    <3>3. QED BY <1>4, <1>5, <1>6, <3>1, <3>2
  <2>3. ASSUME NEW k \in DOMAIN conn'
        PROVE  /\ conn'[k].open => conn'[k].served
               /\ conn'[k].served => fleet'[conn'[k].agent] = k
    <3>1. CASE k = n
      BY <1>2, <1>4, <1>5, <1>7, <3>1
    <3>2. CASE k \in DOMAIN conn
      <4>1. conn'[k] = conn[k] /\ conn[k].agent \in Agents
        BY <1>5, <3>2, StreamNumbers
      <4>2. conn[k].open => conn[k].served
        BY <3>2 DEF Linked
      <4>3. conn[k].served => fleet[conn[k].agent] = k /\ conn[k].agent # a
        BY <1>8, <3>2 DEF Linked
      <4>4. QED BY <1>2, <1>7, <4>1, <4>2, <4>3
    <3>3. QED BY <1>6, <3>1, <3>2
  <2>4. \A k \in Streams : task'[k] # Idle => k \in Served'
    BY <1>2, <1>9 DEF Linked, Rest
  <2>5. \A b \in Agents : \A w \in work'[b] : w.stream \in DOMAIN conn' /\ conn'[w.stream].agent = b
    BY <1>2, <1>5, <1>6 DEF Linked
  <2>6. QED BY <2>1, <2>2, <2>3, <2>4, <2>5 DEF Linked
<1>11. OnRoad'
  <2>1. task'[0].pc \notin Placing
    BY <1>2, <1>3 DEF At, Placing, Rest
  <2>2. QED BY <2>1 DEF OnRoad
<1>12. ASSUME NEW k \in Served', NEW j \in Jobs
       PROVE  Word(k, j)'
  <2>1. CASE k = n
    <3>1. ~Says(conn'[k].up, j) /\ ~Says(conn'[k].down, j)
      BY <1>4, <1>5, <2>1 DEF Says
    <3>2. Encodes(k, j)' = {}
      BY <1>2, <1>4, <1>5, <1>6, <2>1 DEF Encodes, Linked
    <3>3. task'[k] = Idle
      BY <1>2, <1>6, <2>1 DEF Linked, Rest, Served
    <3>4. ~Attends(k, j)'
      BY <3>3 DEF Attends, Idle, Attending, Settling, Placing
    <3>5. QED BY <3>1, <3>2, <3>4 DEF Word, OneWord, Due, Single, Says, SaysOnce
  <2>2. CASE k \in Served
    <3>1. k \in DOMAIN conn /\ conn'[k] = conn[k] /\ k \in Streams
      BY <1>5, <2>2, StreamNumbers DEF Served
    <3>2. Milder(k, j) /\ SameOwner(k)
      BY <3>1, SparserSame DEF Milder, SameOwner
    <3>3. Encodes(k, j)' \subseteq Encodes(k, j)
      BY <1>2, <3>1, Zenon DEF Encodes
    <3>4. Due(k, j) => RowHolds(k, j)
      BY <1>2, <2>2, <3>1, RestKept DEF Words, Word
    <3>5. Attends(k, j)' => Attends(k, j)
      BY <1>2, <3>1, RestKept
    <3>6. QED BY <2>2, <3>2, <3>3, <3>4, <3>5, WordThins DEF Words
  <2>3. QED BY <1>9, <2>1, <2>2
<1>13. Words'
  BY <1>12 DEF Words
<1>14. QED BY <1>2, <1>10, <1>11, <1>13, RestKept

-----------------------------------------------------------------------------
(* A step of the server is about one job; the others stay as they are, or  *)
(* go on, held or over.                                                    *)

Eases(j) ==
  /\ job'[j].agent = job[j].agent /\ job'[j].epoch = job[j].epoch
  /\ job'[j].attempt = job[j].attempt
  /\ \/ job'[j].state = job[j].state
     \/ IsTerminal(job'[j].state)
     \/ HoldsCapacity(job[j].state) /\ HoldsCapacity(job'[j].state)

Untouched(j) ==
  /\ Eases(j)
  /\ \A n \in Attempts : Live(j, n)' => Live(j, n)
  /\ \A t \in Threads : /\ Attends(t, j)' = Attends(t, j)
                        /\ Attends(t, j) => task'[t] = task[t]
  /\ \A x \in lost' : x.job = j => x \in lost
  /\ \A q \in queue' : q.job = j => q \in queue

LEMMA EasesUnder ==
  ASSUME NEW j, Eases(j)
  PROVE  /\ Under(j) => Under(j)'
         /\ \A s, n : ~HoldsCapacity(s) /\ AsRead(j, s, n) => AsRead(j, s, n)'
         /\ Under(j) \/ job[j].state = "Retrying" => Under(j)' \/ job'[j].state = "Retrying"
  BY DEF Eases, Under, Held, AsRead, IsTerminal, HoldsCapacity, Terminal

LEMMA UntouchedRow ==
  ASSUME DispatchAssumption, TypesAndSafe, NEW j, Untouched(j), RowOf(j), ReservedBy(j)
  PROVE  RowOf(j)' /\ ReservedBy(j)'
<1>1. /\ Under(j) => Under(j)'
      /\ \A s, n : ~HoldsCapacity(s) /\ AsRead(j, s, n) => AsRead(j, s, n)'
      /\ Under(j) \/ job[j].state = "Retrying" => Under(j)' \/ job'[j].state = "Retrying"
      /\ job'[j].attempt = job[j].attempt
  BY EasesUnder DEF Untouched, Eases
<1>2. ~HoldsCapacity("Pending") /\ ~HoldsCapacity("Eligible")
  BY DEF HoldsCapacity
<1>3. \A q \in queue' : q.job = j => AsRead(j, q.from, q.attempt)'
  <2>1. ASSUME NEW q \in queue', q.job = j
        PROVE  q \in queue /\ AsRead(j, q.from, q.attempt) /\ q.from \in {"Pending", "Eligible"}
    BY <2>1 DEF Untouched, RowOf, TypesAndSafe, Types, TableTypes
  <2>2. QED BY <1>1, <1>2, <2>1
<1>4. ASSUME NEW t \in Threads, Attends(t, j)'
      PROVE  InTask(j, task[t])'
  <2>1. InTask(j, task[t]) /\ task'[t] = task[t]
    BY <1>4 DEF Untouched, RowOf
  <2>2. task[t].pc = "grant" => task[t].from \in {"Pending", "Eligible"}
    <3>1. CASE t = 0
      BY <3>1, PlacingTypes DEF Placing, TypesAndSafe, Types
    <3>2. CASE t # 0
      BY <3>2 DEF TypesAndSafe, Types, TaskTypes, HandlerTasks, Idle, Threads, Streams
    <3>3. QED BY <3>1, <3>2
  <2>3. QED BY <1>1, <1>2, <2>1, <2>2 DEF InTask
<1>5. RowOf(j)'
  BY <1>1, <1>3, <1>4 DEF RowOf, Untouched
<1>6. 0 \in Threads
  BY DEF Threads, DispatchAssumption
<1>7. ReservedBy(j)'
  BY <1>1, <1>6 DEF ReservedBy, Untouched
<1>8. QED BY <1>5, <1>7

LEMMA UntouchedWord ==
  ASSUME DispatchAssumption, TypesAndSafe, NEW k \in Served, NEW j, Untouched(j), Word(k, j),
         SameOwner(k), Milder(k, j), Encodes(k, j)' \subseteq Encodes(k, j)
  PROVE  Word(k, j)'
<1>1. k \in Threads /\ 0 \in Threads
  BY StreamNumbers DEF Served, Streams, Threads, DispatchAssumption
<1>2. TickHas(j)' => TickHas(j)
  BY <1>1 DEF Untouched, TickHas
<1>3. Due(k, j) => RowHolds(k, j)
  BY <1>2, EasesUnder DEF Untouched, Eases, RowHolds, Word
<1>4. QED BY <1>1, <1>3, WordThins DEF Untouched

(* Work that nothing happens to.                                           *)
LEMMA SameEncodes ==
  ASSUME TypesAndSafe, UNCHANGED work, AllSteady, NEW k \in DOMAIN conn, NEW j
  PROVE  Encodes(k, j)' \subseteq Encodes(k, j)
<1>1. Steady(k)
  BY DEF AllSteady
<1>2. QED BY <1>1, Zenon DEF Encodes, Steady

(* A stream with a word of a job has the job to itself, and so has the     *)
(* tick what it has in hand.                                               *)
LEMMA Alone ==
  ASSUME DispatchAssumption, TypesAndSafe, Linked, Words, NEW j \in Jobs
  PROVE  /\ \A k \in Served : Due(k, j) =>
              /\ ~TickHas(j)
              /\ \A l \in Served : l # k => ~Due(l, j)
              /\ \A t \in Threads : t # k => ~Attends(t, j)
         /\ TickHas(j) =>
              /\ \A k \in Served : ~Due(k, j)
              /\ \A t \in Threads : t # 0 => ~Attends(t, j)
<1>1. \A t \in Threads : t # 0 => t \in Streams
  BY DEF Threads, Streams, DispatchAssumption
<1>2. \A t \in Threads : t # 0 /\ Attends(t, j) => t \in Served /\ Due(t, j)
  BY <1>1, AttendsIsDue DEF Attends
<1>3. \A k \in Served : Due(k, j) => ~TickHas(j)
  BY DEF Words, Word
<1>4. \A k, l \in Served : Due(k, j) /\ Due(l, j) => k = l
  BY OneDue
<1>5. QED BY <1>2, <1>3, <1>4 DEF TickHas

(* What is to be shown of the job a step is about, when only thread t has  *)
(* it in hand.                                                             *)
LEMMA RowSettled ==
  ASSUME DispatchAssumption, NEW j, NEW t \in Threads,
         \A u \in Threads : u # t => ~Attends(u, j)',
         \A x \in lost' : x.job # j, \A q \in queue' : q.job # j,
         job'[j].attempt < MaxAttempts,
         Attends(t, j)' => InTask(j, task[t])',
         \A n \in Attempts : Live(j, n)' =>
           /\ n = job'[j].attempt
           /\ Under(j)' \/ (Attends(0, j)' /\ task'[0].pc \in {"eligible", "assign"})
           /\ ~(Attends(t, j)' /\ task'[t].pc \in {"retry", "bump", "queue", "bury"})
  PROVE  RowOf(j)' /\ ReservedBy(j)'
<1>1. RowOf(j)'
  BY DEF RowOf
<1>2. ReservedBy(j)'
  BY DEF ReservedBy
<1>3. QED BY <1>1, <1>2

(* The tick's own places, when none is filled.                             *)
LEMMA FewerSnapshots ==
  ASSUME Snapshots, lost' \subseteq lost, queue' \subseteq queue,
         task'[0].pc = "idle" => task[0].pc = "idle",
         \A j \in Jobs : Attends(0, j)' => Attends(0, j)
  PROVE  Snapshots'
  BY DEF Snapshots

(* A step of thread t about job j.                                         *)
LEMMA StepOrder ==
  ASSUME DispatchAssumption, TypesAndSafe, Orderly, NEW t \in Threads, NEW j \in Jobs,
         t # 0 => t \in Served,
         \A u \in Threads : u # t => task'[u] = task[u] /\ ~Attends(u, j),
         \A i \in Jobs : i # j =>
           /\ job'[i] = job[i] /\ AllMilder(i) /\ ~Attends(t, i) /\ ~Attends(t, i)'
           /\ \A n \in Attempts : Live(i, n)' => Live(i, n),
         AllSteady, UNCHANGED <<work, fleet, session, lease>>,
         lost' \subseteq lost, queue' \subseteq queue,
         \A x \in lost' : x.job # j, \A q \in queue' : q.job # j,
         job'[j].attempt < MaxAttempts,
         Attends(t, j)' => InTask(j, task[t])',
         \A n \in Attempts : Live(j, n)' =>
           /\ n = job'[j].attempt
           /\ Under(j)' \/ (Attends(0, j)' /\ task'[0].pc \in {"eligible", "assign"})
           /\ ~(Attends(t, j)' /\ task'[t].pc \in {"retry", "bump", "queue", "bury"}),
         \A k \in Served : Word(k, j)',
         OnRoad', Snapshots'
  PROVE  Orderly'
<1> USE DEF Orderly
<1>1. Linked' /\ Served' = Served
  <2>1. \A k \in Streams : task'[k] = task[k] \/ k \in Served
    BY DEF Streams, Threads, DispatchAssumption
  <2>2. \A a \in Agents : \A v \in work'[a] : v \in work[a]
    OBVIOUS
  <2>3. \A a \in Agents : lease'[a] = lease[a]
    OBVIOUS
  <2>4. QED BY <2>1, <2>2, <2>3, SteadyLinks
<1>2. \A i \in Jobs : i # j => Untouched(i)
  BY DEF Untouched, Eases, Attends
<1>3. \A u \in Threads : u # t => ~Attends(u, j)'
  BY DEF Attends
<1>4. Rows' /\ Reserved'
  <2>1. ASSUME NEW i \in Jobs
        PROVE  RowOf(i)' /\ ReservedBy(i)'
    <3>1. CASE i = j
      BY <1>3, <3>1, RowSettled
    <3>2. CASE i # j
      BY <1>2, <3>2, UntouchedRow DEF Rows, Reserved
    <3>3. QED BY <3>1, <3>2
  <2>2. QED BY <2>1 DEF Rows, Reserved
<1>5. ASSUME NEW k \in Served, NEW i \in Jobs
      PROVE  Word(k, i)'
  <2>1. CASE i = j
    BY <2>1
  <2>2. CASE i # j
    <3>1. k \in DOMAIN conn
      BY DEF Served
    <3>2. Word(k, i) /\ SameOwner(k) /\ Milder(k, i)
      BY <2>2, <3>1 DEF Words, AllSteady, Steady, SameOwner, AllMilder
    <3>3. Encodes(k, i)' \subseteq Encodes(k, i)
      BY <3>1, SameEncodes
    <3>4. QED BY <1>2, <2>2, <3>2, <3>3, UntouchedWord
  <2>3. QED BY <2>1, <2>2
<1>6. Words'
  BY <1>1, <1>5 DEF Words
<1>7. QED BY <1>1, <1>4, <1>6

(* The words of a job that one thread has to itself.                       *)
LEMMA SoleWords ==
  ASSUME DispatchAssumption, TypesAndSafe, Words, NEW t \in Threads, NEW j \in Jobs,
         \A k \in Served : k # t => ~Due(k, j),
         \A k \in Served : k # t => task'[k] = task[k],
         AllSteady, AllMilder(j), UNCHANGED work,
         t # 0 =>
           /\ job'[j].agent = job[j].agent /\ job'[j].epoch = job[j].epoch
           /\ ~TickHas(j)' /\ Due(t, j)
           /\ ~Says(conn'[t].down, j) /\ Encodes(t, j) = {} /\ ~Says(conn'[t].up, j)
  PROVE  \A k \in Served : Word(k, j)'
<1>1. ASSUME NEW k \in Served
      PROVE  /\ k \in DOMAIN conn /\ k # 0 /\ Word(k, j) /\ SameOwner(k) /\ Milder(k, j)
             /\ Encodes(k, j)' \subseteq Encodes(k, j)
  <2>1. k \in DOMAIN conn /\ k # 0
    BY StreamNumbers DEF Served, Streams
  <2>2. Word(k, j) /\ SameOwner(k) /\ Milder(k, j)
    BY <2>1 DEF Words, AllSteady, Steady, SameOwner, AllMilder
  <2>3. QED BY <2>1, <2>2, SameEncodes
<1>2. ASSUME NEW k \in Served, k # t
      PROVE  Word(k, j)'
  BY <1>1, <1>2, WordThins DEF Attends
<1>3. ASSUME NEW k \in Served, k = t
      PROVE  Word(k, j)'
  <2>1. Encodes(k, j)' = {}
    BY <1>1, <1>3
  <2>2. OneWord(k, j)'
    BY <1>1, <1>3, <2>1 DEF OneWord, Single, Says, SaysOnce
  <2>3. Due(k, j)' => Attends(k, j)'
    BY <1>1, <1>3, <2>1 DEF Due
  <2>4. QED BY <1>1, <1>3, <2>2, <2>3 DEF Word, GivenTo, SameOwner
<1>4. QED BY <1>2, <1>3

(* A thread goes on with its job, or is done with it.                      *)
Onward(t, pc) ==
  /\ task'[t].pc = pc /\ task'[t].job = task[t].job /\ task'[t].attempt = task[t].attempt
  /\ task'[t].from = task[t].from

Over(t) ==
  /\ task'[t].pc \in {"idle", "reconcile", "dispatch"}
  /\ t = 0 => task'[t].pc # "idle"

Others(t) == \A u \in Threads : u # t => task'[u] = task[u]

LEMMA SettlingGoes ==
  ASSUME TaskTypes, NEW t \in Threads, task[t].pc \in Settling
  PROVE  /\ \A pc : Then(t, pc) => Others(t) /\ Onward(t, pc)
         /\ Finish(t) => Others(t) /\ Over(t)
<1>1. /\ {"pc", "job", "attempt", "from"} \subseteq DOMAIN task[t]
      /\ t = 0 => task[t].back \in {"reconcile", "dispatch"}
  <2>1. CASE t = 0
    <3>1. task[t] \in [pc : Settling, job : Jobs, attempt : Nat,
          from : States \ {"Committing"}, back : {"reconcile", "dispatch"}]
      BY <2>1 DEF TaskTypes, OrchestratorTasks, Settling
    <3>2. QED BY <3>1
  <2>2. CASE t # 0
    <3>1. task[t] \in [pc : Settling,
          job : Jobs, attempt : Nat, from : {"Running"}, ok : BOOLEAN]
      BY <2>2 DEF TaskTypes, HandlerTasks, Settling, Idle, Threads, Streams
    <3>2. QED BY <2>2, <3>1
  <2>3. QED BY <2>1, <2>2
<1>2. DOMAIN task = Threads
  BY DEF TaskTypes
<1>3. ASSUME NEW pc, Then(t, pc)
      PROVE  Others(t) /\ Onward(t, pc)
  <2>1. task' = [task EXCEPT ![t] = [task[t] EXCEPT !.pc = pc]]
    BY <1>3 DEF Then
  <2>2. task'[t] = [task[t] EXCEPT !.pc = pc] /\ Others(t)
    BY <1>2, <2>1 DEF Others
  <2>3. QED BY <1>1, <2>2 DEF Onward
<1>4. ASSUME Finish(t)
      PROVE  Others(t) /\ Over(t)
  BY <1>1, <1>2, <1>4 DEF Finish, Others, Over, Idle
<1>5. QED BY <1>3, <1>4

(* No write fails.                                                         *)
LEMMA Unfailing ==
  ASSUME Calm
  PROVE  /\ ~Happens("write") /\ ~Happens("server") /\ ~Happens("lease")
         /\ \A guard \in BOOLEAN : Refused(guard) => ~guard
<1>1. "write" \notin Trouble /\ "server" \notin Trouble /\ "lease" \notin Trouble
  BY DEF Calm
<1>2. QED BY <1>1 DEF Happens, Refused

(* A job in a thread's hands is in no other's, and no stream has another   *)
(* word of it.                                                             *)
LEMMA Sole ==
  ASSUME DispatchAssumption, TypesAndSafe, Orderly, NEW t \in Threads, NEW j \in Jobs, Attends(t, j)
  PROVE  /\ t # 0 => t \in Served /\ t \in Streams /\ Due(t, j) /\ ~TickHas(j)
              /\ ~Says(conn[t].down, j) /\ Encodes(t, j) = {} /\ ~Says(conn[t].up, j)
         /\ \A u \in Threads : u # t => ~Attends(u, j)
         /\ \A x \in lost : x.job # j
         /\ \A q \in queue : q.job # j
         /\ \A k \in Served : k # t => ~Due(k, j)
         /\ \A i \in Jobs : i # j => ~Attends(t, i)
         /\ InTask(j, task[t])
         /\ job[j].attempt < MaxAttempts
<1> USE DEF Orderly
<1>1. t # 0 => t \in Streams /\ t \in Served /\ Due(t, j)
  BY AttendsIsDue DEF Attends, Threads, Streams, DispatchAssumption
<1>2. t = 0 => TickHas(j)
  BY DEF TickHas
<1>3. /\ t # 0 => ~TickHas(j)
      /\ \A u \in Threads : u # t => ~Attends(u, j)
      /\ \A k \in Served : k # t => ~Due(k, j)
  <2>1. CASE t # 0
    BY <1>1, <2>1, Alone
  <2>2. CASE t = 0
    BY <1>2, <2>2, Alone
  <2>3. QED BY <2>1, <2>2
<1>4. /\ \A x \in lost : x.job # j
      /\ \A q \in queue : q.job # j
  <2>1. CASE t # 0
    BY <1>3, <2>1 DEF TickHas
  <2>2. CASE t = 0
    BY <2>2 DEF Snapshots
  <2>3. QED BY <2>1, <2>2
<1>5. t # 0 => ~Says(conn[t].down, j) /\ Encodes(t, j) = {} /\ ~Says(conn[t].up, j)
  BY <1>1 DEF Words, Word, OneWord
<1>6. InTask(j, task[t]) /\ job[j].attempt < MaxAttempts
  BY DEF Rows, RowOf
<1>7. QED BY <1>1, <1>3, <1>4, <1>5, <1>6 DEF Attends

(* A thread goes on with, or gives up, the job it has to itself, and sends *)
(* nothing.                                                                *)
LEMMA SoleOrder ==
  ASSUME DispatchAssumption, TypesAndSafe, Orderly, NEW t \in Threads, NEW j \in Jobs,
         Attends(t, j), Others(t),
         \/ Over(t)
         \/ task'[t].job = j /\ task'[t].pc # "idle",
         UNCHANGED <<conn, work, fleet, session, lease, lost, queue>>,
         \A i \in Jobs : i # j =>
           job'[i] = job[i] /\ \A n \in Attempts : Live(i, n)' => Live(i, n),
         t # 0 => job'[j].agent = job[j].agent /\ job'[j].epoch = job[j].epoch,
         job'[j].attempt < MaxAttempts,
         Attends(t, j)' => InTask(j, task[t])',
         \A n \in Attempts : Live(j, n)' =>
           /\ n = job'[j].attempt
           /\ Under(j)' \/ (Attends(0, j)' /\ task'[0].pc \in {"eligible", "assign"})
           /\ ~(Attends(t, j)' /\ task'[t].pc \in {"retry", "bump", "queue", "bury"}),
         t = 0 => OnRoad'
  PROVE  Orderly'
<1>1. \A i : AllSteady /\ AllMilder(i)
  BY SameMilder
<1>2. /\ t # 0 => t \in Served /\ t \in Streams /\ Due(t, j) /\ ~TickHas(j)
              /\ ~Says(conn[t].down, j) /\ Encodes(t, j) = {} /\ ~Says(conn[t].up, j)
      /\ \A u \in Threads : u # t => ~Attends(u, j)
      /\ \A x \in lost : x.job # j
      /\ \A q \in queue : q.job # j
      /\ \A k \in Served : k # t => ~Due(k, j)
      /\ \A i \in Jobs : i # j => ~Attends(t, i)
  BY Sole
<1>3. \A i \in Jobs : i # j => ~Attends(t, i)'
  BY DEF Attends, Over, Attending, Settling, Placing
<1>4. \A u \in Threads : u # t => task'[u] = task[u]
  BY DEF Others
<1>5. 0 \in Threads /\ \A k \in Served : k \in Threads
  BY StreamNumbers DEF Served, Streams, Threads, DispatchAssumption
<1>6. t # 0 => ~TickHas(j)'
  BY <1>2, <1>4, <1>5 DEF TickHas, Attends
<1>7. \A k \in Served : Word(k, j)'
  BY <1>1, <1>2, <1>4, <1>5, <1>6, SoleWords DEF Orderly
<1>8. OnRoad'
  <2>1. t # 0 => task'[0] = task[0]
    BY <1>4, <1>5
  <2>2. t # 0 => \A i \in Jobs : job'[i].agent = job[i].agent /\ job'[i].epoch = job[i].epoch
    OBVIOUS
  <2>3. QED BY <1>1, <2>1, <2>2, RoadKept DEF Orderly
<1>9. Snapshots'
  <2>1. \A i \in Jobs : Attends(0, i)' => Attends(0, i)
    BY <1>3, <1>4, <1>5 DEF Attends
  <2>2. task'[0].pc = "idle" => task[0].pc = "idle"
    BY <1>4, <1>5 DEF Over
  <2>3. QED BY <2>1, <2>2, FewerSnapshots DEF Orderly
<1>10. QED BY <1>1, <1>2, <1>3, <1>4, <1>7, <1>8, <1>9, StepOrder

(* The tail.                                                               *)
LEMMA SettleOrder ==
  ASSUME DispatchAssumption, Calm, TypesAndSafe, Orderly, NEW t \in Threads, SettleFailure(t)
  PROVE  Orderly'
<1>0. TaskTypes /\ JobTypes /\ IntentTypes
  BY DEF TypesAndSafe, Types, RowTypes, JobTypes, IntentTypes
<1>1. task[t].pc \in Settling
  BY DEF SettleFailure, Release, Retry, Bump, Requeue, Settling
<1>2. PICK j \in Jobs : j = task[t].job
  BY <1>0, <1>1, SettlingTypes
<1>3. Attends(t, j) /\ task[t].attempt \in Nat
  BY <1>0, <1>1, <1>2, SettlingTypes DEF Attends, Attending
<1>4. /\ \A pc : Then(t, pc) => Others(t) /\ Onward(t, pc)
      /\ Finish(t) => Others(t) /\ Over(t)
  BY <1>0, <1>1, SettlingGoes
<1>5. UNCHANGED <<conn, work, fleet, session, lease, lost, queue>>
  BY DEF SettleFailure, Release, Retry, Bump, Requeue, OnlyJobs, OnlyIntents, agentVars, tables
<1>6. InTask(j, task[t]) /\ job[j].attempt < MaxAttempts /\ job[j].attempt \in Nat
  BY <1>0, <1>3, Sole DEF JobTypes
<1>7. /\ \A n \in Attempts : Live(j, n) => n = job[j].attempt
      /\ task[t].pc \in {"retry", "bump", "queue", "bury"} => \A n \in Attempts : ~Live(j, n)
  BY <1>3 DEF Orderly, Reserved, ReservedBy
<1>8. ~Happens("write") /\ \A guard \in BOOLEAN : Refused(guard) => ~guard
  BY Unfailing
<1>9. Over(t) => ~Attends(t, j)'
  BY DEF Over, Attends, Attending, Settling, Placing
<1>10. t = 0 /\ (Over(t) \/ \E pc \in Settling : Onward(t, pc)) => OnRoad'
  BY DEF Over, Onward, OnRoad, Settling, Placing
<1>11. CASE Release(t)
  <2>1. Resolve(j, task[t].attempt) /\ Then(t, "retry") /\ UNCHANGED job /\ task[t].pc = "release"
    BY <1>2, <1>8, <1>11 DEF Release, OnlyIntents
  <2>2. Others(t) /\ Onward(t, "retry")
    BY <1>4, <2>1
  <2>3. \A i \in Jobs : \A n \in Attempts :
          Live(i, n)' => Live(i, n) /\ ~(i = j /\ n = task[t].attempt)
    <3>1. CASE Live(j, task[t].attempt)
      <4>1. intent' = [intent EXCEPT ![<<j, task[t].attempt>>].state = "resolved"]
        BY <2>1, <3>1 DEF Resolve
      <4>2. ASSUME NEW i \in Jobs, NEW n \in Attempts
            PROVE  intent'[<<i, n>>].state = IF i = j /\ n = task[t].attempt
                                             THEN "resolved" ELSE intent[<<i, n>>].state
        BY <1>0, <4>1 DEF IntentTypes
      <4>3. QED BY <4>2 DEF Live
    <3>2. CASE ~Live(j, task[t].attempt)
      <4>1. intent' = intent
        BY <2>1, <3>2 DEF Resolve
      <4>2. QED BY <3>2, <4>1 DEF Live
    <3>3. QED BY <3>1, <3>2
  <2>4. \A n \in Attempts : ~Live(j, n)'
    BY <1>6, <1>7, <2>1, <2>3 DEF InTask
  <2>5. InTask(j, task[t])'
    BY <1>6, <2>1, <2>2 DEF InTask, Onward, Under, Held, Settling
  <2>6. QED
    BY <1>2, <1>3, <1>5, <1>6, <1>10, <2>1, <2>2, <2>3, <2>4, <2>5, SoleOrder DEF Onward, Settling
<1>12. CASE Retry(t)
  <2>1. task[t].pc = "retry" /\ UNCHANGED intent
    BY <1>12 DEF Retry, OnlyJobs
  <2>2. \A i \in Jobs : \A n \in Attempts : Live(i, n)' => Live(i, n) /\ i # j
    BY <1>7, <2>1 DEF Live
  <2>3. CASE Move(j, "Retrying") /\ Then(t, IF Exhausted(task[t].attempt) THEN "bury" ELSE "bump")
    <3>1. PICK pc \in {"bury", "bump"} :
                 /\ Others(t) /\ Onward(t, pc)
                 /\ pc = "bump" => task[t].attempt + 1 < MaxAttempts
      <4>1. ~Exhausted(task[t].attempt) => task[t].attempt + 1 < MaxAttempts
        BY <1>3 DEF Exhausted, DispatchAssumption
      <4>2. QED BY <1>4, <2>3, <4>1
    <3>2. /\ \A i \in Jobs : i # j => job'[i] = job[i]
          /\ job'[j].state = "Retrying" /\ job'[j].attempt = job[j].attempt
          /\ job'[j].agent = job[j].agent /\ job'[j].epoch = job[j].epoch
      BY <1>0, <2>3 DEF Move, JobTypes
    <3>3. InTask(j, task[t])'
      BY <1>6, <2>1, <3>1, <3>2 DEF InTask, Onward, Settling
    <3>4. QED
      BY <1>2, <1>3, <1>5, <1>6, <1>10, <2>2, <3>1, <3>2, <3>3, SoleOrder DEF Onward, Settling
  <2>4. CASE UNCHANGED job /\ Finish(t)
    BY <1>3, <1>4, <1>5, <1>6, <1>9, <1>10, <2>2, <2>4, SoleOrder
  <2>5. QED BY <1>2, <1>12, <2>3, <2>4 DEF Retry
<1>13. CASE Bump(t)
  <2>1. /\ task[t].pc = "bump" /\ UNCHANGED intent /\ Then(t, "queue")
        /\ job' = [job EXCEPT ![j].attempt = @ + 1]
    BY <1>2, <1>8, <1>13 DEF Bump, OnlyJobs
  <2>2. \A i \in Jobs : \A n \in Attempts : Live(i, n)' => Live(i, n) /\ i # j
    BY <1>7, <2>1 DEF Live
  <2>3. Others(t) /\ Onward(t, "queue")
    BY <1>4, <2>1
  <2>4. /\ \A i \in Jobs : i # j => job'[i] = job[i]
        /\ job'[j].state = job[j].state /\ job'[j].attempt = job[j].attempt + 1
        /\ job'[j].agent = job[j].agent /\ job'[j].epoch = job[j].epoch
    BY <1>0, <2>1 DEF JobTypes
  <2>5. job'[j].attempt < MaxAttempts
    BY <1>6, <2>1, <2>4 DEF InTask
  <2>6. InTask(j, task[t])'
    BY <1>6, <2>1, <2>3, <2>4 DEF InTask, Onward, Under, Held, Settling
  <2>7. QED
    BY <1>2, <1>3, <1>5, <1>10, <2>2, <2>3, <2>4, <2>5, <2>6, SoleOrder DEF Onward, Settling
<1>14. CASE Requeue(t)
  <2>1. /\ task[t].pc \in {"queue", "bury"} /\ UNCHANGED intent /\ Finish(t)
        /\ UNCHANGED job \/ \E to : Move(j, to)
    BY <1>2, <1>14 DEF Requeue, OnlyJobs
  <2>2. \A i \in Jobs : \A n \in Attempts : Live(i, n)' => Live(i, n) /\ i # j
    BY <1>7, <2>1 DEF Live
  <2>3. /\ \A i \in Jobs : i # j => job'[i] = job[i]
        /\ job'[j].attempt = job[j].attempt
        /\ job'[j].agent = job[j].agent /\ job'[j].epoch = job[j].epoch
    BY <1>0, <2>1 DEF Move, JobTypes
  <2>4. QED
    BY <1>3, <1>4, <1>5, <1>6, <1>9, <1>10, <2>1, <2>2, <2>3, SoleOrder
<1>15. QED BY <1>11, <1>12, <1>13, <1>14 DEF SettleFailure

(* A step that is about no word.                                           *)
LEMMA QuietOrder ==
  ASSUME DispatchAssumption, TypesAndSafe, Orderly,
         \A j \in Jobs : Untouched(j) /\ AllMilder(j),
         AllSteady, UNCHANGED <<work, fleet, session, lease>>,
         task'[0] = task[0], \A k \in Streams : task'[k] = task[k] \/ k \in Served,
         lost' \subseteq lost, queue' \subseteq queue
  PROVE  Orderly'
<1> USE DEF Orderly
<1>1. Linked' /\ Served' = Served
  <2>1. \A a \in Agents : \A v \in work'[a] : v \in work[a]
    OBVIOUS
  <2>2. \A a \in Agents : lease'[a] = lease[a]
    OBVIOUS
  <2>3. QED BY <2>1, <2>2, SteadyLinks
<1>2. OnRoad'
  BY RoadKept DEF Untouched, Eases
<1>3. Snapshots'
  BY FewerSnapshots DEF Attends
<1>4. Rows' /\ Reserved'
  <2>1. \A j \in Jobs : RowOf(j)' /\ ReservedBy(j)'
    BY UntouchedRow DEF Rows, Reserved
  <2>2. QED BY <2>1 DEF Rows, Reserved
<1>5. ASSUME NEW k \in Served, NEW j \in Jobs
      PROVE  Word(k, j)'
  <2>1. k \in DOMAIN conn
    BY DEF Served
  <2>2. Word(k, j) /\ SameOwner(k) /\ Milder(k, j)
    BY <2>1 DEF Words, AllSteady, Steady, SameOwner, AllMilder
  <2>3. Encodes(k, j)' \subseteq Encodes(k, j)
    BY <2>1, SameEncodes
  <2>4. QED BY <2>2, <2>3, UntouchedWord
<1>6. Words'
  BY <1>1, <1>5 DEF Words
<1>7. QED BY <1>1, <1>2, <1>3, <1>4, <1>6

(* A handler that attends to nothing, before or after.                     *)
LEMMA InattentiveOrder ==
  ASSUME DispatchAssumption, TypesAndSafe, Orderly, NEW k \in Streams, k \in Served,
         Others(k),
         task[k].pc \notin Attending, task'[k].pc \notin Attending,
         AllSteady, \A j \in Jobs : AllMilder(j) /\ Eases(j),
         \A j \in Jobs, n \in Attempts : Live(j, n)' => Live(j, n),
         UNCHANGED <<work, fleet, session, lease, lost, queue>>
  PROVE  Orderly'
<1>1. \A t \in Threads : t # k => task'[t] = task[t]
  BY DEF Others
<1>2. k # 0 /\ 0 \in Threads /\ \A l \in Streams : l \in Threads
  BY DEF Streams, Threads, DispatchAssumption
<1>3. \A j : ~Attends(k, j) /\ ~Attends(k, j)'
  BY DEF Attends
<1>4. \A j \in Jobs : Untouched(j)
  BY <1>1, <1>3 DEF Untouched, Attends
<1>5. QED BY <1>1, <1>2, <1>4, QuietOrder

(* A result is a word, and what the handler then attends to.               *)
LEMMA ResultOrder ==
  ASSUME DispatchAssumption, TypesAndSafe, Orderly, NEW k \in Streams, OnResult(k)
  PROVE  Orderly'
<1> USE DEF Orderly
<1>0. /\ k \in Served /\ k \in DOMAIN conn /\ task[k] = Idle /\ conn[k].up # <<>>
      /\ Message(k).kind = "result" /\ Consume(k)
      /\ conn \in Seq(Conns) /\ task \in [Threads -> OrchestratorTasks \cup HandlerTasks]
  BY DEF OnResult, Has, Served, Message, TypesAndSafe, Types, ConnTypes, TaskTypes
<1>1. PICK j \in Jobs : j = Message(k).job
  <2>1. Message(k) \in UpMessages
    BY <1>0, ConnElement, HeadTailProperties DEF Message
  <2>2. QED BY <2>1 DEF UpMessages
<1>2. ASSUME NEW i
      PROVE  /\ AllSteady /\ AllMilder(i)
             /\ i = j => Says(conn[k].up, j) /\ (SaysOnce(conn[k].up, j) => ~Says(conn'[k].up, j))
  BY <1>0, <1>1, ConsumesWord DEF IsWord
<1>3. Word(k, j) /\ Due(k, j)
  BY <1>0, <1>2 DEF Words, Due
<1>4. /\ GivenTo(j, k) /\ ~TickHas(j) /\ ~Attends(k, j) /\ ~Says(conn[k].down, j)
      /\ Encodes(k, j) = {} /\ ~Says(conn'[k].up, j) /\ Under(j)
  BY <1>2, <1>3 DEF Word, OneWord
<1>5. UNCHANGED <<job, intent, work, fleet, session, lease, lost, queue>>
  BY DEF OnResult, storeVars, tables, agentVars
<1>6. PICK pc \in {"start", "accept", "release"} : \E ok :
            task' = [task EXCEPT ![k] = [pc |-> pc, job |-> j, attempt |-> job[j].attempt,
                                         from |-> "Running", ok |-> ok]]
  BY <1>1, <1>4 DEF OnResult
<1>7. k \in Threads /\ k # 0 /\ 0 \in Threads
  BY DEF Streams, Threads, DispatchAssumption
<1>8. /\ \A t \in Threads : t # k => task'[t] = task[t]
      /\ task'[k].pc = pc /\ task'[k].job = j /\ task'[k].attempt = job[j].attempt
  BY <1>0, <1>6, <1>7
<1>9. /\ \A t \in Threads : t # k => ~Attends(t, j)
      /\ \A l \in Served : l # k => ~Due(l, j)
  BY <1>0, <1>3, Alone
<1>10. /\ \A i \in Jobs : i # j => ~Attends(k, i) /\ ~Attends(k, i)'
  BY <1>0, <1>8 DEF Attends, Idle, Attending, Settling, Placing
<1>11. (\A x \in lost : x.job # j) /\ (\A q \in queue : q.job # j)
  BY <1>4 DEF TickHas
<1>12. job[j].attempt < MaxAttempts
  BY DEF Rows, RowOf
<1>13. Under(j)'
  BY <1>4, <1>5 DEF Under, Held
<1>14. InTask(j, task[k])'
  BY <1>5, <1>8, <1>13 DEF InTask, Settling
<1>15. \A i \in Jobs, n \in Attempts : Live(i, n)' = Live(i, n)
  BY <1>5 DEF Live
<1>16. \A n \in Attempts : Live(j, n)' =>
         /\ n = job'[j].attempt /\ Under(j)'
         /\ ~(Attends(k, j)' /\ task'[k].pc \in {"retry", "bump", "queue", "bury"})
  BY <1>5, <1>8, <1>13, <1>15 DEF Reserved, ReservedBy
<1>17. ~TickHas(j)'
  BY <1>4, <1>5, <1>7, <1>8 DEF TickHas, Attends
<1>18. \A l \in Served : Word(l, j)'
  <2>1. \A l \in Served : l # k => task'[l] = task[l]
    BY <1>8, StreamNumbers DEF Served, Streams, Threads, DispatchAssumption
  <2>2. ~Says(conn'[k].down, j)
    BY <1>0, <1>2, <1>4 DEF AllMilder, Milder, Sparser
  <2>3. QED BY <1>2, <1>3, <1>4, <1>5, <1>7, <1>9, <1>17, <2>1, <2>2, SoleWords
<1>19. OnRoad'
  BY <1>2, <1>5, <1>7, <1>8, RoadKept
<1>20. Snapshots'
  BY <1>5, <1>7, <1>8, FewerSnapshots DEF Attends
<1>21. AllSteady /\ \A i \in Jobs : AllMilder(i)
  BY <1>2
<1>22. QED
  BY <1>0, <1>5, <1>7, <1>8, <1>9, <1>10, <1>11, <1>12, <1>14, <1>15, <1>16, <1>18, <1>19,
     <1>20, <1>21, StepOrder

LEMMA HandlingGoes ==
  ASSUME TaskTypes, NEW k \in Streams, k \in Threads, k # 0
  PROVE  /\ Finish(k) => Others(k) /\ Over(k)
         /\ \A pc : task[k].pc = "start" /\ Then(k, pc) => Others(k) /\ Onward(k, pc)
         /\ \A pc : task[k].pc = "resolve" /\ Then(k, pc) => Others(k) /\ task'[k].pc = pc
<1>1. DOMAIN task = Threads /\ task[k] \in HandlerTasks
  BY DEF TaskTypes
<1>2. Finish(k) => Others(k) /\ Over(k)
  BY <1>1 DEF Finish, Others, Over, Idle
<1>3. task[k].pc = "start" => {"pc", "job", "attempt", "from"} \subseteq DOMAIN task[k]
  BY <1>1 DEF HandlerTasks, Idle
<1>4. task[k].pc = "resolve" => "pc" \in DOMAIN task[k]
  BY <1>1 DEF HandlerTasks, Idle
<1>5. ASSUME NEW pc, Then(k, pc)
      PROVE  task'[k] = [task[k] EXCEPT !.pc = pc] /\ Others(k)
  BY <1>1, <1>5 DEF Then, Others
<1>6. QED BY <1>2, <1>3, <1>4, <1>5 DEF Onward

(* A job that is judged goes on, held.                                     *)
LEMMA MoveEases ==
  ASSUME JobTypes, NEW i \in Jobs, NEW from, NEW to, job[i].state = from, Move(i, to),
         HoldsCapacity(from), HoldsCapacity(to) \/ IsTerminal(to), NEW j \in Jobs
  PROVE  Eases(j) /\ (j # i => job'[j] = job[j])
  BY DEF JobTypes, Move, Eases

LEMMA JudgedOrder ==
  ASSUME DispatchAssumption, Calm, TypesAndSafe, Orderly, NEW k \in Streams,
         ResultStart(k) \/ ResultAccept(k)
  PROVE  Orderly'
<1> USE DEF Orderly
<1>0. TaskTypes /\ JobTypes /\ k \in Threads /\ k # 0
  BY DEF TypesAndSafe, Types, RowTypes, JobTypes, Streams, Threads, DispatchAssumption
<1>1. task[k].pc \in {"start", "accept"}
  BY DEF ResultStart, ResultAccept
<1>2. PICK j \in Jobs : j = task[k].job
  BY <1>0, <1>1, HandlingTypes
<1>3. Attends(k, j)
  BY <1>1, <1>2 DEF Attends, Attending
<1>4. UNCHANGED <<intent, conn, work, fleet, session, lease, lost, queue>>
  BY DEF ResultStart, ResultAccept, OnlyJobs, agentVars, tables
<1>5. InTask(j, task[k]) /\ job[j].attempt < MaxAttempts /\ ~Attends(0, j)
  BY <1>0, <1>3, Sole DEF Threads, DispatchAssumption
<1>6. \A i \in Jobs, n \in Attempts : Live(i, n)' = Live(i, n)
  BY <1>4 DEF Live
<1>7. \A n \in Attempts : Live(j, n) => n = job[j].attempt /\ Under(j)
  BY <1>5 DEF Reserved, ReservedBy
<1>8. /\ \/ UNCHANGED job
         \/ job[j].state = "Assigned" /\ Move(j, "Running")
         \/ job[j].state = "Running" /\ Move(j, "Verifying")
      /\ \/ Finish(k)
         \/ /\ task[k].pc = "start" /\ Move(j, "Running")
            /\ \E pc \in {"accept", "release"} : Then(k, pc)
  BY <1>2 DEF ResultStart, ResultAccept, CanMove
<1>9. HoldsCapacity("Assigned") /\ HoldsCapacity("Running") /\ HoldsCapacity("Verifying")
  BY DEF HoldsCapacity
<1>10. /\ \A i \in Jobs : i # j => job'[i] = job[i]
       /\ Eases(j)
  <2>1. CASE UNCHANGED job
    BY <2>1 DEF Eases
  <2>2. CASE ~UNCHANGED job
    BY <1>0, <1>8, <1>9, <2>2, MoveEases
  <2>3. QED BY <2>1, <2>2
<1>11. /\ job'[j].attempt = job[j].attempt /\ job'[j].agent = job[j].agent
       /\ job'[j].epoch = job[j].epoch /\ (Under(j) => Under(j)')
  BY <1>10, EasesUnder DEF Eases
<1>12. CASE Finish(k)
  <2>1. Others(k) /\ Over(k)
    BY <1>0, <1>12, HandlingGoes
  <2>2. ~Attends(k, j)'
    BY <2>1 DEF Over, Attends, Attending, Settling, Placing
  <2>3. QED
    BY <1>0, <1>3, <1>4, <1>5, <1>6, <1>7, <1>10, <1>11, <2>1, <2>2, SoleOrder
<1>13. CASE /\ task[k].pc = "start" /\ Move(j, "Running")
            /\ \E pc \in {"accept", "release"} : Then(k, pc)
  <2>1. PICK pc \in {"accept", "release"} : Others(k) /\ Onward(k, pc)
    BY <1>0, <1>13, HandlingGoes
  <2>2. job'[j].state = "Running"
    BY <1>0, <1>13 DEF JobTypes, Move
  <2>3. Under(j)'
    BY <1>9, <2>2 DEF Under, Held
  <2>4. InTask(j, task[k])'
    BY <1>5, <1>11, <1>13, <2>1, <2>3 DEF InTask, Onward, Settling
  <2>5. task'[k].job = j /\ task'[k].pc = pc
    BY <1>2, <2>1 DEF Onward
  <2>6. QED
    BY <1>0, <1>3, <1>4, <1>5, <1>6, <1>7, <1>10, <1>11, <2>1, <2>3, <2>4, <2>5, SoleOrder
<1>14. QED BY <1>8, <1>12, <1>13

(* Requests, grants and reports are no words.                              *)
LEMMA CommitOrder ==
  ASSUME DispatchAssumption, Calm, TypesAndSafe, Orderly, NEW k \in Streams,
         \/ OnCommitRequest(k) \/ RequestCommit(k) \/ OnCommitReport(k)
         \/ ReportResolve(k) \/ ReportConclude(k)
  PROVE  Orderly'
<1>0. /\ TaskTypes /\ JobTypes /\ conn \in Seq(Conns) /\ k \in Threads /\ k # 0
      /\ DOMAIN task = Threads
  BY DEF TypesAndSafe, Types, RowTypes, JobTypes, ConnTypes, TaskTypes, Streams, Threads,
         DispatchAssumption
<1>1. UNCHANGED <<work, fleet, session, lease, lost, queue>>
  BY DEF OnCommitRequest, RequestCommit, OnCommitReport, ReportResolve, ReportConclude,
         OnlyJobs, OnlyIntents, storeVars, agentVars, tables
<1>2. CASE OnCommitRequest(k) \/ OnCommitReport(k)
  <2>1. /\ k \in DOMAIN conn /\ conn[k].served /\ task[k] = Idle /\ conn[k].up # <<>>
        /\ UNCHANGED <<job, intent>>
    BY <1>2 DEF OnCommitRequest, OnCommitReport, Has, storeVars
  <2>2. Message(k).job \in Jobs
    BY <1>0, <2>1, ConnElement, HeadTailProperties DEF Message, UpMessages
  <2>3. Consume(k) \/ Answer(k, conn[k].agent, Grant(Message(k).job, FALSE))
    BY <1>2 DEF OnCommitRequest, OnCommitReport
  <2>4. ASSUME NEW j
        PROVE  AllSteady /\ AllMilder(j)
    <3> DEFINE m == Grant(Message(k).job, FALSE)
    <3>1. CASE Consume(k)
      BY <1>0, <2>1, <3>1, ConsumesWord
    <3>2. CASE Answer(k, conn[k].agent, m)
      <4>1. m \in DownMessages /\ ~IsWord(m, j)
        BY <2>2 DEF Grant, DownMessages, IsWord
      <4> HIDE DEF m
      <4>2. QED BY <1>0, <2>1, <3>2, <4>1, AnswersWord
    <3>3. QED BY <2>3, <3>1, <3>2
  <2>5. task' = task \/ \E x : task' = [task EXCEPT ![k] = x] /\ x.pc \in {"commit", "resolve"}
    <3>1. CASE OnCommitRequest(k)
      <4> DEFINE x == [pc |-> "commit", job |-> Message(k).job]
      <4>1. task' = task \/ task' = [task EXCEPT ![k] = x]
        BY <3>1 DEF OnCommitRequest
      <4>2. x.pc = "commit"
        OBVIOUS
      <4> HIDE DEF x
      <4>3. QED BY <4>1, <4>2
    <3>2. CASE OnCommitReport(k)
      <4> DEFINE x(n) == [pc |-> "resolve", job |-> Message(k).job, attempt |-> n,
                          label |-> Message(k).label]
      <4>1. task' = task \/ \E n : task' = [task EXCEPT ![k] = x(n)]
        BY <3>2 DEF OnCommitReport
      <4>2. \A n : x(n).pc = "resolve"
        OBVIOUS
      <4> HIDE DEF x
      <4>3. QED BY <4>1, <4>2
    <3>3. QED BY <1>2, <3>1, <3>2
  <2>6. Others(k) /\ task'[k].pc \in {"idle", "commit", "resolve"} /\ task[k].pc = "idle"
    BY <1>0, <2>1, <2>5 DEF Others, Idle
  <2>7. task[k].pc \notin Attending /\ task'[k].pc \notin Attending
    BY <2>6 DEF Attending, Settling, Placing
  <2>8. k \in Served
    BY <2>1 DEF Served
  <2>9. \A j \in Jobs : AllMilder(j) /\ Eases(j)
    BY <2>1, <2>4 DEF Eases
  <2>10. \A j \in Jobs, n \in Attempts : Live(j, n)' => Live(j, n)
    BY <2>1 DEF Live
  <2>11. QED BY <1>1, <2>4, <2>6, <2>7, <2>8, <2>9, <2>10, InattentiveOrder
<1>3. CASE RequestCommit(k) \/ ReportResolve(k) \/ ReportConclude(k)
  <2>1. task[k].pc \in {"commit", "resolve", "conclude"}
    BY <1>3 DEF RequestCommit, ReportResolve, ReportConclude
  <2>2. PICK i \in Jobs : i = task[k].job
    BY <1>0, <2>1, HandlingTypes
  <2>3. k \in Served
    <3>1. task[k] # Idle
      BY <2>1 DEF Idle
    <3>2. QED BY <3>1 DEF Orderly, Linked
  <2>4. Others(k) /\ task'[k].pc \in {"idle", "reconcile", "dispatch", "conclude"}
    BY <1>0, <1>3, HandlingGoes DEF RequestCommit, ReportResolve, ReportConclude, Over
  <2>5. task[k].pc \notin Attending /\ task'[k].pc \notin Attending
    BY <2>1, <2>4 DEF Attending, Settling, Placing
  <2>6. \A j \in Jobs : Eases(j)
    <3>1. CASE UNCHANGED job
      BY <3>1 DEF Eases
    <3>2. CASE ~UNCHANGED job
      <4>1. PICK to \in {"Committing", "Succeeded", "NeedsOperator", "Failed"},
                    from \in {"Verifying", "Committing"} :
                   job[i].state = from /\ Move(i, to)
        BY <1>3, <2>2, <3>2
           DEF RequestCommit, ReportResolve, ReportConclude, OutcomeOf, CanMove, OnlyIntents
      <4>2. HoldsCapacity(from) /\ (HoldsCapacity(to) \/ IsTerminal(to))
        BY <4>1 DEF HoldsCapacity, IsTerminal, Terminal
      <4>3. QED BY <1>0, <4>1, <4>2, MoveEases
    <3>3. QED BY <3>1, <3>2
  <2>7. \A j \in Jobs, n \in Attempts : Live(j, n)' => Live(j, n)
    <3>1. CASE UNCHANGED intent
      BY <3>1 DEF Live
    <3>2. CASE Resolve(i, task[k].attempt)
      <4>1. IntentTypes
        BY DEF TypesAndSafe, Types, RowTypes, IntentTypes
      <4>2. QED BY <3>2, <4>1 DEF Resolve, Live, IntentTypes
    <3>3. QED
      BY <1>3, <2>2, <3>1, <3>2 DEF RequestCommit, ReportResolve, ReportConclude, OnlyJobs
  <2>8. ASSUME NEW j
        PROVE  AllSteady /\ AllMilder(j)
    <3>1. CASE UNCHANGED conn
      BY <3>1, SameMilder
    <3>2. CASE \E ok \in BOOLEAN : Send(conn[k].agent, Grant(i, ok))
      <4>1. PICK ok \in BOOLEAN : Send(conn[k].agent, Grant(i, ok))
        BY <3>2
      <4>2. Grant(i, ok) \in DownMessages /\ ~IsWord(Grant(i, ok), j)
        BY DEF Grant, DownMessages, IsWord
      <4>3. QED BY <1>0, <4>1, <4>2, SendsWord
    <3>3. QED
      BY <1>3, <2>2, <3>1, <3>2
         DEF RequestCommit, ReportResolve, ReportConclude, OnlyJobs, OnlyIntents
  <2>9. QED BY <1>1, <2>3, <2>4, <2>5, <2>6, <2>7, <2>8, InattentiveOrder
<1>4. QED BY <1>2, <1>3

(* A stream that has ended is served no more.                              *)
LEMMA TeardownOrder ==
  ASSUME DispatchAssumption, TypesAndSafe, Orderly, NEW k \in Streams, Teardown(k)
  PROVE  Orderly'
<1> USE DEF Orderly
<1>1. PICK a \in Agents : a = conn[k].agent
  BY StreamNumbers DEF Teardown
<1>2. /\ k \in DOMAIN conn /\ conn[k].served /\ ~conn[k].open /\ task[k] = Idle /\ k # 0
      /\ conn' = [conn EXCEPT ![k].served = FALSE]
      /\ UNCHANGED Rest /\ UNCHANGED <<work, session, lease>>
  BY DEF Teardown, agentVars, tables, Rest, Streams
<1>3. fleet[a] = k
  BY <1>1, <1>2 DEF Linked
<1>4. fleet' = [fleet EXCEPT ![a] = 0] /\ fleet \in [Agents -> {0} \cup Streams]
  BY <1>1, <1>2, <1>3 DEF Teardown, Connected, TypesAndSafe, Types, TableTypes
<1>5. /\ DOMAIN conn' = DOMAIN conn
      /\ \A i \in DOMAIN conn : i # k => conn'[i] = conn[i]
      /\ conn'[k].agent = conn[k].agent /\ conn'[k].epoch = conn[k].epoch
      /\ conn'[k].open = conn[k].open /\ conn'[k].served = FALSE
  <2>1. conn[k] \in Conns
    BY <1>2, StreamNumbers
  <2>2. conn'[k] = [conn[k] EXCEPT !.served = FALSE]
    BY <1>2
  <2>3. QED BY <1>2, <2>1, <2>2 DEF Conns
<1>6. Served' = Served \ {k}
  BY <1>2, <1>5 DEF Served
<1>7. \A i \in Served : i # k => conn[i].agent # a
  BY <1>3 DEF Linked, Served
<1>8. Linked'
  <2>1. ASSUME NEW b \in Agents, fleet'[b] # 0
        PROVE  fleet'[b] \in Served' /\ conn'[fleet'[b]].agent = b /\ lease'[b]
    <3>1. b # a /\ fleet'[b] = fleet[b]
      BY <1>4, <2>1
    <3>2. fleet[b] \in Served /\ conn[fleet[b]].agent = b /\ lease[b] /\ fleet[b] # k
      BY <1>1, <2>1, <3>1 DEF Linked
    <3>3. QED BY <1>2, <1>5, <1>6, <3>1, <3>2 DEF Served
  <2>2. \A b \in Agents : session'[b] # 0 =>
          session'[b] \in DOMAIN conn' /\ conn'[session'[b]].open /\ conn'[session'[b]].agent = b
    BY <1>2, <1>5 DEF Linked
  <2>3. ASSUME NEW i \in DOMAIN conn'
        PROVE  /\ conn'[i].open => conn'[i].served
               /\ conn'[i].served => fleet'[conn'[i].agent] = i
    <3>1. CASE i = k
      BY <1>2, <1>5, <3>1
    <3>2. CASE i # k
      <4>1. i \in DOMAIN conn /\ conn'[i] = conn[i] /\ conn[i].agent \in Agents
        BY <1>5, <3>2, StreamNumbers
      <4>2. conn[i].served => fleet[conn[i].agent] = i /\ conn[i].agent # a
        BY <1>7, <3>2, <4>1 DEF Linked, Served
      <4>3. conn[i].open => conn[i].served
        BY <4>1 DEF Linked
      <4>4. QED BY <1>4, <4>1, <4>2, <4>3
    <3>3. QED BY <3>1, <3>2
  <2>4. \A i \in Streams : task'[i] # Idle => i \in Served'
    BY <1>2, <1>6 DEF Linked, Rest
  <2>5. \A b \in Agents : \A w \in work'[b] : w.stream \in DOMAIN conn' /\ conn'[w.stream].agent = b
    BY <1>2, <1>5 DEF Linked
  <2>6. QED BY <2>1, <2>2, <2>3, <2>4, <2>5 DEF Linked
<1>9. OnRoad'
  <2>1. task[0].pc \in Placing => task[0].agent \in Agents
    BY PlacingTypes DEF TypesAndSafe, Types
  <2>2. \A b \in Agents : fleet'[b] # 0 =>
          /\ fleet'[b] = fleet[b] /\ fleet[b] \in DOMAIN conn
          /\ conn'[fleet[b]].epoch = conn[fleet[b]].epoch
    BY <1>4, <1>5 DEF Linked, Served
  <2>3. task' = task /\ job' = job
    BY <1>2 DEF Rest
  <2>4. QED BY <2>1, <2>2, <2>3 DEF OnRoad
<1>10. ASSUME NEW i \in Served', NEW j \in Jobs
       PROVE  Word(i, j)'
  <2>1. i \in Served /\ i \in DOMAIN conn /\ conn'[i] = conn[i] /\ i \in Streams
    BY <1>5, <1>6, StreamNumbers DEF Served
  <2>2. Milder(i, j) /\ SameOwner(i)
    BY <2>1, SparserSame DEF Milder, SameOwner
  <2>3. Encodes(i, j)' \subseteq Encodes(i, j)
    BY <1>2, <2>1, Zenon DEF Encodes
  <2>4. Due(i, j) => RowHolds(i, j)
    BY <1>2, <2>1, RestKept DEF Words, Word
  <2>5. Attends(i, j)' => Attends(i, j)
    BY <1>2, <2>1, RestKept
  <2>6. QED BY <2>1, <2>2, <2>3, <2>4, <2>5, WordThins DEF Words
<1>11. Words'
  BY <1>10 DEF Words
<1>12. QED BY <1>2, <1>8, <1>9, <1>11, RestKept

LEMMA HandleOrder ==
  ASSUME DispatchAssumption, Calm, TypesAndSafe, Orderly, NEW k \in Streams, Handle(k)
  PROVE  Orderly'
  BY ResultOrder, JudgedOrder, CommitOrder, TeardownOrder DEF Handle

(* A stream of an agent breaks, and work of it may be dropped.             *)
LEMMA CutOrder ==
  ASSUME DispatchAssumption, TypesAndSafe, Orderly, NEW a \in Agents, session[a] # 0,
         NEW n \in 0 .. Len(conn[session[a]].up), conn' = Cut(session[a], n),
         session' = [session EXCEPT ![a] = 0],
         UNCHANGED Rest, UNCHANGED <<fleet, lease>>,
         \A b \in Agents : work'[b] \subseteq work[b]
  PROVE  Orderly'
<1> USE DEF Orderly
<1>0. PICK k : k = session[a]
  OBVIOUS
<1>1. k \in DOMAIN conn /\ conn[k].agent = a /\ conn \in Seq(Conns)
  BY <1>0 DEF Linked, TypesAndSafe, Types, ConnTypes
<1>2. ASSUME NEW j
      PROVE  /\ DOMAIN conn' = DOMAIN conn /\ AllMilder(j)
             /\ \A i \in DOMAIN conn :
                  /\ conn'[i].agent = conn[i].agent /\ conn'[i].epoch = conn[i].epoch
                  /\ conn'[i].served = conn[i].served
                  /\ IF i = k THEN conn'[i].open = FALSE ELSE conn'[i] = conn[i]
  BY <1>0, <1>1, CutsWord
<1>3. Served' = Served
  BY <1>2 DEF Served
<1>4. Linked'
  <2>1. \A b \in Agents : fleet'[b] # 0 =>
          fleet'[b] \in Served' /\ conn'[fleet'[b]].agent = b /\ lease'[b]
    BY <1>2, <1>3, ZenonT(40) DEF Linked, Served
  <2>2. ASSUME NEW b \in Agents, session'[b] # 0
        PROVE  /\ session'[b] \in DOMAIN conn' /\ conn'[session'[b]].open
               /\ conn'[session'[b]].agent = b
    <3>1. b # a /\ session'[b] = session[b]
      BY <2>2 DEF TypesAndSafe, Types, AgentTypes
    <3>2. session[b] \in DOMAIN conn /\ conn[session[b]].open /\ conn[session[b]].agent = b
      BY <2>2, <3>1 DEF Linked
    <3>3. session[b] # k
      BY <1>1, <3>1, <3>2
    <3>4. QED BY <1>2, <3>1, <3>2, <3>3, ZenonT(40)
  <2>3. \A i \in DOMAIN conn' :
          /\ conn'[i].open => conn'[i].served
          /\ conn'[i].served => fleet'[conn'[i].agent] = i
    BY <1>2 DEF Linked
  <2>4. \A i \in Streams : task'[i] # Idle => i \in Served'
    BY <1>3 DEF Linked, Rest
  <2>5. \A b \in Agents : \A w \in work'[b] : w.stream \in DOMAIN conn' /\ conn'[w.stream].agent = b
    BY <1>2, ZenonT(40) DEF Linked
  <2>6. QED BY <2>1, <2>2, <2>3, <2>4, <2>5 DEF Linked
<1>5. OnRoad'
  <2>1. task[0].pc \in Placing => task[0].agent \in Agents
    BY PlacingTypes DEF TypesAndSafe, Types
  <2>2. \A b \in Agents : fleet[b] # 0 =>
          fleet[b] \in DOMAIN conn /\ conn'[fleet[b]].epoch = conn[fleet[b]].epoch
    BY <1>2 DEF Linked, Served
  <2>3. task' = task /\ job' = job
    BY DEF Rest
  <2>4. QED BY <2>1, <2>2, <2>3 DEF OnRoad
<1>6. ASSUME NEW i \in Served, NEW j \in Jobs
      PROVE  Word(i, j)'
  <2>1. i \in DOMAIN conn /\ i \in Streams /\ conn[i].agent \in Agents
    BY StreamNumbers DEF Served
  <2>2. Milder(i, j) /\ SameOwner(i)
    BY <1>2, <2>1 DEF AllMilder, SameOwner
  <2>3. Encodes(i, j)' \subseteq Encodes(i, j)
    <3>1. conn'[i].agent = conn[i].agent /\ (conn'[i].open => conn[i].open)
      BY <1>2, <2>1
    <3>2. QED BY <2>1, <3>1, Zenon DEF Encodes
  <2>4. Due(i, j) => RowHolds(i, j)
    BY <2>1, RestKept DEF Words, Word
  <2>5. Attends(i, j)' => Attends(i, j)
    BY <2>1, RestKept
  <2>6. QED BY <2>1, <2>2, <2>3, <2>4, <2>5, WordThins DEF Words
<1>7. Words'
  BY <1>3, <1>6 DEF Words
<1>8. QED BY <1>4, <1>5, <1>7, RestKept

LEMMA BreakOrder ==
  ASSUME DispatchAssumption, TypesAndSafe, TypesAndSafe', Orderly, NEW a \in Agents,
         Break(a) \/ AgentRestart(a)
  PROVE  Orderly'
<1>1. UNCHANGED Rest /\ UNCHANGED <<fleet, lease>> /\ session' = [session EXCEPT ![a] = 0]
  BY DEF Break, AgentRestart, storeVars, serverVars, tables, Rest
<1>2. \A b \in Agents : work'[b] \subseteq work[b]
  BY DEF Break, AgentRestart, TypesAndSafe, Types, AgentTypes
<1>3. CASE session[a] # 0
  <2>1. \E n \in 0 .. Len(conn[session[a]].up) : conn' = Cut(session[a], n)
    BY <1>3 DEF Break, AgentRestart
  <2>2. QED BY <1>1, <1>2, <1>3, <2>1, CutOrder
<1>4. CASE session[a] = 0
  <2>1. UNCHANGED conn /\ session' = session
    BY <1>1, <1>4 DEF Break, AgentRestart, TypesAndSafe, Types, AgentTypes
  <2>2. AllSteady /\ \A j \in Jobs : AllMilder(j)
    <3>1. \A j : AllSteady /\ AllMilder(j)
      BY <2>1, SameMilder
    <3>2. QED BY <3>1
  <2>3. QED BY <1>1, <1>2, <2>1, <2>2, AgentQuietOrder
<1>5. QED BY <1>3, <1>4

(* A job that was never queued is in nobody's hands.                       *)
LEMMA Unheard ==
  ASSUME DispatchAssumption, TypesAndSafe, Orderly, NEW j \in Jobs, job[j].state = "Absent"
  PROVE  /\ \A k \in Served : ~Due(k, j)
         /\ \A t \in Threads : ~Attends(t, j)
         /\ ~TickHas(j)
         /\ \A n \in Attempts : ~Live(j, n)
<1> USE DEF Orderly
<1>1. ~Under(j)
  BY DEF Under, Held, HoldsCapacity, IsTerminal, Terminal
<1>2. ASSUME NEW t \in Threads, Attends(t, j)
      PROVE  FALSE
  <2>1. InTask(j, task[t]) /\ task[t].pc \in Attending
    BY <1>2 DEF Rows, RowOf, Attends
  <2>2. task[t].pc = "grant" => task[t].from \in {"Pending", "Eligible"}
    <3>1. CASE t = 0
      BY <3>1, PlacingTypes DEF Placing, TypesAndSafe, Types
    <3>2. CASE t # 0
      BY <3>2 DEF TypesAndSafe, Types, TaskTypes, HandlerTasks, Idle, Threads, Streams
    <3>3. QED BY <3>1, <3>2
  <2>3. QED
    BY <1>1, <2>1, <2>2
       DEF InTask, AsRead, Attending, Settling, Placing, IsTerminal, Terminal
<1>3. 0 \in Threads /\ \A k \in Served : k \in Threads
  BY StreamNumbers DEF Served, Streams, Threads, DispatchAssumption
<1>4. ~TickHas(j)
  <2>1. \A q \in queue : q.job = j => q.from \in {"Pending", "Eligible"} /\ AsRead(j, q.from, q.attempt)
    BY DEF Rows, RowOf, TypesAndSafe, Types, TableTypes
  <2>2. \A q \in queue : q.job # j
    BY <2>1 DEF AsRead, IsTerminal, Terminal
  <2>3. \A x \in lost : x.job # j
    BY <1>1 DEF Rows, RowOf
  <2>4. QED BY <1>2, <1>3, <2>2, <2>3 DEF TickHas
<1>5. \A k \in Served : ~Due(k, j)
  BY <1>1, <1>2, <1>3 DEF Words, Word
<1>6. \A n \in Attempts : ~Live(j, n)
  BY <1>1, <1>2, <1>3 DEF Reserved, ReservedBy
<1>7. QED BY <1>2, <1>4, <1>5, <1>6

LEMMA CreateOrder ==
  ASSUME DispatchAssumption, TypesAndSafe, Orderly, NEW j \in Jobs, Create(j)
  PROVE  Orderly'
<1> USE DEF Orderly
<1>1. /\ UNCHANGED <<intent, conn, work, fleet, session, lease, lost, queue, task>>
      /\ job[j].state = "Absent" /\ job' = [job EXCEPT ![j].state = "Pending"]
  BY DEF Create, serverVars, tables, agentVars
<1>2. /\ \A i \in Jobs : i # j => job'[i] = job[i]
      /\ \A i \in Jobs : /\ job'[i].agent = job[i].agent /\ job'[i].epoch = job[i].epoch
                         /\ job'[i].attempt = job[i].attempt
  BY <1>1 DEF TypesAndSafe, Types, RowTypes
<1>3. /\ \A k \in Served : ~Due(k, j)
      /\ \A t \in Threads : ~Attends(t, j)
      /\ ~TickHas(j)
      /\ \A n \in Attempts : ~Live(j, n)
  BY <1>1, Unheard
<1>4. \A i : AllSteady /\ AllMilder(i)
  BY <1>1, SameMilder
<1>5. Linked' /\ Served' = Served
  <2>1. \A a \in Agents : \A v \in work'[a] : v \in work[a]
    BY <1>1
  <2>2. \A a \in Agents : lease'[a] = lease[a]
    BY <1>1
  <2>3. QED BY <1>1, <1>4, <2>1, <2>2, SteadyLinks
<1>6. OnRoad'
  BY <1>1, <1>2, <1>4, RoadKept
<1>7. Snapshots'
  BY <1>1, FewerSnapshots DEF Attends
<1>8. \A i \in Jobs : i # j => Untouched(i)
  BY <1>1, <1>2 DEF Untouched, Eases, Live, Attends
<1>9. /\ \A t \in Threads : ~Attends(t, j)'
      /\ \A n \in Attempts : ~Live(j, n)'
      /\ \A x \in lost' : x.job # j
      /\ \A q \in queue' : q.job # j
  BY <1>1, <1>3 DEF Attends, Live, TickHas
<1>10. job[j].attempt < MaxAttempts
  BY DEF Rows, RowOf
<1>11. Rows' /\ Reserved'
  <2>1. ASSUME NEW i \in Jobs
        PROVE  RowOf(i)' /\ ReservedBy(i)'
    <3>1. CASE i = j
      <4>1. RowOf(j)'
        BY <1>2, <1>9, <1>10 DEF RowOf
      <4>2. ReservedBy(j)'
        BY <1>9 DEF ReservedBy
      <4>3. QED BY <3>1, <4>1, <4>2
    <3>2. CASE i # j
      BY <1>8, <3>2, UntouchedRow DEF Rows, Reserved
    <3>3. QED BY <3>1, <3>2
  <2>2. QED BY <2>1 DEF Rows, Reserved
<1>12. ASSUME NEW k \in Served, NEW i \in Jobs
       PROVE  Word(k, i)'
  <2>1. k \in DOMAIN conn
    BY DEF Served
  <2>2. Word(k, i) /\ SameOwner(k) /\ Milder(k, i)
    BY <1>4, <2>1 DEF Words, AllSteady, Steady, SameOwner, AllMilder
  <2>3. Encodes(k, i)' \subseteq Encodes(k, i)
    BY <1>1, <1>4, <2>1, SameEncodes
  <2>4. Attends(k, i)' = Attends(k, i)
    BY <1>1 DEF Attends
  <2>5. CASE i = j
    BY <1>3, <2>2, <2>3, <2>4, <2>5, WordThins
  <2>6. CASE i # j
    BY <1>8, <2>2, <2>3, <2>6, UntouchedWord
  <2>7. QED BY <2>5, <2>6
<1>13. Words'
  BY <1>5, <1>12 DEF Words
<1>14. QED BY <1>5, <1>6, <1>7, <1>11, <1>13

(* Nothing but the row of one job changes, and it eases.                   *)
LEMMA RowOrder ==
  ASSUME DispatchAssumption, TypesAndSafe, Orderly, \A j \in Jobs : Eases(j),
         UNCHANGED <<intent, conn, work, fleet, session, lease, task>>,
         lost' \subseteq lost, queue' \subseteq queue
  PROVE  Orderly'
<1>1. \A j : AllSteady /\ AllMilder(j)
  BY SameMilder
<1>2. \A j \in Jobs : Untouched(j)
  BY DEF Untouched, Live, Attends
<1>3. QED BY <1>1, <1>2, QuietOrder

LEMMA EnvironmentOrder ==
  ASSUME DispatchAssumption, Calm, TypesAndSafe, TypesAndSafe', Orderly, Environment
  PROVE  Orderly'
<1>1. ~ServerRestart /\ \A a \in Agents : ~LeaseLapses(a)
  BY Unfailing DEF ServerRestart, LeaseLapses
<1>2. ASSUME NEW j \in Jobs, Cancel(j)
      PROVE  Orderly'
  <2>1. /\ UNCHANGED <<intent, conn, work, fleet, session, lease, task, lost, queue>>
        /\ job' = [job EXCEPT ![j].state = "Cancelled"]
    BY <1>2 DEF Cancel, Move, serverVars, tables, agentVars
  <2>2. \A i \in Jobs : Eases(i)
    BY <2>1 DEF Eases, IsTerminal, Terminal, TypesAndSafe, Types, RowTypes
  <2>3. QED BY <2>1, <2>2, RowOrder
<1>3. QED BY <1>1, <1>2, CreateOrder, BreakOrder DEF Environment

-----------------------------------------------------------------------------
(* The tick.                                                               *)

(* The tick takes or drops a snapshot, and has no job in hand.             *)
LEMMA SurveyOrder ==
  ASSUME DispatchAssumption, TypesAndSafe, Orderly, Others(0),
         task[0].pc \notin Attending, task'[0].pc \notin Attending,
         UNCHANGED <<job, conn, work, fleet, session, lease>>,
         \A j \in Jobs, n \in Attempts : Live(j, n)' => Live(j, n),
         Snapshots',
         \A j \in Jobs : (\E x \in lost' : x.job = j) =>
           Under(j) /\ \A k \in Served : ~Due(k, j),
         \A j \in Jobs : \A q \in queue' : q.job = j =>
           AsRead(j, q.from, q.attempt) /\ \A k \in Served : ~Due(k, j)
  PROVE  Orderly'
<1> USE DEF Orderly
<1>1. \A j : AllSteady /\ AllMilder(j)
  BY SameMilder
<1>2. 0 \in Threads /\ \A k \in Streams : k \in Threads /\ k # 0
  BY DEF Streams, Threads, DispatchAssumption
<1>3. /\ \A k \in Streams : task'[k] = task[k]
      /\ \A j : ~Attends(0, j) /\ ~Attends(0, j)'
  BY <1>2 DEF Others, Attends
<1>4. Linked' /\ Served' = Served
  <2>1. \A a \in Agents : \A v \in work'[a] : v \in work[a]
    OBVIOUS
  <2>2. \A a \in Agents : lease'[a] = lease[a]
    OBVIOUS
  <2>3. QED BY <1>1, <1>3, <2>1, <2>2, SteadyLinks
<1>5. OnRoad'
  BY DEF OnRoad, Attending
<1>6. \A j : Under(j)' = Under(j) /\ \A s, n : AsRead(j, s, n)' = AsRead(j, s, n)
  BY DEF Under, Held, AsRead
<1>7. \A t \in Threads, j \in Jobs : Attends(t, j)' => Attends(t, j) /\ task'[t] = task[t]
  BY <1>3 DEF Attends, Others
<1>8. ASSUME NEW j \in Jobs
      PROVE  RowOf(j)' /\ ReservedBy(j)'
  <2>1. \A t \in Threads : Attends(t, j)' => InTask(j, task[t])'
    BY <1>6, <1>7 DEF Rows, RowOf, InTask
  <2>2. RowOf(j)'
    BY <1>6, <2>1 DEF Rows, RowOf
  <2>3. ReservedBy(j)'
    BY <1>3, <1>6, <1>7 DEF Reserved, ReservedBy
  <2>4. QED BY <2>2, <2>3
<1>9. Rows' /\ Reserved'
  BY <1>8 DEF Rows, Reserved
<1>10. ASSUME NEW k \in Served, NEW j \in Jobs
       PROVE  Word(k, j)'
  <2>1. k \in DOMAIN conn /\ k \in Streams
    BY StreamNumbers DEF Served
  <2>2. Word(k, j) /\ SameOwner(k) /\ Milder(k, j)
    BY <1>1, <2>1 DEF Words, AllSteady, Steady, SameOwner, AllMilder
  <2>3. Encodes(k, j)' \subseteq Encodes(k, j)
    BY <1>1, <2>1, SameEncodes
  <2>4. Due(k, j) => RowHolds(k, j)
    BY <1>3, <1>6 DEF RowHolds, TickHas
  <2>5. QED BY <1>2, <1>7, <2>1, <2>2, <2>3, <2>4, WordThins
<1>11. Words'
  BY <1>4, <1>10 DEF Words
<1>12. QED BY <1>4, <1>5, <1>9, <1>11

(* A job there is a word of has not been deserted, and is not queued.      *)
LEMMA DueIsKept ==
  ASSUME DispatchAssumption, TypesAndSafe, Orderly, NEW k \in Served, NEW j \in Jobs, Due(k, j)
  PROVE  ~Deserted(j) /\ job[j].state \notin {"Pending", "Eligible"}
<1> USE DEF Orderly
<1>1. k \in Streams /\ k # 0 /\ k \in Threads /\ conn[k].agent \in Agents
  BY StreamNumbers DEF Served, Streams, Threads, DispatchAssumption
<1>2. GivenTo(j, k) /\ (Under(j) \/ Attends(k, j))
  BY DEF Words, Word
<1>3. ~Deserted(j)
  <2>1. fleet[conn[k].agent] = k
    BY DEF Linked, Served
  <2>2. lease[conn[k].agent] /\ conn[k].agent # Nobody
    BY <1>1, <2>1 DEF Linked, DispatchAssumption
  <2>3. job[j].agent = conn[k].agent
    BY <1>2 DEF GivenTo
  <2>4. QED BY <1>1, <2>1, <2>2, <2>3 DEF Deserted, Connected
<1>4. Attends(k, j) => Under(j) \/ job[j].state = "Retrying"
  <2>1. task[k].pc \notin Placing
    BY <1>1 DEF TypesAndSafe, Types, TaskTypes, HandlerTasks, Idle, Placing
  <2>2. Attends(k, j) => task[k].pc \in Settling \cup {"start", "accept"}
    BY <2>1 DEF Attends, Attending
  <2>3. QED BY <1>1, <2>2 DEF Rows, RowOf, InTask
<1>5. QED
  BY <1>2, <1>3, <1>4 DEF Under, Held, HoldsCapacity, IsTerminal, Terminal

LEMMA SweepOrder ==
  ASSUME DispatchAssumption, Calm, TypesAndSafe, Orderly, TickReconcile \/ Sweep \/ EndTick
  PROVE  Orderly'
<1>0. 0 \in Threads /\ DOMAIN task = Threads /\ IntentTypes
  BY DEF Threads, DispatchAssumption, TypesAndSafe, Types, TaskTypes, RowTypes, IntentTypes
<1>1. /\ UNCHANGED <<job, conn, work, fleet, session, lease>>
      /\ task[0].pc \in {"idle", "reconcile", "dispatch"}
  BY DEF TickReconcile, Sweep, EndTick, storeVars, agentVars, At
<1>2. PICK pc \in {"idle", "reconcile", "dispatch"} : task' = [task EXCEPT ![0] = [pc |-> pc]]
  BY DEF TickReconcile, Sweep, EndTick, Idle
<1>3. Others(0) /\ task'[0].pc = pc
  BY <1>0, <1>2 DEF Others
<1>4. task[0].pc \notin Attending /\ task'[0].pc \notin Attending
  BY <1>1, <1>3 DEF Attending, Settling, Placing
<1>5. \A j : ~Attends(0, j)'
  BY <1>4 DEF Attends
<1>6. CASE TickReconcile
  <2>1. /\ lost' = {[job |-> j, from |-> job[j].state] :
                      j \in {i \in Jobs : Held(i) /\ Deserted(i)}}
        /\ queue = {} /\ queue' = {} /\ UNCHANGED intent
    BY <1>6 DEF TickReconcile, At, Orderly, Snapshots, storeVars
  <2>2. \A x \in lost' : Held(x.job) /\ Deserted(x.job) /\ x.from = job[x.job].state
    BY <2>1
  <2>3. \A x, y \in lost' : x.job = y.job => x = y
    BY <2>1
  <2>4. Snapshots'
    BY <1>5, <2>1, <2>3 DEF Snapshots
  <2>5. \A j \in Jobs : (\E x \in lost' : x.job = j) =>
          Under(j) /\ \A k \in Served : ~Due(k, j)
    BY <2>2, DueIsKept DEF Under
  <2>6. \A j \in Jobs, n \in Attempts : Live(j, n)' => Live(j, n)
    BY <2>1 DEF Live
  <2>7. QED BY <1>1, <1>3, <1>4, <2>1, <2>4, <2>5, <2>6, SurveyOrder
<1>7. CASE Sweep
  <2>1. /\ queue' = {[job |-> j, from |-> job[j].state, attempt |-> job[j].attempt] :
                       j \in {i \in Jobs : job[i].state \in {"Pending", "Eligible"}}}
        /\ lost = {} /\ lost' = {}
        /\ task' = [task EXCEPT ![0] = [pc |-> "dispatch"]]
    BY <1>7 DEF Sweep
  <2>2. \A q \in queue' : /\ job[q.job].state \in {"Pending", "Eligible"}
                          /\ q.from = job[q.job].state /\ q.attempt = job[q.job].attempt
    BY <2>1
  <2>3. \A x, y \in queue' : x.job = y.job => x = y
    BY <2>1
  <2>4. task'[0].pc = "dispatch"
    BY <1>0, <2>1
  <2>5. Snapshots'
    BY <1>5, <2>1, <2>3, <2>4 DEF Snapshots
  <2>6. \A j \in Jobs : \A q \in queue' : q.job = j =>
          AsRead(j, q.from, q.attempt) /\ \A k \in Served : ~Due(k, j)
    BY <2>2, DueIsKept DEF AsRead
  <2>7. \A j \in Jobs, n \in Attempts : Live(j, n)' => Live(j, n)
    <3>1. CASE UNCHANGED intent
      BY <3>1 DEF Live
    <3>2. CASE intent' = [i \in DOMAIN intent |->
                            IF Stranded(i[1], i[2])
                            THEN [intent[i] EXCEPT !.state = "resolved"] ELSE intent[i]]
      <4>1. ASSUME NEW j \in Jobs, NEW n \in Attempts
            PROVE  intent'[<<j, n>>].state \in {"resolved", intent[<<j, n>>].state}
        BY <1>0, <3>2 DEF IntentTypes
      <4>2. QED BY <4>1 DEF Live
    <3>3. QED BY <1>7, <3>1, <3>2 DEF Sweep
  <2>8. QED BY <1>1, <1>3, <1>4, <2>1, <2>5, <2>6, <2>7, SurveyOrder
<1>8. CASE EndTick
  <2>1. UNCHANGED <<lost, queue, intent>> /\ queue = {}
    BY <1>8 DEF EndTick, storeVars
  <2>2. Snapshots'
    BY <1>5, <2>1 DEF Snapshots, Orderly
  <2>3. \A j \in Jobs : (\E x \in lost' : x.job = j) =>
          Under(j) /\ \A k \in Served : ~Due(k, j)
    BY <2>1, Alone DEF Orderly, Rows, RowOf, TickHas
  <2>4. \A j \in Jobs, n \in Attempts : Live(j, n)' => Live(j, n)
    BY <2>1 DEF Live
  <2>5. QED BY <1>1, <1>3, <1>4, <2>1, <2>2, <2>3, <2>4, SurveyOrder
<1>9. QED BY <1>6, <1>7, <1>8

LEMMA EscalateOrder ==
  ASSUME DispatchAssumption, TypesAndSafe, Orderly,
         (\E x \in lost : Escalate(x)) \/ (\E q \in queue : Blocked(q))
  PROVE  Orderly'
<1>1. /\ UNCHANGED <<intent, conn, work, fleet, session, lease, task>>
      /\ lost' \subseteq lost /\ queue' \subseteq queue
  BY DEF Escalate, Blocked, agentVars, storeVars
<1>2. \A j \in Jobs : Eases(j)
  <2>1. CASE UNCHANGED job
    BY <2>1 DEF Eases
  <2>2. ASSUME NEW x \in lost, job[x.job].state = "Committing", Move(x.job, "NeedsOperator"),
               NEW j \in Jobs
        PROVE  Eases(j)
    <3>1. JobTypes /\ x.job \in Jobs
      BY DEF TypesAndSafe, Types, RowTypes, TableTypes, JobTypes
    <3>2. HoldsCapacity("Committing") /\ IsTerminal("NeedsOperator")
      BY DEF HoldsCapacity, IsTerminal, Terminal
    <3>3. QED BY <2>2, <3>1, <3>2, MoveEases
  <2>3. QED BY <2>1, <2>2 DEF Escalate, Blocked, CanMove, storeVars
<1>3. QED BY <1>1, <1>2, RowOrder

(* The tick takes up a job of a snapshot.                                  *)
LEMMA TakeUpOrder ==
  ASSUME DispatchAssumption, TypesAndSafe, Orderly, NEW j \in Jobs, TickHas(j), Others(0),
         task[0].pc \notin Attending,
         task'[0].job = j, task'[0].pc \in {"release", "grant"},
         UNCHANGED <<job, intent, conn, work, fleet, session, lease>>,
         lost' \subseteq lost, queue' \subseteq queue,
         \A x \in lost' : x.job # j, \A q \in queue' : q.job # j,
         InTask(j, task[0])', OnRoad'
  PROVE  Orderly'
<1> USE DEF Orderly
<1>1. \A i : AllSteady /\ AllMilder(i)
  BY SameMilder
<1>2. 0 \in Threads /\ \A k \in Served : k \in Threads /\ k # 0
  BY StreamNumbers DEF Served, Streams, Threads, DispatchAssumption
<1>3. /\ \A k \in Served : ~Due(k, j)
      /\ \A u \in Threads : u # 0 => task'[u] = task[u] /\ ~Attends(u, j)
  BY Alone DEF Others
<1>4. \A i : ~Attends(0, i) /\ (i # j => ~Attends(0, i)')
  BY DEF Attends
<1>5. \A i \in Jobs, n \in Attempts : Live(i, n)' = Live(i, n)
  BY DEF Live
<1>6. \A n \in Attempts : Live(j, n)' =>
        /\ n = job'[j].attempt /\ Under(j)'
        /\ ~(Attends(0, j)' /\ task'[0].pc \in {"retry", "bump", "queue", "bury"})
  BY <1>4, <1>5 DEF Reserved, ReservedBy, Under, Held
<1>7. job'[j].attempt < MaxAttempts
  BY DEF Rows, RowOf
<1>8. \A k \in Served : Word(k, j)'
  BY <1>1, <1>2, <1>3, SoleWords
<1>9. Snapshots'
  <2>1. (queue = {} => queue' = {}) /\ (lost = {} => lost' = {})
    OBVIOUS
  <2>2. \A i \in Jobs : Attends(0, i)' => i = j
    BY <1>4
  <2>3. QED BY <2>1, <2>2 DEF Snapshots
<1>10. QED
  BY <1>1, <1>2, <1>3, <1>4, <1>5, <1>6, <1>7, <1>8, <1>9, StepOrder

LEMMA ReclaimOrder ==
  ASSUME DispatchAssumption, TypesAndSafe, Orderly, NEW x \in lost, Reclaim(x)
  PROVE  Orderly'
<1>0. 0 \in Threads /\ DOMAIN task = Threads
  BY DEF Threads, DispatchAssumption, TypesAndSafe, Types, TaskTypes
<1>1. PICK j \in Jobs : j = x.job
  BY DEF TypesAndSafe, Types, TableTypes
<1>2. /\ UNCHANGED <<job, intent, conn, work, fleet, session, lease, queue>>
      /\ task[0].pc = "reconcile" /\ lost' = lost \ {x}
      /\ task' = [task EXCEPT ![0] = [pc |-> "release", job |-> j, attempt |-> job[j].attempt,
                                      from |-> x.from, back |-> "reconcile"]]
  BY <1>1 DEF Reclaim, At, BeginRequeue, storeVars, agentVars
<1>3. /\ Others(0) /\ task'[0].pc = "release" /\ task'[0].job = j
      /\ task'[0].attempt = job[j].attempt
  BY <1>0, <1>2 DEF Others
<1>4. Under(j) /\ TickHas(j)
  BY <1>1 DEF Orderly, Rows, RowOf, TickHas
<1>5. (\A y \in lost' : y.job # j) /\ (\A q \in queue' : q.job # j)
  BY <1>1, <1>2 DEF Orderly, Snapshots
<1>6. InTask(j, task[0])'
  BY <1>2, <1>3, <1>4 DEF InTask, Under, Held, Settling
<1>7. OnRoad' /\ task[0].pc \notin Attending
  BY <1>2, <1>3 DEF OnRoad, Placing, Attending, Settling
<1>8. QED BY <1>2, <1>3, <1>4, <1>5, <1>6, <1>7, TakeUpOrder

LEMMA StartOrder ==
  ASSUME DispatchAssumption, TypesAndSafe, Orderly, NEW q \in queue, NEW a \in willing,
         PlaceStart(q, a)
  PROVE  Orderly'
<1>0. 0 \in Threads /\ DOMAIN task = Threads
  BY DEF Threads, DispatchAssumption, TypesAndSafe, Types, TaskTypes
<1>1. PICK j \in Jobs : j = q.job
  BY DEF TypesAndSafe, Types, TableTypes
<1>2. /\ UNCHANGED <<job, intent, conn, work, fleet, session, lease, lost>>
      /\ task[0].pc = "dispatch" /\ queue' = queue \ {q}
      /\ task' = [task EXCEPT ![0] =
                    [pc |-> "grant", job |-> j, agent |-> a, from |-> q.from,
                     attempt |-> q.attempt, epoch |-> conn[fleet[a]].epoch,
                     back |-> "dispatch"]]
  BY <1>1 DEF PlaceStart, At, storeVars, agentVars
<1>3. /\ Others(0) /\ task'[0].pc = "grant" /\ task'[0].job = j /\ task'[0].agent = a
      /\ task'[0].attempt = q.attempt /\ task'[0].from = q.from
      /\ task'[0].epoch = conn[fleet[a]].epoch
  BY <1>0, <1>2 DEF Others
<1>4. AsRead(j, q.from, q.attempt) /\ TickHas(j)
  BY <1>1 DEF Orderly, Rows, RowOf, TickHas
<1>5. (\A x \in lost' : x.job # j) /\ (\A y \in queue' : y.job # j)
  BY <1>1, <1>2 DEF Orderly, Snapshots
<1>6. InTask(j, task[0])'
  BY <1>2, <1>3, <1>4 DEF InTask, AsRead, Settling
<1>7. OnRoad' /\ task[0].pc \notin Attending
  BY <1>2, <1>3 DEF OnRoad, Placing, Attending, Settling
<1>8. QED BY <1>2, <1>3, <1>4, <1>5, <1>6, <1>7, TakeUpOrder

LEMMA PlacingGoes ==
  ASSUME DispatchAssumption, TaskTypes, task[0].pc \in Placing
  PROVE  /\ \A pc : Then(0, pc) => /\ Others(0) /\ Onward(0, pc)
                                   /\ task'[0].agent = task[0].agent
                                   /\ task'[0].epoch = task[0].epoch
         /\ Finish(0) => Others(0) /\ Over(0)
<1>1. task[0] \in [pc : {"grant", "eligible", "assign", "send"}, job : Jobs,
        agent : Agents, from : {"Pending", "Eligible"}, attempt : Nat, epoch : Nat,
        back : {"dispatch"}]
  BY DEF TaskTypes, OrchestratorTasks, Placing
<1>2. DOMAIN task = Threads /\ 0 \in Threads
  BY DEF TaskTypes, Threads, DispatchAssumption
<1>3. ASSUME NEW pc, Then(0, pc)
      PROVE  /\ Others(0) /\ Onward(0, pc)
             /\ task'[0].agent = task[0].agent /\ task'[0].epoch = task[0].epoch
  <2>1. task' = [task EXCEPT ![0] = [task[0] EXCEPT !.pc = pc]]
    BY <1>3 DEF Then
  <2>2. task'[0] = [task[0] EXCEPT !.pc = pc] /\ Others(0)
    BY <1>2, <2>1 DEF Others
  <2>3. QED BY <1>1, <2>2 DEF Onward
<1>4. ASSUME Finish(0)
      PROVE  Others(0) /\ Over(0)
  BY <1>1, <1>2, <1>4 DEF Finish, Others, Over
<1>5. QED BY <1>3, <1>4

(* The first three steps of place.                                         *)
LEMMA PlaceOrder ==
  ASSUME DispatchAssumption, Calm, TypesAndSafe, Orderly,
         PlaceGrant \/ PlaceEligible \/ PlaceAssign
  PROVE  Orderly'
<1>0. /\ TaskTypes /\ JobTypes /\ IntentTypes /\ 0 \in Threads
  BY DEF TypesAndSafe, Types, RowTypes, JobTypes, IntentTypes, Threads, DispatchAssumption
<1>1. task[0].pc \in {"grant", "eligible", "assign"}
  BY DEF PlaceGrant, PlaceEligible, PlaceAssign, At
<1>2. PICK j \in Jobs : j = task[0].job
  BY <1>0, <1>1, PlacingTypes DEF Placing
<1>3. Attends(0, j) /\ task[0].pc \in Placing
  BY <1>1, <1>2 DEF Attends, Attending, Placing
<1>4. UNCHANGED <<conn, work, fleet, session, lease, lost, queue>>
  BY DEF PlaceGrant, PlaceEligible, PlaceAssign, OnlyJobs, OnlyIntents, agentVars, tables
<1>5. InTask(j, task[0]) /\ job[j].attempt < MaxAttempts
  BY <1>0, <1>3, Sole
<1>6. \A n \in Attempts : Live(j, n) =>
        n = job[j].attempt /\ (Under(j) \/ task[0].pc \in {"eligible", "assign"})
  BY DEF Orderly, Reserved, ReservedBy
<1>7. \A guard \in BOOLEAN : Refused(guard) => ~guard
  BY Unfailing
<1>8. /\ \A pc : Then(0, pc) => /\ Others(0) /\ Onward(0, pc)
                                /\ task'[0].agent = task[0].agent
                                /\ task'[0].epoch = task[0].epoch
      /\ Finish(0) => Others(0) /\ Over(0)
  BY <1>0, <1>3, PlacingGoes
(* Refused: the job is over, though the tick did not know.                 *)
<1>9. ASSUME UNCHANGED <<job, intent>>, Finish(0),
             Under(j) \/ \A n \in Attempts : ~Live(j, n)
      PROVE  Orderly'
  <2>1. Others(0) /\ Over(0) /\ ~Attends(0, j)' /\ OnRoad'
    BY <1>8, <1>9 DEF Over, Attends, Attending, Settling, Placing, OnRoad
  <2>2. \A i \in Jobs, n \in Attempts : Live(i, n)' = Live(i, n)
    BY <1>9 DEF Live
  <2>3. Under(j)' = Under(j)
    BY <1>9 DEF Under, Held
  <2>4. \A n \in Attempts : Live(j, n)' => n = job'[j].attempt /\ Under(j)'
    BY <1>6, <1>9, <2>2, <2>3
  <2>5. QED BY <1>0, <1>3, <1>4, <1>5, <1>9, <2>1, <2>2, <2>4, SoleOrder
<1>10. CASE PlaceGrant
  <2>1. task[0].pc = "grant" /\ UNCHANGED job /\ AsRead(j, task[0].from, task[0].attempt)
    BY <1>5, <1>10 DEF PlaceGrant, At, OnlyIntents, InTask
  <2>2. CASE /\ CanGrant(j, task[0].attempt)
             /\ intent' = [intent EXCEPT ![<<j, task[0].attempt>>] =
                             [state |-> "live", agent |-> task[0].agent, epoch |-> task[0].epoch]]
             /\ Then(0, IF task[0].from = "Pending" THEN "eligible" ELSE "assign")
    <3>1. PICK pc \in {"eligible", "assign"} :
                 /\ Others(0) /\ Onward(0, pc)
                 /\ task'[0].agent = task[0].agent /\ task'[0].epoch = task[0].epoch
                 /\ task[0].from = IF pc = "eligible" THEN "Pending" ELSE "Eligible"
      BY <1>0, <1>3, <1>8, <2>2, PlacingTypes
    <3>2. ASSUME NEW i \in Jobs, NEW n \in Attempts, Live(i, n)'
          PROVE  Live(i, n) \/ (i = j /\ n = task[0].attempt)
      <4>1. CASE i = j /\ n = task[0].attempt
        BY <4>1
      <4>2. CASE ~(i = j /\ n = task[0].attempt)
        <5>1. intent'[<<i, n>>] = intent[<<i, n>>]
          BY <1>0, <2>2, <4>2 DEF IntentTypes
        <5>2. QED BY <3>2, <5>1 DEF Live
      <4>3. QED BY <4>1, <4>2
    <3>3. \A n \in Attempts : ~Live(j, n)
      BY <2>2 DEF CanGrant
    <3>4. task[0].attempt = job'[j].attempt /\ task'[0].job = j /\ task'[0].pc = pc
      BY <1>2, <2>1, <3>1 DEF AsRead, Onward
    <3>5. InTask(j, task[0])'
      BY <2>1, <3>1, <3>4 DEF InTask, AsRead, Onward, Settling
    <3>6. OnRoad'
      BY <1>3, <1>4, <3>1, <3>4 DEF OnRoad, Orderly
    <3>7. Attends(0, j)'
      BY <3>4 DEF Attends, Attending, Placing
    <3>8. QED
      BY <1>0, <1>3, <1>4, <1>5, <2>1, <3>1, <3>2, <3>3, <3>4, <3>5, <3>6, <3>7, SoleOrder
  <2>3. CASE UNCHANGED intent /\ Finish(0)
    BY <1>6, <1>9, <2>1, <2>3
  <2>4. QED BY <1>2, <1>10, <2>2, <2>3 DEF PlaceGrant
<1>11. CASE PlaceEligible
  <2>1. task[0].pc = "eligible" /\ UNCHANGED intent /\ AsRead(j, "Pending", task[0].attempt)
    BY <1>5, <1>11 DEF PlaceEligible, At, OnlyJobs, InTask
  <2>2. CASE Move(j, "Eligible") /\ Then(0, "assign")
    <3>1. /\ Others(0) /\ Onward(0, "assign")
          /\ task'[0].agent = task[0].agent /\ task'[0].epoch = task[0].epoch
      BY <1>8, <2>2
    <3>2. /\ \A i \in Jobs : i # j => job'[i] = job[i]
          /\ job'[j].state = "Eligible" /\ job'[j].attempt = job[j].attempt
      BY <1>0, <2>2 DEF Move, JobTypes
    <3>3. task'[0].job = j /\ task'[0].pc = "assign" /\ task'[0].attempt = job[j].attempt
      BY <1>2, <2>1, <3>1 DEF AsRead, Onward
    <3>4. InTask(j, task[0])' /\ Attends(0, j)'
      BY <3>2, <3>3 DEF InTask, AsRead, Settling, Attends, Attending, Placing
    <3>5. OnRoad'
      BY <1>3, <1>4, <3>1, <3>3 DEF OnRoad, Orderly
    <3>6. \A i \in Jobs, n \in Attempts : Live(i, n)' = Live(i, n)
      BY <2>1 DEF Live
    <3>7. QED
      BY <1>0, <1>3, <1>4, <1>5, <1>6, <3>1, <3>2, <3>3, <3>4, <3>5, <3>6, SoleOrder
  <2>3. CASE Refused(CanMove(j, "Pending", "Eligible")) /\ UNCHANGED job /\ Finish(0)
    <3>1. CanMove(j, "Pending", "Eligible") \in BOOLEAN
      BY DEF CanMove, CanTransition
    <3>2. ~CanMove(j, "Pending", "Eligible")
      BY <1>7, <2>3, <3>1
    <3>3. CanTransition("Pending", "Eligible")
      BY DEF CanTransition, IsTerminal, Terminal
    <3>4. Under(j)
      BY <2>1, <3>2, <3>3 DEF CanMove, AsRead, Under
    <3>5. QED BY <1>9, <2>1, <2>3, <3>4
  <2>4. QED BY <1>2, <1>11, <2>2, <2>3 DEF PlaceEligible
<1>12. CASE PlaceAssign
  <2>1. task[0].pc = "assign" /\ UNCHANGED intent /\ AsRead(j, "Eligible", task[0].attempt)
    BY <1>5, <1>12 DEF PlaceAssign, At, OnlyJobs, InTask
  <2>2. CASE /\ job' = [job EXCEPT ![j].state = "Assigned", ![j].agent = task[0].agent,
                                   ![j].epoch = task[0].epoch]
             /\ Then(0, "send")
    <3>1. /\ Others(0) /\ Onward(0, "send")
          /\ task'[0].agent = task[0].agent /\ task'[0].epoch = task[0].epoch
      BY <1>8, <2>2
    <3>2. /\ \A i \in Jobs : i # j => job'[i] = job[i]
          /\ job'[j].state = "Assigned" /\ job'[j].attempt = job[j].attempt
          /\ job'[j].agent = task[0].agent /\ job'[j].epoch = task[0].epoch
      BY <1>0, <2>2 DEF JobTypes
    <3>3. task'[0].job = j /\ task'[0].pc = "send" /\ task'[0].attempt = job[j].attempt
      BY <1>2, <2>1, <3>1 DEF AsRead, Onward
    <3>4. Under(j)'
      BY <3>2 DEF Under, Held, HoldsCapacity
    <3>5. InTask(j, task[0])'
      BY <3>2, <3>3, <3>4 DEF InTask, Settling
    <3>6. OnRoad'
      BY <1>3, <1>4, <3>1, <3>2, <3>3 DEF OnRoad, Orderly
    <3>7. \A i \in Jobs, n \in Attempts : Live(i, n)' = Live(i, n)
      BY <2>1 DEF Live
    <3>8. QED
      BY <1>0, <1>3, <1>4, <1>5, <1>6, <3>1, <3>2, <3>3, <3>4, <3>5, <3>6, <3>7, SoleOrder
  <2>3. CASE Refused(job[j].state = "Eligible") /\ UNCHANGED job /\ Finish(0)
    <3>1. job[j].state # "Eligible"
      BY <1>7, <2>3
    <3>2. Under(j)
      BY <2>1, <3>1 DEF AsRead, Under
    <3>3. QED BY <1>9, <2>1, <2>3, <3>2
  <2>4. QED BY <1>2, <1>12, <2>2, <2>3 DEF PlaceAssign
<1>13. QED BY <1>10, <1>11, <1>12

(* An assignment that is sent is the job's first word.                     *)
LEMMA SendOrder ==
  ASSUME DispatchAssumption, TypesAndSafe, Orderly, PlaceSend
  PROVE  Orderly'
<1> USE DEF Orderly
<1>0. /\ TaskTypes /\ JobTypes /\ conn \in Seq(Conns) /\ 0 \in Threads
      /\ DOMAIN task = Threads /\ task[0].pc = "send" /\ task[0].pc \in Placing
  BY DEF TypesAndSafe, Types, RowTypes, JobTypes, ConnTypes, TaskTypes, Threads,
         DispatchAssumption, PlaceSend, At, Placing
<1>1. PICK j \in Jobs, a \in Agents : j = task[0].job /\ a = task[0].agent
  BY <1>0, PlacingTypes
<1>2. Attends(0, j)
  BY <1>0, <1>1 DEF Attends, Attending
<1>3. UNCHANGED <<job, intent, work, fleet, session, lease, lost, queue>>
  BY DEF PlaceSend, storeVars, agentVars, tables
<1>4. /\ InTask(j, task[0]) /\ job[j].attempt < MaxAttempts
      /\ \A k \in Served : ~Due(k, j)
      /\ \A u \in Threads : u # 0 => ~Attends(u, j)
      /\ (\A x \in lost : x.job # j) /\ (\A q \in queue : q.job # j)
      /\ \A i \in Jobs : i # j => ~Attends(0, i)
  BY <1>0, <1>2, Sole, StreamNumbers DEF Served, Streams
<1>5. Under(j)
  BY <1>0, <1>4 DEF InTask
<1>6. \A i \in Jobs, n \in Attempts : Live(i, n)' = Live(i, n)
  BY <1>3 DEF Live
<1>7. Under(j)' = Under(j)
  BY <1>3 DEF Under, Held
<1>8. \A n \in Attempts : Live(j, n)' => n = job'[j].attempt /\ Under(j)'
  BY <1>3, <1>5, <1>6, <1>7 DEF Reserved, ReservedBy
<1>9. CASE BeginRequeue(j, "Assigned", "dispatch") /\ UNCHANGED conn
  <2>1. task' = [task EXCEPT ![0] = [pc |-> "release", job |-> j, attempt |-> job[j].attempt,
                                     from |-> "Assigned", back |-> "dispatch"]]
    BY <1>9 DEF BeginRequeue
  <2>2. /\ Others(0) /\ task'[0].pc = "release" /\ task'[0].job = j
        /\ task'[0].attempt = job[j].attempt
    BY <1>0, <2>1 DEF Others
  <2>3. InTask(j, task[0])' /\ OnRoad'
    BY <1>3, <1>5, <1>7, <2>2 DEF InTask, Settling, OnRoad, Placing
  <2>4. QED
    BY <1>0, <1>2, <1>3, <1>4, <1>6, <1>8, <1>9, <2>2, <2>3, SoleOrder
<1>10. CASE /\ Connected(a) /\ Finish(0)
            /\ Send(a, [kind |-> "assign", job |-> j, attempt |-> task[0].attempt])
  <2> DEFINE m == [kind |-> "assign", job |-> j, attempt |-> task[0].attempt]
  <2>1. m \in DownMessages /\ Send(a, m) /\ \A i : i # j => ~IsWord(m, i)
    BY <1>0, <1>10, PlacingTypes DEF DownMessages, IsWord
  <2> HIDE DEF m
  <2>2. ASSUME NEW i
        PROVE  /\ AllSteady /\ (i # j => AllMilder(i))
               /\ \A k \in DOMAIN conn :
                    /\ conn'[k].up = conn[k].up
                    /\ k # fleet[a] => conn'[k].down = conn[k].down
                    /\ ~Says(conn[k].down, i) => SaysOnce(conn'[k].down, i)
    BY <1>0, <2>1, SendsWord
  <2>3. Others(0) /\ Over(0)
    BY <1>0, <1>10, PlacingGoes
  <2>4. \A u \in Threads : u # 0 => task'[u] = task[u]
    BY <2>3 DEF Others
  <2>5. \A i \in Jobs : ~Attends(0, i)'
    BY <2>3 DEF Over, Attends, Attending, Settling, Placing
  <2>6. ~TickHas(j)'
    BY <1>3, <1>4, <2>5 DEF TickHas
  <2>7. ASSUME NEW k \in Served
        PROVE  Word(k, j)'
    <3>1. k \in DOMAIN conn /\ k \in Threads /\ k # 0
      BY StreamNumbers DEF Served, Streams, Threads, DispatchAssumption
    <3>2. Word(k, j) /\ SameOwner(k) /\ ~Due(k, j)
      BY <1>4, <2>2, <3>1 DEF Words, AllSteady, Steady, SameOwner
    <3>3. Encodes(k, j)' \subseteq Encodes(k, j)
      BY <1>3, <2>2, <3>1, SameEncodes
    <3>4. Attends(k, j)' = Attends(k, j)
      BY <2>4, <3>1 DEF Attends
    <3>5. CASE k # fleet[a]
      <4>1. Milder(k, j)
        BY <2>2, <3>1, <3>5, SparserSame DEF Milder
      <4>2. QED BY <3>2, <3>3, <3>4, <4>1, WordThins
    <3>6. CASE k = fleet[a]
      <4>1. /\ ~Says(conn'[k].up, j) /\ Encodes(k, j)' = {} /\ ~Attends(k, j)'
            /\ SaysOnce(conn'[k].down, j)
        BY <2>2, <3>1, <3>2, <3>3, <3>4 DEF Due
      <4>2. OneWord(k, j)'
        BY <4>1 DEF OneWord, Single, Says, SaysOnce
      <4>3. GivenTo(j, k)
        BY <1>0, <1>1, <3>1, <3>6 DEF OnRoad, GivenTo, Linked
      <4>4. GivenTo(j, k)'
        BY <1>3, <3>2, <4>3 DEF GivenTo, SameOwner
      <4>5. QED BY <1>5, <1>7, <2>6, <4>2, <4>4 DEF Word
    <3>7. QED BY <3>5, <3>6
  <2>8. OnRoad'
    BY <2>3 DEF Over, OnRoad, Placing
  <2>9. Snapshots'
    BY <1>3, <2>3, <2>5, FewerSnapshots DEF Over
  <2>10. AllSteady /\ \A i \in Jobs : i # j => AllMilder(i)
    BY <2>2
  <2>11. QED
    BY <1>0, <1>3, <1>4, <1>6, <1>8, <2>4, <2>5, <2>7, <2>8, <2>9, <2>10, StepOrder
<1>11. QED BY <1>1, <1>9, <1>10 DEF PlaceSend

LEMMA TickOrder ==
  ASSUME DispatchAssumption, Calm, TypesAndSafe, Orderly, Tick
  PROVE  Orderly'
  BY SweepOrder, EscalateOrder, ReclaimOrder, StartOrder, PlaceOrder, SendOrder DEF Tick

-----------------------------------------------------------------------------
LEMMA StartsOrderly ==
  ASSUME DispatchAssumption, Init
  PROVE  Orderly
<1>1. DOMAIN conn = {} /\ Served = {}
  BY DEF Init, Served
<1>2. \A t \in Threads : task[t] = Idle
  BY DEF Init
<1>3. 0 \in Threads /\ \A k \in Streams : k \in Threads
  BY DEF Streams, Threads, DispatchAssumption
<1>4. \A t \in Threads : \A j : ~Attends(t, j)
  BY <1>2 DEF Attends, Idle, Attending, Settling, Placing
<1>5. Linked
  BY <1>1, <1>2, <1>3 DEF Init, Linked
<1>6. Snapshots
  BY <1>3, <1>4 DEF Init, Snapshots
<1>7. Words
  BY <1>1 DEF Words
<1>8. OnRoad
  BY <1>2, <1>3 DEF OnRoad, Idle, Placing
<1>9. \A j \in Jobs, n \in Attempts : ~Live(j, n)
  BY DEF Init, Live
<1>10. Rows
  BY <1>4 DEF Init, Rows, RowOf, DispatchAssumption
<1>11. Reserved
  BY <1>4, <1>9 DEF Reserved, ReservedBy
<1>12. QED BY <1>5, <1>6, <1>7, <1>8, <1>10, <1>11 DEF Orderly

LEMMA StepsOrderly ==
  ASSUME DispatchAssumption, Calm, TypesAndSafe, TypesAndSafe', Orderly, [Next]_vars
  PROVE  Orderly'
<1>1. CASE UNCHANGED vars
  <2>1. UNCHANGED <<job, intent, conn, work, fleet, session, lease, task, lost, queue>>
    BY <1>1 DEF vars, storeVars, serverVars, agentVars
  <2>2. \A j \in Jobs : Eases(j)
    BY <2>1 DEF Eases
  <2>3. QED BY <2>1, <2>2, RowOrder
<1>2. CASE Next
  <2>1. CASE Tick
    BY <2>1, TickOrder
  <2>2. CASE \E t \in Threads : SettleFailure(t)
    BY <2>2, SettleOrder
  <2>3. CASE \E k \in Streams : Handle(k)
    BY <2>3, HandleOrder
  <2>4. CASE \E a \in Agents : Join(a) \/ OnHeartbeat(a) \/ Listen(a) \/ Execute(a)
    BY <2>4, JoinOrder, HeartbeatOrder, ListenOrder, ExecuteOrder
  <2>5. CASE \E a \in Agents : \E w \in work[a] : GrantTimeout(a, w)
    BY <2>5, ExecuteOrder
  <2>6. CASE Environment
    BY <2>6, EnvironmentOrder
  <2>7. QED BY <1>2, <2>1, <2>2, <2>3, <2>4, <2>5, <2>6 DEF Next
<1>3. QED BY <1>1, <1>2

(* As long as no write fails, the server does not restart, no agent is     *)
(* called absent while it is there, and none is back before its absence    *)
(* was noticed, a job that waits does not reserve its own destination,     *)
(* whatever agents, streams and operators do: orchestrator.rs:585-590.     *)
THEOREM QueuedIsFreeHolds ==
  ASSUME Calm
  PROVE  Spec => []QueuedIsFree
<1>1. TypesAndSafe /\ Orderly => QueuedIsFree
  <2> SUFFICES ASSUME TypesAndSafe, Orderly, NEW j \in Jobs,
                      job[j].state \in {"Pending", "Eligible"}, ~InHand(j)
               PROVE  \A n \in Attempts : ~Live(j, n)
    BY DEF QueuedIsFree
  <2>1. ~Under(j)
    BY DEF Under, Held, HoldsCapacity, IsTerminal, Terminal
  <2>2. ~(Attends(0, j) /\ task[0].pc \in {"eligible", "assign"})
    <3>1. SUFFICES ASSUME Attends(0, j), task[0].pc \in {"eligible", "assign"}
                   PROVE  FALSE
      OBVIOUS
    <3>2. task[0] \in [pc : {"grant", "eligible", "assign", "send"}, job : Jobs,
        agent : Agents, from : {"Pending", "Eligible"}, attempt : Nat, epoch : Nat,
        back : {"dispatch"}]
      BY <3>1 DEF TypesAndSafe, Types, TaskTypes, OrchestratorTasks
    <3>3. "job" \in DOMAIN task[0] /\ 0 \in Threads
      BY <3>2, DispatchAssumption DEF Threads
    <3>4. QED BY <3>1, <3>3 DEF InHand, Attends
  <2>3. QED BY <2>1, <2>2 DEF Orderly, Reserved, ReservedBy
<1>2. Init => Orderly
  BY StartsOrderly, DispatchAssumption
<1>3. TypesAndSafe /\ TypesAndSafe' /\ Orderly /\ [Next]_vars => Orderly'
  BY StepsOrderly, DispatchAssumption
<1>4. Spec => []TypesAndSafe
  BY SafeAlways
<1>5. QED BY <1>1, <1>2, <1>3, <1>4, PTL DEF Spec
=============================================================================
