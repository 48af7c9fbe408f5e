-------------------------- MODULE Transfer_proofs --------------------------
(***************************************************************************)
(* Proofs about Transfer for any agents, attempts, chunks, versions and    *)
(* trouble.  The inductive invariant Inv is the full types and             *)
(*   Whole  a push that has received everything holds every chunk, good;   *)
(*   Final  recording the commit takes the row out of Verifying for good,  *)
(*          so one push at most gets past the source check, and what the   *)
(*          ritual has done so far is what the row and the label say;      *)
(*   Once   an attempt is given out once, and one agent has it;            *)
(*   Reads  until a check has passed, what an attempt read lies between    *)
(*          the row it was planned from and the file as it is now; from    *)
(*          then on it is what the check saw.                              *)
(***************************************************************************)
EXTENDS Transfer, SequenceTheorems, FiniteSetTheorems, TLAPS

-----------------------------------------------------------------------------
(* The types, in full.                                                     *)

Versions == 1 .. MaxVersion
Sources == [kind : {"source"}, version : Versions]
Outputs == [kind : {"output"}, attempt : Attempts, whole : BOOLEAN]
Files == Sources \cup Outputs
Labels == {"", "installed", "source_intact", "source_restored", "needs_operator"}

(* The handler of a push that has received everything, one whose ritual     *)
(* has begun, and one that has still to speak of it.                        *)
Received == {"judge", "record", "recorded", "checked", "aside", "resolve", "conclude",
             "retain"}
Settling == {"recorded", "checked", "aside", "resolve", "conclude"}
Begun == Settling \cup {"retain"}

Work == [pc : {"assigned", "encoding", "reported", "pushing"}, attempt : Attempts,
         epoch : Nat, stream : BOOLEAN]
Fetch == [pc : {"fetching"}, attempt : Attempts, epoch : Nat, stream : BOOLEAN,
          opened : Files, read : Seq(Files)]
Pushes == [pc : {"receiving"} \cup Received, agent : Agents, epoch : Nat,
           planned : Versions, staged : Seq(BOOLEAN), sent : 0 .. Chunks,
           alone : BOOLEAN, label : Labels]

RowTypes ==
  /\ job \in [state : States, agent : Agents \cup {Nobody}, epoch : Nat, attempt : Attempts]
  /\ intent \in [Attempts -> [state : {"absent", "live", "resolved"},
                              agent : Agents \cup {Nobody}, epoch : Nat]]
  /\ epoch \in [Agents -> Nat] /\ present \subseteq Agents
  /\ results \subseteq [agent : Agents, epoch : Nat, ok : BOOLEAN]
  /\ trouble \in 0 .. MaxTrouble

MediaTypes ==
  /\ row \in Versions /\ version \in Versions /\ retained \in BOOLEAN
  /\ disk \in Files \cup {Gone} /\ trash \in Files \cup {Gone}

ExecTypes == exec \in [Agents -> Work \cup Fetch \cup {Idle}]

PushTypes ==
  /\ push \in [Attempts -> Pushes \cup {Idle}]
  /\ \A n \in Attempts : push[n] # Idle => Len(push[n].staged) <= push[n].sent

HistoryTypes ==
  /\ copy \in [Attempts -> Seq(Files)] /\ seen \subseteq Attempts
  /\ passed \subseteq [attempt : Attempts, saw : Sources]
  /\ landed \subseteq [attempt : Attempts, over : Files]

Types == RowTypes /\ MediaTypes /\ ExecTypes /\ PushTypes /\ HistoryTypes

(* What an agent has in hand, by its pc.                                    *)
LEMMA AgentHas ==
  ASSUME ExecTypes, NEW a \in Agents
  PROVE  /\ exec[a] # Idle <=> exec[a].pc # "idle"
         /\ exec[a] # Idle => /\ exec[a].attempt \in Attempts /\ exec[a].epoch \in Nat
                              /\ exec[a].stream \in BOOLEAN
         /\ exec[a].pc = "fetching" => exec[a].opened \in Files /\ exec[a].read \in Seq(Files)
         /\ \A pc \in {"assigned", "encoding", "reported", "pushing"} :
              exec[a].pc = pc => exec[a] \in Work
         /\ exec[a].pc = "fetching" => exec[a] \in Fetch
<1>1. exec[a] \in Work \cup Fetch \cup {Idle}
  BY DEF ExecTypes
<1>2. QED BY <1>1 DEF Work, Fetch, Idle

LEMMA ExecSet ==
  ASSUME ExecTypes, NEW a \in Agents, NEW x \in Work \cup Fetch \cup {Idle},
         exec' = [exec EXCEPT ![a] = x]
  PROVE  ExecTypes'
  BY DEF ExecTypes

LEMMA PushHas ==
  ASSUME PushTypes, NEW n \in Attempts
  PROVE  /\ push[n] # Idle <=> push[n].pc # "idle"
         /\ push[n] # Idle => push[n] \in Pushes
         /\ Idle \in Pushes \cup {Idle}
         /\ push[n] # Idle => \A pc \in {"receiving"} \cup Received :
              [push[n] EXCEPT !.pc = pc] \in Pushes
<1>1. push[n] \in Pushes \cup {Idle}
  BY DEF PushTypes
<1>2. push[n] \in Pushes => push[n].pc # "idle"
  BY DEF Pushes, Received
<1>3. push[n] \in Pushes => \A pc \in {"receiving"} \cup Received :
              [push[n] EXCEPT !.pc = pc] \in Pushes
  BY DEF Pushes
<1>4. QED BY <1>1, <1>2, <1>3 DEF Idle

LEMMA PushSet ==
  ASSUME PushTypes, NEW n \in Attempts, NEW x \in Pushes \cup {Idle},
         push' = [push EXCEPT ![n] = x],
         x # Idle => Len(x.staged) <= x.sent
  PROVE  PushTypes'
  BY DEF PushTypes

LEMMA GotoTypes ==
  ASSUME PushTypes, NEW n \in Attempts, push[n] # Idle, NEW pc \in Received, Goto(n, pc)
  PROVE  PushTypes'
<1> DEFINE x == [push[n] EXCEPT !.pc = pc]
<1>1. push' = [push EXCEPT ![n] = x]
  BY DEF Goto, PushTypes
<1>2. x \in Pushes /\ x.staged = push[n].staged /\ x.sent = push[n].sent
  BY PushHas, ZenonT(40) DEF Pushes, Received
<1>3. Len(x.staged) <= x.sent
  BY <1>2 DEF PushTypes
<1>4. QED BY <1>1, <1>2, <1>3, PushSet

LEMMA SentTypes ==
  ASSUME RowTypes, ExecTypes, NEW a \in Agents, exec[a] # Idle, NEW ok \in BOOLEAN, Send(a, ok)
  PROVE  results' \subseteq [agent : Agents, epoch : Nat, ok : BOOLEAN]
  BY AgentHas DEF Send, RowTypes

LEMMA GaveUpTypes ==
  ASSUME ExecTypes, NEW a \in Agents, GiveUp(a)
  PROVE  ExecTypes'
  BY ExecSet DEF GiveUp

LEMMA OverTypes ==
  ASSUME ExecTypes, PushTypes, NEW n \in Attempts, push[n] # Idle, Over(n)
  PROVE  ExecTypes' /\ PushTypes'
<1>1. push[n].agent \in Agents
  BY PushHas DEF Pushes
<1>2. ExecTypes'
  BY <1>1, GaveUpTypes DEF Over, ExecTypes
<1>3. PushTypes'
  BY PushSet, PushHas DEF Over, Idle
<1>4. QED BY <1>2, <1>3

LEMMA BackToQueueTypes ==
  ASSUME RowTypes, BackToQueue
  PROVE  /\ job' \in [state : States, agent : Agents \cup {Nobody}, epoch : Nat, attempt : Attempts]
         /\ intent' \in [Attempts -> [state : {"absent", "live", "resolved"},
                              agent : Agents \cup {Nobody}, epoch : Nat]]
<1>1. job.attempt \in Attempts
  BY DEF RowTypes
<1>2. CASE job.attempt + 1 >= MaxAttempts
  BY <1>1, <1>2 DEF BackToQueue, RowTypes, States, Terminal
<1>3. CASE ~(job.attempt + 1 >= MaxAttempts)
  <2>1. job.attempt + 1 \in Attempts
    BY <1>1, <1>3, TransferAssumption DEF Attempts
  <2>2. QED BY <1>1, <1>3, <2>1 DEF BackToQueue, RowTypes, States
<1>4. QED BY <1>2, <1>3

LEMMA TroubleTypes ==
  ASSUME RowTypes, NEW kind, Happens(kind)
  PROVE  trouble' \in 0 .. MaxTrouble
  BY TransferAssumption DEF RowTypes, Happens

LEMMA MediaKept ==
  ASSUME MediaTypes, UNCHANGED media
  PROVE  MediaTypes'
  BY DEF MediaTypes, media

LEMMA HistoryKept ==
  ASSUME HistoryTypes, UNCHANGED history
  PROVE  HistoryTypes'
  BY DEF HistoryTypes, history

LEMMA ExecKept ==
  ASSUME ExecTypes, UNCHANGED exec
  PROVE  ExecTypes'
  BY DEF ExecTypes

LEMMA PushKept ==
  ASSUME PushTypes, UNCHANGED push
  PROVE  PushTypes'
  BY DEF PushTypes

LEMMA OrphanedTypes ==
  ASSUME PushTypes, NEW a \in Agents, Orphaned(a)
  PROVE  PushTypes'
<1>1. \A n \in Attempts : push[n] # Idle => [push[n] EXCEPT !.alone = TRUE] \in Pushes
  BY PushHas DEF Pushes
<1>2. push' \in [Attempts -> Pushes \cup {Idle}]
  BY <1>1 DEF Orphaned, PushTypes
<1>3. \A n \in Attempts : push'[n] # push[n] => push[n] # Idle /\ push'[n] = [push[n] EXCEPT !.alone = TRUE]
  BY DEF Orphaned, PushTypes
<1>4. \A n \in Attempts : push'[n] # push[n] =>
         push'[n].staged = push[n].staged /\ push'[n].sent = push[n].sent
  <2>1. \A p \in Pushes, x \in BOOLEAN :
          /\ [p EXCEPT !.alone = x].staged = p.staged
          /\ [p EXCEPT !.alone = x].sent = p.sent
    BY DEF Pushes
  <2>2. QED BY <1>3, <2>1, PushHas
<1>5. \A n \in Attempts : push'[n] # Idle => Len(push'[n].staged) <= push'[n].sent
  BY <1>3, <1>4 DEF PushTypes
<1>6. QED BY <1>2, <1>5 DEF PushTypes

(* The types are kept by the queue, the agents, the handlers, the world.    *)
LEMMA QueueTypes ==
  ASSUME Types, Queue \/ \E a \in Agents : Place(a)
  PROVE  Types'
<1> USE DEF Types
<1>1. ASSUME NEW a \in Agents, Place(a) PROVE Types'
  <2>1. job.attempt \in Attempts /\ epoch[a] \in Nat
    BY DEF RowTypes
  <2>2. RowTypes'
    BY <1>1, <2>1 DEF Place, RowTypes, States
  <2>3. ExecTypes'
    BY <1>1, <2>1, ExecSet DEF Place, Work
  <2>4. QED BY <1>1, <2>2, <2>3, MediaKept, HistoryKept, PushKept DEF Place
<1>2. CASE Reclaim
  <2>1. RowTypes'
    BY <1>2, BackToQueueTypes DEF Reclaim, RowTypes, States, Terminal
  <2>2. QED BY <1>2, <2>1, MediaKept, HistoryKept, PushKept, ExecKept DEF Reclaim
<1>3. ASSUME NEW n \in Attempts, Sweep(n) PROVE Types'
  <2>1. RowTypes'
    BY <1>3 DEF Sweep, RowTypes
  <2>2. QED BY <1>3, <2>1, MediaKept, HistoryKept, PushKept, ExecKept DEF Sweep
<1>4. ASSUME NEW r \in results, OnResult(r) PROVE Types'
  <2>1. /\ job' \in [state : States, agent : Agents \cup {Nobody}, epoch : Nat, attempt : Attempts]
        /\ intent' \in [Attempts -> [state : {"absent", "live", "resolved"},
                              agent : Agents \cup {Nobody}, epoch : Nat]]
    BY <1>4, BackToQueueTypes DEF OnResult, RowTypes, States
  <2>2. RowTypes'
    BY <1>4, <2>1 DEF OnResult, RowTypes
  <2>3. QED BY <1>4, <2>2, MediaKept, HistoryKept, PushKept, ExecKept DEF OnResult
<1>5. QED BY <1>1, <1>2, <1>3, <1>4 DEF Queue

LEMMA AgentTypes ==
  ASSUME Types, NEW a \in Agents,
         Agent(a) \/ FetchFails(a) \/ CallBreaks(a) \/ AgentStops(a) \/ AgentReturns(a)
  PROVE  Types'
<1> USE DEF Types
<1>0. GiveUp(a) => ExecTypes'
  BY GaveUpTypes
<1>1. CASE FetchStart(a)
  <2>1. exec[a] # Idle
    BY <1>1, AgentHas DEF FetchStart
  <2>2. disk # Gone => disk \in Files
    BY DEF MediaTypes
  <2>3. ExecTypes'
    <3>1. CASE MayFetch(a) /\ disk # Gone
      <4>1. [pc |-> "fetching", attempt |-> exec[a].attempt,
             epoch |-> exec[a].epoch, stream |-> exec[a].stream,
             opened |-> disk, read |-> << >>] \in Fetch
        BY <2>1, <2>2, <3>1, AgentHas DEF Fetch
      <4>2. QED BY <1>1, <3>1, <4>1, ExecSet DEF FetchStart
    <3>2. CASE ~(MayFetch(a) /\ disk # Gone)
      BY <1>1, <3>2, <1>0 DEF FetchStart
    <3>3. QED BY <3>1, <3>2
  <2>4. RowTypes'
    BY <1>1, <2>1, SentTypes DEF FetchStart, RowTypes, jobVars
  <2>5. HistoryTypes'
    BY <1>1 DEF FetchStart, HistoryTypes
  <2>6. QED BY <1>1, <2>3, <2>4, <2>5, MediaKept, PushKept DEF FetchStart
<1>2. CASE FetchChunk(a)
  <2>1. PICK v \in {exec[a].opened, disk} \ {Gone} :
           exec' = [exec EXCEPT ![a].read = Append(@, v)]
    BY <1>2 DEF FetchChunk
  <2>2. exec[a].pc = "fetching" /\ exec[a] \in Fetch
    BY <1>2, AgentHas DEF FetchChunk
  <2>3. v \in Files
    BY <2>1, <2>2, AgentHas DEF MediaTypes
  <2>4. [exec[a] EXCEPT !.read = Append(exec[a].read, v)] \in Fetch
    BY <2>2, <2>3, SMTT(30) DEF Fetch
  <2>5. exec' = [exec EXCEPT ![a] = [exec[a] EXCEPT !.read = Append(exec[a].read, v)]]
    BY <2>1 DEF ExecTypes
  <2>6. ExecTypes'
    BY <2>4, <2>5, ExecSet
  <2>7. RowTypes'
    BY <1>2 DEF FetchChunk, RowTypes, jobVars
  <2>8. QED BY <1>2, <2>6, <2>7, MediaKept, HistoryKept, PushKept DEF FetchChunk
<1>3. CASE FetchEnd(a)
  <2>1. exec[a].pc = "fetching" /\ exec[a] \in Fetch
    BY <1>3, AgentHas DEF FetchEnd
  <2>2. [pc |-> "encoding", attempt |-> exec[a].attempt, epoch |-> exec[a].epoch,
         stream |-> exec[a].stream] \in Work
    BY <2>1 DEF Fetch, Work
  <2>3. ExecTypes'
    BY <1>3, <2>2, ExecSet DEF FetchEnd
  <2>4. HistoryTypes'
    BY <1>3, <2>1 DEF FetchEnd, HistoryTypes, Fetch
  <2>5. RowTypes'
    BY <1>3 DEF FetchEnd, RowTypes, jobVars
  <2>6. QED BY <1>3, <2>3, <2>4, <2>5, MediaKept, PushKept DEF FetchEnd
<1>4. CASE Encoded(a) \/ FetchFails(a)
  <2>1. exec[a] # Idle /\ (Encoded(a) => exec[a] \in Work)
    BY <1>4, AgentHas DEF Encoded, FetchFails
  <2>2. Encoded(a) => [exec[a] EXCEPT !.pc = "reported"] \in Work
    BY <2>1 DEF Work
  <2>3. ExecTypes'
    BY <1>4, <2>1, <2>2, <1>0, ExecSet DEF Encoded, FetchFails
  <2>4. \E ok \in BOOLEAN : Send(a, ok)
    BY <1>4 DEF Encoded, FetchFails
  <2>5. RowTypes'
    BY <1>4, <2>1, <2>4, SentTypes, TroubleTypes DEF Encoded, FetchFails, RowTypes, jobVars
  <2>6. QED BY <1>4, <2>3, <2>5, MediaKept, HistoryKept, PushKept DEF Encoded, FetchFails
<1>5. CASE PushStart(a)
  <2> DEFINE n == exec[a].attempt
             p == [pc |-> "receiving", agent |-> a, epoch |-> exec[a].epoch,
                   planned |-> row, staged |-> << >>, sent |-> 0,
                   alone |-> FALSE, label |-> ""]
  <2>1. exec[a] \in Work
    BY <1>5, AgentHas DEF PushStart
  <2>2. p \in Pushes /\ n \in Attempts
    BY <2>1, TransferAssumption DEF Pushes, Work, MediaTypes, Labels
  <2>3. [exec[a] EXCEPT !.pc = "pushing"] \in Work
    BY <2>1 DEF Work
  <2>4. ExecTypes'
    BY <1>5, <2>3, <1>0, ExecSet DEF PushStart
  <2>5. PushTypes'
    <3>1. push' = [push EXCEPT ![n] = p] \/ UNCHANGED push
      BY <1>5 DEF PushStart
    <3>2. Len(p.staged) <= p.sent
      OBVIOUS
    <3>3. QED BY <2>2, <3>1, <3>2, PushSet, PushKept
  <2>6. RowTypes'
    BY <1>5 DEF PushStart, RowTypes, jobVars
  <2>7. QED BY <1>5, <2>4, <2>5, <2>6, MediaKept, HistoryKept DEF PushStart
<1>6. CASE CallBreaks(a) \/ AgentStops(a)
  <2>1. exec[a] \in Work \cup Fetch \cup {Idle}
    BY DEF ExecTypes
  <2>2. exec[a] # Idle => [exec[a] EXCEPT !.stream = FALSE] \in Work \cup Fetch
    BY <2>1, Zenon, AgentHas DEF Work, Fetch
  <2>3. ExecTypes'
    BY <1>6, <2>2, <1>0, ExecSet DEF CallBreaks, AgentStops
  <2>4. PushTypes'
    BY <1>6, OrphanedTypes DEF CallBreaks, AgentStops
  <2>5. RowTypes'
    BY <1>6, TroubleTypes DEF CallBreaks, AgentStops, RowTypes, jobVars
  <2>6. QED BY <1>6, <2>3, <2>4, <2>5, MediaKept, HistoryKept DEF CallBreaks, AgentStops
<1>7. CASE AgentReturns(a)
  <2>1. RowTypes'
    BY <1>7 DEF AgentReturns, RowTypes
  <2>2. QED BY <1>7, <2>1, MediaKept, HistoryKept, PushKept, ExecKept DEF AgentReturns
<1>8. QED BY <1>1, <1>2, <1>3, <1>4, <1>5, <1>6, <1>7 DEF Agent

LEMMA ServeTypes ==
  ASSUME Types, NEW n \in Attempts, Serve(n) \/ RitualFails(n) \/ Dropped(n)
  PROVE  Types'
<1> USE DEF Types
<1>a. push[n] # Idle
  BY DEF Serve, PushChunk, PushEnd, Rejudge, Record, Verify, SetAside, Install, ResolveIntent,
         Conclude, Retain, RitualFails, Dropped, At, Idle
<1>b. push[n] \in Pushes
  BY <1>a, PushHas
<1>c. Over(n) => ExecTypes' /\ PushTypes'
  BY <1>a, OverTypes
<1>d. \A pc \in Received : Goto(n, pc) => PushTypes'
  BY <1>a, GotoTypes
<1>e. \A kind : Happens(kind) => trouble' \in 0 .. MaxTrouble
  BY TroubleTypes
<1>1. CASE PushChunk(n)
  <2>0. push[n].sent < Chunks /\ push[n].pc = "receiving"
    BY <1>1 DEF PushChunk, At
  <2>1. RowTypes'
    BY <1>1, <1>e DEF PushChunk, RowTypes, jobVars
  <2>2. PushTypes' /\ ExecTypes'
    <3>1. CASE Over(n)
      BY <3>1, <1>c
    <3>2. CASE push' = [push EXCEPT ![n].sent = @ + 1] /\ UNCHANGED exec
      <4> DEFINE x == [push[n] EXCEPT !.sent = push[n].sent + 1]
      <4>1. push' = [push EXCEPT ![n] = x]
        BY <3>2 DEF PushTypes
      <4>2. x \in Pushes /\ x.staged = push[n].staged /\ x.sent = push[n].sent + 1
        BY <2>0, <1>b, TransferAssumption DEF Pushes
      <4>3. Len(x.staged) <= x.sent
        BY <4>2, <2>0, <1>a, <1>b DEF PushTypes, Pushes
      <4>4. QED BY <3>2, <4>1, <4>2, <4>3, PushSet, ExecKept
    <3>3. ASSUME NEW good \in BOOLEAN,
                 push' = [push EXCEPT ![n].staged = Append(@, good), ![n].sent = @ + 1],
                 UNCHANGED exec
          PROVE  PushTypes' /\ ExecTypes'
      <4> DEFINE x == [push[n] EXCEPT !.staged = Append(push[n].staged, good),
                                      !.sent = push[n].sent + 1]
      <4>1. push' = [push EXCEPT ![n] = x]
        BY <3>3 DEF PushTypes
      <4>2. x \in Pushes /\ x.staged = Append(push[n].staged, good) /\ x.sent = push[n].sent + 1
        <5> DEFINE y == [push[n] EXCEPT !.staged = Append(push[n].staged, good)]
        <5>1. /\ Append(push[n].staged, good) \in Seq(BOOLEAN)
              /\ push[n].sent + 1 \in 0 .. Chunks
          BY <2>0, <1>b, <3>3, TransferAssumption DEF Pushes
        <5>2. y \in Pushes /\ y.staged = Append(push[n].staged, good) /\ y.sent = push[n].sent
          BY <1>b, <5>1 DEF Pushes
        <5>3. x = [y EXCEPT !.sent = push[n].sent + 1]
          BY <1>b DEF Pushes
        <5> HIDE DEF y
        <5>4. /\ [y EXCEPT !.sent = push[n].sent + 1] \in Pushes
              /\ [y EXCEPT !.sent = push[n].sent + 1].staged = y.staged
              /\ [y EXCEPT !.sent = push[n].sent + 1].sent = push[n].sent + 1
          BY <5>1, <5>2 DEF Pushes
        <5> HIDE DEF x
        <5>5. QED BY <5>2, <5>3, <5>4
      <4>3. Len(x.staged) <= x.sent
        BY <4>2, <2>0, <1>a, <1>b DEF PushTypes, Pushes
      <4>4. QED BY <3>3, <4>1, <4>2, <4>3, PushSet, ExecKept
    <3>4. QED BY <1>1, <3>1, <3>2, <3>3 DEF PushChunk
  <2>3. QED BY <1>1, <2>1, <2>2, MediaKept, HistoryKept DEF PushChunk
<1>2. CASE PushEnd(n) \/ Rejudge(n) \/ Record(n)
  <2>1. PushTypes' /\ ExecTypes'
    BY <1>2, <1>c, <1>d, ExecKept DEF PushEnd, Rejudge, Record, Received
  <2>2. RowTypes'
    BY <1>2, <1>e DEF PushEnd, Rejudge, Record, RowTypes, States, jobVars
  <2>3. QED BY <1>2, <2>1, <2>2, MediaKept, HistoryKept DEF PushEnd, Rejudge, Record
<1>3. ASSUME NEW label \in Labels,
             push' = [push EXCEPT ![n].pc = "resolve", ![n].label = label]
      PROVE  PushTypes'
  <2> DEFINE x == [push[n] EXCEPT !.pc = "resolve", !.label = label]
  <2>1. push' = [push EXCEPT ![n] = x]
    BY <1>3 DEF PushTypes
  <2>2. x \in Pushes /\ x.staged = push[n].staged /\ x.sent = push[n].sent
    BY <1>b, <1>3 DEF Pushes, Received
  <2>3. QED BY <1>a, <2>1, <2>2, PushSet DEF PushTypes
<1>4. CASE Verify(n) \/ SetAside(n)
  <2>1. PushTypes'
    BY <1>4, <1>3, <1>d DEF Verify, SetAside, Received, Labels
  <2>2. Verify(n) /\ GuardHolds(n) => disk \in Sources
    BY <1>b DEF GuardHolds, Source, Pushes, Sources
  <2>3. SetAside(n) => disk \in Files
    BY DEF SetAside, MediaTypes
  <2>4. MediaTypes'
    BY <1>4, <2>3 DEF Verify, SetAside, MediaTypes, media
  <2>5. HistoryTypes'
    BY <1>4, <2>2, <2>3 DEF Verify, SetAside, HistoryTypes
  <2>6. RowTypes'
    BY <1>4 DEF Verify, SetAside, RowTypes, jobVars
  <2>7. QED BY <1>4, <2>1, <2>4, <2>5, <2>6, ExecKept DEF Verify, SetAside
<1>5. CASE Install(n)
  <2>1. PushTypes'
    BY <1>5, <1>3 DEF Install, Labels
  <2>2. \A whole \in BOOLEAN : Output(n, whole) \in Files
    BY DEF Output, Files, Outputs
  <2>3. MediaTypes'
    <3>1. CASE disk' = Output(n, push[n].staged = [i \in 1 .. Chunks |-> TRUE])
               /\ UNCHANGED <<row, version, retained, trash>>
      <4>1. (push[n].staged = [i \in 1 .. Chunks |-> TRUE]) \in BOOLEAN
        OBVIOUS
      <4> DEFINE whole == push[n].staged = [i \in 1 .. Chunks |-> TRUE]
      <4> HIDE DEF whole
      <4>2. disk' \in Files
        BY <3>1, <2>2, <4>1 DEF whole
      <4>3. QED BY <3>1, <4>2 DEF MediaTypes
    <3>2. CASE disk' \in {trash, disk} /\ trash' \in {trash, Gone} /\ UNCHANGED <<row, version, retained>>
      BY <3>2 DEF MediaTypes, Files
    <3>3. QED BY <1>5, <3>1, <3>2 DEF Install
  <2>4. HistoryTypes'
    BY <1>5 DEF Install, HistoryTypes
  <2>5. RowTypes'
    BY <1>5, <1>e DEF Install, RowTypes, jobVars
  <2>6. QED BY <1>5, <2>1, <2>3, <2>4, <2>5, ExecKept DEF Install
<1>6. CASE RitualFails(n) \/ ResolveIntent(n)
  <2>1. PushTypes' /\ ExecTypes'
    BY <1>6, <1>c, <1>d, ExecKept DEF RitualFails, ResolveIntent, Received
  <2>2. RowTypes'
    BY <1>6, <1>e DEF RitualFails, ResolveIntent, RowTypes, jobVars
  <2>3. QED BY <1>6, <2>1, <2>2, MediaKept, HistoryKept DEF RitualFails, ResolveIntent
<1>7. CASE Conclude(n)
  <2>1. OutcomeOf(push[n].label) \in States
    BY DEF OutcomeOf, States, Terminal
  <2>2. PushTypes'
    BY <1>7, <1>d DEF Conclude, Received
  <2>3. RowTypes'
    BY <1>7, <1>e, <2>1 DEF Conclude, RowTypes
  <2>4. QED BY <1>7, <2>2, <2>3, MediaKept, HistoryKept, ExecKept DEF Conclude
<1>8. CASE Retain(n)
  <2>1. MediaTypes'
    BY <1>8 DEF Retain, MediaTypes
  <2>2. RowTypes'
    BY <1>8, <1>e DEF Retain, RowTypes, jobVars
  <2>3. QED BY <1>8, <2>1, <2>2, <1>c, HistoryKept DEF Retain
<1>9. CASE Dropped(n)
  <2>1. PushTypes'
    BY <1>9, PushSet DEF Dropped, Idle
  <2>2. RowTypes'
    BY <1>9 DEF Dropped, RowTypes, jobVars
  <2>3. QED BY <1>9, <2>1, <2>2, MediaKept, HistoryKept, ExecKept DEF Dropped
<1>10. QED BY <1>1, <1>2, <1>4, <1>5, <1>6, <1>7, <1>8, <1>9 DEF Serve

LEMMA WorldTypes ==
  ASSUME Types, ServerRestarts \/ Edit \/ Scan \/ UNCHANGED vars
  PROVE  Types'
<1> USE DEF Types
<1>1. CASE ServerRestarts
  <2>1. \A a \in Agents : exec[a].pc \notin {"idle", "fetching", "pushing"} =>
           [exec[a] EXCEPT !.stream = FALSE] \in Work
    <3>1. \A x \in Work, b \in BOOLEAN : [x EXCEPT !.stream = b] \in Work
      BY DEF Work
    <3>2. \A a \in Agents : exec[a].pc \notin {"idle", "fetching", "pushing"} => exec[a] \in Work
      BY AgentHas DEF ExecTypes, Work, Fetch, Idle
    <3>3. QED BY <3>1, <3>2
  <2>2. ExecTypes'
    BY <1>1, <2>1 DEF ServerRestarts, ExecTypes
  <2>3. PushTypes'
    BY <1>1 DEF ServerRestarts, PushTypes, Idle
  <2>4. RowTypes'
    BY <1>1, TroubleTypes DEF ServerRestarts, RowTypes, jobVars
  <2>5. QED BY <1>1, <2>2, <2>3, <2>4, MediaKept, HistoryKept DEF ServerRestarts
<1>2. CASE Edit \/ Scan
  <2>1. MediaTypes'
    BY <1>2, TransferAssumption
    DEF Edit, Scan, MediaTypes, Source, Sources, Files, Outputs, Gone, Versions
  <2>2. HistoryTypes'
    BY <1>2 DEF Edit, Scan, HistoryTypes, history
  <2>3. RowTypes'
    BY <1>2 DEF Edit, Scan, RowTypes, jobVars
  <2>4. QED BY <1>2, <2>1, <2>2, <2>3, ExecKept, PushKept DEF Edit, Scan
<1>3. CASE UNCHANGED vars
  <2>1. RowTypes'
    BY <1>3 DEF vars, RowTypes, jobVars
  <2>2. QED BY <1>3, <2>1, MediaKept, HistoryKept, ExecKept, PushKept DEF vars
<1>4. QED BY <1>1, <1>2, <1>3

LEMMA InitTypes == Init => Types
<1> SUFFICES ASSUME Init PROVE Types
  OBVIOUS
<1>1. RowTypes
  BY TransferAssumption DEF Init, RowTypes, States, Attempts
<1>2. MediaTypes
  <2>1. Source(1) \in Sources
    BY TransferAssumption DEF Source, Sources, Versions
  <2>2. row = 1 /\ version = 1 /\ disk = Source(1) /\ trash = Gone /\ retained = FALSE
    BY DEF Init
  <2>3. row \in Versions /\ version \in Versions
    BY <2>2, TransferAssumption DEF Versions
  <2>4. disk \in Files
    BY <2>1, <2>2 DEF Files
  <2>5. retained \in BOOLEAN
    BY <2>2, Zenon
  <2>6. QED BY <2>2, <2>3, <2>4, <2>5 DEF MediaTypes
<1>3. ExecTypes /\ PushTypes /\ HistoryTypes
  BY DEF Init, ExecTypes, PushTypes, HistoryTypes, Idle
<1>4. QED BY <1>1, <1>2, <1>3 DEF Types

LEMMA NextTypes == Types /\ [Next]_vars => Types'
  BY QueueTypes, AgentTypes, ServeTypes, WorldTypes DEF Next

-----------------------------------------------------------------------------
(* How handlers move.  Thin: each is gone or does what it did.             *)
SamePush(n) ==
  /\ push'[n] # Idle => push[n] # Idle
  /\ push'[n] # Idle => /\ push'[n].pc = push[n].pc /\ push'[n].label = push[n].label
                        /\ push'[n].planned = push[n].planned
                        /\ push'[n].staged = push[n].staged

Thin == \A n \in Attempts : SamePush(n)

LEMMA ThinKept ==
  ASSUME UNCHANGED push
  PROVE  Thin
  BY DEF Thin, SamePush

LEMMA ThinOver ==
  ASSUME PushTypes, NEW n \in Attempts, Over(n)
  PROVE  Thin
  BY DEF Thin, SamePush, Over, PushTypes

LEMMA ThinOrphaned ==
  ASSUME PushTypes, NEW a \in Agents, Orphaned(a)
  PROVE  Thin
<1>1. \A p \in Pushes, x \in BOOLEAN :
        /\ [p EXCEPT !.alone = x].staged = p.staged /\ [p EXCEPT !.alone = x].pc = p.pc
        /\ [p EXCEPT !.alone = x].label = p.label /\ [p EXCEPT !.alone = x].planned = p.planned
  BY DEF Pushes
<1>2. \A n \in Attempts : push'[n] # push[n] =>
        push[n] # Idle /\ push'[n] = [push[n] EXCEPT !.alone = TRUE]
  BY DEF Orphaned, PushTypes
<1>3. QED BY <1>1, <1>2, PushHas, ZenonT(40) DEF Thin, SamePush

LEMMA ThinSteps ==
  ASSUME Types, NEW n \in Attempts, Dropped(n) \/ RitualFails(n) \/ Retain(n)
  PROVE  Thin
<1>1. CASE Dropped(n)
  BY <1>1 DEF Types, PushTypes, Dropped, Thin, SamePush
<1>2. QED BY <1>1, ThinOver DEF Types, RitualFails, Retain

LEMMA ThinAgents ==
  ASSUME Types, NEW a \in Agents, CallBreaks(a) \/ AgentStops(a)
  PROVE  Thin
  BY ThinOrphaned DEF Types, CallBreaks, AgentStops

LEMMA ThinRestart ==
  ASSUME ServerRestarts
  PROVE  Thin
  BY DEF ServerRestarts, Thin, SamePush

(* The moves of one handler, spelled out; the others stand still.           *)
Others(n) == \A m \in Attempts : m # n => push'[m] = push[m]

LEMMA GotoIs ==
  ASSUME PushTypes, NEW n \in Attempts, push[n] # Idle, NEW pc \in Received, Goto(n, pc)
  PROVE  /\ push'[n].pc = pc /\ push'[n].label = push[n].label
         /\ push'[n].planned = push[n].planned /\ push'[n].staged = push[n].staged
         /\ push'[n] # Idle
         /\ Others(n)
<1>1. push[n] \in Pushes
  BY PushHas
<1>2. /\ push'[n] = [push[n] EXCEPT !.pc = pc]
      /\ Others(n)
  BY DEF Goto, PushTypes, Others
<1>3. [push[n] EXCEPT !.pc = pc] # Idle
  BY <1>1 DEF Idle, Pushes
<1>4. QED BY <1>1, <1>2, <1>3 DEF Pushes

LEMMA ResolveIs ==
  ASSUME PushTypes, NEW n \in Attempts, push[n] # Idle, NEW label \in Labels,
         push' = [push EXCEPT ![n].pc = "resolve", ![n].label = label]
  PROVE  /\ push'[n].pc = "resolve" /\ push'[n].label = label
         /\ push'[n].planned = push[n].planned /\ push'[n].staged = push[n].staged
         /\ push'[n] # Idle
         /\ Others(n)
<1> DEFINE y == [push[n] EXCEPT !.pc = "resolve"]
           x == [y EXCEPT !.label = label]
<1>1. push[n] \in Pushes
  BY PushHas
<1>2. push'[n] = [push[n] EXCEPT !.pc = "resolve", !.label = label] /\ Others(n)
  BY DEF PushTypes, Others
<1>3. push'[n] = x
  BY <1>1, <1>2 DEF Pushes
<1>4. y \in Pushes /\ y.pc = "resolve" /\ y.planned = push[n].planned /\ y.staged = push[n].staged
  BY <1>1 DEF Pushes, Received
<1> HIDE DEF y
<1>5. x.pc = y.pc /\ x.planned = y.planned /\ x.staged = y.staged /\ x.label = label
  BY <1>4 DEF Pushes
<1> HIDE DEF x
<1>6. QED BY <1>2, <1>3, <1>4, <1>5 DEF Idle

LEMMA PushStartIs ==
  ASSUME Types, NEW a \in Agents, PushStart(a)
  PROVE  \/ /\ push'[exec[a].attempt].pc = "receiving"
            /\ push'[exec[a].attempt].planned = row
            /\ Others(exec[a].attempt)
            /\ exec' = [exec EXCEPT ![a].pc = "pushing"]
         \/ UNCHANGED push /\ GiveUp(a)
<1> DEFINE n == exec[a].attempt
           p == [pc |-> "receiving", agent |-> a, epoch |-> exec[a].epoch,
                 planned |-> row, staged |-> << >>, sent |-> 0,
                 alone |-> FALSE, label |-> ""]
<1>1. n \in Attempts
  BY AgentHas DEF Types, PushStart, Idle
<1>2. \/ push' = [push EXCEPT ![n] = p] /\ exec' = [exec EXCEPT ![a].pc = "pushing"]
      \/ UNCHANGED push /\ GiveUp(a)
  BY Zenon DEF PushStart
<1>3. p.pc = "receiving" /\ p.planned = row
  OBVIOUS
<1> HIDE DEF p, n
<1>4. push' = [push EXCEPT ![n] = p] => push'[n] = p /\ Others(n)
  BY <1>1 DEF Types, PushTypes, Others
<1>5. QED BY <1>2, <1>3, <1>4 DEF n

LEMMA ChunkIs ==
  ASSUME Types, NEW n \in Attempts, PushChunk(n)
  PROVE  \/ Over(n)
         \/ /\ push'[n].pc = "receiving" /\ push'[n].planned = push[n].planned
            /\ Others(n) /\ UNCHANGED exec
<1>1. push[n].pc = "receiving"
  BY DEF PushChunk, At
<1>2. push[n] \in Pushes
  BY <1>1, PushHas DEF Idle, Types
<1>3. CASE push' = [push EXCEPT ![n].sent = @ + 1] /\ UNCHANGED exec
  BY <1>1, <1>2, <1>3 DEF Types, PushTypes, Pushes, Others
<1>4. ASSUME NEW good \in BOOLEAN,
             push' = [push EXCEPT ![n].staged = Append(@, good), ![n].sent = @ + 1],
             UNCHANGED exec
      PROVE  /\ push'[n].pc = "receiving" /\ push'[n].planned = push[n].planned
             /\ Others(n)
  <2> DEFINE y == [push[n] EXCEPT !.staged = Append(push[n].staged, good)]
             x == [y EXCEPT !.sent = push[n].sent + 1]
             z == [push[n] EXCEPT !.staged = Append(push[n].staged, good),
                                  !.sent = push[n].sent + 1]
  <2>0. z = x
    BY <1>2 DEF Pushes
  <2>1. push'[n] = z /\ Others(n)
    BY <1>4 DEF Types, PushTypes, Others
  <2> HIDE DEF z
  <2>2. push'[n] = x
    BY <2>0, <2>1
  <2>a. Append(push[n].staged, good) \in Seq(BOOLEAN)
    BY <1>2 DEF Pushes
  <2>3. y \in Pushes /\ y.pc = "receiving" /\ y.planned = push[n].planned
    BY <1>1, <1>2, <2>a DEF Pushes
  <2> HIDE DEF y
  <2>4. x.pc = y.pc /\ x.planned = y.planned
    BY <2>3 DEF Pushes
  <2> HIDE DEF x
  <2>5. QED BY <2>1, <2>2, <2>3, <2>4
<1>5. QED BY <1>3, <1>4 DEF PushChunk

-----------------------------------------------------------------------------
(* What is installed is whole.                                             *)
AllThere == [i \in 1 .. Chunks |-> TRUE]

Whole ==
  /\ \A n \in Attempts : push[n].pc \in Received => push[n].staged = AllThere
  /\ OutputIsWhole
  /\ trash.kind = "output" => trash.whole

LEMMA WholeThin ==
  ASSUME PushTypes, Whole, Thin, disk'.kind = "output" => disk' = disk, trash' = trash
  PROVE  Whole'
<1>1. \A n \in Attempts : push'[n].pc \in Received => push'[n] # Idle
  BY DEF Idle, Received
<1>2. QED BY <1>1 DEF Whole, Thin, SamePush, OutputIsWhole

LEMMA WholeMoves ==
  ASSUME PushTypes, Whole, NEW n \in Attempts, push[n].pc \in Received,
         push'[n].staged = push[n].staged, Others(n),
         disk'.kind = "output" => disk'.whole,
         trash'.kind = "output" => trash'.whole
  PROVE  Whole'
  BY DEF Whole, Others, OutputIsWhole

LEMMA CompleteIsWhole ==
  ASSUME PushTypes, NEW n \in Attempts, push[n] # Idle, Complete(push[n])
  PROVE  push[n].staged = AllThere
<1>1. push[n].staged \in Seq(BOOLEAN) /\ push[n].sent \in 0 .. Chunks
  BY PushHas DEF Pushes
<1>2. Len(push[n].staged) = Chunks /\ \A i \in DOMAIN push[n].staged : push[n].staged[i]
  BY <1>1 DEF Complete, Accept
<1> DEFINE s == push[n].staged
<1>3. s \in [1 .. Chunks -> BOOLEAN]
  BY <1>1, <1>2
<1>4. \A i \in 1 .. Chunks : s[i]
  BY <1>2, <1>3
<1> HIDE DEF s
<1>5. \A i \in 1 .. Chunks : s[i] = TRUE
  <2> TAKE i \in 1 .. Chunks
  <2>1. s[i] \in BOOLEAN
    BY <1>3
  <2>2. s[i]
    BY <1>4, Zenon
  <2> DEFINE x == s[i]
  <2> HIDE DEF x
  <2>3. x \in BOOLEAN /\ x => x = TRUE
    BY Zenon
  <2>4. QED BY <2>1, <2>2, <2>3, Zenon DEF x
<1>6. s = [i \in 1 .. Chunks |-> s[i]]
  BY <1>3, Zenon
<1>7. s = AllThere
  BY <1>5, <1>6, Zenon DEF AllThere
<1>8. QED BY <1>7 DEF s

LEMMA WholeNext ==
  ASSUME Types, Whole, [Next]_vars
  PROVE  Whole'
<1> USE DEF Types
<1>1. CASE Queue \/ (\E a \in Agents : Place(a)) \/ Edit \/ Scan \/ UNCHANGED vars
  <2>1. Thin
    BY <1>1, ThinKept DEF Queue, Place, Reclaim, Sweep, OnResult, Edit, Scan, vars
  <2>2. disk' = disk \/ \E v : disk' = Source(v)
    BY <1>1, Zenon DEF Queue, Place, Reclaim, Sweep, OnResult, Edit, Scan, vars, media
  <2>3. trash' = trash
    BY <1>1, Zenon DEF Queue, Place, Reclaim, Sweep, OnResult, Edit, Scan, vars, media
  <2>4. QED BY <2>1, <2>2, <2>3, WholeThin DEF Source
<1>2. ASSUME NEW a \in Agents, Agent(a) \/ FetchFails(a) \/ CallBreaks(a)
                                        \/ AgentStops(a) \/ AgentReturns(a)
      PROVE  Whole'
  <2>1. disk' = disk /\ trash' = trash
    BY <1>2 DEF Agent, FetchStart, FetchChunk, FetchEnd, Encoded, PushStart, FetchFails,
                CallBreaks, AgentStops, AgentReturns, media
  <2>2. CASE PushStart(a)
    <3>1. exec[a].attempt \in Attempts
      BY <2>2, AgentHas DEF PushStart, Idle
    <3>2. \A m \in Attempts : push'[m] = push[m] \/ push'[m].pc = "receiving"
      BY <2>2, <3>1, PushStartIs DEF Others
    <3>3. QED BY <2>1, <3>2 DEF Whole, OutputIsWhole, Received
  <2>3. CASE ~PushStart(a)
    <3>1. Thin
      BY <1>2, <2>3, ThinKept, ThinAgents
      DEF Agent, FetchStart, FetchChunk, FetchEnd, Encoded, FetchFails, AgentReturns
    <3>2. QED BY <2>1, <3>1, WholeThin
  <2>4. QED BY <2>2, <2>3
<1>3. ASSUME NEW n \in Attempts, Serve(n) \/ RitualFails(n) \/ Dropped(n)
      PROVE  Whole'
  <2>0. Over(n) /\ disk' = disk /\ trash' = trash => Whole'
    BY ThinOver, WholeThin
  <2>1. CASE PushChunk(n)
    <3>1. disk' = disk /\ trash' = trash /\ push[n].pc = "receiving"
      BY <2>1 DEF PushChunk, media, At
    <3>2. Over(n) \/ (push'[n].pc = "receiving" /\ Others(n))
      BY <2>1, ChunkIs
    <3>4. QED BY <2>0, <3>1, <3>2 DEF Whole, OutputIsWhole, Received, Others
  <2>2. CASE PushEnd(n)
    <3>1. disk' = disk /\ trash' = trash /\ push[n].pc = "receiving" /\ push[n] # Idle
      BY <2>2 DEF PushEnd, media, At, Idle
    <3>2. CASE Complete(push[n])
      <4>1. push[n].staged = AllThere
        BY <3>1, <3>2, CompleteIsWhole
      <4>2. push'[n].staged = AllThere /\ Others(n)
        BY <2>2, <3>1, <3>2, <4>1, GotoIs DEF PushEnd, Received
      <4>3. QED BY <3>1, <4>2 DEF Whole, OutputIsWhole, Others
    <3>3. CASE ~Complete(push[n])
      BY <2>0, <2>2, <3>1, <3>3 DEF PushEnd
    <3>4. QED BY <3>2, <3>3
  <2>3. CASE Rejudge(n) \/ Record(n) \/ ResolveIntent(n) \/ Conclude(n)
    <3>1. disk' = disk /\ trash' = trash /\ push[n].pc \in Received /\ push[n] # Idle
      BY <2>3 DEF Rejudge, Record, ResolveIntent, Conclude, media, At, Idle, Received
    <3>2. Over(n) \/ \E pc \in Received : Goto(n, pc)
      BY <2>3 DEF Rejudge, Record, ResolveIntent, Conclude, Received
    <3>3. QED BY <2>0, <3>1, <3>2, GotoIs, WholeMoves DEF Whole, OutputIsWhole
  <2>4. CASE Verify(n) \/ SetAside(n)
    <3>1. /\ push[n].pc \in Received /\ push[n] # Idle
          /\ disk' \in {disk, Gone} /\ trash' \in {trash, disk}
      BY <2>4 DEF Verify, SetAside, At, Idle, Received, media
    <3>2. push'[n].staged = push[n].staged /\ Others(n)
      BY <2>4, <3>1, GotoIs, ResolveIs DEF Verify, SetAside, Received, Labels
    <3>3. QED BY <3>1, <3>2, WholeMoves DEF Whole, OutputIsWhole, Gone
  <2>5. CASE Install(n)
    <3>1. push[n].pc \in Received /\ push[n] # Idle
      BY <2>5 DEF Install, At, Idle, Received
    <3>2. push'[n].staged = push[n].staged /\ Others(n)
      BY <2>5, <3>1, ResolveIs DEF Install, Labels
    <3>3. disk' = disk \/ disk' = trash \/ disk'.whole
      <4>1. push[n].staged = [i \in 1 .. Chunks |-> TRUE]
        BY <3>1, Zenon DEF Whole, AllThere
      <4>2. Output(n, push[n].staged = [i \in 1 .. Chunks |-> TRUE]).whole
        BY <4>1, Zenon DEF Output
      <4>3. QED BY <2>5, <4>2, Zenon DEF Install
    <3>4. trash' \in {trash, Gone}
      BY <2>5 DEF Install
    <3>5. QED BY <3>1, <3>2, <3>3, <3>4, WholeMoves DEF Whole, OutputIsWhole, Gone
  <2>6. CASE Retain(n) \/ RitualFails(n) \/ Dropped(n)
    BY <2>6, ThinSteps, WholeThin DEF Retain, RitualFails, Dropped, media
  <2>7. QED BY <1>3, <2>1, <2>2, <2>3, <2>4, <2>5, <2>6 DEF Serve
<1>4. CASE ServerRestarts
  BY <1>4, ThinRestart, WholeThin DEF ServerRestarts, media
<1>5. QED BY <1>1, <1>2, <1>3, <1>4 DEF Next

-----------------------------------------------------------------------------
(* The destination is replaced once.  Recording the commit takes the row    *)
(* out of Verifying, for good: so one push at most gets to the check.       *)
Past == {"Committing", "Succeeded", "Failed", "NeedsOperator"}

Installing == {n \in Attempts : push[n].pc \in Begun}
Single(S) == \A x, y \in S : x = y

(* The output is in place, or a version written since, and the original in  *)
(* the trash.                                                               *)
InPlace == trash.kind = "source" /\ (disk.kind = "output" \/ Overwritten)

StateOfRow ==
  /\ Installing # {} \/ passed # {} => job.state \in Past
  /\ Installing # {} => ~retained
  /\ passed = {} => disk = Source(version) /\ trash = Gone /\ landed = {}
  /\ job.state \in {"Succeeded", "Failed"} => \A n \in Attempts : push[n].pc \notin Settling
  /\ job.state = "Failed" => landed = {}
  /\ job.state = "Succeeded" \/ retained => InPlace
  /\ disk = Gone => trash.kind = "source" /\ job.state \in {"Committing", "NeedsOperator"}

StateOfMedia ==
  /\ disk.kind = "output" => trash.kind = "source"
  /\ trash # Gone => trash.kind = "source"
  /\ \A f \in {disk, trash} : f.kind = "source" => f.version <= version
  /\ \A l \in landed : l.over = trash

StateOfPush(n) ==
  /\ push[n].pc = "recorded" => passed = {}
  /\ push[n].pc = "checked" =>
       /\ disk = Source(version) /\ trash = Gone /\ landed = {}
       /\ \E c \in passed : c.attempt = n
  /\ push[n].pc = "aside" =>
       /\ disk = Gone \/ Overwritten
       /\ trash.kind = "source" /\ landed = {[attempt |-> n, over |-> trash]}
  /\ push[n].pc \in {"resolve", "conclude", "retain"} =>
       \/ push[n].label = "installed" /\ InPlace
       \/ push[n].label \in {"source_intact", "source_restored"}
            /\ disk.kind = "source" /\ landed = {}
       \/ push[n].label = "needs_operator"

Final ==
  /\ Single(Installing) /\ Single(landed)
  /\ StateOfRow /\ StateOfMedia
  /\ \A n \in Attempts : StateOfPush(n)

(* Pushes whose ritual has begun go on or end, no other begins one.         *)
Quiet ==
  \A n \in Attempts :
    push'[n].pc \in Begun => push'[n].pc = push[n].pc /\ push'[n].label = push[n].label

RowSteps ==
  \/ job'.state = job.state
  \/ job.state \notin Past /\ job'.state \notin Past
  \/ job.state = "Committing" /\ job'.state = "NeedsOperator"

Settled == UNCHANGED <<disk, version, trash, retained, passed, landed>>

LEMMA ThinIsQuiet ==
  ASSUME Thin
  PROVE  Quiet
  BY DEF Thin, SamePush, Quiet, Begun, Settling, Idle

LEMMA FinalQuiet ==
  ASSUME Final, Quiet, RowSteps, Settled
  PROVE  Final'
<1>1. Installing' \subseteq Installing
  BY DEF Installing, Quiet
<1>2. Single(Installing') /\ Single(landed')
  BY <1>1 DEF Final, Single, Settled
<1>3. InPlace' = InPlace /\ Overwritten' = Overwritten
  BY DEF InPlace, Overwritten, Settled
<1>4. StateOfRow'
  <2>1. Installing' # {} => Installing # {}
    BY <1>1
  <2>2. \A n \in Attempts : push'[n].pc \in Settling => push[n].pc \in Settling
    BY DEF Quiet, Begun, Settling
  <2>3. StateOfRow
    BY DEF Final
  <2>4. /\ job'.state \in {"Succeeded", "Failed"} => job.state = job'.state
        /\ job.state \in Past => job'.state \in Past
        /\ job.state \in {"Committing", "NeedsOperator"} =>
             job'.state \in {"Committing", "NeedsOperator"}
    BY <2>3 DEF StateOfRow, RowSteps, Past
  <2>5. QED BY <1>3, <2>1, <2>2, <2>3, <2>4 DEF StateOfRow, Settled, Source
<1>5. StateOfMedia'
  BY DEF Final, StateOfMedia, Settled
<1>6. \A n \in Attempts : StateOfPush(n)'
  BY <1>3 DEF Final, StateOfPush, Quiet, Begun, Settling, Settled, Source
<1>7. QED BY <1>2, <1>4, <1>5, <1>6 DEF Final

LEMMA BackToQueueSteps ==
  ASSUME BackToQueue, RowTypes, job.state \notin Past
  PROVE  RowSteps
  BY DEF BackToQueue, RowTypes, RowSteps, Past

LEMMA FinalQueue ==
  ASSUME Types, Final, Queue \/ \E a \in Agents : Place(a)
  PROVE  Final'
<1>1. Quiet /\ Settled
  BY ThinKept, ThinIsQuiet DEF Queue, Reclaim, Sweep, OnResult, Place, media, history, Settled
<1>2. RowSteps
  <2>1. CASE Reclaim
    BY <2>1, BackToQueueSteps
    DEF Reclaim, Types, RowTypes, RowSteps, Past, Held, HoldsCapacity
  <2>2. CASE \E n \in Attempts : Sweep(n)
    BY <2>2 DEF Sweep, RowSteps
  <2>3. CASE \E r \in results : OnResult(r)
    BY <2>3, BackToQueueSteps DEF OnResult, Types, RowTypes, RowSteps, Past
  <2>4. CASE \E a \in Agents : Place(a)
    BY <2>4 DEF Place, Types, RowTypes, RowSteps, Past
  <2>5. QED BY <2>1, <2>2, <2>3, <2>4 DEF Queue
<1>3. QED BY <1>1, <1>2, FinalQuiet

LEMMA FinalAgent ==
  ASSUME Types, Final, NEW a \in Agents,
         Agent(a) \/ FetchFails(a) \/ CallBreaks(a) \/ AgentStops(a) \/ AgentReturns(a)
  PROVE  Final'
<1>1. RowSteps /\ Settled
  BY DEF Agent, FetchStart, FetchChunk, FetchEnd, Encoded, PushStart, FetchFails,
         CallBreaks, AgentStops, AgentReturns, jobVars, media, history, RowSteps, Settled
<1>2. Quiet
  <2>1. CASE PushStart(a)
    BY <2>1, PushStartIs, ThinKept, ThinIsQuiet DEF Quiet, Others, Begun, Settling
  <2>2. CASE ~PushStart(a)
    <3>1. Thin
      BY <2>2, ThinKept, ThinAgents
      DEF Agent, FetchStart, FetchChunk, FetchEnd, Encoded, FetchFails, AgentReturns
    <3>2. QED BY <3>1, ThinIsQuiet
  <2>3. QED BY <2>1, <2>2
<1>3. QED BY <1>1, <1>2, FinalQuiet

LEMMA FinalReceiving ==
  ASSUME Types, Final, NEW n \in Attempts,
         PushChunk(n) \/ PushEnd(n) \/ Rejudge(n) \/ RitualFails(n) \/ Dropped(n)
  PROVE  Final'
<1>1. RowSteps /\ Settled
  BY DEF PushChunk, PushEnd, Rejudge, RitualFails, Dropped, jobVars, media, history, RowSteps, Settled
<1>2. Over(n) => Quiet
  BY ThinOver, ThinIsQuiet DEF Types
<1>3. Quiet
  <2>1. CASE PushChunk(n)
    BY <1>2, <2>1, ChunkIs DEF Quiet, Others, Begun, Settling
  <2>2. CASE PushEnd(n) \/ Rejudge(n)
    <3>1. push[n] # Idle
      BY <2>2 DEF PushEnd, Rejudge, At, Idle
    <3>2. Over(n) \/ Goto(n, "judge") \/ Goto(n, "record")
      BY <2>2 DEF PushEnd, Rejudge
    <3>3. Over(n) \/ (push'[n].pc \in {"judge", "record"} /\ Others(n))
      BY <3>1, <3>2, GotoIs DEF Types, Received
    <3>4. QED BY <1>2, <3>3 DEF Quiet, Others, Begun, Settling
  <2>3. CASE RitualFails(n) \/ Dropped(n)
    BY <2>3, ThinSteps, ThinIsQuiet
  <2>4. QED BY <2>1, <2>2, <2>3
<1>4. QED BY <1>1, <1>3, FinalQuiet

LEMMA FinalRecord ==
  ASSUME Types, Final, NEW n \in Attempts, Record(n)
  PROVE  Final'
<1>1. Settled /\ push[n] # Idle
  BY DEF Record, media, history, At, Idle, Settled
<1>2. CASE job.state = "Verifying" /\ job' = [job EXCEPT !.state = "Committing"]
           /\ Goto(n, "recorded")
  <2>1. job'.state = "Committing"
    BY <1>2 DEF Types, RowTypes
  <2>2. Installing = {} /\ passed = {}
    BY <1>2 DEF Final, StateOfRow, Past
  <2>3. disk = Source(version) /\ trash = Gone /\ landed = {} /\ ~retained
    BY <2>2 DEF Final, StateOfRow, InPlace, Gone
  <2>4. push'[n].pc = "recorded" /\ Others(n)
    BY <1>1, <1>2, GotoIs DEF Types, Received
  <2>5. \A m \in Attempts : m # n => push'[m].pc \notin Begun
    BY <2>2, <2>4 DEF Installing, Others
  <2>6. Single(Installing') /\ Single(landed')
    BY <1>1, <2>3, <2>5 DEF Single, Installing, Settled
  <2>7. StateOfRow'
    BY <1>1, <2>1, <2>2, <2>3 DEF StateOfRow, Past, Gone, Settled, Source
  <2>8. StateOfMedia'
    BY <1>1 DEF Final, StateOfMedia, Settled
  <2>9. \A m \in Attempts : StateOfPush(m)'
    BY <1>1, <2>2, <2>4, <2>5 DEF StateOfPush, Begun, Settling, Settled
  <2>10. QED BY <2>6, <2>7, <2>8, <2>9 DEF Final
<1>3. CASE UNCHANGED job /\ Over(n)
  BY <1>1, <1>3, ThinOver, ThinIsQuiet, FinalQuiet DEF Types, RowSteps
<1>4. QED BY <1>2, <1>3 DEF Record

(* What the one push whose ritual has begun does next.                      *)
LEMMA FinalMove ==
  ASSUME Final, NEW n \in Attempts, n \in Installing, Others(n), push'[n].pc \in Begun
  PROVE  /\ Single(Installing')
         /\ \A m \in Attempts : m # n => push'[m].pc \notin Begun
<1>1. \A m \in Attempts : m # n => push[m].pc \notin Begun
  BY DEF Final, Single, Installing
<1>2. QED BY <1>1 DEF Others, Installing, Single

LEMMA FinalVerify ==
  ASSUME Types, Final, NEW n \in Attempts, Verify(n)
  PROVE  Final'
<1>1. push[n].pc = "recorded" /\ push[n] # Idle /\ n \in Installing
  BY DEF Verify, At, Idle, Installing, Begun, Settling
<1>2. /\ passed = {} /\ disk = Source(version) /\ trash = Gone /\ landed = {} /\ ~retained
      /\ job.state \in {"Committing", "NeedsOperator"}
  BY <1>1 DEF Final, StateOfPush, StateOfRow, Past, Settling
<1>3. UNCHANGED <<job, disk, version, trash, retained, landed>>
  BY DEF Verify, jobVars, media
<1>4. Single(landed') /\ StateOfMedia'
  BY <1>3 DEF Final, Single, StateOfMedia
<1>5. disk.kind = "source" /\ disk # Gone
  BY <1>2 DEF Source, Gone
<1>6. StateOfRow'
  BY <1>2, <1>3, <1>5 DEF StateOfRow, Past
<1>7. CASE GuardHolds(n)
  <2>1. passed' = {[attempt |-> n, saw |-> disk]}
    BY <1>2, <1>7 DEF Verify
  <2>2. push'[n].pc = "checked" /\ Others(n)
    BY <1>1, <1>7, GotoIs DEF Verify, Types, Received
  <2>3. Single(Installing') /\ \A m \in Attempts : m # n => push'[m].pc \notin Begun
    BY <1>1, <2>2, FinalMove DEF Begun, Settling
  <2>4. StateOfPush(n)'
    BY <1>2, <1>3, <2>1, <2>2 DEF StateOfPush, Source
  <2>5. \A m \in Attempts : m # n => StateOfPush(m)'
    BY <2>3 DEF StateOfPush, Begun, Settling
  <2>6. QED BY <1>4, <1>6, <2>3, <2>4, <2>5 DEF Final
<1>8. CASE ~GuardHolds(n)
  <2>1. push'[n].pc = "resolve" /\ push'[n].label = "source_intact" /\ Others(n)
    BY <1>1, <1>8, ResolveIs DEF Verify, Types, Labels
  <2>2. Single(Installing') /\ \A m \in Attempts : m # n => push'[m].pc \notin Begun
    BY <1>1, <2>1, FinalMove DEF Begun, Settling
  <2>3. StateOfPush(n)'
    BY <1>2, <1>3, <1>5, <2>1 DEF StateOfPush
  <2>4. \A m \in Attempts : m # n => StateOfPush(m)'
    BY <2>2 DEF StateOfPush, Begun, Settling
  <2>5. QED BY <1>4, <1>6, <2>2, <2>3, <2>4 DEF Final
<1>9. QED BY <1>7, <1>8

LEMMA FinalSetAside ==
  ASSUME Types, Final, NEW n \in Attempts, SetAside(n)
  PROVE  Final'
<1>1. push[n].pc = "checked" /\ push[n] # Idle /\ n \in Installing
  BY DEF SetAside, At, Idle, Installing, Begun, Settling
<1>2. /\ disk = Source(version) /\ landed = {} /\ passed # {} /\ ~retained
      /\ job.state \in {"Committing", "NeedsOperator"}
  BY <1>1 DEF Final, StateOfPush, StateOfRow, Past, Settling
<1>3. /\ UNCHANGED <<job, retained, version, passed>>
      /\ disk' = Gone /\ trash' = disk /\ landed' = {[attempt |-> n, over |-> trash']}
  BY <1>2 DEF SetAside, jobVars
<1>4. push'[n].pc = "aside" /\ Others(n)
  BY <1>1, GotoIs DEF SetAside, Types, Received
<1>5. Single(Installing') /\ \A m \in Attempts : m # n => push'[m].pc \notin Begun
  BY <1>1, <1>4, FinalMove DEF Begun, Settling
<1>6. trash'.kind = "source" /\ trash'.version = version'
  BY <1>2, <1>3 DEF Source
<1>7. StateOfRow'
  BY <1>2, <1>3, <1>6 DEF StateOfRow, Past
<1>8. StateOfMedia'
  BY <1>3, <1>6 DEF StateOfMedia, Gone, Types, MediaTypes, Versions
<1>9. StateOfPush(n)'
  BY <1>3, <1>4, <1>6 DEF StateOfPush
<1>10. \A m \in Attempts : m # n => StateOfPush(m)'
  BY <1>5 DEF StateOfPush, Begun, Settling
<1>11. Single(landed')
  BY <1>3 DEF Single
<1>12. QED BY <1>5, <1>7, <1>8, <1>9, <1>10, <1>11 DEF Final

LEMMA FinalInstall ==
  ASSUME Types, Final, NEW n \in Attempts, Install(n)
  PROVE  Final'
<1>1. push[n].pc = "aside" /\ push[n] # Idle /\ n \in Installing
  BY DEF Install, At, Idle, Installing, Begun, Settling
<1>2. /\ disk = Gone \/ Overwritten
      /\ landed = {[attempt |-> n, over |-> trash]}
      /\ trash.kind = "source" /\ passed # {} /\ ~retained
      /\ job.state \in {"Committing", "NeedsOperator"}
  BY <1>1 DEF Final, StateOfPush, StateOfRow, Past, Settling
<1>3. UNCHANGED <<job, version, retained, passed>>
  BY DEF Install, jobVars
<1>4. PICK label \in Labels :
        /\ push' = [push EXCEPT ![n].pc = "resolve", ![n].label = label]
        /\ \/ label = "installed" /\ disk'.kind = "output" /\ UNCHANGED <<trash, landed>>
           \/ label = "source_restored" /\ disk' = trash /\ trash' = Gone /\ landed' = {}
           \/ label = "needs_operator" /\ UNCHANGED <<disk, trash>> /\ landed' = {}
  BY <1>2 DEF Install, Labels, Output
<1>5. push'[n].pc = "resolve" /\ push'[n].label = label /\ Others(n)
  BY <1>1, <1>4, ResolveIs DEF Types
<1>6. Single(Installing') /\ \A m \in Attempts : m # n => push'[m].pc \notin Begun
  BY <1>1, <1>5, FinalMove DEF Begun, Settling
<1>7. StateOfRow'
  BY <1>2, <1>3, <1>4 DEF StateOfRow, Past, Gone
<1>8. StateOfMedia'
  BY <1>2, <1>3, <1>4 DEF Final, StateOfMedia, Gone
<1>9. StateOfPush(n)'
  BY <1>2, <1>4, <1>5 DEF StateOfPush, InPlace
<1>10. \A m \in Attempts : m # n => StateOfPush(m)'
  BY <1>6 DEF StateOfPush, Begun, Settling
<1>11. Single(landed')
  BY <1>2, <1>4 DEF Single
<1>12. QED BY <1>6, <1>7, <1>8, <1>9, <1>10, <1>11 DEF Final

LEMMA FinalResolve ==
  ASSUME Types, Final, NEW n \in Attempts, ResolveIntent(n)
  PROVE  Final'
<1>1. UNCHANGED job /\ Settled /\ push[n] # Idle /\ push[n].pc = "resolve"
  BY DEF ResolveIntent, media, history, At, Idle, Settled
<1>2. CASE Goto(n, "conclude")
  <2>1. push'[n].pc = "conclude" /\ push'[n].label = push[n].label /\ Others(n)
    BY <1>1, <1>2, GotoIs DEF Types, Received
  <2>2. Single(Installing') /\ \A m \in Attempts : m # n => push'[m].pc \notin Begun
    BY <1>1, <2>1, FinalMove DEF Begun, Settling, Installing
  <2>3. job.state \notin {"Succeeded", "Failed"} /\ job.state \in Past /\ ~retained
    BY <1>1 DEF Final, StateOfRow, Settling, Begun, Installing
  <2>4. StateOfRow'
    BY <1>1, <2>3 DEF StateOfRow, Final, Gone, Settled, Source
  <2>5. InPlace' = InPlace
    BY <1>1 DEF InPlace, Overwritten, Settled
  <2>6. \A m \in Attempts : StateOfPush(m)'
    BY <1>1, <2>1, <2>2, <2>5 DEF StateOfPush, Begun, Settling, Final, Settled
  <2>7. StateOfMedia' /\ Single(landed')
    BY <1>1 DEF Final, StateOfMedia, Settled, Single
  <2>8. QED BY <2>2, <2>4, <2>6, <2>7 DEF Final
<1>3. CASE Over(n)
  BY <1>1, <1>3, ThinOver, ThinIsQuiet, FinalQuiet DEF Types, RowSteps
<1>4. QED BY <1>2, <1>3 DEF ResolveIntent

LEMMA FinalConclude ==
  ASSUME Types, Final, NEW n \in Attempts, Conclude(n)
  PROVE  Final'
<1>1. Settled /\ push[n] # Idle /\ push[n].pc = "conclude" /\ n \in Installing
  BY DEF Conclude, media, history, At, Idle, Installing, Begun, Settling, Settled
<1>2. push'[n].pc = "retain" /\ push'[n].label = push[n].label /\ Others(n)
  BY <1>1, GotoIs DEF Conclude, Types, Received
<1>3. Single(Installing') /\ \A m \in Attempts : m # n => push'[m].pc \notin Begun
  BY <1>1, <1>2, FinalMove DEF Begun
<1>4. \A m \in Attempts : push'[m].pc \notin Settling
  BY <1>2, <1>3 DEF Begun, Settling
<1>5. StateOfPush(n) /\ StateOfRow /\ job.state \in Past /\ ~retained
  BY <1>1 DEF Final, StateOfRow
<1>6. InPlace' = InPlace
  BY <1>1 DEF InPlace, Overwritten, Settled
<1>7. StateOfRow'
  <2>1. CASE job.state = "Committing" /\ job' = [job EXCEPT !.state = OutcomeOf(push[n].label)]
    <3>1. job'.state = OutcomeOf(push[n].label)
      BY <2>1 DEF Types, RowTypes
    <3>2. \/ InPlace /\ disk # Gone /\ job'.state = "Succeeded"
          \/ disk.kind = "source" /\ landed = {} /\ job'.state = "Failed"
          \/ job'.state = "NeedsOperator"
      BY <1>1, <1>5, <3>1 DEF StateOfPush, OutcomeOf, InPlace, Overwritten, Gone, Source
    <3>3. QED BY <1>1, <1>4, <1>5, <1>6, <3>2 DEF StateOfRow, Past, Gone, Settled, Source
  <2>2. CASE UNCHANGED job
    BY <1>1, <1>4, <1>5, <1>6, <2>2 DEF StateOfRow, Gone, Settled, Source
  <2>3. QED BY <2>1, <2>2 DEF Conclude
<1>8. \A m \in Attempts : StateOfPush(m)'
  BY <1>1, <1>2, <1>3, <1>5, <1>6 DEF StateOfPush, Begun, Settling, Settled
<1>9. StateOfMedia' /\ Single(landed')
  BY <1>1 DEF Final, StateOfMedia, Settled, Single
<1>10. QED BY <1>3, <1>7, <1>8, <1>9 DEF Final

LEMMA FinalRetain ==
  ASSUME Types, Final, NEW n \in Attempts, Retain(n)
  PROVE  Final'
<1>1. /\ UNCHANGED <<job, disk, version, trash, passed, landed>>
      /\ push[n].pc = "retain" /\ Over(n)
  BY DEF Retain, jobVars, history, At
<1>2. Thin /\ Quiet
  BY ThinSteps, ThinIsQuiet
<1>3. Installing' = {}
  <2>1. Installing' \subseteq Installing
    BY <1>2 DEF Installing, Quiet
  <2>2. n \in Installing /\ n \notin Installing'
    BY <1>1 DEF Installing, Begun, Settling, Over, Types, PushTypes, Idle
  <2>3. QED BY <2>1, <2>2 DEF Final, Single
<1>4. retained' => retained \/ InPlace
  BY <1>1 DEF Retain, Final, StateOfPush
<1>5. \A m \in Attempts : push'[m].pc \in Settling => push[m].pc \in Settling
  BY <1>2 DEF Quiet, Begun, Settling
<1>6. InPlace' = InPlace /\ Overwritten' = Overwritten
  BY <1>1 DEF InPlace, Overwritten
<1>7. StateOfRow'
  BY <1>1, <1>3, <1>4, <1>5, <1>6 DEF Final, StateOfRow, Gone, Source
<1>8. \A m \in Attempts : StateOfPush(m)'
  BY <1>1, <1>2, <1>6 DEF Final, StateOfPush, Quiet, Begun, Settling, Source
<1>9. StateOfMedia' /\ Single(landed')
  BY <1>1 DEF Final, StateOfMedia, Single
<1>10. QED BY <1>3, <1>7, <1>8, <1>9 DEF Final, Single

LEMMA FinalEdit ==
  ASSUME Types, Final, Edit
  PROVE  Final'
<1>1. /\ UNCHANGED <<job, trash, retained, passed, landed, push>>
      /\ disk' = Source(version') /\ version' = version + 1
  BY DEF Edit, jobVars, history
<1>2. version \in Nat /\ version' \in Nat
  BY <1>1 DEF Types, MediaTypes, Versions
<1>3. disk'.kind = "source" /\ disk'.version = version'
  BY <1>1 DEF Source
<1>4. trash.kind = "source" => Overwritten'
  <2>1. trash.kind = "source" => trash.version <= version /\ trash.version \in Nat
    BY DEF Final, StateOfMedia, Types, MediaTypes, Files, Sources, Outputs, Gone, Versions
  <2>2. trash'.kind = "source" => trash'.version < version'
    BY <1>1, <1>2, <2>1
  <2>3. QED BY <1>1, <2>2 DEF Overwritten
<1>5. trash.kind = "source" => InPlace'
  BY <1>1, <1>4 DEF InPlace
<1>6. Installing' = Installing
  BY <1>1 DEF Installing
<1>7. StateOfRow'
  BY <1>1, <1>3, <1>5, <1>6 DEF Final, StateOfRow, Gone, InPlace
<1>8. StateOfMedia'
  <2>1. \A f \in {disk, trash} : f.kind = "source" => f.version \in Nat
    BY DEF Types, MediaTypes, Files, Sources, Outputs, Gone, Versions
  <2>2. trash'.kind = "source" => trash'.version <= version'
    BY <1>1, <1>2, <2>1 DEF Final, StateOfMedia
  <2>3. QED BY <1>1, <1>2, <1>3, <2>2 DEF Final, StateOfMedia
<1>9. \A n \in Attempts : StateOfPush(n)'
  <2> TAKE n \in Attempts
  <2>1. StateOfPush(n)
    BY DEF Final
  <2>2. QED BY <1>1, <1>3, <1>4, <1>5, <2>1 DEF StateOfPush, InPlace
<1>10. QED BY <1>1, <1>6, <1>7, <1>8, <1>9 DEF Final

LEMMA FinalWorld ==
  ASSUME Types, Final, ServerRestarts \/ Edit \/ Scan \/ UNCHANGED vars
  PROVE  Final'
<1>1. CASE ~Edit
  BY <1>1, ThinKept, ThinRestart, ThinIsQuiet, FinalQuiet
  DEF ServerRestarts, Scan, vars, jobVars, media, history, RowSteps, Settled
<1>2. QED BY <1>1, FinalEdit

LEMMA FinalNext ==
  ASSUME Types, Final, [Next]_vars
  PROVE  Final'
  BY FinalQueue, FinalAgent, FinalReceiving, FinalRecord, FinalVerify, FinalSetAside,
     FinalInstall, FinalResolve, FinalConclude, FinalRetain, FinalWorld DEF Next, Serve

-----------------------------------------------------------------------------
(* What is replaced is what was read.  An attempt is given out once, and    *)
(* what is known of it follows the one agent that has it.                   *)
Used(n) ==
  n < job.attempt \/ (n = job.attempt /\ job.state \notin {"Pending", "Eligible"})

Early == {"assigned", "fetching", "encoding", "reported"}

UnusedIsBlank == \A n \in Attempts : ~Used(n) => copy[n] = << >> /\ push[n] = Idle
PassedIsUsed == \A c \in passed : Used(c.attempt)
HeldIsUsed == \A a \in Agents : exec[a] # Idle => Used(exec[a].attempt)
HeldByOne ==
  \A a, b \in Agents :
    exec[a] # Idle /\ exec[b] # Idle /\ exec[a].attempt = exec[b].attempt => a = b
EarlyIsUnpushed ==
  \A a \in Agents : exec[a].pc \in Early =>
    push[exec[a].attempt] = Idle /\ \A c \in passed : c.attempt # exec[a].attempt
UnfetchedIsBlank ==
  \A a \in Agents : exec[a].pc \in {"assigned", "fetching"} => copy[exec[a].attempt] = << >>

Once ==
  /\ UnusedIsBlank /\ PassedIsUsed /\ HeldIsUsed /\ HeldByOne
  /\ EarlyIsUnpushed /\ UnfetchedIsBlank

(* A version read for attempt n: none later than the last written and,      *)
(* while no scan has come since the fetch began, none before the row's.     *)
Fits(f, n) ==
  /\ f \in Sources /\ f.version <= version
  /\ n \notin seen => row <= f.version

PlannedFromRow ==
  \A n \in Attempts : push[n] # Idle /\ n \notin seen => push[n].planned = row
CopiesFit == \A n \in Attempts : \A i \in DOMAIN copy[n] : Fits(copy[n][i], n)
FetchesFit ==
  \A a \in Agents : exec[a].pc = "fetching" =>
    /\ Fits(exec[a].opened, exec[a].attempt)
    /\ \A i \in DOMAIN exec[a].read : Fits(exec[a].read[i], exec[a].attempt)
ReadsFit == passed = {} => row <= version /\ CopiesFit /\ FetchesFit

(* What a check saw is what its attempt read, and what an install set aside *)
(* is that or something later.                                              *)
PassedFits ==
  \A c \in passed :
    /\ c.saw.version <= version
    /\ c.attempt \in seen \/ \A i \in DOMAIN copy[c.attempt] : copy[c.attempt][i] = c.saw
LandedPassed ==
  \A l \in landed : \E c \in passed :
    c.attempt = l.attempt /\ (c.saw = l.over \/ c.saw.version < l.over.version)

Reads == PlannedFromRow /\ ReadsFit /\ PassedFits /\ LandedPassed

UsedKept == \A n \in Attempts : Used(n) => Used(n)'

(* Agents let go or get on with the attempt they have.                      *)
ExecThin ==
  \A a \in Agents : exec'[a] # Idle =>
    /\ exec[a] # Idle /\ exec'[a].attempt = exec[a].attempt
    /\ exec'[a].pc \in Early => exec[a].pc \in Early
    /\ exec'[a].pc \in {"assigned", "fetching"} => exec[a].pc \in {"assigned", "fetching"}

PushThin == \A n \in Attempts : push'[n] # Idle => push[n] # Idle

LEMMA OnceThin ==
  ASSUME Types, Types', Once, UsedKept, ExecThin, PushThin, passed' = passed, copy' = copy
  PROVE  Once'
<1>1. UnusedIsBlank'
  BY DEF Once, UnusedIsBlank, UsedKept, PushThin
<1>2. PassedIsUsed'
  BY DEF Once, PassedIsUsed, UsedKept, Types, HistoryTypes
<1>3. HeldIsUsed'
  BY AgentHas DEF Once, HeldIsUsed, UsedKept, ExecThin, Types
<1>4. HeldByOne'
  BY DEF Once, HeldByOne, ExecThin
<1>5. \A a \in Agents : exec'[a].pc \in Early => exec'[a] # Idle
  BY DEF Early, Idle
<1>6. \A a \in Agents : exec[a] # Idle => exec[a].attempt \in Attempts
  BY AgentHas DEF Types
<1>7. EarlyIsUnpushed'
  BY <1>5, <1>6 DEF Once, EarlyIsUnpushed, ExecThin, PushThin
<1>8. UnfetchedIsBlank'
  BY <1>5 DEF Once, UnfetchedIsBlank, ExecThin, Early
<1>9. QED BY <1>1, <1>2, <1>3, <1>4, <1>7, <1>8 DEF Once

LEMMA UsedSame ==
  ASSUME RowTypes, job'.attempt = job.attempt,
         job'.state \in {"Pending", "Eligible"} => job.state \in {"Pending", "Eligible"}
  PROVE  UsedKept
  BY DEF UsedKept, Used

LEMMA UsedBackToQueue ==
  ASSUME RowTypes, BackToQueue, job.state \notin {"Pending", "Eligible"}
  PROVE  UsedKept
<1>1. job.attempt \in Nat
  BY DEF RowTypes, Attempts
<1>2. \/ job'.attempt = job.attempt /\ job'.state = "DeadLettered"
      \/ job'.attempt = job.attempt + 1
  BY DEF RowTypes, BackToQueue
<1>3. QED BY <1>1, <1>2 DEF UsedKept, Used, Attempts

LEMMA ExecThinKept ==
  ASSUME UNCHANGED exec
  PROVE  ExecThin
  BY DEF ExecThin

LEMMA ExecThinGiveUp ==
  ASSUME ExecTypes, NEW a \in Agents, GiveUp(a)
  PROVE  ExecThin
  BY DEF ExecThin, GiveUp, ExecTypes

LEMMA ExecThinOver ==
  ASSUME ExecTypes, PushTypes, NEW n \in Attempts, push[n] # Idle, Over(n)
  PROVE  ExecThin
<1>1. push[n].agent \in Agents
  BY PushHas DEF Pushes
<1>2. QED BY <1>1, ExecThinGiveUp, ExecThinKept DEF Over

LEMMA OnceQueue ==
  ASSUME Types, Types', Once, Queue
  PROVE  Once'
<1>1. UNCHANGED <<exec, push, copy, passed>>
  BY DEF Queue, Reclaim, Sweep, OnResult, history
<1>2. UsedKept
  <2>1. CASE Reclaim
    <3>1. job.state \notin {"Pending", "Eligible"}
      BY <2>1 DEF Reclaim, Held, HoldsCapacity
    <3>2. BackToQueue \/ (job'.attempt = job.attempt /\ job'.state = "NeedsOperator")
      BY <2>1 DEF Reclaim, Types, RowTypes
    <3>3. QED BY <3>1, <3>2, UsedBackToQueue, UsedSame DEF Types
  <2>2. CASE \E n \in Attempts : Sweep(n)
    BY <2>2, UsedSame DEF Types, Sweep
  <2>3. CASE \E r \in results : OnResult(r)
    <3>1. \/ BackToQueue /\ job.state \notin {"Pending", "Eligible"}
          \/ job'.attempt = job.attempt /\ job'.state = "Verifying"
          \/ UNCHANGED job
      BY <2>3 DEF OnResult, Types, RowTypes
    <3>2. QED BY <3>1, UsedBackToQueue, UsedSame DEF Types
  <2>4. QED BY <2>1, <2>2, <2>3 DEF Queue
<1>3. QED BY <1>1, <1>2, OnceThin, ExecThinKept DEF PushThin

LEMMA OncePlace ==
  ASSUME Types, Types', Once, NEW a \in Agents, Place(a)
  PROVE  Once'
<1>0. PICK n : n = job.attempt
  OBVIOUS
<1>1. /\ n \in Attempts /\ ~Used(n) /\ exec[a] = Idle /\ UNCHANGED <<push, copy, passed>>
      /\ exec'[a].attempt = n /\ exec'[a].pc = "assigned" /\ exec'[a] # Idle
      /\ \A b \in Agents : b # a => exec'[b] = exec[b]
  <2> DEFINE x == [pc |-> "assigned", attempt |-> n, epoch |-> epoch[a], stream |-> TRUE]
  <2>1. x.attempt = n /\ x.pc = "assigned" /\ x # Idle
    BY DEF Idle
  <2>2. exec' = [exec EXCEPT ![a] = x]
    BY <1>0 DEF Place
  <2> HIDE DEF x
  <2>3. exec'[a] = x /\ \A b \in Agents : b # a => exec'[b] = exec[b]
    BY <2>2 DEF Types, ExecTypes
  <2>4. exec[a] = Idle /\ UNCHANGED <<push, copy, passed>>
    BY DEF Place, history
  <2>5. n \in Attempts /\ ~Used(n)
    BY <1>0 DEF Place, Types, RowTypes, Used, Attempts
  <2>6. QED BY <2>1, <2>3, <2>4, <2>5
<1>2. job'.attempt = n /\ job'.state = "Assigned" /\ job.attempt = n
  BY <1>0 DEF Place, Types, RowTypes
<1>3. UsedKept /\ Used(n)'
  BY <1>2 DEF UsedKept, Used, Types, RowTypes, Attempts
<1>4. \A b \in Agents : exec[b] # Idle => exec[b].attempt \in Attempts /\ exec[b].attempt # n
  BY <1>1, AgentHas DEF Types, Once, HeldIsUsed
<1>5. UnusedIsBlank' /\ PassedIsUsed'
  BY <1>1, <1>3 DEF Once, UnusedIsBlank, PassedIsUsed, UsedKept, Types, HistoryTypes
<1>6. HeldIsUsed'
  BY <1>1, <1>3, <1>4 DEF Once, HeldIsUsed, UsedKept
<1>7. HeldByOne'
  BY <1>1, <1>4 DEF Once, HeldByOne
<1>8. push[n] = Idle /\ copy[n] = << >> /\ \A c \in passed : c.attempt # n
  BY <1>1 DEF Once, UnusedIsBlank, PassedIsUsed
<1>9. EarlyIsUnpushed'
  BY <1>1, <1>8 DEF Once, EarlyIsUnpushed
<1>10. UnfetchedIsBlank'
  BY <1>1, <1>8 DEF Once, UnfetchedIsBlank
<1>11. QED BY <1>5, <1>6, <1>7, <1>9, <1>10 DEF Once

LEMMA OnceAgent ==
  ASSUME Types, Types', Once, NEW a \in Agents,
         Agent(a) \/ FetchFails(a) \/ CallBreaks(a) \/ AgentStops(a) \/ AgentReturns(a)
  PROVE  Once'
<1> USE DEF Types
<1>0. UsedKept /\ UNCHANGED passed
  BY UsedSame DEF Agent, FetchStart, FetchChunk, FetchEnd, Encoded, PushStart, FetchFails,
     CallBreaks, AgentStops, AgentReturns, jobVars, history
<1>a. GiveUp(a) => ExecThin
  BY ExecThinGiveUp
<1>1. CASE FetchStart(a) \/ FetchChunk(a)
  <2>1. ExecThin
    <3>1. CASE FetchStart(a)
      <4> DEFINE x == [pc |-> "fetching", attempt |-> exec[a].attempt,
                       epoch |-> exec[a].epoch, stream |-> exec[a].stream,
                       opened |-> disk, read |-> << >>]
      <4>1. exec' = [exec EXCEPT ![a] = x] \/ GiveUp(a)
        BY <3>1, Zenon DEF FetchStart
      <4>2. x.pc = "fetching" /\ x.attempt = exec[a].attempt /\ exec[a].pc = "assigned"
        BY <3>1 DEF FetchStart
      <4> HIDE DEF x
      <4>3. QED BY <1>a, <4>1, <4>2 DEF ExecTypes, ExecThin, Early, Idle
    <3>2. CASE FetchChunk(a)
      <4>1. exec[a] \in Fetch /\ exec[a].pc = "fetching"
        BY <3>2, AgentHas DEF FetchChunk
      <4>2. PICK s : exec' = [exec EXCEPT ![a].read = s]
        BY <3>2 DEF FetchChunk, ExecTypes
      <4>3. exec'[a].pc = "fetching" /\ exec'[a].attempt = exec[a].attempt
        BY <4>1, <4>2 DEF ExecTypes, Fetch
      <4>4. QED BY <4>1, <4>2, <4>3 DEF ExecTypes, ExecThin, Early, Idle
    <3>3. QED BY <1>1, <3>1, <3>2
  <2>2. QED BY <1>0, <1>1, <2>1, OnceThin DEF FetchStart, FetchChunk, PushThin, history
<1>2. CASE FetchEnd(a)
  <2>0. PICK n : n = exec[a].attempt
    OBVIOUS
  <2>1. /\ exec[a].pc = "fetching" /\ exec[a] # Idle /\ exec[a].attempt = n /\ n \in Attempts
        /\ exec'[a].pc = "encoding" /\ exec'[a].attempt = n
        /\ \A b \in Agents : b # a => exec'[b] = exec[b]
        /\ \A m \in Attempts : m # n => copy'[m] = copy[m]
        /\ UNCHANGED push
    BY <1>2, <2>0, AgentHas DEF FetchEnd, ExecTypes, HistoryTypes, Idle
  <2>2. Used(n)
    BY <2>1 DEF Once, HeldIsUsed
  <2>3. UnusedIsBlank'
    <3>1. \A m \in Attempts : ~Used(m)' => ~Used(m) /\ m # n
      BY <1>0, <2>1, <2>2 DEF UsedKept
    <3>2. QED BY <2>1, <3>1 DEF Once, UnusedIsBlank
  <2>4. PassedIsUsed' /\ HeldIsUsed' /\ HeldByOne'
    <3>1. \A b \in Agents : exec'[b] # Idle =>
            exec[b] # Idle /\ exec'[b].attempt = exec[b].attempt /\ exec[b].attempt \in Attempts
      BY <2>1, AgentHas
    <3>2. PassedIsUsed'
      BY <1>0 DEF Once, PassedIsUsed, UsedKept, HistoryTypes
    <3>3. HeldIsUsed'
      BY <1>0, <3>1 DEF Once, HeldIsUsed, UsedKept
    <3>4. HeldByOne'
      BY <3>1 DEF Once, HeldByOne
    <3>5. QED BY <3>2, <3>3, <3>4
  <2>5. EarlyIsUnpushed'
    BY <1>0, <2>1 DEF Once, EarlyIsUnpushed, Early
  <2>6. \A b \in Agents : b # a /\ exec[b] # Idle => exec[b].attempt # n
    BY <2>1 DEF Once, HeldByOne
  <2>7. UnfetchedIsBlank'
    BY <2>1, <2>6, AgentHas DEF Once, UnfetchedIsBlank, Idle
  <2>8. QED BY <2>3, <2>4, <2>5, <2>7 DEF Once
<1>3. CASE Encoded(a) \/ FetchFails(a)
  <2>1. exec[a].pc = "encoding" => exec[a] \in Work
    BY AgentHas
  <2>2. CASE exec' = [exec EXCEPT ![a].pc = "reported"] /\ exec[a].pc = "encoding"
    <3>1. exec'[a].attempt = exec[a].attempt /\ exec'[a].pc = "reported"
      BY <2>1, <2>2 DEF ExecTypes, Work
    <3>2. ExecThin
      BY <2>2, <3>1 DEF ExecTypes, ExecThin, Early, Idle
    <3>3. QED BY <1>0, <1>3, <3>2, OnceThin
          DEF Encoded, FetchFails, PushThin, history
  <2>3. CASE GiveUp(a)
    BY <1>0, <1>a, <1>3, <2>3, OnceThin DEF Encoded, FetchFails, PushThin, history
  <2>4. QED BY <1>3, <2>2, <2>3 DEF Encoded, FetchFails
<1>4. CASE PushStart(a)
  <2> DEFINE n == exec[a].attempt
  <2>1. exec[a] \in Work /\ exec[a] # Idle /\ n \in Attempts /\ copy' = copy
    BY <1>4, AgentHas DEF PushStart, Idle, Work, history
  <2>2. CASE Others(n) /\ exec' = [exec EXCEPT ![a].pc = "pushing"]
    <3>1. /\ exec'[a].pc = "pushing" /\ exec'[a].attempt = n /\ exec'[a] # Idle
          /\ \A b \in Agents : b # a => exec'[b] = exec[b]
      BY <2>1, <2>2 DEF ExecTypes, Work, Idle
    <3>2. Used(n) /\ \A b \in Agents : b # a /\ exec[b] # Idle => exec[b].attempt # n
      BY <2>1 DEF Once, HeldIsUsed, HeldByOne
    <3>3. UnusedIsBlank'
      BY <1>0, <2>1, <2>2, <3>2 DEF Once, UnusedIsBlank, UsedKept, Others
    <3>4. PassedIsUsed' /\ HeldIsUsed' /\ HeldByOne'
      BY <1>0, <2>1, <3>1, AgentHas
      DEF Once, PassedIsUsed, HeldIsUsed, HeldByOne, UsedKept, HistoryTypes
    <3>5. \A b \in Agents : exec'[b].pc \in Early => b # a /\ exec[b] # Idle
      BY <3>1 DEF Early, Idle
    <3>6. EarlyIsUnpushed'
      BY <1>0, <2>2, <3>1, <3>2, <3>5, AgentHas DEF Once, EarlyIsUnpushed, Others
    <3>7. UnfetchedIsBlank'
      BY <2>1, <3>1, <3>5 DEF Once, UnfetchedIsBlank, Early
    <3>8. QED BY <3>3, <3>4, <3>6, <3>7 DEF Once
  <2>3. CASE UNCHANGED push /\ GiveUp(a)
    BY <1>0, <1>a, <2>1, <2>3, OnceThin DEF PushThin
  <2>4. QED BY <1>4, <2>2, <2>3, PushStartIs
<1>5. CASE CallBreaks(a) \/ AgentStops(a)
  <2>1. PushThin
    BY <1>5, ThinAgents DEF Thin, SamePush, PushThin
  <2>2. ExecThin
    <3>1. \A x \in Work \cup Fetch : [x EXCEPT !.stream = FALSE].pc = x.pc
                                   /\ [x EXCEPT !.stream = FALSE].attempt = x.attempt
      BY DEF Work, Fetch
    <3>2. exec[a] # Idle => exec[a] \in Work \cup Fetch
      BY DEF ExecTypes
    <3>3. \/ GiveUp(a)
          \/ /\ exec[a] # Idle /\ exec'[a] = [exec[a] EXCEPT !.stream = FALSE]
             /\ \A b \in Agents : b # a => exec'[b] = exec[b]
      BY <1>5 DEF CallBreaks, AgentStops, GiveUp, ExecTypes
    <3>4. QED BY <1>a, <3>1, <3>2, <3>3 DEF ExecThin
  <2>3. QED BY <1>0, <1>5, <2>1, <2>2, OnceThin DEF CallBreaks, AgentStops, history
<1>6. CASE AgentReturns(a)
  BY <1>0, <1>6, OnceThin, ExecThinKept DEF AgentReturns, PushThin, history
<1>7. QED BY <1>1, <1>2, <1>3, <1>4, <1>5, <1>6 DEF Agent

LEMMA OnceServe ==
  ASSUME Types, Types', Once, NEW n \in Attempts, Serve(n) \/ RitualFails(n) \/ Dropped(n)
  PROVE  Once'
<1> USE DEF Types
<1>1. copy' = copy /\ push[n] # Idle
  BY DEF Serve, PushChunk, PushEnd, Rejudge, Record, Verify, SetAside, Install, ResolveIntent,
         Conclude, Retain, RitualFails, Dropped, At, Idle, history
<1>2. UsedKept
  <2>1. \/ UNCHANGED job
        \/ job'.attempt = job.attempt /\ job'.state = "Committing"
        \/ job'.attempt = job.attempt /\ job'.state = OutcomeOf(push[n].label)
    BY DEF Serve, PushChunk, PushEnd, Rejudge, Record, Verify, SetAside, Install, ResolveIntent,
           Conclude, Retain, RitualFails, Dropped, jobVars, RowTypes
  <2>2. OutcomeOf(push[n].label) \notin {"Pending", "Eligible"}
    BY DEF OutcomeOf
  <2>3. QED BY <2>1, <2>2, UsedSame
<1>3. ExecThin
  BY <1>1, ExecThinKept, ExecThinOver, ChunkIs
  DEF Serve, PushEnd, Rejudge, Record, Verify, SetAside, Install, ResolveIntent,
      Conclude, Retain, RitualFails, Dropped
<1>4. PushThin
  <2>1. push' = [push EXCEPT ![n] = push'[n]] \/ Thin
    BY ThinOver, ThinSteps
    DEF Serve, PushChunk, PushEnd, Rejudge, Record, Verify, SetAside, Install, ResolveIntent, Goto,
        Conclude, PushTypes
  <2>2. QED BY <1>1, <2>1 DEF Thin, SamePush, PushThin, PushTypes
<1>5. CASE ~Verify(n)
  <2>1. passed' = passed
    BY <1>5 DEF Serve, PushChunk, PushEnd, Rejudge, Record, Verify, SetAside, Install, ResolveIntent,
           Conclude, Retain, RitualFails, Dropped, history
  <2>2. QED BY <1>1, <1>2, <1>3, <1>4, <2>1, OnceThin
<1>6. CASE Verify(n)
  <2>1. UNCHANGED <<exec, job>> /\ \A c \in passed' : c \in passed \/ c.attempt = n
    BY <1>6 DEF Verify, jobVars
  <2>2. Used(n)
    BY <1>1 DEF Once, UnusedIsBlank
  <2>3. \A a \in Agents : exec[a].pc \in Early => exec[a].attempt # n
    BY <1>1 DEF Once, EarlyIsUnpushed
  <2>4. UnusedIsBlank' /\ PassedIsUsed'
    BY <1>1, <1>2, <1>4, <2>1, <2>2
    DEF Once, UnusedIsBlank, PassedIsUsed, PushThin, UsedKept, HistoryTypes
  <2>5. HeldIsUsed' /\ HeldByOne' /\ UnfetchedIsBlank'
    BY <1>1, <2>1, <1>2, AgentHas DEF Once, HeldIsUsed, HeldByOne, UnfetchedIsBlank, UsedKept
  <2>6. EarlyIsUnpushed'
    <3>1. \A a \in Agents : exec[a].pc \in Early => exec[a].attempt \in Attempts
      BY AgentHas DEF Early, Idle
    <3>2. QED BY <1>4, <2>1, <2>3, <3>1 DEF Once, EarlyIsUnpushed, PushThin
  <2>7. QED BY <2>4, <2>5, <2>6 DEF Once
<1>7. QED BY <1>5, <1>6

LEMMA OnceWorld ==
  ASSUME Types, Types', Once, ServerRestarts \/ Edit \/ Scan \/ UNCHANGED vars
  PROVE  Once'
<1>1. UsedKept /\ passed' = passed /\ copy' = copy
  BY UsedSame
  DEF ServerRestarts, Edit, Scan, vars, jobVars, history, Types, RowTypes
<1>2. PushThin
  BY DEF ServerRestarts, Edit, Scan, vars, PushThin
<1>3. ExecThin
  <2>1. CASE ServerRestarts
    <3>1. \A x \in Work : [x EXCEPT !.stream = FALSE].pc = x.pc
                         /\ [x EXCEPT !.stream = FALSE].attempt = x.attempt
      BY DEF Work
    <3>2. \A a \in Agents : exec[a].pc \notin {"idle", "fetching", "pushing"} =>
            exec[a] \in Work /\ exec[a] # Idle
      BY AgentHas DEF Types, ExecTypes, Work, Fetch, Idle
    <3>3. \A a \in Agents : exec'[a] # Idle =>
            /\ exec[a].pc \notin {"idle", "fetching", "pushing"}
            /\ exec'[a] = [exec[a] EXCEPT !.stream = FALSE]
      BY <2>1 DEF ServerRestarts
    <3>4. QED BY <3>1, <3>2, <3>3 DEF ExecThin
  <2>2. CASE ~ServerRestarts
    BY <2>2, ExecThinKept DEF Edit, Scan, vars
  <2>3. QED BY <2>1, <2>2
<1>4. QED BY <1>1, <1>2, <1>3, OnceThin

LEMMA OnceNext ==
  ASSUME Types, Types', Once, [Next]_vars
  PROVE  Once'
  BY OnceQueue, OncePlace, OnceAgent, OnceServe, OnceWorld DEF Next

PlansThin ==
  \A n \in Attempts : push'[n] # Idle => push[n] # Idle /\ push'[n].planned = push[n].planned

FetchesThin ==
  \A a \in Agents : exec'[a].pc = "fetching" =>
    /\ exec[a].pc = "fetching" /\ exec'[a].attempt = exec[a].attempt
    /\ exec'[a].opened = exec[a].opened /\ exec'[a].read = exec[a].read

(* What stays: the check has been passed by the same attempts, and versions *)
(* only grow.                                                               *)
ReadsSame == UNCHANGED <<copy, seen, row, passed>> /\ version <= version'

LEMMA ReadsTypes ==
  ASSUME Types
  PROVE  /\ row \in Nat /\ version \in Nat
         /\ \A f \in Sources : f.version \in Nat
         /\ \A c \in passed : c.attempt \in Attempts /\ c.saw \in Sources
  BY DEF Types, MediaTypes, HistoryTypes, Sources, Versions

LEMMA FitsKept ==
  ASSUME Types, Types', UNCHANGED <<seen, row>>, version <= version', NEW f, NEW n, Fits(f, n)
  PROVE  Fits(f, n)'
<1>1. f \in Sources /\ f.version \in Nat /\ version \in Nat /\ version' \in Nat
  BY ReadsTypes DEF Fits, Types, MediaTypes, Versions
<1>2. f.version <= version'
  BY <1>1 DEF Fits
<1>3. QED BY <1>1, <1>2 DEF Fits

LEMMA PassedKept ==
  ASSUME Types, Types', PassedFits, UNCHANGED <<copy, seen, passed>>, version <= version'
  PROVE  PassedFits'
<1>1. \A c \in passed : c.saw.version \in Nat /\ version \in Nat /\ version' \in Nat
  BY ReadsTypes DEF Types, MediaTypes, Versions
<1>2. \A c \in passed : c.saw.version <= version'
  BY <1>1 DEF PassedFits
<1>3. QED BY <1>2 DEF PassedFits

LEMMA LandedKept ==
  ASSUME LandedPassed, UNCHANGED passed, landed' \subseteq landed
  PROVE  LandedPassed'
  BY DEF LandedPassed

LEMMA ReadsThin ==
  ASSUME Types, Types', Reads, ReadsSame, landed' \subseteq landed, PlansThin, FetchesThin
  PROVE  Reads'
<1>1. PlannedFromRow'
  BY DEF Reads, PlannedFromRow, PlansThin, ReadsSame
<1>2. ReadsFit'
  <2>1. SUFFICES ASSUME passed = {} PROVE row' <= version' /\ CopiesFit' /\ FetchesFit'
    BY DEF ReadsFit, ReadsSame
  <2>2. row <= version /\ CopiesFit /\ FetchesFit
    BY <2>1 DEF Reads, ReadsFit
  <2>3. row' <= version'
    BY <2>2, ReadsTypes DEF ReadsSame, Types, MediaTypes, Versions
  <2>4. \A f, n : Fits(f, n) => Fits(f, n)'
    BY FitsKept DEF ReadsSame
  <2>5. CopiesFit'
    BY <2>2, <2>4 DEF CopiesFit, ReadsSame
  <2>6. FetchesFit'
    BY <2>2, <2>4 DEF FetchesFit, FetchesThin
  <2>7. QED BY <2>3, <2>5, <2>6
<1>3. PassedFits' /\ LandedPassed'
  BY PassedKept, LandedKept DEF Reads, ReadsSame
<1>4. QED BY <1>1, <1>2, <1>3 DEF Reads

LEMMA PlansThinThin ==
  ASSUME Thin
  PROVE  PlansThin
  BY DEF Thin, SamePush, PlansThin

LEMMA SameReads ==
  ASSUME Types, UNCHANGED <<copy, seen, row, passed, version>>
  PROVE  ReadsSame
  BY ReadsTypes DEF ReadsSame

LEMMA ReadsQueue ==
  ASSUME Types, Types', Reads, Queue \/ \E a \in Agents : Place(a)
  PROVE  Reads'
<1>1. UNCHANGED <<push, copy, seen, row, passed, version, landed>>
  BY DEF Queue, Reclaim, Sweep, OnResult, Place, media, history
<1>2. FetchesThin
  <2>1. ASSUME NEW a \in Agents, Place(a) PROVE FetchesThin
    <3> DEFINE x == [pc |-> "assigned", attempt |-> job.attempt, epoch |-> epoch[a],
                     stream |-> TRUE]
    <3>1. exec' = [exec EXCEPT ![a] = x]
      BY <2>1, Zenon DEF Place
    <3>2. x.pc = "assigned"
      OBVIOUS
    <3> HIDE DEF x
    <3>3. QED BY <3>1, <3>2 DEF Types, ExecTypes, FetchesThin
  <2>2. Queue => FetchesThin
    BY DEF Queue, Reclaim, Sweep, OnResult, FetchesThin
  <2>3. QED BY <2>1, <2>2
<1>3. PlansThin /\ ReadsSame
  BY <1>1, SameReads DEF PlansThin
<1>4. QED BY <1>1, <1>2, <1>3, ReadsThin

LEMMA GiveUpFetches ==
  ASSUME ExecTypes, NEW a \in Agents, GiveUp(a)
  PROVE  FetchesThin
  BY DEF GiveUp, ExecTypes, FetchesThin, Idle

(* A fetch begins: what its attempt was seen to have is forgotten, and      *)
(* there was nothing.                                                       *)
LEMMA ReadsFetchStart ==
  ASSUME Types, Types', Final, Once, Reads, NEW a \in Agents, FetchStart(a)
  PROVE  Reads'
<1> USE DEF Types
<1>0. PICK n : n = exec[a].attempt
  OBVIOUS
<1>1. /\ UNCHANGED <<push, copy, row, passed, version, landed, disk>>
      /\ exec[a].pc = "assigned" /\ exec[a] # Idle
  BY DEF FetchStart, media, Idle
<1>2. CASE GiveUp(a) /\ UNCHANGED seen
  BY <1>1, <1>2, GiveUpFetches, SameReads, ReadsThin DEF PlansThin
<1>3. CASE /\ disk # Gone
           /\ exec' = [exec EXCEPT ![a] = [pc |-> "fetching", attempt |-> n,
                            epoch |-> exec[a].epoch, stream |-> exec[a].stream,
                            opened |-> disk, read |-> << >>]]
           /\ seen' = seen \ {n}
  <2> DEFINE x == [pc |-> "fetching", attempt |-> n, epoch |-> exec[a].epoch,
                   stream |-> exec[a].stream, opened |-> disk, read |-> << >>]
  <2>1. x.pc = "fetching" /\ x.attempt = n /\ x.opened = disk /\ x.read = << >>
    OBVIOUS
  <2>2. exec' = [exec EXCEPT ![a] = x]
    BY <1>3
  <2> HIDE DEF x
  <2>3. exec'[a] = x /\ \A b \in Agents : b # a => exec'[b] = exec[b]
    BY <2>2 DEF ExecTypes
  <2>4. /\ push[n] = Idle /\ copy[n] = << >> /\ \A c \in passed : c.attempt # n
        /\ \A b \in Agents : b # a /\ exec[b] # Idle => exec[b].attempt # n
    BY <1>0, <1>1 DEF Once, EarlyIsUnpushed, UnfetchedIsBlank, HeldByOne, Early
  <2>5. PassedFits' /\ LandedPassed'
    BY <1>1, <1>3, <2>4 DEF Reads, PassedFits, LandedPassed
  <2>6. PlannedFromRow'
    BY <1>1, <1>3, <2>4 DEF Reads, PlannedFromRow
  <2>7. ReadsFit'
    <3>1. SUFFICES ASSUME passed = {} PROVE row' <= version' /\ CopiesFit' /\ FetchesFit'
      BY <1>1 DEF ReadsFit
    <3>2. row <= version /\ CopiesFit /\ FetchesFit
      BY <3>1 DEF Reads, ReadsFit
    <3>3. disk = Source(version)
      BY <3>1 DEF Final, StateOfRow
    <3>4. \A f, m : Fits(f, m) /\ m # n => Fits(f, m)'
      BY <1>1, <1>3 DEF Fits
    <3>5. CopiesFit'
      <4>1. \A m \in Attempts : m = n => DOMAIN copy[m] = {}
        BY <2>4
      <4>2. QED BY <1>1, <3>2, <3>4, <4>1 DEF CopiesFit
    <3>6. disk \in Sources /\ disk.version = version /\ version \in Nat
      BY <3>3 DEF Source, Sources, MediaTypes, Versions
    <3>7. Fits(disk, n)'
      BY <1>1, <3>2, <3>6 DEF Fits
    <3>8. \A b \in Agents : exec[b].pc = "fetching" => exec[b] # Idle
      BY DEF Idle
    <3>9. FetchesFit'
      <4>1. ASSUME NEW b \in Agents, exec'[b].pc = "fetching"
            PROVE  /\ Fits(exec[b].opened, exec[b].attempt)'
                   /\ \A i \in DOMAIN exec'[b].read : Fits(exec[b].read[i], exec[b].attempt)'
        <5>1. CASE b = a
          BY <1>1, <2>1, <2>3, <3>7, <5>1 DEF Fits
        <5>2. CASE b # a
          <6>1. exec'[b] = exec[b] /\ exec[b].attempt # n
            BY <2>3, <2>4, <3>8, <4>1, <5>2
          <6>2. /\ Fits(exec[b].opened, exec[b].attempt)
                /\ \A i \in DOMAIN exec[b].read : Fits(exec[b].read[i], exec[b].attempt)
            BY <3>2, <4>1, <6>1 DEF FetchesFit
          <6>3. QED BY <1>3, <1>1, <6>1, <6>2 DEF Fits
        <5>3. QED BY <5>1, <5>2
      <4>2. QED BY <4>1 DEF FetchesFit
    <3>10. QED BY <1>1, <3>2, <3>5, <3>9
  <2>8. QED BY <2>5, <2>6, <2>7 DEF Reads
<1>4. QED BY <1>0, <1>2, <1>3 DEF FetchStart

(* A chunk of the original is read, as it is now or as it was opened.       *)
LEMMA ReadsFetchChunk ==
  ASSUME Types, Types', Final, Reads, NEW a \in Agents, FetchChunk(a)
  PROVE  Reads'
<1> USE DEF Types
<1>1. /\ UNCHANGED <<push, copy, seen, row, passed, version, landed>>
      /\ exec[a].pc = "fetching" /\ exec[a] \in Fetch
  BY AgentHas DEF FetchChunk, media, history
<1>2. PICK v \in {exec[a].opened, disk} \ {Gone} :
        exec' = [exec EXCEPT ![a].read = Append(@, v)]
  BY DEF FetchChunk
<1>3. /\ exec'[a].pc = "fetching" /\ exec'[a].attempt = exec[a].attempt
      /\ exec'[a].opened = exec[a].opened /\ exec'[a].read = Append(exec[a].read, v)
      /\ \A b \in Agents : b # a => exec'[b] = exec[b]
  BY <1>1, <1>2 DEF ExecTypes, Fetch
<1>4. PassedFits' /\ LandedPassed' /\ PlannedFromRow'
  BY <1>1 DEF Reads, PassedFits, LandedPassed, PlannedFromRow
<1>5. ReadsFit'
  <2>1. SUFFICES ASSUME passed = {} PROVE row' <= version' /\ CopiesFit' /\ FetchesFit'
    BY <1>1 DEF ReadsFit
  <2>2. row <= version /\ CopiesFit /\ FetchesFit
    BY <2>1 DEF Reads, ReadsFit
  <2>3. disk = Source(version)
    BY <2>1 DEF Final, StateOfRow
  <2>4. \A f, m : Fits(f, m) => Fits(f, m)'
    BY <1>1 DEF Fits
  <2>5. CopiesFit'
    BY <1>1, <2>2, <2>4 DEF CopiesFit
  <2>6. Fits(v, exec[a].attempt)
    <3>1. CASE v = exec[a].opened
      BY <1>1, <2>2, <3>1 DEF FetchesFit
    <3>2. CASE v = disk
      <4>1. disk \in Sources /\ disk.version = version /\ version \in Nat
        BY <2>3 DEF Source, Sources, MediaTypes, Versions
      <4>2. QED BY <2>2, <3>2, <4>1 DEF Fits
    <3>3. QED BY <1>2, <3>1, <3>2
  <2>7. \A i \in DOMAIN Append(exec[a].read, v) : Fits(Append(exec[a].read, v)[i], exec[a].attempt)
    <3>1. exec[a].read \in Seq(Files)
      BY <1>1 DEF Fetch
    <3>2. \A i \in DOMAIN exec[a].read : Fits(exec[a].read[i], exec[a].attempt)
      BY <1>1, <2>2 DEF FetchesFit
    <3>3. \A i \in DOMAIN Append(exec[a].read, v) :
            Append(exec[a].read, v)[i] = v \/
            (i \in DOMAIN exec[a].read /\ Append(exec[a].read, v)[i] = exec[a].read[i])
      BY <3>1
    <3>4. QED BY <2>6, <3>2, <3>3
  <2>8. FetchesFit'
    <3>1. ASSUME NEW b \in Agents, exec'[b].pc = "fetching"
          PROVE  /\ Fits(exec[b].opened, exec[b].attempt)'
                 /\ \A i \in DOMAIN exec'[b].read : Fits(exec[b].read[i], exec[b].attempt)'
      <4>1. CASE b = a
        <5>1. Fits(exec[a].opened, exec[a].attempt)
          BY <1>1, <2>2 DEF FetchesFit
        <5>2. QED BY <1>1, <1>3, <2>7, <4>1, <5>1 DEF Fits
      <4>2. CASE b # a
        <5>1. exec'[b] = exec[b] /\ Fits(exec[b].opened, exec[b].attempt)
              /\ \A i \in DOMAIN exec[b].read : Fits(exec[b].read[i], exec[b].attempt)
          BY <1>3, <2>2, <3>1, <4>2 DEF FetchesFit
        <5>2. QED BY <1>1, <5>1 DEF Fits
      <4>3. QED BY <4>1, <4>2
    <3>2. QED BY <3>1 DEF FetchesFit
  <2>9. QED BY <1>1, <2>2, <2>5, <2>8
<1>6. QED BY <1>4, <1>5 DEF Reads

(* What was read becomes the copy of its attempt, which no check has passed. *)
LEMMA ReadsFetchEnd ==
  ASSUME Types, Types', Once, Reads, NEW a \in Agents, FetchEnd(a)
  PROVE  Reads'
<1> USE DEF Types
<1>0. PICK n : n = exec[a].attempt
  OBVIOUS
<1>1. /\ UNCHANGED <<push, seen, row, passed, version, landed>>
      /\ exec[a].pc = "fetching" /\ exec[a] # Idle /\ n \in Attempts
      /\ copy'[n] = exec[a].read
      /\ \A m \in Attempts : m # n => copy'[m] = copy[m]
  BY <1>0, AgentHas DEF FetchEnd, media, HistoryTypes, Idle
<1>2. FetchesThin
  <2> DEFINE x == [pc |-> "encoding", attempt |-> exec[a].attempt, epoch |-> exec[a].epoch,
                   stream |-> exec[a].stream]
  <2>1. exec' = [exec EXCEPT ![a] = x] /\ x.pc = "encoding"
    BY DEF FetchEnd
  <2> HIDE DEF x
  <2>2. QED BY <2>1 DEF ExecTypes, FetchesThin
<1>3. \A c \in passed : c.attempt # n /\ c.attempt \in Attempts
  BY <1>0, <1>1 DEF Once, EarlyIsUnpushed, Early, HistoryTypes
<1>4. PassedFits' /\ LandedPassed'
  BY <1>1, <1>3 DEF Reads, PassedFits, LandedPassed
<1>5. PlannedFromRow'
  BY <1>1 DEF Reads, PlannedFromRow
<1>6. ReadsFit'
  <2>1. SUFFICES ASSUME passed = {} PROVE row' <= version' /\ CopiesFit' /\ FetchesFit'
    BY <1>1 DEF ReadsFit
  <2>2. row <= version /\ CopiesFit /\ FetchesFit
    BY <2>1 DEF Reads, ReadsFit
  <2>3. \A f, m : Fits(f, m) => Fits(f, m)'
    BY <1>1 DEF Fits
  <2>4. \A i \in DOMAIN exec[a].read : Fits(exec[a].read[i], n)
    BY <1>0, <1>1, <2>2 DEF FetchesFit
  <2>5. CopiesFit'
    BY <1>1, <2>2, <2>3, <2>4 DEF CopiesFit
  <2>6. FetchesFit'
    BY <1>2, <2>2, <2>3 DEF FetchesFit, FetchesThin
  <2>7. QED BY <1>1, <2>2, <2>5, <2>6
<1>7. QED BY <1>4, <1>5, <1>6 DEF Reads

LEMMA ReadsPushStart ==
  ASSUME Types, Types', Reads, NEW a \in Agents, PushStart(a)
  PROVE  Reads'
<1> USE DEF Types
<1>0. PICK n : n = exec[a].attempt
  OBVIOUS
<1>1. /\ UNCHANGED <<copy, seen, row, passed, version, landed>> /\ n \in Attempts
      /\ exec[a] \in Work
  BY <1>0, AgentHas DEF PushStart, media, history, Work
<1>2. CASE UNCHANGED push /\ GiveUp(a)
  BY <1>1, <1>2, GiveUpFetches, SameReads, ReadsThin DEF PlansThin
<1>3. CASE /\ push'[n].planned = row /\ Others(n)
           /\ exec' = [exec EXCEPT ![a].pc = "pushing"]
  <2>1. FetchesThin
    BY <1>1, <1>3 DEF FetchesThin, ExecTypes, Work
  <2>2. PlannedFromRow'
    BY <1>1, <1>3 DEF Reads, PlannedFromRow, Others
  <2>3. PassedFits' /\ LandedPassed'
    BY <1>1 DEF Reads, PassedFits, LandedPassed
  <2>4. ReadsFit'
    <3>1. \A f, m : Fits(f, m) => Fits(f, m)'
      BY <1>1 DEF Fits
    <3>2. CopiesFit => CopiesFit'
      BY <1>1, <3>1 DEF CopiesFit
    <3>3. FetchesFit => FetchesFit'
      BY <2>1, <3>1 DEF FetchesFit, FetchesThin
    <3>4. QED BY <1>1, <3>2, <3>3 DEF Reads, ReadsFit
  <2>5. QED BY <2>2, <2>3, <2>4 DEF Reads
<1>4. QED BY <1>0, <1>2, <1>3, PushStartIs

LEMMA ReadsAgent ==
  ASSUME Types, Types', Final, Once, Reads, NEW a \in Agents,
         Agent(a) \/ FetchFails(a) \/ CallBreaks(a) \/ AgentStops(a) \/ AgentReturns(a)
  PROVE  Reads'
<1> USE DEF Types
<1>1. CASE FetchStart(a) \/ FetchChunk(a) \/ FetchEnd(a) \/ PushStart(a)
  BY <1>1, ReadsFetchStart, ReadsFetchChunk, ReadsFetchEnd, ReadsPushStart
<1>2. CASE Encoded(a) \/ FetchFails(a) \/ CallBreaks(a) \/ AgentStops(a) \/ AgentReturns(a)
  <2>1. UNCHANGED <<copy, seen, row, passed, version, landed>>
    BY <1>2 DEF Encoded, FetchFails, CallBreaks, AgentStops, AgentReturns, media, history
  <2>2. PlansThin
    BY <1>2, ThinAgents, ThinKept, PlansThinThin DEF Encoded, FetchFails, AgentReturns
  <2>3. FetchesThin
    <3>1. GiveUp(a) => FetchesThin
      BY GiveUpFetches
    <3>2. CASE exec[a].pc = "encoding" /\ exec' = [exec EXCEPT ![a].pc = "reported"]
      <4>1. exec[a] \in Work
        BY <3>2, AgentHas
      <4>2. exec'[a].pc = "reported"
        BY <3>2, <4>1 DEF ExecTypes, Work
      <4>3. QED BY <3>2, <4>2 DEF FetchesThin, ExecTypes
    <3>3. CASE exec[a].pc # "fetching" /\ exec[a] # Idle
               /\ exec' = [exec EXCEPT ![a].stream = FALSE]
      <4>1. exec[a] \in Work
        BY <3>3 DEF ExecTypes, Fetch
      <4>2. \A x \in Work : [x EXCEPT !.stream = FALSE].pc = x.pc
        BY DEF Work
      <4>3. exec'[a].pc = exec[a].pc
        BY <3>3, <4>1, <4>2 DEF ExecTypes
      <4>4. QED BY <3>3, <4>3 DEF FetchesThin, ExecTypes
    <3>4. CASE UNCHANGED exec
      BY <3>4 DEF FetchesThin
    <3>5. QED BY <1>2, <3>1, <3>2, <3>3, <3>4
          DEF Encoded, FetchFails, CallBreaks, AgentStops, AgentReturns, GiveUp
  <2>4. QED BY <2>1, <2>2, <2>3, SameReads, ReadsThin
<1>3. QED BY <1>1, <1>2 DEF Agent

(* The check passes when the file is the one the row told of: what was read *)
(* between the two is that one.                                             *)
LEMMA ReadsVerify ==
  ASSUME Types, Types', Final, Reads, NEW n \in Attempts, Verify(n)
  PROVE  Reads'
<1> USE DEF Types
<1>1. /\ UNCHANGED <<copy, seen, row, exec, version, landed>>
      /\ push[n].pc = "recorded" /\ push[n] # Idle
  BY DEF Verify, At, Idle, media
<1>2. passed = {} /\ disk = Source(version) /\ landed = {}
  BY <1>1 DEF Final, StateOfPush, StateOfRow
<1>3. push'[n] # Idle /\ push'[n].planned = push[n].planned /\ Others(n)
  BY <1>1, GotoIs, ResolveIs DEF Verify, Received, Labels
<1>4. PlansThin /\ FetchesThin
  BY <1>1, <1>3 DEF PlansThin, FetchesThin, Others
<1>5. CASE GuardHolds(n)
  <2>1. passed' = {[attempt |-> n, saw |-> disk]}
    BY <1>2, <1>5 DEF Verify
  <2>2. disk.version = version /\ version \in Nat
    BY <1>2 DEF Source, MediaTypes, Versions
  <2>3. n \in seen \/ \A i \in DOMAIN copy[n] : copy[n][i] = disk
    <3>1. SUFFICES ASSUME n \notin seen, NEW i \in DOMAIN copy[n]
                   PROVE  copy[n][i] = disk
      OBVIOUS
    <3>2. push[n].planned = row /\ disk = Source(row)
      BY <1>1, <1>5, <3>1 DEF Reads, PlannedFromRow, GuardHolds
    <3>3. Fits(copy[n][i], n)
      BY <1>2 DEF Reads, ReadsFit, CopiesFit
    <3>4. row = version
      BY <2>2, <3>2 DEF Source
    <3>5. /\ copy[n][i] \in Sources /\ copy[n][i].version \in Nat /\ row \in Nat
          /\ copy[n][i].version <= row /\ row <= copy[n][i].version
      BY <3>1, <3>3, <3>4, ReadsTypes DEF Fits
    <3>6. copy[n][i].version = row /\ copy[n][i].kind = "source"
      BY <3>5 DEF Sources
    <3>7. \A f \in Sources : f = [kind |-> f.kind, version |-> f.version]
      BY DEF Sources
    <3>8. QED BY <3>2, <3>5, <3>6, <3>7 DEF Source
  <2>4. PassedFits'
    BY <1>1, <2>1, <2>2, <2>3 DEF PassedFits
  <2>5. LandedPassed' /\ ReadsFit'
    BY <1>1, <1>2, <2>1 DEF LandedPassed, ReadsFit
  <2>6. PlannedFromRow'
    BY <1>1, <1>4 DEF Reads, PlannedFromRow, PlansThin
  <2>7. QED BY <2>4, <2>5, <2>6 DEF Reads
<1>6. CASE ~GuardHolds(n)
  <2>1. UNCHANGED passed
    BY <1>6 DEF Verify
  <2>2. QED BY <1>1, <1>4, <2>1, SameReads, ReadsThin
<1>7. QED BY <1>5, <1>6

(* What is set aside is what the check saw, or what was written since.      *)
LEMMA ReadsSetAside ==
  ASSUME Types, Types', Final, Reads, NEW n \in Attempts, SetAside(n)
  PROVE  Reads'
<1> USE DEF Types
<1>1. /\ UNCHANGED <<copy, seen, row, exec, version, passed>>
      /\ push[n].pc = "checked" /\ push[n] # Idle
  BY DEF SetAside, At, Idle
<1>2. disk = Source(version) /\ landed = {}
  BY <1>1 DEF Final, StateOfPush
<1>3. PICK c \in passed : c.attempt = n
  BY <1>1 DEF Final, StateOfPush
<1>4. landed' = {[attempt |-> n, over |-> disk]}
  BY <1>2 DEF SetAside
<1>5. c.saw = disk \/ c.saw.version < disk.version
  <2>1. c.saw \in Sources /\ c.saw.version \in Nat /\ version \in Nat
    BY ReadsTypes
  <2>2. c.saw.version <= version
    BY DEF Reads, PassedFits
  <2>3. disk.version = version
    BY <1>2 DEF Source
  <2>4. c.saw = [kind |-> "source", version |-> c.saw.version]
    BY <2>1 DEF Sources
  <2>5. c.saw.version = version => c.saw = disk
    BY <1>2, <2>4 DEF Source
  <2>6. QED BY <2>1, <2>2, <2>3, <2>5
<1>6. LandedPassed'
  BY <1>1, <1>3, <1>4, <1>5 DEF LandedPassed
<1>7. push'[n] # Idle /\ push'[n].planned = push[n].planned /\ Others(n)
  BY <1>1, GotoIs DEF SetAside, Received
<1>8. PlannedFromRow'
  BY <1>1, <1>7 DEF Reads, PlannedFromRow, Others
<1>9. passed # {}
  BY <1>3
<1>10. ReadsFit' /\ PassedFits'
  BY <1>1, <1>9 DEF Reads, ReadsFit, PassedFits
<1>11. QED BY <1>6, <1>8, <1>10 DEF Reads

LEMMA ReadsServe ==
  ASSUME Types, Types', Final, Reads, NEW n \in Attempts,
         Serve(n) \/ RitualFails(n) \/ Dropped(n)
  PROVE  Reads'
<1> USE DEF Types
<1>1. CASE Verify(n) \/ SetAside(n)
  BY <1>1, ReadsVerify, ReadsSetAside
<1>2. CASE ~Verify(n) /\ ~SetAside(n)
  <2>1. UNCHANGED <<copy, seen, row, passed, version>> /\ landed' \subseteq landed /\ push[n] # Idle
    BY <1>2 DEF Serve, PushChunk, PushEnd, Rejudge, Record, Install, ResolveIntent,
         Conclude, Retain, RitualFails, Dropped, At, Idle, history, media
  <2>2. PlansThin
    <3>1. Thin => PlansThin
      BY PlansThinThin
    <3>2. Over(n) => PlansThin
      BY ThinOver, PlansThinThin
    <3>3. \A pc \in Received : Goto(n, pc) => PlansThin
      BY <2>1, GotoIs DEF PlansThin, Others
    <3>4. \A label \in Labels :
            push' = [push EXCEPT ![n].pc = "resolve", ![n].label = label] => PlansThin
      BY <2>1, ResolveIs DEF PlansThin, Others
    <3>5. PushChunk(n) => PlansThin
      BY <2>1, <3>2, ChunkIs DEF PlansThin, Others
    <3>6. Dropped(n) \/ RitualFails(n) \/ Retain(n) => PlansThin
      BY <3>1, ThinSteps
    <3>7. PushEnd(n) \/ Rejudge(n) \/ Record(n) => PlansThin
      BY <3>2, <3>3 DEF PushEnd, Rejudge, Record, Received
    <3>8. ResolveIntent(n) \/ Conclude(n) => PlansThin
      BY <3>2, <3>3 DEF ResolveIntent, Conclude, Received
    <3>9. Install(n) => PlansThin
      BY <3>4 DEF Install, Labels
    <3>10. QED BY <1>2, <3>5, <3>6, <3>7, <3>8, <3>9 DEF Serve
  <2>3. FetchesThin
    <3>1. Over(n) => FetchesThin
      <4>1. push[n].agent \in Agents
        BY <2>1, PushHas DEF Pushes
      <4>2. QED BY <4>1, GiveUpFetches DEF Over, FetchesThin
    <3>2. UNCHANGED exec => FetchesThin
      BY DEF FetchesThin
    <3>3. QED BY <1>2, <3>1, <3>2, ChunkIs
          DEF Serve, PushEnd, Rejudge, Record, Install, ResolveIntent,
              Conclude, Retain, RitualFails, Dropped
  <2>4. QED BY <2>1, <2>2, <2>3, SameReads, ReadsThin
<1>3. QED BY <1>1, <1>2

LEMMA ReadsWorld ==
  ASSUME Types, Types', Final, Reads, ServerRestarts \/ Edit \/ Scan \/ UNCHANGED vars
  PROVE  Reads'
<1> USE DEF Types
<1>1. CASE ServerRestarts
  <2>1. UNCHANGED <<copy, seen, row, passed, version, landed>> /\ PlansThin
    BY <1>1, ThinRestart, PlansThinThin DEF ServerRestarts, media, history
  <2>2. \A a \in Agents : exec[a].pc \notin {"idle", "fetching", "pushing"} =>
          [exec[a] EXCEPT !.stream = FALSE].pc # "fetching"
    <3>1. \A x \in Work : [x EXCEPT !.stream = FALSE].pc = x.pc
      BY DEF Work
    <3>2. \A a \in Agents : exec[a].pc \notin {"idle", "fetching", "pushing"} =>
            exec[a] \in Work
      BY AgentHas DEF ExecTypes, Work, Fetch, Idle
    <3>3. QED BY <3>1, <3>2
  <2>3. FetchesThin
    BY <1>1, <2>2 DEF ServerRestarts, FetchesThin, Idle
  <2>4. QED BY <2>1, <2>3, SameReads, ReadsThin
<1>2. CASE Edit
  <2>1. UNCHANGED <<copy, seen, row, passed, landed, push, exec>> /\ version' = version + 1
    BY <1>2 DEF Edit, history
  <2>2. ReadsSame
    BY <2>1, ReadsTypes DEF ReadsSame
  <2>3. QED BY <2>1, <2>2, ReadsThin DEF PlansThin, FetchesThin
<1>3. CASE Scan
  <2>1. /\ UNCHANGED <<copy, passed, landed, push, exec, disk, version>>
        /\ row' = disk.version /\ seen' = Attempts
    BY <1>3 DEF Scan
  <2>2. PassedFits' /\ LandedPassed' /\ PlannedFromRow'
    BY <2>1 DEF Reads, PassedFits, LandedPassed, PlannedFromRow, HistoryTypes
  <2>3. ReadsFit'
    <3>1. SUFFICES ASSUME passed = {} PROVE row' <= version' /\ CopiesFit' /\ FetchesFit'
      BY <2>1 DEF ReadsFit
    <3>2. \A f, m : Fits(f, m) /\ m \in Attempts => Fits(f, m)'
      BY <2>1 DEF Fits
    <3>3. CopiesFit /\ FetchesFit
      BY <3>1 DEF Reads, ReadsFit
    <3>4. CopiesFit'
      BY <2>1, <3>2, <3>3 DEF CopiesFit
    <3>5. FetchesFit'
      BY <2>1, <3>2, <3>3, AgentHas DEF FetchesFit, Idle
    <3>6. disk.version = version
      BY <3>1 DEF Final, StateOfRow, Source
    <3>7. row' <= version'
      BY <2>1, <3>6, ReadsTypes
    <3>8. QED BY <3>4, <3>5, <3>7
  <2>4. QED BY <2>2, <2>3 DEF Reads
<1>4. CASE UNCHANGED vars
  BY <1>4, SameReads, ReadsThin DEF vars, media, history, PlansThin, FetchesThin
<1>5. QED BY <1>1, <1>2, <1>3, <1>4

LEMMA ReadsNext ==
  ASSUME Types, Types', Final, Once, Reads, [Next]_vars
  PROVE  Reads'
  BY ReadsQueue, ReadsAgent, ReadsServe, ReadsWorld DEF Next

-----------------------------------------------------------------------------
(* The theorems.                                                           *)

Inv == Types /\ Whole /\ Final /\ Once /\ Reads

LEMMA InitInv == Init => Inv
<1> SUFFICES ASSUME Init PROVE Inv
  OBVIOUS
<1>1. Types
  BY InitTypes
<1>2. /\ disk = Source(version) /\ version = 1 /\ row = 1 /\ trash = Gone
      /\ passed = {} /\ landed = {}
      /\ ~retained /\ \A n \in Attempts : push[n] = Idle /\ copy[n] = << >>
      /\ \A a \in Agents : exec[a] = Idle
  BY DEF Init
<1>3. disk.kind = "source" /\ disk.version = 1 /\ trash.kind = "gone"
  BY <1>2 DEF Source, Gone
<1>4. Whole
  BY <1>2, <1>3 DEF Whole, OutputIsWhole, Received, Idle
<1>5. Installing = {} /\ job.state = "Pending" /\ disk # Gone
  BY <1>2, <1>3 DEF Init, Installing, Begun, Settling, Idle, Gone
<1>6. Final
  BY <1>2, <1>3, <1>5 DEF Final, Single, StateOfRow, StateOfMedia, StateOfPush, Idle
<1>7. Once
  BY <1>2 DEF Once, UnusedIsBlank, PassedIsUsed, HeldIsUsed, HeldByOne, EarlyIsUnpushed,
               UnfetchedIsBlank, Early, Idle
<1>8. Reads
  <2>1. CopiesFit
    BY <1>2 DEF CopiesFit
  <2>2. QED BY <1>2, <2>1
        DEF Reads, PassedFits, LandedPassed, PlannedFromRow, ReadsFit, FetchesFit, Idle
<1>9. QED BY <1>1, <1>4, <1>6, <1>7, <1>8 DEF Inv

LEMMA NextInv == Inv /\ [Next]_vars => Inv'
  BY NextTypes, WholeNext, FinalNext, OnceNext, ReadsNext DEF Inv

LEMMA InvAlways == Spec => []Inv
  BY InitInv, NextInv, PTL DEF Spec

(* Every variable keeps its type.                                           *)
THEOREM TypeCorrect == Spec => []TypeOK
<1>1. Inv => TypeOK
  <2>1. SUFFICES ASSUME Inv PROVE TypeOK
    OBVIOUS
  <2>2. Types
    BY <2>1 DEF Inv
  <2>3. disk.kind \in {"source", "output", "gone"}
    BY <2>2 DEF Types, MediaTypes, Files, Sources, Outputs, Gone
  <2>4. trash.kind \in {"source", "gone"}
    BY <2>1 DEF Inv, Final, StateOfMedia, Gone
  <2>5. \A a \in Agents : exec[a] # Idle => exec[a].attempt \in Attempts
    BY <2>2, AgentHas DEF Types
  <2>6. \A n \in Attempts : push[n] # Idle =>
           /\ push[n].sent \in 0 .. Chunks /\ push[n].staged \in Seq(BOOLEAN)
           /\ Len(push[n].staged) <= push[n].sent
    BY <2>2, PushHas DEF Types, PushTypes, Pushes
  <2>7. QED BY <2>2, <2>3, <2>4, <2>5, <2>6
        DEF Types, TypeOK, RowTypes, MediaTypes, ExecTypes, PushTypes, HistoryTypes, Versions
<1>2. QED BY <1>1, InvAlways, PTL

(* Whatever is lost, garbled or cut short on the way, the server installs   *)
(* only an output it has received in full and whose hash is right.          *)
THEOREM InstallsWholeOutputs == Spec => []OutputIsWhole
<1>1. Inv => OutputIsWhole
  BY DEF Inv, Whole
<1>2. QED BY <1>1, InvAlways, PTL

(* Whatever overtakes what, the destination is replaced once, and its job   *)
(* is from then on Committing, Succeeded or an operator's.                  *)
THEOREM InstallsOnce == Spec => []InstalledIsFinal
<1>1. Inv => InstalledIsFinal
  <2>1. SUFFICES ASSUME Inv PROVE InstalledIsFinal
    OBVIOUS
  <2>2. Cardinality(landed) <= 1
    <3>1. CASE landed = {}
      BY <3>1, FS_EmptySet
    <3>2. CASE landed # {}
      <4>1. PICK l \in landed : TRUE
        BY <3>2
      <4>2. landed = {l}
        BY <2>1, <4>1 DEF Inv, Final, Single
      <4>3. QED BY <4>2, FS_Singleton
    <3>3. QED BY <3>1, <3>2
  <2>3. landed # {} => job.state \in {"Committing", "Succeeded", "NeedsOperator"}
    BY <2>1 DEF Inv, Final, StateOfRow, Past
  <2>4. QED BY <2>2, <2>3 DEF InstalledIsFinal
<1>2. QED BY <1>1, InvAlways, PTL

(* An emptied destination has its file in the trash and a job that says so, *)
(* and success and retention are claimed only of what is really in place.   *)
THEOREM TablesTellTheTruth == Spec => []RowsAreTrue
<1>1. Inv => RowsAreTrue
  BY DEF Inv, Final, StateOfRow, RowsAreTrue, InPlace, Gone
<1>2. QED BY <1>1, InvAlways, PTL

(* A push sets aside what its source check saw or what was written since,   *)
(* and, unless a scan has come between, what the check saw is what every    *)
(* chunk of the attempt's copy was read from; it stays in the trash.        *)
THEOREM ReplacesOnlyWhatWasRead == Spec => []ReplacesWhatItRead
<1>1. Inv => ReplacesWhatItRead
  <2>1. SUFFICES ASSUME Inv, NEW l \in landed
                 PROVE  /\ trash = l.over
                        /\ \E c \in passed :
                              /\ c.attempt = l.attempt
                              /\ c.saw = l.over \/ c.saw.version < l.over.version
                              /\ \/ \A i \in DOMAIN copy[c.attempt] : copy[c.attempt][i] = c.saw
                                 \/ c.attempt \in seen
    BY DEF ReplacesWhatItRead
  <2>2. trash = l.over
    BY <2>1 DEF Inv, Final, StateOfMedia
  <2>3. PICK c \in passed :
          c.attempt = l.attempt /\ (c.saw = l.over \/ c.saw.version < l.over.version)
    BY <2>1 DEF Inv, Reads, LandedPassed
  <2>4. c.attempt \in seen \/ \A i \in DOMAIN copy[c.attempt] : copy[c.attempt][i] = c.saw
    BY <2>1 DEF Inv, Reads, PassedFits
  <2>5. QED BY <2>2, <2>3, <2>4
<1>2. QED BY <1>1, InvAlways, PTL
=============================================================================
