------------------------------ MODULE Transfer ------------------------------
(***************************************************************************)
(* A job on agents that cannot see the library: the agent fetches the      *)
(* source in chunks (transfer.rs, client.rs fetch_source), encodes its      *)
(* copy (worker.rs execute_streaming), reports on its stream and pushes the *)
(* output on a call of its own; the server stages what it receives, judges  *)
(* again, and installs it itself (session.rs push_output).                  *)
(*                                                                          *)
(* One job, one destination.  A source is a number, its version; a copy is  *)
(* the sequence of versions its chunks were read from; an output is named   *)
(* by the attempt that made it.  A push runs on the server by itself: it    *)
(* outlives the agent that began it, until the server notices the caller is *)
(* gone, which it can do at each of its awaits.  The other steps of the     *)
(* queue (requeue, place) are one step each here; Dispatch has their inside.*)
(* An operator named Mut... is a mutated form of the definition after it.   *)
(***************************************************************************)
EXTENDS Naturals, Sequences, FiniteSets, JobStates

CONSTANTS
    Agents, Nobody,
    Chunks,         \* how many chunks a file is, terminator apart
    MaxAttempts,    \* job.max_attempts
    MaxVersion,     \* bound: how often the source is edited, plus one
    MaxTrouble,     \* bound: how much goes wrong in all
    Trouble         \* what may go wrong

Kinds == {"chunk", "call", "restart", "server", "write", "ritual", "encode"}

ASSUME TransferAssumption ==
    /\ Nobody \notin Agents
    /\ Chunks \in Nat \ {0} /\ MaxAttempts \in Nat \ {0}
    /\ MaxVersion \in Nat \ {0} /\ MaxTrouble \in Nat
    /\ Trouble \subseteq Kinds

VARIABLES
    job,        \* the row: state, agent, epoch, attempt
    intent,     \* the commit_intent row of each attempt
    epoch,      \* the registry's fencing epoch of each agent
    present,    \* the agents the server has a stream and a lease of
    row,        \* the version the scanner last stored for the file
    disk,       \* what is at the destination
    version,    \* the version another program wrote there last
    trash,      \* what the ritual set aside
    retained,   \* whether the trash table has a row for it
    exec,       \* what each agent's process is doing with the job
    results,    \* reports on their way to the server
    push,       \* what the server's handler of each attempt's push is doing
    copy,       \* history: the copy each attempt encoded
    seen,       \* history: attempts since whose fetch a scan refreshed the row
    passed,     \* history: what the source check of each install saw
    landed,     \* history: what each install set aside
    trouble

jobVars == <<job, intent, epoch, present>>
media   == <<row, disk, version, trash, retained>>
history == <<copy, seen, passed, landed>>
vars == <<jobVars, media, exec, results, push, history, trouble>>

Attempts == 0 .. MaxAttempts - 1
Source(v) == [kind |-> "source", version |-> v]
Gone == [kind |-> "gone"]
Output(n, whole) == [kind |-> "output", attempt |-> n, whole |-> whole]
Idle == [pc |-> "idle"]

Held == HoldsCapacity(job.state)
Live(n) == intent[n].state = "live"

Happens(kind) ==
    /\ kind \in Trouble /\ trouble < MaxTrouble
    /\ trouble' = trouble + 1

Init ==
    /\ job = [state |-> "Pending", agent |-> Nobody, epoch |-> 0, attempt |-> 0]
    /\ intent = [n \in Attempts |-> [state |-> "absent", agent |-> Nobody, epoch |-> 0]]
    /\ epoch = [a \in Agents |-> 1] /\ present = Agents
    /\ row = 1 /\ disk = Source(1) /\ version = 1 /\ trash = Gone /\ retained = FALSE
    /\ exec = [a \in Agents |-> Idle] /\ results = {}
    /\ push = [n \in Attempts |-> Idle]
    /\ copy = [n \in Attempts |-> << >>] /\ seen = {} /\ passed = {} /\ landed = {}
    /\ trouble = 0

-----------------------------------------------------------------------------
(* The queue, in brief.                                                     *)

\* Orchestrator::place: the intent, the row and the assignment.
Place(a) ==
    /\ job.state \in {"Pending", "Eligible"} /\ a \in present
    /\ \A n \in Attempts : ~Live(n)
    /\ exec[a] = Idle
    /\ intent' = [intent EXCEPT ![job.attempt] =
                     [state |-> "live", agent |-> a, epoch |-> epoch[a]]]
    /\ job' = [job EXCEPT !.state = "Assigned", !.agent = a, !.epoch = epoch[a]]
    /\ exec' = [exec EXCEPT ![a] = [pc |-> "assigned", attempt |-> job.attempt,
                                    epoch |-> epoch[a], stream |-> TRUE]]
    /\ UNCHANGED <<epoch, present, media, results, push, history, trouble>>

\* Orchestrator::requeue and the handler of a failed encode: the intent is
\* closed, and the job is tried again or given up.
BackToQueue ==
    /\ intent' = [intent EXCEPT ![job.attempt].state = "resolved"]
    /\ job' = IF job.attempt + 1 >= MaxAttempts
              THEN [job EXCEPT !.state = "DeadLettered"]
              ELSE [job EXCEPT !.state = "Eligible", !.attempt = @ + 1]

MutReclaim == \* what is being committed is left alone
    /\ Held /\ job.state # "Committing" /\ job.agent \notin present
    /\ BackToQueue
    /\ UNCHANGED <<epoch, present, media, exec, results, push, history, trouble>>

\* The reconciler, about a job whose agent is gone.
Reclaim ==
    /\ Held /\ job.agent \notin present
    /\ IF job.state = "Committing"
       THEN job' = [job EXCEPT !.state = "NeedsOperator"] /\ UNCHANGED intent
       ELSE BackToQueue
    /\ UNCHANGED <<epoch, present, media, exec, results, push, history, trouble>>

\* sweep_stranded_intents.
Sweep(n) ==
    /\ Live(n) /\ IsTerminal(job.state) /\ job.state # "NeedsOperator"
    /\ intent' = [intent EXCEPT ![n].state = "resolved"]
    /\ UNCHANGED <<job, epoch, present, media, exec, results, push, history, trouble>>

\* on_result, for the agent and epoch the job was given to.
OnResult(r) ==
    /\ r \in results
    /\ results' = results \ {r}
    /\ IF job.agent = r.agent /\ job.epoch = r.epoch
          /\ job.state \in {"Assigned", "Running"}
       THEN IF r.ok THEN job' = [job EXCEPT !.state = "Verifying"] /\ UNCHANGED intent
                    ELSE BackToQueue
       ELSE UNCHANGED <<job, intent>>
    /\ UNCHANGED <<epoch, present, media, exec, push, history, trouble>>

-----------------------------------------------------------------------------
(* Fetching.                                                                *)

Send(a, ok) ==
    results' = IF exec[a].stream
               THEN results \cup {[agent |-> a, epoch |-> exec[a].epoch, ok |-> ok]}
               ELSE results

\* The agent sweeps both files away and is done with the job.
GiveUp(a) == exec' = [exec EXCEPT ![a] = Idle]

\* fetch_source: the caller is the current instance of the agent that holds
\* the job, and the job is still work that is held.
MayFetch(a) ==
    /\ epoch[a] = exec[a].epoch
    /\ job.agent = a /\ job.epoch = exec[a].epoch /\ Held

FetchStart(a) ==
    /\ exec[a].pc = "assigned"
    /\ IF MayFetch(a) /\ disk # Gone
       THEN /\ exec' = [exec EXCEPT ![a] =
                           [pc |-> "fetching", attempt |-> exec[a].attempt,
                            epoch |-> exec[a].epoch, stream |-> exec[a].stream,
                            opened |-> disk, read |-> << >>]]
            /\ seen' = seen \ {exec[a].attempt}
            /\ UNCHANGED results
       ELSE Send(a, FALSE) /\ GiveUp(a) /\ UNCHANGED seen
    /\ UNCHANGED <<jobVars, media, push, copy, passed, landed, trouble>>

\* source_stream reads on, whoever writes to the file meanwhile: a file that
\* was replaced is read from its old inode, one written in place is not.
FetchChunk(a) ==
    LET x == exec[a] IN
    /\ x.pc = "fetching" /\ Len(x.read) < Chunks
    /\ \E v \in {x.opened, disk} \ {Gone} :
           exec' = [exec EXCEPT ![a].read = Append(@, v)]
    /\ UNCHANGED <<jobVars, media, results, push, history, trouble>>

\* The terminator has come, with the hash of what was read.
FetchEnd(a) ==
    LET x == exec[a] IN
    /\ x.pc = "fetching" /\ Len(x.read) = Chunks
    /\ exec' = [exec EXCEPT ![a] = [pc |-> "encoding", attempt |-> x.attempt,
                                    epoch |-> x.epoch, stream |-> x.stream]]
    /\ copy' = [copy EXCEPT ![x.attempt] = x.read]
    /\ UNCHANGED <<jobVars, media, results, push, seen, passed, landed, trouble>>

\* A chunk is lost or garbled, or the stream ends: what was fetched is thrown
\* away and the job fails.
FetchFails(a) ==
    /\ exec[a].pc = "fetching" /\ Happens("chunk")
    /\ Send(a, FALSE) /\ GiveUp(a)
    /\ UNCHANGED <<jobVars, media, push, history>>

-----------------------------------------------------------------------------
(* Encoding, reporting, pushing.                                            *)

Encoded(a) ==
    /\ exec[a].pc = "encoding"
    /\ \/ /\ Send(a, TRUE)
          /\ exec' = [exec EXCEPT ![a].pc = "reported"]
          /\ UNCHANGED trouble
       \/ /\ Happens("encode")
          /\ Send(a, FALSE) /\ GiveUp(a)
    /\ UNCHANGED <<jobVars, media, push, history>>

\* judge_commit, and the epoch against the registry.
GrantedTo(a, e) ==
    /\ epoch[a] = e
    /\ \E n \in Attempts : Live(n) /\ intent[n].agent = a /\ intent[n].epoch = e

\* The first chunk names the work.  The file's row is read here, once; the
\* staging file is cleared and opened.
PushStart(a) ==
    LET x == exec[a]  n == x.attempt IN
    /\ x.pc = "reported"
    /\ IF n = job.attempt /\ GrantedTo(a, x.epoch)
       THEN /\ push' = [push EXCEPT ![n] =
                           [pc |-> "receiving", agent |-> a, epoch |-> x.epoch,
                            planned |-> row, staged |-> << >>, sent |-> 0,
                            alone |-> FALSE, label |-> ""]]
            /\ exec' = [exec EXCEPT ![a].pc = "pushing"]
       ELSE GiveUp(a) /\ UNCHANGED push
    /\ UNCHANGED <<jobVars, media, results, history, trouble>>

At(n, pc) == push[n].pc = pc
Goto(n, pc) == push' = [push EXCEPT ![n].pc = pc]

\* The call ends: whatever the agent is told, it has nothing more to report.
Over(n) ==
    /\ push' = [push EXCEPT ![n] = Idle]
    /\ IF push[n].alone THEN UNCHANGED exec ELSE GiveUp(push[n].agent)

MutAccept(s, c) == TRUE \* a chunk is appended wherever it says it belongs

\* Sink::accept on a chunk: it continues what was written.
Accept(s, c) == c.offset = Len(s)

PushChunk(n) ==
    LET p == push[n]  c == [offset |-> p.sent] IN
    /\ At(n, "receiving") /\ ~p.alone /\ p.sent < Chunks
    /\ \/ /\ Accept(p.staged, c)
          /\ \E good \in BOOLEAN :
                /\ push' = [push EXCEPT ![n].staged = Append(@, good),
                                        ![n].sent = @ + 1]
                /\ IF good THEN UNCHANGED trouble ELSE Happens("chunk")
          /\ UNCHANGED exec
       \/ /\ Happens("chunk") /\ push' = [push EXCEPT ![n].sent = @ + 1] \* lost
          /\ UNCHANGED exec
       \/ /\ ~Accept(p.staged, c)
          /\ Over(n)
          /\ UNCHANGED trouble
    /\ UNCHANGED <<jobVars, media, results, history>>

\* Sink::accept on the last chunk: it is there, it continues what was written,
\* and what was written has the hash it carries.
Complete(p) ==
    /\ p.sent = Chunks /\ Accept(p.staged, [offset |-> p.sent])
    /\ \A i \in DOMAIN p.staged : p.staged[i]

\* The terminator, or the end of the stream without one.
PushEnd(n) ==
    LET p == push[n] IN
    /\ At(n, "receiving") /\ ~p.alone
    /\ IF p.sent = Chunks THEN UNCHANGED trouble ELSE Happens("chunk")
    /\ IF Complete(p)
       THEN Goto(n, "judge") /\ UNCHANGED exec
       ELSE Over(n)
    /\ UNCHANGED <<jobVars, media, results, history>>

-----------------------------------------------------------------------------
(* Installing on the agent's behalf.                                        *)

\* Judged again: the epoch may have been retired while the bytes travelled.
Rejudge(n) ==
    /\ At(n, "judge")
    /\ IF GrantedTo(push[n].agent, push[n].epoch)
       THEN Goto(n, "record") /\ UNCHANGED exec
       ELSE Over(n)
    /\ UNCHANGED <<jobVars, media, results, history, trouble>>

MutRecord(n) == \* a failure to record it is logged
    /\ At(n, "record")
    /\ Goto(n, "recorded") /\ UNCHANGED <<exec, trouble>>
    /\ job' = IF job.state = "Verifying" THEN [job EXCEPT !.state = "Committing"] ELSE job
    /\ UNCHANGED <<intent, epoch, present, media, results, history>>

\* transition_op, Verifying to Committing, before the destination is touched.
\* A result that the push has overtaken leaves the row short of Verifying.
Record(n) ==
    /\ At(n, "record")
    /\ \/ /\ job.state = "Verifying"
          /\ job' = [job EXCEPT !.state = "Committing"]
          /\ Goto(n, "recorded") /\ UNCHANGED <<exec, trouble>>
       \/ /\ IF job.state = "Verifying" THEN Happens("write") ELSE UNCHANGED trouble
          /\ UNCHANGED job /\ Over(n)
    /\ UNCHANGED <<intent, epoch, present, media, results, history>>

MutGuardHolds(n) == disk # Gone \* the file is there

\* The row's size, time and inode are those of the file.
GuardHolds(n) == disk = Source(push[n].planned)

\* CommitRitual::commit, step 2: the one look at the source.
Verify(n) ==
    /\ At(n, "recorded")
    /\ IF GuardHolds(n)
       THEN /\ passed' = passed \cup {[attempt |-> n, saw |-> disk]}
            /\ Goto(n, "checked")
       ELSE /\ push' = [push EXCEPT ![n].pc = "resolve", ![n].label = "source_intact"]
            /\ UNCHANGED passed
    /\ UNCHANGED <<jobVars, media, exec, results, copy, seen, landed, trouble>>

\* Steps 3 to 5: the record, the sync of the output, the directory of the
\* trash; then whatever is at the destination by now is renamed into it.
SetAside(n) ==
    /\ At(n, "checked") /\ disk # Gone
    /\ disk' = Gone /\ trash' = disk
    /\ landed' = landed \cup {[attempt |-> n, over |-> disk]}
    /\ Goto(n, "aside")
    /\ UNCHANGED <<jobVars, row, version, retained, exec, results, copy, seen, passed,
                   trouble>>

\* Step 7: the output, or else the file that was set aside, is renamed over
\* whatever has come there meanwhile.
Install(n) ==
    /\ At(n, "aside")
    /\ \/ /\ disk' = Output(n, push[n].staged = [i \in 1 .. Chunks |-> TRUE])
          /\ push' = [push EXCEPT ![n].pc = "resolve", ![n].label = "installed"]
          /\ UNCHANGED <<trash, landed, trouble>>
       \/ /\ Happens("ritual")
          /\ landed' = {l \in landed : l.attempt # n}
          /\ \/ /\ disk' = trash /\ trash' = Gone
                /\ push' = [push EXCEPT ![n].pc = "resolve", ![n].label = "source_restored"]
             \/ /\ UNCHANGED <<disk, trash>>
                /\ push' = [push EXCEPT ![n].pc = "resolve", ![n].label = "needs_operator"]
    /\ UNCHANGED <<jobVars, row, version, retained, exec, results, copy, seen, passed>>

\* A journal that cannot be opened or written, an output that cannot be synced
\* or a file that cannot be set aside takes the ritual out with an Err wherever
\* it stands, after its last rename too: the push ends, the intent stays live.
RitualFails(n) ==
    /\ \/ push[n].pc \in {"recorded", "checked", "aside"}
       \/ At(n, "resolve") /\ push[n].label # "source_intact"
    /\ Happens("ritual")
    /\ Over(n)
    /\ UNCHANGED <<jobVars, media, results, history>>

\* resolve_op, whatever happened; not being able to is an Err.
ResolveIntent(n) ==
    /\ At(n, "resolve")
    /\ \/ /\ intent' = [intent EXCEPT ![n].state = "resolved"]
          /\ Goto(n, "conclude") /\ UNCHANGED <<exec, trouble>>
       \/ Happens("write") /\ UNCHANGED intent /\ Over(n)
    /\ UNCHANGED <<job, epoch, present, media, results, history>>

MutOutcomeOf(label) == IF label = "needs_operator" THEN "Failed" ELSE "Succeeded"

OutcomeOf(label) ==
    CASE label = "installed" -> "Succeeded"
      [] label = "needs_operator" -> "NeedsOperator"
      [] OTHER -> "Failed"

\* How it ended; a failure to write that is logged.
Conclude(n) ==
    /\ At(n, "conclude")
    /\ \/ /\ job.state = "Committing"
          /\ job' = [job EXCEPT !.state = OutcomeOf(push[n].label)]
          /\ UNCHANGED trouble
       \/ /\ UNCHANGED job
          /\ IF job.state = "Committing" THEN Happens("write") ELSE UNCHANGED trouble
    /\ Goto(n, "retain")
    /\ UNCHANGED <<intent, epoch, present, media, exec, results, history>>

\* retain_op, once the original really is where the row says; then the answer.
Retain(n) ==
    /\ At(n, "retain")
    /\ \/ retained' = (retained \/ push[n].label = "installed") /\ UNCHANGED trouble
       \/ Happens("write") /\ UNCHANGED retained
    /\ Over(n)
    /\ UNCHANGED <<jobVars, row, disk, version, trash, results, history>>

Serve(n) ==
    \/ PushChunk(n) \/ PushEnd(n) \/ Rejudge(n) \/ Record(n)
    \/ Verify(n) \/ SetAside(n) \/ Install(n)
    \/ ResolveIntent(n) \/ Conclude(n) \/ Retain(n)

-----------------------------------------------------------------------------
(* The world.                                                               *)

\* The caller of a push is gone: its handler goes on alone.
Orphaned(a) ==
    push' = [n \in Attempts |->
                IF push[n] # Idle /\ push[n].agent = a /\ exec[a].pc = "pushing"
                   /\ exec[a].attempt = n
                THEN [push[n] EXCEPT !.alone = TRUE] ELSE push[n]]

\* The connection breaks and comes back: the call fails, the stream the
\* assignment came by is closed.
CallBreaks(a) ==
    /\ exec[a] # Idle /\ Happens("call")
    /\ IF exec[a].pc \in {"fetching", "pushing"}
       THEN GiveUp(a)
       ELSE exec' = [exec EXCEPT ![a].stream = FALSE]
    /\ results' \in SUBSET results
    /\ Orphaned(a)
    /\ UNCHANGED <<jobVars, media, history>>

\* The server has noticed: at one of its awaits the handler is dropped.
Awaiting == {"receiving", "recorded", "conclude", "retain"}

Dropped(n) ==
    /\ push[n] # Idle /\ push[n].alone /\ push[n].pc \in Awaiting
    /\ push' = [push EXCEPT ![n] = Idle]
    /\ UNCHANGED <<jobVars, media, exec, results, history, trouble>>

AgentStops(a) ==
    /\ a \in present /\ Happens("restart")
    /\ present' = present \ {a}
    /\ exec' = [exec EXCEPT ![a] = Idle]
    /\ results' \in SUBSET results
    /\ Orphaned(a)
    /\ UNCHANGED <<job, intent, epoch, media, history>>

\* A new process takes a new epoch; the server has noticed its absence.
AgentReturns(a) ==
    /\ a \notin present /\ ~(Held /\ job.agent = a)
    /\ present' = present \cup {a}
    /\ epoch' = [epoch EXCEPT ![a] = @ + 1]
    /\ UNCHANGED <<job, intent, media, exec, results, push, history, trouble>>

\* Every handler dies where it stands; calls fail, streams close.
ServerRestarts ==
    /\ Happens("server")
    /\ push' = [n \in Attempts |-> Idle] /\ results' = {}
    /\ exec' = [a \in Agents |->
                   IF exec[a].pc \in {"idle", "fetching", "pushing"} THEN Idle
                   ELSE [exec[a] EXCEPT !.stream = FALSE]]
    /\ UNCHANGED <<jobVars, media, history>>

\* Another program writes the file, in place or by replacing it, at any moment:
\* between the check and the two renames and over an output too.
Edit ==
    /\ version < MaxVersion
    /\ version' = version + 1 /\ disk' = Source(version + 1)
    /\ UNCHANGED <<jobVars, row, trash, retained, exec, results, push, history, trouble>>

\* The scanner sees it later.
Scan ==
    /\ disk.kind = "source" /\ row # disk.version
    /\ row' = disk.version
    /\ seen' = Attempts
    /\ UNCHANGED <<jobVars, disk, version, trash, retained, exec, results, push, copy,
                   passed, landed, trouble>>

Agent(a) ==
    \/ FetchStart(a) \/ FetchChunk(a) \/ FetchEnd(a) \/ Encoded(a) \/ PushStart(a)

Queue == Reclaim \/ (\E n \in Attempts : Sweep(n)) \/ (\E r \in results : OnResult(r))

Next ==
    \/ Queue \/ \E a \in Agents : Place(a)
    \/ \E a \in Agents : Agent(a) \/ FetchFails(a) \/ CallBreaks(a)
                         \/ AgentStops(a) \/ AgentReturns(a)
    \/ \E n \in Attempts : Serve(n) \/ RitualFails(n) \/ Dropped(n)
    \/ ServerRestarts \/ Edit \/ Scan

Spec == Init /\ [][Next]_vars

\* The orchestrator ticks, an agent that is gone comes back, agents and
\* handlers do not stand still.
Fairness ==
    /\ WF_vars(Queue)
    /\ \A a \in Agents : WF_vars(Place(a)) /\ WF_vars(Agent(a)) /\ WF_vars(AgentReturns(a))
    /\ \A n \in Attempts : WF_vars(Serve(n) \/ Dropped(n))

FairSpec == Spec /\ Fairness

-----------------------------------------------------------------------------
(* Properties.                                                              *)

(* Every variable has its type.                                             *)
TypeOK ==
    /\ job \in [state : States, agent : Agents \cup {Nobody}, epoch : Nat, attempt : Attempts]
    /\ intent \in [Attempts -> [state : {"absent", "live", "resolved"},
                                agent : Agents \cup {Nobody}, epoch : Nat]]
    /\ epoch \in [Agents -> Nat] /\ present \subseteq Agents
    /\ row \in 1 .. MaxVersion /\ version \in 1 .. MaxVersion
    /\ disk.kind \in {"source", "output", "gone"} /\ trash.kind \in {"source", "gone"}
    /\ retained \in BOOLEAN
    /\ DOMAIN exec = Agents
    /\ \A a \in Agents : exec[a] # Idle => exec[a].attempt \in Attempts
    /\ results \subseteq [agent : Agents, epoch : Nat, ok : BOOLEAN]
    /\ DOMAIN push = Attempts
    /\ \A n \in Attempts : push[n] # Idle =>
           push[n].sent \in 0 .. Chunks /\ push[n].staged \in Seq(BOOLEAN)
           /\ Len(push[n].staged) <= push[n].sent
    /\ DOMAIN copy = Attempts /\ seen \subseteq Attempts
    /\ trouble \in 0 .. MaxTrouble

(* transfer.rs:20-23: whatever is lost, garbled or cut short on the way,    *)
(* what is installed is a whole output.                                     *)
OutputIsWhole == disk.kind = "output" => disk.whole

(* What a push replaces passed its source check, and what the check passed   *)
(* is what every chunk of the copy was read from: a source that changed     *)
(* since it was fetched is refused, torn copies included, except when a     *)
(* scan has stored the change before the push began (session.rs:559-566).   *)
(* The check looks once, before the record, the sync and the rename         *)
(* (commit.rs:236-289): a version written in between is set aside unread,   *)
(* and then it is in the trash.                                             *)
ReplacesWhatItRead ==
    \A l \in landed :
        /\ trash = l.over
        /\ \E c \in passed :
              /\ c.attempt = l.attempt
              /\ c.saw = l.over \/ c.saw.version < l.over.version
              /\ \/ \A i \in DOMAIN copy[c.attempt] : copy[c.attempt][i] = c.saw
                 \/ c.attempt \in seen

(* Whatever overtakes what, and whoever takes the job over meanwhile, its   *)
(* destination is replaced once, and from then on the job is finished or an *)
(* operator's, and never tried again.                                       *)
InstalledIsFinal ==
    /\ Cardinality(landed) <= 1
    /\ landed # {} => job.state \in {"Committing", "Succeeded", "NeedsOperator"}

(* Another program has written there since the file was set aside.          *)
Overwritten ==
    disk = Source(version) /\ trash.kind = "source" /\ trash.version < version

(* What the tables say of the disk is so.  A destination that has been      *)
(* emptied is one an operator is asked about, or its job is still           *)
(* Committing, and the trash holds the file; and a job is called a success, *)
(* and an original listed as retained, only when the original is in the     *)
(* trash and the output in place, or a version written since.               *)
RowsAreTrue ==
    /\ disk = Gone => trash # Gone /\ job.state \in {"Committing", "NeedsOperator"}
    /\ (job.state = "Succeeded" \/ retained) =>
          trash.kind = "source" /\ (disk.kind = "output" \/ Overwritten)

(* Nobody will speak for a held job: the agent that holds it is connected   *)
(* and has let go of it, with no report on its way and no push at work.     *)
Abandoned ==
    /\ Held /\ job.agent \in present /\ exec[job.agent] = Idle
    /\ \A r \in results : r.agent # job.agent \/ r.epoch # job.epoch
    /\ \A n \in Attempts : push[n] = Idle

(* However its agents come and go, fetches and encodes fail and the server  *)
(* restarts, a job gets off its agent and out of the queue, unless it is    *)
(* one that nobody speaks for: its agent gave up without a report, because  *)
(* its push was refused or its call broke.                                  *)
Settles == <>[](IsTerminal(job.state) \/ Abandoned)

(* session.rs:491-493: the server would have to recover from its own crash  *)
(* mid-ritual.  (It replays no journal: the file stays in the trash.)       *)
ServerRecovers == disk = Gone ~> disk # Gone
=============================================================================
