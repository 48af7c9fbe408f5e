# A verification project for transcodarr

transcodarr re-encodes a media library. A server scans the library, decides
which files owe work and queues jobs; agents on other hosts take the jobs, run
ffmpeg, and replace the library's files with the outputs, keeping each original
in a trash directory for a while. It must not lose a file, whatever stops
working and whenever it does.

This directory holds TLA+ modules translated from the Rust source, the TLC
configurations that check them on small instances, and TLAPS proofs. Paths below
are relative to `src/crates/`; `agent/commit.rs` is short for
`transcodarr-agent/src/commit.rs`, and so on.

## The system

| Component | State | Operations | Correct when |
|---|---|---|---|
| **Commit ritual and intent journal** (`agent/commit.rs`, `agent/journal.rs`) | the destination, the trash, the work area, one journal file per attempt, all on disk | `commit` (nine steps), `recover_all`, `recover_one`, `record`, `clear` | a whole file is at the destination or in the trash at every instant; a crash between the renames is found and resolved; a version the plan did not see is not destroyed, unless it is written between the two renames |
| **Agent worker** (`agent/worker.rs`) | the jobs it says it is running, the jobs it was told to stop | `on_assignment`, `execute`, `execute_streaming`, `on_revoke`, `on_unknown_intents`, `recover` | it installs only with permission; a job it stops working on is one the server will not wait for |
| **Agent connection** (`agent/client.rs`) | the stream, waiters for grants, whether it recovered, the pause before the next try, the stop flag | dial, register, connect, `dispatch`, `request_commit`, heartbeats, `stop` | an answer goes to the attempt that asked; recovery precedes work; the pause grows; a stop is heard |
| **Agent work area** (`agent/workarea.rs`, `run.rs`) | staged files, the journal's directory and those of earlier boots | open, adopt, clear | every record of an earlier process is found before any work is taken |
| **Surveying the machine** (`agent/survey.rs`, `probe_samples.rs`, `probe_caps.rs`, `preflight.rs`, `core/capability.rs`, `proto/convert.rs`) | sample clips kept across restarts, two probe files in the shared mount, the document | ensure clips, trial decodes, rename probe, register | the document is true of the machine, and the server reads it as it was meant |
| **Running ffmpeg and judging its output** (`agent/executor.rs`, `core/probe.rs`, `facts.rs`, `validate.rs`) | the encode at work | run, probe, validate | an accepted output is as long as its source and keeps its streams |
| **Job state machine** (`core/job.rs`) | - | `can_transition`, `is_terminal`, `holds_capacity` | a table |
| **Orchestrator** (`server/orchestrator.rs`, `reconcile.rs`) | a permit ledger; snapshots while a tick runs | the tick: reconcile, requeue, escalate, sweep, place, abandon | a job that may be installing is never requeued; every other held job with a lost agent is; a destination is reserved for at most one live attempt and not for ever |
| **Sessions** (`server/session.rs`) | the registry's epochs and leases, through the store | register, connect, heartbeat, result, commit request, commit report, fetch, push | only the agent a job was given to moves it; permission is durable before it is sent |
| **Fleet table** (`server/fleet.rs`) | which stream each agent is connected by | connect, disconnect, send, get | messages go to the newest stream |
| **Dispatcher, capacity, schedule** (`server/dispatch.rs`, `capacity.rs`, `schedule.rs`, `core/capability.rs`) | permits held per agent and class; pauses | match, acquire, release, rebuild | no agent is given more than it has room for; permits do not leak |
| **Store** (`store/writer.rs`, `repo/*.rs`) | SQLite: jobs, attempts, intents, agents, files, trash | one writer thread, ops in savepoints, lanes; compare-and-set ops | an op is atomic; a refused op changes nothing |
| **Library pipeline** (`server/scanner.rs`, `prober.rs`, `evaluator.rs`) | file rows, scan runs, stored facts and decisions | scan, probe, evaluate | facts that count as current are the file's; only what is gone is marked missing; one open job per file |
| **Trash** (`store/repo/trash.rs`, `core/paths.rs`) | retained rows | retain, restore, hasten, reap | an original within its retention can be restored |
| **Policy and plan** (`core/policy.rs`, `plan.rs`) | - | decide, plan | what a plan writes owes no further work under the policy that planned it |
| **Standalone runner** (`server/runner.rs`) | one job at work | pick, observe, encode, judge, install, conclude in one process | the file the ritual finds is the one that was encoded |
| **Batch of one directory** (`cli/local.rs`, `core/paths.rs`, `preset.rs`) | - | a loop over files | - |
| **Byte transfer** (`session.rs` `fetch_source`/`push_output`, `proto/transfer.rs`) | a partial staged file | chunks with offsets and a digest | nothing incomplete is installed |
| **Serving, CLI, metrics** | - | wiring, reports, `cancel_job` | - |

How they interact. The evaluator inserts a job. The orchestrator's tick, one
thread, reads the queue and the fleet, writes a `commit_intent` row that reserves
the destination, moves the job to `Assigned` and sends it down the agent's
stream. The agent encodes and sends a result; the session handler moves the job
through `Running` to `Verifying` or back to the queue. The agent asks to commit;
the handler moves the job to `Committing` and sends the grant; the agent runs the
ritual and reports; the handler closes the intent and ends the job. Heartbeats
renew the lease and come back with revocations. The tick reclaims the jobs of
agents that are gone, escalates those that may be mid-commit and closes the
intents of finished jobs. The handlers and the tick share only the store and the
fleet table, and no operation of more than one write is a transaction.

An agent that cannot see the library fetches the source and pushes the output over
calls of its own, and the server installs it. Underneath, every write goes through
one thread that batches operations into SQLite by lane. Before all of it an agent
surveys its machine and registers the result, and the server scans, probes and
evaluates the library to find what is owed.

What is hard: the tick works from snapshots while handlers write; three or four
separate writes make up one placement, one rejection or one report, and each may
fail alone; streams break with messages on them, and reconnect before or after
the server notices; a process restarts with installs half done; the ritual may
stop between any two system calls, with or without the page cache; a second
ritual shares the first one's trash path; a push and the report of it travel by
different ways and outlive the agent that made them; files change, and a library is
unmounted, between any two steps of a pass that reads them; clips, facts and records
outlive what they describe. `PROJECT.json` lists each hazard at its
line with the property that watches it.

## The modules

| Module | What it is |
|---|---|
| `SafeReplace` | What replacing a file in place promises, with two paths and no ritual. |
| `CommitRitual` | The ritual, its journal and its recovery for one destination, with crashes, power losses, failing calls, an outside editor and an operator. Implements `SafeReplace`. |
| `DurableMap` | What a journal promises the program that keeps it: a value per name, written by calls that may be cut off and read at a start. |
| `Journal` | The intent journal call by call on a disk that keeps what was synced, with the adoption of earlier boots' journals. Implements `DurableMap`. |
| `JobStates` | The job state machine. |
| `Dispatch` | Queue, tick, sessions, fleet, store rows, streams and mounted-library agents. |
| `Transfer` | The same job on agents that cannot see the library: fetch, encode, push, and the install on the server. |
| `Registry` | How an agent joins: the client's session loop, registration, the fence, the table of live streams. |
| `Capability` | The capability document, what a job requires of it, its form on the wire, commit eligibility. |
| `Survey` | How the document comes about: clips, trial decodes, the rename probe. Uses `Capability`. |
| `Schedule` | Windows and overrides: what one agent's total of slots is at a time. |
| `Matching` | The permit ledger, a round of dispatch and the tick's reads, while jobs, agents and the clock move. Uses `Schedule`. |
| `SerialStore` | What the store promises the threads that write through it. |
| `Writer` | Channel, lanes, batches, savepoints, write-ahead log, migrations. Implements `SerialStore`. |
| `Library` | Scan, probe and evaluation passes over the file table. |
| `Media` | A probe parsed, the facts and their signature, the gates that judge an encode. |
| `Policy` | The rules engine, the shipped policy, the plan and the job. Uses `Media`. |
| `Pipeline` | One file from probe to replacement in the standalone runner. Uses `Policy`, `JobStates`. |
| `Selection` | The part of a list that a filter keeps, and the first entry a search finds. Used by `Capability`, `Survey`, `Media`, `Policy`. |
| `CommitRitual_proofs` (with `Journal`), `Writer_proofs`, `Dispatch_proofs`, `Transfer_proofs`, `Library_proofs`, `Matching_proofs`, `Registry_proofs`, `Judging_proofs` (`Survey` and `Pipeline`) | Inductive invariants and theorems. |
| `MC...` | The instances TLC checks. |

### `CommitRitual`

State: what the destination (`final`) and the trash hold, which outputs are
staged, synced or torn, the durable phase of every record (`journal`), and per
ritual how far `commit` is (`pc`), the source it was planned against (`guard`)
and the label it ended with (`verdict`). A file's bytes are their identity.
Each numbered step of `commit` is an action with its failure: `Verify`/`Refuse`
(1-2), `JournalGranted` (3), `SyncStaged` (4), `Retire` (5), `JournalRetired`
(6), `Install`/`InstallFails` (7), `JournalInstalled` (8), `Resolve` (9). A `?`
in the code is `Abort`, which leaves the disk as it is. A failing `record` may
or may not have been written (`RecordFails`), since the directory is synced after
the rename that publishes it.

`Restart` collects the outstanding records, `Replay` is one round of
`recover_all`, `ClearRecord` removes a resolved record as a step of its own, so
that the process may stop in between, and `RecoveryFails` is the error path, after
which the agent logs and goes on. A recovery that finds the destination empty looks first
(`Restoring`) and renames next (`Restore`, or `RestoreFails`); in every other case its look is
its answer (`Resolved`). `ResolveUnknown` is `on_unknown_intents`, which
runs on every registration. `Stop` loses everything but the disk; `PowerLoss`
also tears every output that was never synced. `Edit` is another program writing
a file at the destination, at any moment, over the one that is there or where a ritual has just
left none; `exposed` remembers that its version came while a rename onto it was pending (`Pending`).
`OperatorRestores` is a person who was told and puts the retained file back. `Host` is "agent", or "serve" for the server, which runs the ritual for
streaming agents but never replays.

A rename or unlink takes effect on the disk in the order it was made here, and the
journal is a function of the ritual; `Journal` takes the journal apart.

Left out: the device check (`same_filesystem`), how paths are derived beyond
that one destination has one trash path, and `advance_op`, which has no caller.
At most one ritual of a destination is active at a time: `Dispatch!OneInstaller`
is that assumption, and the finding about it is the way it fails.

### `Journal` and `DurableMap`

`CommitRitual` writes its journal in one step per call. `Journal` is the inside of
those calls: `Begin`, `WriteFile`, `SyncFile`, `Publish` (the rename over the name, or
the unlink) and `Flush` (`sync_dir`) for `record` and `clear`, any of which may fail
(`CallFails`); and of the start that reads it: `Open` lists the installation root,
`PickBoot`, `Adopt` and `Adopted` move an earlier boot's records name by name and sync,
`Outstanding` reads all (`prepare` in `agent/run.rs`). `entry` is what the running system sees
under each name; `maybe` what a power cut may leave there, any entry since the last
sync, for every name on its own; `moved` the adoptions it may undo. A file that was
published before its contents were synced may come back as `Garbage`, which
`outstanding` refuses. `possible` and `read` are the variables of `DurableMap`.

Assumed: one name per (job, attempt), although characters that are not safe in a name
all become `_`; the journal's own directory, once made, survives a power cut (its
parent is never synced); two processes of one installation do not run at once. The
server opens a journal for each push and never reads it (see `Transfer`).

### `Dispatch`

Every store write is one step; every operation of several writes is a program
counter over them. Thread 0 is the orchestrator, thread *k* the handler of stream
*k*, which takes one message at a time, in order.

* Store: `job` (state, agent, epoch, attempt), `intent` per (job, attempt),
  `epoch`, `lease`, `online`. `CanMove` is the compare-and-set of
  `transition_op`, `CanGrant` the two unique indexes of `grant_op`.
* Tick: `TickReconcile` takes the snapshot; `Escalate` and `Reclaim` act on it
  item by item; `Sweep` closes stranded intents and takes the next snapshots;
  `PlaceStart`, `PlaceGrant`, `PlaceEligible`, `PlaceAssign`, `PlaceSend` place
  one job; `EndTick`. `SettleFailure` (`Release`, `Retry`, `Bump`, `Requeue`) is
  the tail that `requeue`, `abandon` and the handler of a rejected result share.
* Handlers: `OnResult`, `ResultStart`, `ResultAccept`; `OnCommitRequest`,
  `RequestCommit`; `OnCommitReport`, `ReportResolve`, `ReportConclude`;
  `OnHeartbeat`; `Teardown`.
* Agents: `Join`, `OnAssignment`, `OnRevoke`, `OnGrant`, `Rejected`, `Accepted`,
  `GrantTimeout`, `Install`, `LetGo`.
* Trouble, each kind switched on by the `Trouble` constant and counted by
  `MaxTrouble`: a write fails ("write"), the server or an agent's process
  restarts ("server", "restart"), a stream breaks ("stream"), an agent is back
  before the server has acted on its absence ("blip"), heartbeats are late
  ("lease"), an answer comes too late ("timeout"), an operator cancels
  ("cancel"), an agent is slow to let go of a job it has reported ("linger").

Abstractions, each of which only merges steps between which nothing else in the
model reads the difference, or widens behaviour: Register and Connect are one
step; a heartbeat is sent and handled in one step, while no message of its stream
is in hand; `disconnect` and the `Offline` write of a teardown are one step;
which willing agent gets a job, and whether any does, is free (`PlaceStart`,
`Blocked`), so capacity, capabilities, schedules and policy can only restrict it;
`Sweep` closes all stranded intents at once; an install is one step with a
verdict, because `CommitRitual` has its inside. Encodes that break the file's
job into different error classes are one (`decide_retry` is only ever called with
a transient failure). `OUTBOUND_DEPTH` (64) is never reached.

### `Matching` and `Schedule`

What `Dispatch` leaves free: which agent gets a job, and whether any does. The
tick here is finer than there in what it reads and coarser in what it writes.
`tick` is the pass's local data: `Begin` is the reconciler's snapshot and
`Reclaim` one of its actions, `ReadQueue` the two lists of queued jobs,
`ReadFleet` the agents, `ReadHeld` one query of `rebuild_capacity`, `Rebuild` the
ledger's rebuild with the question to the schedule, `Admit` one job of the round of
`Dispatcher::dispatch` (`HasRoom` is `try_acquire`), `Place` one placement, whole or refused,
and `End`. The ledger is `known` (agents with limits) and `held` (jobs with a permit of each).
A list of rows is a set with an order (`Sooner`, `IsFirst`). The round runs under the ledger's lock
and here job by job: what moves meanwhile writes neither the ledger nor the queue it works off,
and the jobs it chose are placed when all are chosen.

Meanwhile `Advance` moves a job as its agent's messages do, `Create` adds one,
agents connect and disconnect, the server restarts with an empty ledger, and the
clock runs. `Effective` is the whole of `ScheduleEngine::effective` for the total.

Abstractions: what an agent satisfies and admits is the constant `Capable` (its
cache is dropped each tick by `set_agents`); the same limits hold for every agent,
as in the code; a requeue, an escalation and a placement are one step, since
`Dispatch` has their inside; the four queries of the reconciler are one step, as
there: a job it misses or sees twice is judged again by the next tick, and each
action compares the state; a lapsed lease is a lost agent; a job that can never be
placed is in `Stuck`. Every agent is enabled and commit-eligible, and nobody
cancels.

### `Transfer`

One job and one destination, with agents that stream. A source is its version number,
a copy the versions its chunks were read from, an output the attempt that made it.
`FetchStart`, `FetchChunk`, `FetchEnd` are `fetch_source` on both ends; `Encoded` and
`Send` the worker's encode and its report; `PushStart`, `PushChunk`, `PushEnd` the
receiving half of `push_output`, and `Rejudge`, `Record`, `Verify`, `SetAside`, `Install`,
`ResolveIntent`, `Conclude`, `Retain` the installing half, in the order
of the code, with `Dropped` at each of its awaits. Of the ritual, `Verify` is the one look at the
source, `SetAside` and `Install` are the two renames, `RitualFails` an `Err` before, between or after them; the
file may be edited between any two (`Edit`), and what comes between the renames is overwritten. `passed`
remembers what each look saw, `landed` what each install set aside. `Accept` is the check of a chunk's
offset and `Complete` that of the digest. `OnResult`, `Place`, `Reclaim` and `Sweep`
are the queue's side, one step each, since `Dispatch` has their inside. Trouble: a
chunk is lost, cut short or garbled ("chunk"), a call breaks ("call"), an agent's
process or the server restarts, a write or a step of the ritual fails, an encode fails.

Left out: several jobs (whose reservations `Dispatch` has), and cancellation.

### `Registry`

One agent name and the processes that ever answer to it. The client (`Dial`,
`Recover`, `CallFails`, `StreamCloses`, `Lasts`, `Leave`, `Wake`) is the loop of
`ConnectClient::run` with `Delay`, its pause as computed in a word of a given width.
A pause keeps the base it was drawn from; `Doubled` is the next one.
`Registered`, `Arm`, `Look` are the two orders in which the stop flag is read and the
notification armed; `StopSet` and `StopNotify` are the two halves of `stop()`. Each
handler is a set of steps between which others run: `ReadInstance`, `ReadHash`,
`WriteRow`, `WriteHistory`, `WriteLease` (register); `ReadEpoch`, `Insert`, `Admit`
(connect); `EndStream`, `Disconnect`, `SetOffline` (the reader of a stream). `NextEpoch`
is `decide_registration`, `Admits` the version gate. A new stream never has an id that the server or
a client still holds, also after a restart of the server.

### `Capability` and `Survey`

`Survey` is what an agent does before it joins. `Start`, `Ensure` (`ensure_samples`,
with `IsUsable` and the encoders in order of faithfulness), `Trials`, `Try`,
`TryDisturbed`, `Hang`, `TimeOut` (the trial decodes, judged by `Classify` from exit
code, marker and frame count), then the rename probe with each file operation a step
(`WriteDest`, `Hold`, `Rename`, `ReadBack`, `RemoveDest`, `RemoveSrc`), `Document` and
`Register`. A machine is a constant: what it lists, what its encoders emit, what it
decodes. `Upgrade` exchanges it between two processes, whose clips stay.
`Capability!FromWire(ToWire(cap))` is what the server has of it, `Satisfies` what the
dispatcher asks.

### `Writer` and `SerialStore`

A caller's submission joins `inbox` (`Submit`); the thread takes it as a batch
(`TakeBatch`, sorted by `Precedes`), opens a savepoint (`Begin`), and then `Release`s,
`Fail`s or `Panic`s; `Acknowledge` answers. `log` is the order of effects, `synced` how
much of it is on the disk, which `level` (PRAGMA synchronous) decides. `Open`,
`Migrate`, `CompareChecksum`, `Start` are the opening with its migrations; `Crash` takes back
what was not synced, or nothing when only the process ended. A set of tickets is a queue, since
the channel is first in first out and the sort is stable. SQLite is external: a commit
is atomic, the log survives in order. The read pool only reads and is left out.

### `Library`

`Workers` are processes that run passes. A scan (`BeginScan`, `Visit`, `PassOver`,
`Record`, `Refuse`, `Count`, `Sweep`, `CloseRun`), a probe pass (`BeginProbe`, `RunFfprobe`,
`StoreProbe`, `StoreProbeFails`, `EndProbe`) and an evaluation (`BeginEvaluate`, `Decide`,
`CreateJob`, `CreateRefused`, `EndEvaluate`) take their steps between those of the `World`: files are
written and deleted, the library is unmounted, jobs end, an operator resets a file. A version stands for
contents, size and mtime, so a change that keeps both size and mtime is outside the model, as it
is outside what the scanner can see.

### `Media`, `Policy` and `Pipeline`

`Media` and `Policy` are functions: `ParsedProbe`, `DeriveFacts`, `ContentSig`,
`GateFails` and `ValidateOutput`; `Matches`, `Evaluate`, `EncodePlanFor`,
`ValidationSpecFor`, `JobFor`. `Pipeline` puts them to work on one file whose content
is a report, a true length and a size: `Scan`, `ProbeFile`, `EvaluateFile`, `ResetEvaluations`, then
`run_one` as `Pick`, `Begin`, `Encode`, `Finish`, `JudgeOutput`, `Grant`, `Check`, `Commit`, `Settle`, `Conclude`, with
`Abandon` where the process dies or a checked call fails. `Check` is the ritual's one look at the source and
`Commit` the rest of it: the install, over whatever is at the path by then, or a failure that has put the file back
or asks for an operator. An edit between the two renames shows as one before the first, since the output
replaces it in either case; a path left empty is `CommitRitual`'s. `Outputs` is what ffmpeg
makes of a plan's arguments and `BadOutputs` what goes wrong with it. A plan is of the facts stored
when the job was created: when the file was edited since, a plan made of an earlier file's facts may
still run, once, on the file as it is now, which is why `RespectsTheFile` speaks of stored facts that
are those of the file, while lengths hold of whatever file the ritual found unchanged. `history.late` counts the
edits since it looked, which nothing in the code can see.

## The runs

| Run | Instance | Properties |
|---|---|---|
| `ritual` | agent, 2 rituals, 1 edit, 2 crashes, failing calls | `NeverNeither`, `NeverTorn`, `SourceSurvives`, `EmptyIsAccounted`, `WindowCloses`, `ReplacesSafely` |
| `journal` | 2 records, 2 earlier boots, 3 failing calls, crashes or power cuts | `KeepsRecords`, `ComesUp` |
| `dispatch` | 1 job, 2 agents, 2 attempts, 3 streams, one trouble of any kind | `InstalledIsFinal`, `InstalledOnce`, `OneInstaller` |
| `dispatch_live` | 2 jobs of one file, 1 agent, a restart or a cancellation | `QueuedIsFree`, `Settles`, `DestinationFreed` |
| `matching` | 3 jobs (one stuck), a window of 2, 2 agents of 2 slots, one large file each, 2 attempts, one loss, a closed and an open time | `NeverOverbooked`, `PausedStartsNothing`, `Drains` |
| `transfer` | 2 agents, 2 chunks, 2 attempts, 1 edit, two troubles of any kind | `OutputIsWhole`, `ReplacesWhatItRead`, `InstalledIsFinal`, `RowsAreTrue`, `Settles` |
| `registry` | 2 processes of one name (a reinstall, or a build too old), two troubles | `EpochFences`, `BacksOff`, `Stops`, `TableTells` |
| `survey` | 1 agent, 4 clips, 3 machines, 1 exchange, two troubles | `VerdictsAreTrue`, `OffersMatch`, `JudgedByRename` |
| `writer` | 1 waiting caller, 1 streaming one, 3 builds, 4 operations, two troubles | `InOrder`, `SchemaAgrees`, `KeepsPromise`, `Answers` |
| `library` | 1 worker, 2 files, 3 scans, two troubles | `FactsAreCurrent`, `MissingIsMeant`, `PassesEnd` |
| `pipeline` | 1 file of 4 kinds, 2 policies, one edit, change of policy, forced decision, death and one bad encode or failing install | `NoEncodeLoop`, `ReplacesItsSource`, `RespectsTheFile`, `Settles` |
| `dispatch_orphan` | 2 jobs, 1 agent, a late heartbeat | violated: `OneInstaller` |

Further configurations, not runs, each violating the property in it, show how a promise
outside the runs fails or why a bound of a run is where it is:

| Configuration | Violated |
|---|---|
| `ritual_retained` (no crash, no failing call) | `OriginalRetained` |
| `ritual_undercut` (no crash, failing calls) | `NeverUndercut` |
| `ritual_serve` (the server as host, 1 crash) | `WindowCloses` |
| `journal_copies` (an older copy of a record at a boot) | `KeepsRecords` |
| `dispatch_survivor` (1 job, 1 agent, a broken stream) | `Settles` |
| `dispatch_wedge` (1 job, 1 agent, a failing write) | `QueuedIsFree` |
| `transfer_recovery` (1 stop of the server) | `ServerRecovers` |
| `registry_displaced` (a cut and an overlap) | `OnlyItsOwn` |
| `library_stale` (2 workers) | `FactsAreCurrent` |
| `pipeline_stage_two` (nothing goes wrong) | `StageTwoIsQueued` |

The properties, in a reader's words, are in comments above their definitions. The
ones worth knowing:

* `NeverNeither`, `NeverTorn`: at every instant, after any crash or power loss,
  the destination or the trash holds a whole file, and no torn output is at either.
* `SourceSurvives`: the newest version another program wrote is still there,
  until a second replacement starts from the first one's output (or a recovery
  undercuts a running ritual), and unless it was written while a rename onto it was pending: between
  a ritual's two renames, or between a recovery's look and its rename.
* `EmptyIsAccounted`, `WindowCloses`: an empty destination is in a ritual's
  hands, on record, or reported; and it does not stay empty unreported.
* `ReplacesSafely`: the whole is a `SafeReplace`.
* `KeepsRecords`, `ComesUp`: the journal is a `DurableMap`, so what was acknowledged is
  what the next start finds; and no record ever keeps a start from coming up.
* `InstalledIsFinal`, `InstalledOnce`: a job whose output may be landing is never
  requeued, and it lands once; in `Dispatch` by the agent's hand, in `Transfer` by the
  server's.
* `OneInstaller`: two installs never share a destination. It holds for a single
  job under every trouble, and for two jobs of one file fails (`dispatch_orphan`).
* `QueuedIsFree`, `Settles`, `DestinationFreed`: a queued job does not block
  itself; it ends or reaches an operator; a reservation ends.
* `NeverOverbooked`: however a tick's reads interleave with moving jobs, no agent has
  more jobs than its limits, because held states are read in the order jobs go through
  them.
* `PausedStartsNothing`: a time at which every agent is stopped starts nothing,
  by a second definition of what a window covers.
* `Drains`: a job some agent can run leaves the queue; it needs more slots than
  there are stuck jobs ahead of it.
* `OutputIsWhole`, `ReplacesWhatItRead`, `RowsAreTrue`: only a whole output is installed, of the file
  that the source check found; what is set aside is that file or one written after the check, and is in the trash; and
  the tables are true of the disk.
* `EpochFences`, `TableTells`: no two processes share an epoch, unless their calls were
  at work at once; and the fleet table comes to tell who is reachable.
* `BacksOff`, `Stops`: the pause grows to its ceiling; a stop is heard wherever it finds
  the client.
* `VerdictsAreTrue`, `OffersMatch`, `JudgedByRename`: what the server believes of a machine is
  so, and the jobs it may be offered are the jobs it can run.
* `KeepsPromise`, `InOrder`, `SchemaAgrees`, `Answers`: the writer is a `SerialStore`; causal
  order survives batches and lanes; a store that serves has its build's schema; nobody waits for
  ever.
* `FactsAreCurrent`, `MissingIsMeant`, `PassesEnd`: facts and decisions that count as
  current are the file's; nothing that was seen, and no unmounted library, is marked missing.
* `NoEncodeLoop`, `ReplacesItsSource`, `RespectsTheFile`: an output is not encoded
  again under its policy; the file the ritual finds unchanged is the very one it was made of; and it loses no
  part of that file.

The type invariants (`TypeOK`, `JournalTypeOK`, `PipelineTypeOK`; each is a theorem as well) hold on the same instances, outside the runs, as do `LedgerAgrees`
(the ledger knows every held job), `HistoryTells`, `Registers`, `CommitIsDurable` and `PoisonTells`;
the last line of a run's configuration names them.

**Bounds, and why they are enough.** Two rituals are the fewest for which one's
output is the other's original; with one edit and two stops, every step of each
has an edit, also while the destination is empty, a stop and a stop during its replay. In `Dispatch` two agents and
three streams let an agent leave, the job move to the other and the first come
back; two attempts include one retry and one exhausted budget; two jobs of one
file are the fewest that compete for a destination. `MaxTrouble = 1` puts each
kind of trouble between any two steps. By hand, larger instances were run to the
end: `dispatch` with two troubles (18.9 million states, before the
last kind was added) and two jobs on one agent with two of any trouble but late heartbeats (3.5
million states), with no violation of the safety properties.

In `Journal` one record's sync is another's sync too, so two records are the fewest whose
names reach the disk apart; two boots are the fewest of which one is swept when the other is
not; three troubles are a failing call, a stop and a power cut during the start after
it. Every disk that an earlier process may have left, except a second copy of a record, is an initial
state.

In `Matching` a window of two with three jobs leaves one unseen, two agents let a
job that only one of them can run compete with one that both can, one loss is a
stream or the server at any step, and the two times are one at which a fleet of agent
2 alone is closed and one at which all are open: a minute after midnight in a window
that wraps, over a window of lower priority, with an override for agent 1. With five
times (1.6 million states, by hand) the safety properties hold as well.

In `Transfer` two chunks are the fewest that can be of two versions or out of order; two
agents and attempts let one agent's push meet another's job. In `Registry` two processes
are a restart, a reinstall or a clone; a first pause of 8, a ceiling of 12 and a word of 8 let the
product of `Delay` wrap and the ceiling cut. `Survey` has a CPU node, a card that decodes one
profile less than it lists and a node whose encoder makes another profile than it is asked for. In
`Writer` four operations are two migrations and two submissions, or one caller's writes on two lanes
around another's. `Library` has one worker because two break `FactsAreCurrent` (`library_stale`); a percentage of
70 makes one of two files plausible to lose and both not. `Pipeline` has a file that owes both stages,
one whose video is protected and whose header lies, one that is excluded and shorter than the others (so that an edit the ritual
cannot see shows in the length), and one that is no media.

Deadlock is not checked where the system may stop: a library with nothing left
to do, a writer without callers. The tick of `Matching` never does, and there it is checked.

**Fairness.** A ritual that started keeps running, a stopped host is started
again, and a replay runs on: `Commit` and `Recovery` are code that nothing in it
waits for, and the process is supervised; so are the starts of `Journal` (`Opens`). In `Dispatch`,
weak fairness per thread
and per agent: the async runtime polls every task, the tick loop sleeps a bounded
time, the client reconnects and heartbeats for ever, and an encode ends or is
killed. Strong fairness on placing a job says that the dispatcher does not find
reasons for ever while an agent is willing. In `Matching`, weak fairness
of the tick, the clock, and each agent's reconnecting and working on. In `Transfer`, of agents, of the push at
work on the server, of the queue's tick and of an agent that comes back; in `Registry`, of each client, of the second half of a stop,
of handlers and of readers; in `Survey`, of a process that was started, whose one wait, a hanging decode,
has a watchdog; in `Writer`, of the one thread; in `Library`, of a pass an operator started; in `Pipeline`, of the scans and
of the runner, and only while nobody interferes, since `Settles` speaks of nothing else. No fairness on any trouble, edit, cancellation, creation, timeout or person.

## What the runs found

With a run or a configuration, in `PROJECT.json` with the quoted promise:

1. `requeue` closes the intent before the compare-and-set that may refuse it, and
   a job granted in between runs on without its reservation
   (`dispatch_orphan`).
2. The server's own journal is never replayed (`transfer_recovery`, `ritual_serve`).
3. The journal lags the first rename, so one crash there makes recovery ask for
   an operator although the original is in the trash (`ritual.cfg` with one crash and no failing call
   violates `OperatorOnlyWhenLost`).
4. A second replacement renames the first output over the retained original
   (`ritual_retained`).
5. `on_unknown_intents` runs on every registration and can restore the original
   under a running ritual (`ritual_undercut`).
6. A revocation outlives the attempt it was for and stops the next one silently
   (`dispatch_survivor`).
7. A placement whose second or third write fails leaves its own reservation
   behind (`dispatch_wedge`), and so does one between whose writes the server restarts. A handler that
   read the attempt's number before the reconciler requeued the job of an agent that was there all the
   time (its lease had lapsed, or its absence was noticed after its return) closes the older attempt's
   reservation and requeues the newer: seen by hand with "lease" and 2 agents, and with "stream" and "blip".
8. A job that is refused at every placement takes a permit through every round and
   starves what is behind it on an idle agent (`matching.cfg` with two jobs, the first stuck, and one
   agent of one slot violates `Drains`).
9. An older copy of a record outlives the current one and is adopted at the next start
   (`journal_copies`); a start that cannot list the installation root adopts nothing and goes on
   (`journal.cfg` with "root" in `Trouble` violates `KeepsRecords`).
10. A late teardown of an older stream of the same process removes the newer one
   (`registry_displaced`).
11. Two agents that probe one mount at once spoil each other's verdict (`survey.cfg` with two
   agents violates `JudgedByRename`).
12. The second stage of a file that is evaluated before the first stage's job has ended is never
   queued (`pipeline_stage_two`).
13. Two scans of one library at once mark each other's files and store stale facts (`library_stale`).

Without a configuration of its own: the ritual compares the source once, before the record, the sync and two
renames. A version written before the first rename is set aside unread and a stale encode installed in its place; one
written between the two is overwritten and gone, and so is one between a recovery's look and its rename. Comments
in `commit.rs`, in the runner and in the session promise more. The exceptions in the properties are exactly
these windows: without `exposed`, `ritual.cfg` violates `SourceSurvives`; without `history.late`, `pipeline.cfg`
violates `ReplacesItsSource` and `RespectsTheFile`. For the same reason a recovery that finds any file at the destination calls it
installed, whoever wrote it.

Seen while reading, modelled as the code has them, and listed in `PROJECT.json` without a run:
a job id met again ends an evaluation pass; a failed probe is never retried; each savepoint is its own commit and
its result is dropped; nothing checkpoints; a commit-lane write waits for the batch at work; an `Err` of the
ritual under a push leaves the job `Committing`; a capability change may miss its history row; the jitter wraps at
the ceiling; an output whose tail cannot be read is judged by its header (with `TailReadable = FALSE`,
`pipeline.cfg` violates `RespectsTheFile`); nobody compares the plan's content signature; free bytes are in
the capability hash; transient failures dead-letter; a report for an escalated job frees the reservation the
operator was to have; the queue is pending jobs, then requeued ones, whatever their priority; held jobs are read
through the queue's window, so with more than 512 in one state agents are overbooked (by hand: `matching` with
`QueueWindow = 1`); an agent the schedule stops is still given work while another is not stopped.

Liveness fails under more trouble than `dispatch_live` has, each seen by hand: with
a failing write, a job stays `Assigned` under a live agent or `Retrying`; with a late
grant, `Committing`; with an outage shorter than a tick, whatever was lost with the
stream. In each the cause is the same: the reconciler leaves alone what a connected
agent holds, and `Retrying` is no state the tick reads. `Transfer!Settles` excludes the same
state by name (`Abandoned`).

## What is proved

**The ritual.** In `CommitRitual_proofs`, for any sets of rituals and edits, any number of crashes,
and either host, from the two named assumptions (`ContentsAreDistinct`: outputs,
edits, the source and "nothing" are different; `HostAssumption`: the switches have
their types): `TypeCorrect`, `NeverNeitherHolds`, `NeverTornHolds`, `SourceSurvivesHolds`,
`EmptyIsAccountedHolds` and `ReplacesSafelyHolds`, each of the property it is named for.

The argument. None of the properties is inductive: whether the trash may be empty
depends on how far the ritual is, and whether a torn file can be in the library
depends on what was synced before it moved. `Inv` is their strengthening, in named
parts:

* `Untouched`: a ritual that has not started has left nothing on disk, no record
  and no verdict.
* `Alone`: at most one ritual is under way, in a host that is up, and it has not
  been reported.
* `Durable`: a ritual past step 4, and whatever output is at either path, has been
  synced; only an output that was not is torn.
* `Journaled`: a ritual past step 3 has a record on disk, and only records of
  rituals that are over are being cleared.
* `Placed`: one of the two paths holds something; while a ritual runs the
  destination is empty only between its renames, and is not empty there only if a
  recovery has put the original back under it or another program has written there (`exposed`).
* `Accounted`: `EmptyIsAccounted` by a ritual whose record is not about to be
  cleared.
* `Newest`: unless that version is `exposed`, the destination holds an output or the newest outside version,
  never an older one, and when it is empty that holds of the trash; and a recovery that is about to put a file
  back would not put it over that version, as the trash is then empty and its rename fails.
* `SourceSurvives` itself.

`Invariance` proves `Spec => []Inv` with one lemma per group of actions;
the theorems follow from it. The refinement uses `Inv` at both ends of
a step: a power loss is a `Spoil` because of `Durable`, an install is an `Arrive` because
of `Durable` (its bytes are sound) and `Placed` (there is something aside).

**The journal.** Also in `CommitRitual_proofs`, for any records, boots and number of troubles, from
`JournalAssumption`, unless a record has an older copy at a boot (`~Copies`) or the
installation root cannot be listed (`"root" \notin Trouble`), the two ways in which
`KeepsRecords` does fail: `JournalTypeCorrect`, and `KeepsRecordsHolds`, the refinement of
`DurableMap`. The invariant bounds what the directory shows and what a power cut may leave
by the possible values (`Bounded`), with two exceptions that only an agent that is not up
can be in: a record that waits at a boot whose directory is still to be swept (`Waiting`),
and an adoption that may be undone, while that boot's directory is still there
(`Undoable`). `Working` says that calls are in hand only while the agent is up. Once a
sweep is through, both exceptions are gone (`AllAdopted`), which is why `Outstanding`
reads possible values only.

**The writer.** In `Writer_proofs`, for any callers, names, builds and bounds, from
`WriterAssumption`: `TypeCorrect`, `InOrderHolds`, `SchemaAgreesHolds`,
`CommitIsDurableHolds` and `KeepsPromiseHolds`, the refinement of `SerialStore`. The invariant's parts: `Quiet`
(a thread that is not live has nothing in hand), `Pristine` (what is in hand has no effect and no answer),
`Durable` (an acknowledged commit-lane operation is within `synced`, and the level is raised before one is
released), `Ordered` (tickets in hand come after every one of their lane, or of their waiting
caller, that was applied), `InOrder`, and `Schema` (what the log records of each version while the
store opens and serves).

**Dispatch.** In `Dispatch_proofs`, for any finite set of jobs, any agents, attempts, streams and
troubles, from `DispatchAssumption`: `TypeCorrect`, `InstalledIsFinalHolds`, `InstalledOnceHolds`,
and `OneInstallerHolds` where no two jobs have one destination (where two have, it fails:
`dispatch_orphan`). The properties are about installs that happen on an agent, long after the
server decided and while it reads stale snapshots, so the invariant follows the right to
install. A *token* of a job is a grant on its way down a stream, an item that is installing, a
report on its way up, or a handler at work on a report. `Safe` says of each job:

* `OneToken`: it has at most one token, in one of the four places. `RequestCommit` makes one
  only out of `Verifying`, a state that a job with a token has left for good; a broken stream or
  a restart loses tokens and never makes one.
* `Truthful`: a job with a token, or an install, is past its grant (`Past`); what has not
  reported has installed nothing; and what reports says whether it has.
* `Failures`: a job fails on the word of its last token that nothing was installed.
* `OneAsks`: an agent waits for one grant per job at most, so one grant starts one install.

Most of the steps only thin tokens out, which keeps `Safe` (`Thinned`, with what each group of
actions does to streams, work, tasks and rows proved once in `...Streams` and `...Thins`). The five that
make or move a token, and the restart of an agent, have a lemma each: `Requested`, `Granted`, `Installed`, `Heard`,
`Concluded`, `Restarted`. Neither the intent rows nor the epochs
occur in the argument: the compare-and-set on the job's state carries it, and the fence and
the reservations matter to liveness and to other jobs of the destination.

`QueuedIsFreeHolds` is about the reservations, and there the fence does the work. Its hypothesis
`Calm` excludes the kinds of trouble that refute `QueuedIsFree` (finding 7: a failing write, a restart of the
server, a lapsed lease, a return before the absence was noticed) and none of the others: agents restart, streams
break, grants come late, claims linger, operators cancel, in any number. `TypesAndSafe` says nothing of
reservations, so the invariant is a second one on top of it. A *word* of a job is what may still bring a verdict on it:
an assignment on its way down, an encode whose stream lives, a result on its way up, a handler at work on
one. `Orderly` is

* `Linked`: the fleet table has an agent's served stream, and an agent holds no other open one;
* `Words`: on a served stream a job has at most one word, the row names that agent and
  epoch, and the tick has nothing in hand about the job. So two streams never have words of one job
  (`OneDue`), and a handler and the tick never work on one job at once (`Alone`): it is this
  that a lapsed lease breaks;
* `Snapshots`, `OnRoad`, `Rows`: what the tick holds is of one job in one place, and what it or a handler
  read of a row is still so, or the job is over;
* `Reserved`: a live intent is the current attempt's, of a job that is held or over or about to be
  assigned; a tail that has released it finds none. That is `QueuedIsFree`.

Each action touches one job's words at most: `Untouched` jobs keep their part (`UntouchedRow`, `UntouchedWord`), and
`StepOrder`, `SoleOrder`, `QuietOrder` and `SurveyOrder` say what is left to show for the one.
TLC checked `Orderly` as an invariant first, with two agents, three streams and two troubles.

**Transfer.** In `Transfer_proofs`, for any agents, attempts, chunks, edits and troubles, from
`TransferAssumption`: `TypeCorrect`, `InstallsWholeOutputs` (`OutputIsWhole`), `InstallsOnce`
(`InstalledIsFinal`), `TablesTellTheTruth` (`RowsAreTrue`) and `ReplacesOnlyWhatWasRead`
(`ReplacesWhatItRead`). `Inv` is the types and four parts:

* `Whole`: a push that has been received (`Received`) has staged every chunk, and every chunk sound;
  `Complete` is what makes it so, whatever was staged before under the name.
* `Final`: at most one push is between its transition to `Committing` and its report
  (`Installing`), at most one output has landed, and the row (`StateOfRow`), the disk and the trash (`StateOfMedia`) and
  the label of each push (`StateOfPush`) agree with how far the ritual under it is; an output may since have been
  overwritten, and its original is in the trash all the same (`InPlace`). The
  compare-and-set to `Committing` is the only way in, and no queue action leaves that state.
* `Once`: an attempt is used by one agent; before its encode has ended nobody has pushed it
  (`EarlyIsUnpushed`), and before its fetch has ended its copy is empty. So a copy does not
  change under the push that is made of it.
* `Reads`: a version read for an attempt is none later than the current one and, while no scan has
  come since the fetch began, none before the row's (`Fits`), until a source check has passed. Two versions that are both at least the row's
  and at most the current one, when the push finds the row's at the destination, are one
  version; that is the whole argument why comparing the guard alone is enough at the check, and why a scan in
  between breaks it (`PassedFits`). From there to the first rename the file only becomes newer (`LandedPassed`).

**Library.** In `Library_proofs`, for any finite set of paths, from `GuardAssumption` and
`LibraryAssumption`: `TypeCorrect` with any number of workers, and, if no two processes run passes
(`OneWorker`; with two both fail, `library_stale`), `FactsStayCurrent` and
`OnlyTheMissingAreMarked`. The program does not enforce that hypothesis: it is the promise the
operator has to keep. `Right` orders versions: what a row, or a pass in progress, says of a path
is a version the path has had (`Had`), a probe's read is no older than the stat of the row it will be
stored in, and facts are no older than the row's stat. So facts whose row has the file's own
stat are caught between that version and the newest. `Finds` says that what a scan saw is stamped with
its generation or still to be recorded, and counts the sweep's arithmetic: the guard is asked of exactly the files
that the sweep then marks. That needs cardinalities of the live and the unseen (`LiveFinite`).

**Matching.** In `Matching_proofs`, for any finite sets of jobs and agents, any limits, classes,
windows and losses, from `MatchingAssumption`: `TypeCorrect`; `NeverOverbooks` and
`LedgerKnows` (the ledger has a permit for every job its agents hold) as long as no state has more held
jobs than one query reads (`NothingCutOff`; without it both fail, see below); `NeverOverbooksSmall`,
which discharges that condition where the jobs that can be placed fit the window; and `PauseHolds`. `Waits` says that what waits
for a place is still as it was read, though agents move jobs meanwhile: only the tick itself moves
queued ones. `Covered` is the heart: while the held states are read one query after another, each held job has been
read or is in a state still to be read (`ReadsFind`), because jobs move on only in the order in which
the states are read, and what leaves is requeued by the tick alone. Then the ledger covers
what an agent holds together with what it has been promised (`Booked`), and those sets fit the limits (`Fits`), which
every acquired permit keeps. `PauseHolds` rests on lemmas about `Schedule` for every window and
override: `Covers`, with its cases for windows that wrap or run all day, is `Within`, a count of minutes
round the clock (`CoversIsWithin`), and where that stops an agent `Effective` is 0
(`StoppedHasNone`), from `ScheduleIsRead`: windows and overrides are the rows the store returns.

**Registry.** In `Registry_proofs`, for any finite set of processes, any identities, gate and
troubles, from `RegistryAssumption`: `TypeCorrect`, `EpochsFence` (`EpochFences`) and `PausesGrow` (`BacksOff`),
the last for policies whose halves are whole, as nanoseconds given in larger units are. `Standing` is the types,
`Waiters` (a process that waits does so for one call, which is of its kind) and `Apart` (a stream is in one place: in the hands of its
handler, or with its reader and its client). Without `Apart` the type of `streams` is not inductive, and the proof
found that the model had let a restarted server give out an id that a client still held. `Fenced` is the strengthening of the fence while
no two processes' calls have been at work at once: all calls are one process's (`Lone`), the row is the last
registration written (`RowIsLast`), and a handler that has read it will write what it says (`Announced`). The row's
write is the one step that can break the fence, and it is where these meet. `PausesGrow` is about
arithmetic modulo the word: the jitter is at most half the base whatever the product wraps to.

**Surveying.** In `Judging_proofs`, for any finite lists of clips, any machines, jobs, exchanges and faults, from
`SurveyAssumption`: `SurveyTypeCorrect`, `VerdictsAreTrueHolds`, `OffersMatchHolds` and, where at most
one agent mounts the library (`SoleProber`; with two it fails, finding 11), `JudgedByRenameHolds`. A verdict is
about a clip that may be older than the machine, so `SurveyInv` says of each process (`Own`):

* a clip kept under a name is of the profile in its name (`IsUsable` is asked of it again at each start);
* what is left to try is a trial of a clip that is there, and with the verdicts given it covers every
  clip the machine can make or has (`Queue`, `Thorough`): no verdict is missing where nothing disturbed the survey;
* a row that says "ok" is true of the machine (`TrueRows`), because `Classify` asks for decoded frames and for no
  marker of a fallback, and not for the exit code alone;

and of the server (`Kept`) that the registered document is still such a document after its crossing. `OffersMatch`
then follows from `Satisfies` requirement by requirement. `ProbeTells` follows the rename probe call by call:
what the two files hold at each of its steps, whatever an earlier probe left.

**The pipeline.** In `Judging_proofs`, for any contents (reports with any number of streams), any policies
and bounds, from `PipelineAssumption` (rules name encoders of their own kind, and no rule asks for a codec called "none") and the
assumptions of `Policy` and `Media`: `PipelineTypeCorrect`, `ReplacesItsSourceHolds`; `RespectsTheFileHolds`, if the
last packet can be read (`TailReadable`; without it the property fails, see above); and `NoEncodeLoopHolds`, if the policies
converge (`AllConverge`), which `DefaultSpaceSaverConverges` shows of the shipped one. A policy with a rule that reads what it writes
does loop, and the program does not refuse one. The argument has two halves. One is about versions (`RunInv`):

* facts are no newer than the guard, the guard no newer than the content the output was made of, and that no newer
  than the file. So at the ritual's look, where the guard is the file's version, all in between is of that one version, and at
  the install the file is newer by the edits since (`LateInv`): those `history.late` counts, and no other;
* whatever is of the file's version is about what the file holds now: the plan was decided on its facts
  (`PlanOrigin`), the output is an encode of it by that plan (`MadeFrom`), and, once judged, passed the gates with its
  length (`ThroughTheGates`).

The other is about functions of reports. `Selected` is unfolded once (`SelectedEntries`, `SelectedTwice`), and
`OutputStreams` says of every encode, good or bad, that each stream of the output is what the arguments make of one stream of
the source, and that copied video stays as it is. `EvaluateOwes` and `PlannedGives` say which rule a plan comes from,
that it never encodes protected video, and that an excluded file has none. `AudioDone` and `VideoDone` say of a
content that no rule of a kind wants it; a pass of a kind makes it so and keeps the other kind's
(`AudioPassDone`, `VideoPassDone`), and a plan of a content that is done owes nothing of that kind. So `Settling` counts: one install
leaves one stage done, two leave both, and a third has no plan. An edit the ritual did not see begins the count anew.

The library's induction theorems cannot be used, as they take an operator; where a recursive function is unfolded
(`Selected`), induction is over a set of numbers instead (`EveryNumber`, from the well-foundedness of `<`).

**Only model-checked.** Every liveness property (`WindowCloses`, `ComesUp`, the four that are called `Settles` or
`DestinationFreed`, `Drains`, `Stops`, `TableTells`, `Answers`, `PassesEnd`, and `Registers` outside the runs): the prover has no ENABLED. So are the invariants outside the runs that
the last line of a configuration names and no theorem states (`HistoryTells`, `PoisonTells`). Every safety
invariant, action property and refinement that a passing run checks is also a theorem.

## What is left

1. `HistoryTells` of `Registry`, which follows the calls as `Fenced` does, with a count of the handlers that still owe a row.
2. `Transfer` with two jobs of one destination, to see what reservations promise there, and `Finds` for several
   workers whose scans do not overlap.
3. The second replacement of one file, with a restore or the reaper between: what the trash promises when its
   callers exist.

## Not modelled

* The batch of one directory (`cli/local.rs`): a loop over files without a table.
* Progress parsing, signals and pipes of ffmpeg, and the text of its arguments: no state
  that a decision depends on.
* The fsync, ZFS and CPU quota probes: they are printed or passed on.
* `dispatch_block` records, metrics, reports, admin commands, configuration and wiring.
* Functions without a caller in this commit: `advance_op`, restoring, hastening and reaping of trash,
  quarantine, agent health, permanent failures, exclusion globs.
