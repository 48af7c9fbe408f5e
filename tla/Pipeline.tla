------------------------------ MODULE Pipeline ------------------------------
(***************************************************************************)
(* One file of a library from probe to replacement, as the standalone      *)
(* runner takes it there: crates/transcodarr-server/src/runner.rs, with    *)
(* the probe and the evaluation that precede it, the executor that runs    *)
(* ffmpeg and judges its output (crates/transcodarr-agent/src/executor.rs) *)
(* and the policy of module Policy.                                        *)
(*                                                                         *)
(* A content is what is really in a file: the report ffprobe makes of it,  *)
(* its true length and its size.  The number of times the file at the path *)
(* was replaced, by anyone, stands for its size, mtime and inode.  Of the  *)
(* install, the look at the source and the renames are a step each here;   *)
(* CommitRitual takes it apart.                                            *)
(***************************************************************************)
EXTENDS Policy

CONSTANTS Contents,       \* what the file may hold when it is first seen
          Replacements,   \* what another program may put in its place
          Policies,       \* the policies a release may ship, by number
          TailReadable,   \* whether ffprobe always finds the last packet
          MaxEdits,       \* replacements by other programs
          MaxPolicies,    \* changes of policy
          MaxForced,      \* forced re-evaluations
          MaxAbandoned,   \* deaths of the runner's process and checked calls that fail
          MaxFaults       \* encodes and installs that go wrong

\* What ffprobe may say of a stream and of a file, and what a file may be.  The
\* names an encode writes are among the names.
Codecs == STRING \cup {CodecWrittenBy[e] : e \in AudioEncoders \cup VideoEncoders}
StreamReports == [type : STRING, codec : Codecs, profile : {"plain", "hdr", "dv7", "dv5", "dvhe.07"},
                  pix : {"8", "10le", "12le", "hdr"}, bits : Int, title : {"plain", "atmos"}]
Reports == [wellFormed : BOOLEAN, container : STRING \cup {"matroska"}, duration : Int, rate : Int,
            streams : Seq(StreamReports)]
ContentTypes == [report : Reports, length : Nat, size : Nat]

\* A rule names encoders of its own kind, and codecs by their names.
RuleOK(rule) ==
    /\ rule.then.kind = "EncodeAudio" => rule.then.codec \in AudioEncoders
    /\ rule.then.kind = "EncodeVideo" => rule.then.preference \in Seq(VideoEncoders) \ {<<>>}
    /\ "none" \notin rule.when.videoIn

ASSUME PipelineAssumption ==
    /\ Contents \subseteq ContentTypes /\ Replacements \subseteq ContentTypes
    /\ DOMAIN Policies \subseteq Nat \ {0}
    /\ \A p \in DOMAIN Policies : /\ DOMAIN Policies[p] \subseteq Nat
                                  /\ \A i \in DOMAIN Policies[p] : RuleOK(Policies[p][i])
    /\ TailReadable \in BOOLEAN
    /\ {MaxEdits, MaxPolicies, MaxForced, MaxAbandoned, MaxFaults} \subseteq Nat

VARIABLES disk,      \* what the file holds
          version,   \* how often it was replaced
          row,       \* the file's row: state, facts, the version they describe
          policy,    \* the policy in force
          job,       \* the last job of the file
          ids,       \* the ids of all the jobs the file ever had
          run,       \* run_one's local state
          ledger,    \* the intent of the destination: live or not
          history    \* what has been spent of the bounds; the installs planned from
                     \* the very file replaced, since it or the policy changed; and the
                     \* edits since the ritual last looked at the source

pipelineVars == <<disk, version, row, policy, job, ids, run, ledger, history>>

JS == INSTANCE JobStates

NoJob     == [state |-> "none"]
NoRun      == [at |-> "idle"]
NoContent == [size |-> 0]

PipelineInit ==
    /\ disk \in Contents /\ version = 0
    /\ row = [state |-> "Discovered", of |-> 0, size |-> disk.size, rules |-> 0,
              facts |-> NoContent, factsOf |-> 0]
    /\ policy \in DOMAIN Policies
    /\ job = NoJob /\ ids = {} /\ run = NoRun
    /\ ledger = FALSE
    /\ history = [edits |-> 0, upgrades |-> 0, forced |-> 0, abandoned |-> 0, faults |-> 0,
                  installs |-> 0, late |-> 0]

Spend(what) == history' = [history EXCEPT ![what] = @ + 1]

----------------------------------------------------------------------------
(* The environment.                                                        *)

\* Another program replaces the file.
Edit(c) ==
    /\ history.edits < MaxEdits
    /\ disk' = c /\ version' = version + 1
    /\ history' = [history EXCEPT !.edits = @ + 1, !.installs = 0, !.late = @ + 1]
    /\ UNCHANGED <<row, policy, job, ids, run, ledger>>

\* A release with another policy.
NewPolicy(p) ==
    /\ history.upgrades < MaxPolicies /\ run = NoRun
    /\ p # policy /\ policy' = p
    /\ history' = [history EXCEPT !.upgrades = @ + 1, !.installs = 0]
    /\ UNCHANGED <<disk, version, row, job, ids, run, ledger>>

----------------------------------------------------------------------------
(* Discovery.                                                              *)

\* A scan: a stat that differs from the row's makes the file Discovered and
\* forgets its decision; the facts stay until the next probe.
Scan ==
    /\ row.of # version
    /\ row' = [row EXCEPT !.state = "Discovered", !.of = version, !.size = disk.size, !.rules = 0]
    /\ UNCHANGED <<disk, version, policy, job, ids, run, ledger, history>>

\* A probe of the file as it is now, with the size the scan saw.
ProbeFile ==
    /\ row.state = "Discovered"
    /\ row' = IF Parses(disk.report)
              THEN [row EXCEPT !.state = "Probed", !.factsOf = version,
                               !.facts = DeriveFacts(ParsedProbe(disk.report), row.size)]
              ELSE [row EXCEPT !.state = "ProbeFailed"]
    /\ UNCHANGED <<disk, version, policy, job, ids, run, ledger, history>>

Open == job.state # "none" /\ ~JS!IsTerminal(job.state)

\* facts_from_row: the stored facts of the file, with the size of its last stat.
StoredFacts == [row.facts EXCEPT !.size = row.size]

\* job_id_for: what the job is, and nothing of when.
JobIdFor(spec) == <<spec.class, policy, spec.sig>>

\* evaluate_one: the decision is recorded first.  Then, if it owes work and the
\* file has no open job, a job is created; creation fails when the file ever
\* had a job of that id.
EvaluateFile ==
    /\ row.state \in {"Probed", "Evaluated"} /\ row.rules # policy
    /\ row' = [row EXCEPT !.state = "Evaluated", !.rules = policy]
    /\ LET d    == Evaluate(StoredFacts, Policies[policy])
           spec == JobFor(d, StoredFacts)
       IN IF OwesWork(d) /\ ~Open /\ JobIdFor(spec) \notin ids
          THEN /\ job' = [state |-> "Pending", needs |-> spec.needs]
               /\ ids' = ids \cup {JobIdFor(spec)}
          ELSE UNCHANGED <<job, ids>>
    /\ UNCHANGED <<disk, version, policy, run, ledger, history>>

\* reset_evaluations: an operator has every file decided again.
ResetEvaluations ==
    /\ history.forced < MaxForced /\ row.rules # 0
    /\ row' = [row EXCEPT !.rules = 0] /\ Spend("forced")
    /\ UNCHANGED <<disk, version, policy, job, ids, run, ledger>>

----------------------------------------------------------------------------
(* LocalRunner::run_one.                                                   *)

\* A transition the runner asks for: refused when the job is elsewhere.
Advance(to) == job' = [job EXCEPT !.state = to]

RunAt(at) == run' = [run EXCEPT !.at = at]

\* A pending job is picked, its plan is re-derived under the policy in force,
\* and the source is observed.  A job whose file owes nothing now is reported
\* and stays Pending.
Pick ==
    /\ run = NoRun /\ job.state = "Pending"
    /\ LET d == Evaluate(StoredFacts, Policies[policy])
       IN /\ OwesWork(d)
          /\ run' = [at |-> "observed", guard |-> version, plan |-> EncodePlanFor(d),
                     spec |-> ValidationSpecFor(StoredFacts, d), factsOf |-> row.factsOf,
                     temp |-> NoContent, of |-> 0, exit |-> 0]
    /\ UNCHANGED <<disk, version, row, policy, job, ids, ledger, history>>

\* Pending, Eligible, Assigned, Running: a write each, and nobody else moves
\* the job of a running runner.
Begin ==
    /\ \/ run.at = "observed" /\ job.state = "Pending"  /\ Advance("Eligible") /\ RunAt("observed")
       \/ run.at = "observed" /\ job.state = "Eligible" /\ Advance("Assigned") /\ RunAt("observed")
       \/ run.at = "observed" /\ job.state = "Assigned" /\ Advance("Running")  /\ RunAt("started")
    /\ UNCHANGED <<disk, version, row, policy, ids, ledger, history>>

\* ffmpeg's side: what an argument list makes of a stream, and of a file.  A
\* video encoder given no pixel format takes one it supports.
EncodedStream(argv, s) ==
    CASE s.type = "video" /\ argv.video # "copy" ->
           [s EXCEPT !.codec = CodecWrittenBy[argv.video], !.profile = "plain", !.bits = Missing,
                     !.pix = CASE argv.pix = "yuv420p" -> "8"
                               [] argv.pix \in {"yuv420p10le", "p010le"} -> "10le"
                               [] OTHER -> IF argv.video = "libx265" THEN s.pix ELSE "10le"]
      [] s.type = "audio" /\ argv.audio # "copy" ->
           [s EXCEPT !.codec = CodecWrittenBy[argv.audio]]
      [] OTHER -> s

EncodedReport(argv, report) ==
    LET mapped == Selected(report.streams,
                           {i \in DOMAIN report.streams : report.streams[i].type \in argv.mapped})
    IN [report EXCEPT !.container = "matroska", !.rate = IF argv.video = "copy" THEN @ ELSE 1,
                      !.streams = [i \in DOMAIN mapped |-> EncodedStream(argv, mapped[i])]]

\* What an encode of a content may leave: everything, smaller or not; or a
\* truncated file whose header keeps the source's duration, with an exit code
\* or without one; or fewer streams; or no media at all.
Outputs(argv, c) ==
    LET whole == [c EXCEPT !.report = EncodedReport(argv, c.report)]
    IN {[exit |-> 0, made |-> [whole EXCEPT !.size = n]] : n \in {c.size, c.size \div 2}}

BadOutputs(argv, c) ==
    LET whole == [c EXCEPT !.report = EncodedReport(argv, c.report), !.size = 1]
        short == [whole EXCEPT !.length = c.length \div 2]
    IN { [exit |-> 0, made |-> short], [exit |-> 69, made |-> short],
         [exit |-> 0, made |-> [whole EXCEPT !.report.streams =
                                   Selected(@, {i \in DOMAIN @ : @[i].type # "subtitle"})]],
         [exit |-> 0, made |-> [whole EXCEPT !.report.wellFormed = FALSE]] }

Encode ==
    /\ run.at = "started"
    /\ \/ \E o \in Outputs(Argv(run.plan), disk) :
             run' = [run EXCEPT !.at = "encoded", !.temp = o.made, !.of = version, !.exit = o.exit]
          /\ UNCHANGED history
       \/ /\ history.faults < MaxFaults /\ Spend("faults")
          /\ \E o \in BadOutputs(Argv(run.plan), disk) :
               run' = [run EXCEPT !.at = "encoded", !.temp = o.made, !.of = version, !.exit = o.exit]
    /\ UNCHANGED <<disk, version, row, policy, job, ids, ledger>>

MutFinish == \* the source is observed again after the encode
    /\ run.at = "encoded" /\ job.state = "Running"
    /\ Advance("Verifying") /\ run' = [run EXCEPT !.at = "verifying", !.guard = version]
    /\ UNCHANGED <<disk, version, row, policy, ids, ledger, history>>

Finish ==
    /\ run.at = "encoded" /\ job.state = "Running"
    /\ Advance("Verifying") /\ RunAt("verifying")
    /\ UNCHANGED <<disk, version, row, policy, ids, ledger, history>>

\* The durations last_packet_pts_us may report: the last packet's, or none
\* when no packet is found in the last minute the header promises.
Measured(c) == {c.length} \cup (IF TailReadable THEN {} ELSE {Missing})

\* probe_output: no packet means the header's duration; and an output that
\* cannot be probed is an empty probe.
Probed(c, measured) ==
    IF ~Parses(c.report) THEN EmptyProbe
    ELSE [ParsedProbe(c.report) EXCEPT
            !.duration = IF measured = Missing THEN c.report.duration ELSE measured]

\* Executor::validate: an output that cannot be probed is judged, not reported.
Validate(spec, c, measured, exit) == ValidateOutput(spec, Probed(c, measured), exit, c.size)

\* The source is measured the way the output is, when it can be; the verdict
\* is validate_output's.  A rejected output is removed and the job fails.
JudgeOutput ==
    /\ run.at = "verifying"
    /\ \E source \in Measured(disk), out \in Measured(run.temp) :
         LET spec    == IF source = Missing \/ ~Parses(disk.report) THEN run.spec
                        ELSE [run.spec EXCEPT !.duration = source]
             verdict == Validate(spec, run.temp, out, run.exit)
         IN IF verdict = "Passed"
            THEN Advance("Committing") /\ RunAt("verified")
            ELSE Advance("Failed") /\ run' = NoRun
    /\ UNCHANGED <<disk, version, row, policy, ids, ledger, history>>

\* The intent is granted.  A destination with a live one would refuse it, but
\* the job of that intent is still open then, and the file has no other.
Grant ==
    /\ run.at = "verified" /\ ~ledger
    /\ ledger' = TRUE /\ RunAt("granted")
    /\ UNCHANGED <<disk, version, row, policy, job, ids, history>>

\* The ritual looks at the source once, before anything that takes time.
Check ==
    /\ run.at = "granted"
    /\ IF run.guard = version
       THEN RunAt("checked") /\ history' = [history EXCEPT !.late = 0]
       ELSE run' = [run EXCEPT !.at = "resolved", !.exit = 1] /\ UNCHANGED history
    /\ UNCHANGED <<disk, version, row, policy, job, ids, ledger>>

\* Then it journals the intent, syncs the output and renames twice, over
\* whatever is at the path by then; or it fails to install, and puts the file
\* back (1) or leaves it to the operator (2).
Commit ==
    /\ run.at = "checked"
    /\ \/ /\ disk' = run.temp /\ version' = version + 1
          /\ run' = [run EXCEPT !.at = "resolved", !.exit = 0]
          /\ IF run.factsOf = version THEN Spend("installs") ELSE UNCHANGED history
       \/ /\ history.faults < MaxFaults /\ Spend("faults")
          /\ \E exit \in {1, 2} : run' = [run EXCEPT !.at = "resolved", !.exit = exit]
          /\ UNCHANGED <<disk, version>>
    /\ UNCHANGED <<row, policy, job, ids, ledger>>

MutSettle == \* the intent is resolved when the ritual gave up only
    /\ run.at = "resolved"
    /\ ledger' = (run.exit = 0) /\ RunAt("closing")
    /\ UNCHANGED <<disk, version, row, policy, job, ids, history>>

\* The intent is resolved whatever the ritual did.
Settle ==
    /\ run.at = "resolved"
    /\ ledger' = FALSE /\ RunAt("closing")
    /\ UNCHANGED <<disk, version, row, policy, job, ids, history>>

\* The job ends as the ritual did.
Conclude ==
    /\ run.at = "closing"
    /\ Advance(CASE run.exit = 0 -> "Succeeded" [] run.exit = 2 -> "NeedsOperator" [] OTHER -> "Failed")
    /\ run' = NoRun
    /\ UNCHANGED <<disk, version, row, policy, ids, ledger, history>>

\* A checked call fails, or the process dies: run_one returns, and nothing
\* moves the job or the intent of the abandoned run.
Abandon ==
    /\ run # NoRun
    /\ history.abandoned < MaxAbandoned /\ Spend("abandoned")
    /\ run' = NoRun
    /\ UNCHANGED <<disk, version, row, policy, job, ids, ledger>>

RunOne == Pick \/ Begin \/ Encode \/ Finish \/ JudgeOutput \/ Grant \/ Check \/ Commit
            \/ Settle \/ Conclude

PipelineNext ==
    \/ \E c \in Replacements : Edit(c)
    \/ \E p \in DOMAIN Policies : NewPolicy(p)
    \/ Scan \/ ProbeFile \/ EvaluateFile \/ ResetEvaluations
    \/ RunOne \/ Abandon

PipelineSpec == PipelineInit /\ [][PipelineNext]_pipelineVars
Undisturbed == history.edits + history.upgrades + history.forced
                 + history.abandoned + history.faults = 0

\* The loops that scan, probe and decide go round, and the runner takes its
\* next step, at least as long as nobody interferes: Settles needs no more.
FairPipeline ==
    /\ PipelineSpec
    /\ WF_pipelineVars(Undisturbed /\ (Scan \/ ProbeFile \/ EvaluateFile))
    /\ WF_pipelineVars(Undisturbed /\ RunOne)

----------------------------------------------------------------------------
(* Properties.                                                             *)

\* Every variable has its type, and the bounds are kept.
PipelineTypeOK ==
    /\ disk \in ContentTypes /\ version \in Nat
    /\ row.state \in {"Discovered", "Probed", "ProbeFailed", "Evaluated"}
    /\ row.of <= version /\ row.factsOf <= version
    /\ row.rules \in {0} \cup DOMAIN Policies /\ policy \in DOMAIN Policies
    /\ job = NoJob \/ job.state \in JS!States
    /\ run.at \in {"idle", "observed", "started", "encoded", "verifying", "verified",
                   "granted", "checked", "resolved", "closing"}
    /\ ledger \in BOOLEAN
    /\ history \in [edits : 0 .. MaxEdits, upgrades : 0 .. MaxPolicies, forced : 0 .. MaxForced,
                    abandoned : 0 .. MaxAbandoned, faults : 0 .. MaxFaults,
                    installs : Nat, late : Nat]

\* A step of the runner that replaces the file.
Installs == run.at = "checked" /\ run' # run /\ version' = version + 1

\* The file the ritual finds unchanged is the very one the output was encoded
\* from: what another program puts at the path while ffmpeg runs, or before the
\* ritual looks, survives (runner.rs observes the source before the encode).
\* What is put there after the look and before the rename is replaced: commit.rs
\* compares once, and journals, syncs and renames after that.
ReplacesItsSource == [][Installs => version = run.of + history.late]_pipelineVars

\* No install loses a part of the file.  The output is as long as the file the
\* ritual found unchanged, to the tolerance, whatever duration either header
\* claims (it needs the last packet to be found).  And when the stored facts are
\* those of the very file that is replaced, every audio and subtitle stream
\* survives, the streams of a protected video are not re-encoded, and a file
\* excluded from all work is not touched.
AsLong(was, is) ==
    was.length - is.length <= MaxShorterCap /\ is.length - was.length <= MaxLonger

RespectsTheFile ==
    [][Installs =>
         (history.late = 0 => AsLong(disk, disk')) /\ (run.factsOf = version =>
         LET was == ParsedProbe(disk.report)
             is  == ParsedProbe(disk'.report)
             f   == DeriveFacts(was, disk.size)
         IN /\ \A kind \in {"audio", "subtitle"} : CountOf(is, kind) >= CountOf(was, kind)
            /\ (f.hdr \/ f.dovi) => StreamsOf(is, "video") = StreamsOf(was, "video")
            /\ ~IsExcluded(f))]_pipelineVars

\* The program comes to rest: what it installs is not encoded again under the
\* policy that made it.  One audio and one video pass planned from the file's
\* own facts are all it gets until somebody changes it or the policy.  (A plan
\* made of an earlier file's facts may come on top: see the README.)
NoEncodeLoop == history.installs <= 2

Owes == OwesWork(Evaluate(DeriveFacts(ParsedProbe(disk.report), disk.size), Policies[policy]))

\* While nobody interferes and no call fails, the file ends up with nothing
\* owed to it or with a rejected encode, or it is scanned while a job of its
\* own has not yet been ended and then waits (see StageTwoIsQueued).
Settles ==
    [](Undisturbed => <>(~Undisturbed \/ ~Parses(disk.report) \/ ~Owes \/ job.state = "Failed"
                           \/ (run = NoRun /\ job.state = "Succeeded" /\ row.rules = policy
                                 /\ history.installs = 1)))

\* What crates/transcodarr-core/src/file.rs says of the two stages: when the
\* audio pass is installed, and the file scanned, probed and decided again, the
\* video pass is queued.
StageTwoIsQueued ==
    ~(/\ run = NoRun /\ job.state = "Succeeded" /\ history.installs > 0
      /\ row.state = "Evaluated" /\ row.rules = policy /\ row.factsOf = version
      /\ OwesWork(Evaluate(StoredFacts, Policies[policy])))
=============================================================================
