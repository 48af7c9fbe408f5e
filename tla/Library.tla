------------------------------ MODULE Library ------------------------------
(***************************************************************************)
(* What the server knows of a library: the scanner, the prober and the     *)
(* evaluator of crates/transcodarr-server (scanner.rs, prober.rs,          *)
(* evaluator.rs) over the file and scan_run tables (repo/file.rs,          *)
(* repo/library.rs of crates/transcodarr-store).                           *)
(*                                                                         *)
(* Each of the three is a pass an operator starts, in a process of its own *)
(* if he likes; Workers are those processes.  Meanwhile files come, change *)
(* and go, and the library may be unmounted.                               *)
(*                                                                         *)
(* A version stands for what is in a file and for its size and mtime: two  *)
(* versions differ in both.  0 is no file, and as a stored fact none.      *)
(***************************************************************************)
EXTENDS Naturals, FiniteSets

CONSTANTS Workers,        \* processes that run passes
          Paths,          \* media files below the library's root
          Owing,          \* versions that owe work
          Floor, Percent, \* the mass-missing guard
          MaxVersion, MaxScans, \* bounds: contents, scans,
          MaxTrouble      \* and unmounts, errors and resets together

ASSUME GuardAssumption == Floor \in Nat /\ Percent \in 0 .. 100

\* A library holds finitely many files, and there is one version to begin with.
ASSUME LibraryAssumption == IsFiniteSet(Paths) /\ MaxVersion \in Nat \ {0}

VARIABLES disk,      \* the version at a path
          mounted,   \* an unmounted root is an empty directory
          row,       \* the file table
          runs,      \* the scan_run table: how many generations it holds
          jobs,      \* job ids ever created: path and facts (see Pipeline for
                     \* what a change of policy does)
          open,      \* those of them that have not ended
          pass,      \* what each worker is doing
          used       \* what has been spent of the bounds

vars == <<disk, mounted, row, runs, jobs, open, pass, used>>
table == <<row, runs, jobs, open>>
world == <<disk, mounted>>

NoRow == [state |-> "none"]
Idle  == [kind |-> "idle"]

Init ==
    /\ disk = [p \in Paths |-> 1] /\ mounted = TRUE
    /\ row = [p \in Paths |-> NoRow]
    /\ runs = 0
    /\ jobs = {} /\ open = {}
    /\ pass = [w \in Workers |-> Idle]
    /\ used = [version |-> 1, trouble |-> 0]

Trouble == used.trouble < MaxTrouble /\ used' = [used EXCEPT !.trouble = @ + 1]

Known(p)   == row[p] # NoRow
Live(p)    == Known(p) /\ row[p].state # "Missing"
Visible(p) == mounted /\ disk[p] # 0

----------------------------------------------------------------------------
(* The world.                                                              *)

\* Another program writes a file.
Write(p) ==
    /\ used.version < MaxVersion
    /\ used' = [used EXCEPT !.version = @ + 1]
    /\ disk' = [disk EXCEPT ![p] = used.version + 1]
    /\ UNCHANGED <<mounted, table, pass>>

Delete(p) == /\ disk[p] # 0 /\ disk' = [disk EXCEPT ![p] = 0]
             /\ UNCHANGED <<mounted, table, pass, used>>

Mount == /\ \/ mounted /\ Trouble
            \/ ~mounted /\ UNCHANGED used
         /\ mounted' = ~mounted
         /\ UNCHANGED <<disk, table, pass>>

\* reset_evaluations: every file is to be decided again.
Reset == /\ Trouble
         /\ row' = [p \in Paths |-> IF Known(p) THEN [row[p] EXCEPT !.decided = FALSE] ELSE row[p]]
         /\ UNCHANGED <<world, runs, jobs, open, pass>>

\* A job ends.
EndJob(j) == /\ j \in open /\ open' = open \ {j}
             /\ UNCHANGED <<world, row, runs, jobs, pass, used>>

----------------------------------------------------------------------------
(* The tables.                                                             *)

\* A stat differs from the stored one.
Changed(r, version) == r.stat # version

MutUpsert(r, version, gen) == \* what is decided survives a change
    [r EXCEPT !.state = IF Changed(r, version) \/ r.state = "Missing" THEN "Discovered" ELSE @,
              !.stat = version, !.gen = gen]

MutStampChanges(r, version, gen) == \* a file that did not change is not stamped
    [r EXCEPT !.state = IF Changed(r, version) \/ r.state = "Missing" THEN "Discovered" ELSE @,
              !.decided = @ /\ ~Changed(r, version), !.stat = version,
              !.gen = IF Changed(r, version) THEN gen ELSE @]

\* upsert_op on a known file: stamped with the generation of the scan; only a
\* change makes its facts suspect and forgets what was decided.
Refreshed(r, version, gen) ==
    [r EXCEPT !.state = IF Changed(r, version) \/ r.state = "Missing" THEN "Discovered" ELSE @,
              !.decided = @ /\ ~Changed(r, version),
              !.stat = version, !.gen = gen]

Discovered(version, gen) ==
    [state |-> "Discovered", stat |-> version, gen |-> gen, facts |-> 0, decided |-> FALSE, decidedOn |-> 0]

Upsert(p, version, gen) ==
    row' = [row EXCEPT ![p] = IF Known(p) THEN Refreshed(@, version, gen)
                              ELSE Discovered(version, gen)]

NotSeenIn(gen) == {p \in Paths : Live(p) /\ row[p].gen < gen}

MarkMissing(gen) ==
    row' = [p \in Paths |-> IF p \in NotSeenIn(gen) THEN [row[p] EXCEPT !.state = "Missing"]
                            ELSE row[p]]

\* The three writes by row id compare nothing.
RecordProbe(p, facts) == row' = [row EXCEPT ![p] = [@ EXCEPT !.state = "Probed", !.facts = facts]]

RecordProbeFailure(p) == row' = [row EXCEPT ![p].state = "ProbeFailed"]

MutRecordDecision(p, facts) == \* that it was decided is not recorded
    row' = [row EXCEPT ![p] = [@ EXCEPT !.state = "Evaluated", !.decidedOn = facts]]

RecordDecision(p, facts) ==
    row' = [row EXCEPT ![p] = [@ EXCEPT !.state = "Evaluated", !.decided = TRUE, !.decidedOn = facts]]

NeedsProbe == {p \in Paths : row[p].state = "Discovered"}

NeedsEval == {p \in Paths : row[p].state \in {"Probed", "Evaluated"} /\ ~row[p].decided}

Become(w, to) == pass' = [pass EXCEPT ![w] = to]

----------------------------------------------------------------------------
(* Scanner::scan_library.                                                  *)

LiveCount == Cardinality({p \in Paths : Live(p)})

\* The library is counted as it was, and the next generation allocated.  (A
\* scan that finds a later run when it reads its own back gives up: to overlap,
\* two scans begin one after the other.)
BeginScan(w) ==
    /\ pass[w] = Idle /\ runs < MaxScans
    /\ runs' = runs + 1
    /\ Become(w, [kind |-> "scan", gen |-> runs + 1, live |-> LiveCount, todo |-> Paths,
                  pending |-> {}, seen |-> {}])
    /\ UNCHANGED <<world, row, jobs, open, used>>

\* The walk finds one file.
Visit(w, p) ==
    /\ pass[w].kind = "scan" /\ p \in pass[w].todo /\ Visible(p)
    /\ Become(w, [pass[w] EXCEPT !.todo = @ \ {p}, !.pending = @ \cup {<<p, disk[p]>>},
                                 !.seen = @ \cup {p}])
    /\ UNCHANGED <<world, table, used>>

\* It passes over one that is not there, and over one that was written so
\* recently that it may not be complete.
PassOver(w, p) ==
    /\ pass[w].kind = "scan" /\ p \in pass[w].todo
    /\ ~Visible(p) \/ disk[p] # 1
    /\ Become(w, [pass[w] EXCEPT !.todo = @ \ {p}])
    /\ UNCHANGED <<world, table, used>>

\* What was seen is written, in batches, some time later.
Record(w) ==
    /\ pass[w].kind = "scan"
    /\ \E s \in pass[w].pending :
         /\ Upsert(s[1], s[2], pass[w].gen)
         /\ Become(w, [pass[w] EXCEPT !.pending = @ \ {s}])
    /\ UNCHANGED <<world, runs, jobs, open, used>>

Walked(w) == pass[w].kind = "scan" /\ pass[w].todo = {} /\ pass[w].pending = {}

\* mass_missing_check.
Implausible(missing, live) == live > 0 /\ missing > Floor /\ missing * 100 > Percent * live

\* Too much is gone: nothing is marked, and the run is closed as aborted.
Refuse(w) ==
    /\ Walked(w) /\ Implausible(Cardinality(NotSeenIn(pass[w].gen)), pass[w].live)
    /\ Become(w, Idle)
    /\ UNCHANGED <<world, table, used>>

\* The count is read first, and what the generation did not see is marked by a
\* write of its own.
Count(w) ==
    /\ Walked(w) /\ ~Implausible(Cardinality(NotSeenIn(pass[w].gen)), pass[w].live)
    /\ Become(w, [kind |-> IF NotSeenIn(pass[w].gen) = {} THEN "close" ELSE "sweep",
                  gen |-> pass[w].gen, seen |-> pass[w].seen])
    /\ UNCHANGED <<world, table, used>>

Sweep(w) ==
    /\ pass[w].kind = "sweep"
    /\ MarkMissing(pass[w].gen)
    /\ Become(w, [pass[w] EXCEPT !.kind = "close"])
    /\ UNCHANGED <<world, runs, jobs, open, used>>

CloseRun(w) ==
    /\ pass[w].kind = "close"
    /\ Become(w, Idle)
    /\ UNCHANGED <<world, table, used>>

Scan(w) == \/ BeginScan(w) \/ \E p \in Paths : Visit(w, p) \/ PassOver(w, p)
           \/ Record(w) \/ Refuse(w) \/ Count(w) \/ Sweep(w) \/ CloseRun(w)

----------------------------------------------------------------------------
(* Prober::probe_library.                                                  *)

\* A batch of what is Discovered; it is read again when it has been worked off.
BeginProbe(w) ==
    /\ NeedsProbe # {}
    /\ pass[w] = Idle \/ (pass[w].kind = "probe" /\ pass[w].batch = {} /\ pass[w].read = {})
    /\ Become(w, [kind |-> "probe", batch |-> NeedsProbe, read |-> {}])
    /\ UNCHANGED <<world, table, used>>

EndProbe(w) ==
    /\ pass[w].kind = "probe" /\ pass[w].batch = {} /\ pass[w].read = {} /\ NeedsProbe = {}
    /\ Become(w, Idle)
    /\ UNCHANGED <<world, table, used>>

\* One thread runs ffprobe on a file: its version, or 0 when it is not there,
\* is not media or takes too long.
RunFfprobe(w, p) ==
    /\ pass[w].kind = "probe" /\ p \in pass[w].batch
    /\ \E facts \in {0} \cup (IF Visible(p) THEN {disk[p]} ELSE {}) :
         Become(w, [pass[w] EXCEPT !.batch = @ \ {p}, !.read = @ \cup {<<p, facts>>}])
    /\ UNCHANGED <<world, table, used>>

\* What it found is stored.
StoreProbe(w) ==
    /\ pass[w].kind = "probe"
    /\ \E r \in pass[w].read :
         /\ IF r[2] = 0 THEN RecordProbeFailure(r[1]) ELSE RecordProbe(r[1], r[2])
         /\ Become(w, [pass[w] EXCEPT !.read = @ \ {r}])
    /\ UNCHANGED <<world, runs, jobs, open, used>>

\* A write of a probe that fails is counted with the failed probes, and the
\* pass goes on.
StoreProbeFails(w) ==
    /\ pass[w].kind = "probe" /\ Trouble
    /\ \E r \in pass[w].read : Become(w, [pass[w] EXCEPT !.read = @ \ {r}])
    /\ UNCHANGED <<world, table>>

ProbePass(w) == \/ BeginProbe(w) \/ EndProbe(w) \/ \E p \in Paths : RunFfprobe(w, p)
                \/ StoreProbe(w) \/ StoreProbeFails(w)

----------------------------------------------------------------------------
(* Evaluator::evaluate_library.                                            *)

\* A batch of rows as they are now.
BeginEvaluate(w) ==
    /\ NeedsEval # {}
    /\ pass[w] = Idle \/ (pass[w].kind = "evaluate" /\ pass[w].batch = {})
    /\ Become(w, [kind |-> "evaluate", batch |-> {<<p, row[p].facts>> : p \in NeedsEval}])
    /\ UNCHANGED <<world, table, used>>

EndEvaluate(w) ==
    /\ pass[w].kind = "evaluate" /\ pass[w].batch = {} /\ NeedsEval = {}
    /\ Become(w, Idle)
    /\ UNCHANGED <<world, table, used>>

\* The decision on the facts that were read is recorded first.
Decide(w) ==
    /\ pass[w].kind = "evaluate"
    /\ \E f \in pass[w].batch :
         /\ RecordDecision(f[1], f[2])
         /\ Become(w, IF f[2] \in Owing
                      THEN [kind |-> "create", batch |-> pass[w].batch \ {f}, id |-> f]
                      ELSE [pass[w] EXCEPT !.batch = @ \ {f}])
    /\ UNCHANGED <<world, runs, jobs, open, used>>

Busy(p) == \E j \in open : j[1] = p

\* Then the job it owes, unless the file has an open one.
CreateJob(w) ==
    /\ pass[w].kind = "create"
    /\ IF Busy(pass[w].id[1]) THEN UNCHANGED <<jobs, open>>
       ELSE /\ pass[w].id \notin jobs
            /\ jobs' = jobs \cup {pass[w].id} /\ open' = open \cup {pass[w].id}
    /\ Become(w, [kind |-> "evaluate", batch |-> pass[w].batch])
    /\ UNCHANGED <<world, row, runs, used>>

\* An id that was used before is refused, and the whole pass is given up.
CreateRefused(w) ==
    /\ pass[w].kind = "create" /\ ~Busy(pass[w].id[1]) /\ pass[w].id \in jobs
    /\ Become(w, Idle)
    /\ UNCHANGED <<world, table, used>>

EvaluatePass(w) == BeginEvaluate(w) \/ EndEvaluate(w) \/ Decide(w) \/ CreateJob(w) \/ CreateRefused(w)

\* A write fails, or the process dies.
Fail(w) ==
    /\ pass[w] # Idle /\ Trouble
    /\ Become(w, Idle)
    /\ UNCHANGED <<world, table>>

World == \/ \E p \in Paths : Write(p) \/ Delete(p)
         \/ Mount \/ Reset \/ \E j \in open : EndJob(j)

\* What a pass does once an operator has started it.
Continue(w) == pass[w] # Idle /\ (Scan(w) \/ ProbePass(w) \/ EvaluatePass(w))

Next == World \/ \E w \in Workers : Scan(w) \/ ProbePass(w) \/ EvaluatePass(w) \/ Fail(w)

Spec == Init /\ [][Next]_vars

\* A pass that was started goes on.
FairSpec == Spec /\ \A w \in Workers : WF_vars(Continue(w))

----------------------------------------------------------------------------
(* Properties.                                                             *)

\* Every variable has its type.
TypeOK ==
    /\ disk \in [Paths -> 0 .. MaxVersion] /\ mounted \in BOOLEAN
    /\ \A p \in Paths : Known(p) =>
         /\ row[p].state \in {"Discovered", "Probed", "ProbeFailed", "Evaluated", "Missing"}
         /\ row[p].stat \in 1 .. MaxVersion /\ row[p].gen \in 1 .. runs
         /\ {row[p].facts, row[p].decidedOn} \subseteq 0 .. MaxVersion /\ row[p].decided \in BOOLEAN
    /\ open \subseteq jobs
    /\ \A w \in Workers : pass[w].kind \in {"idle", "scan", "sweep", "close", "probe", "evaluate", "create"}

\* Facts that count as current (FileState::Probed in core/src/file.rs) are the
\* file's: a row that has them, and whose stat is the file's, describes what is
\* in it, however often it changed around the scan and the probe.  And a
\* decision that counts as made was made on those facts, so that no file is
\* passed over for a decision about what it held before.
FactsAreCurrent ==
    \A p \in Paths :
        row[p].state \in {"Probed", "Evaluated"} /\ row[p].stat = disk[p] =>
            row[p].facts = disk[p] /\ (row[p].decided => row[p].decidedOn = disk[p])

NewlyMissing == {p \in Paths : Live(p) /\ row'[p].state = "Missing"}

\* Only what a scan did not see is marked missing: no file is marked by a scan
\* that found it, however the rows changed between its walk and its sweep.  And
\* a library that looks unmounted is left alone: no sweep marks more than the
\* floor and more than the percentage of the files that are live by then.
MissingIsMeant ==
    [][/\ \A p \in NewlyMissing : \E w \in Workers : pass[w].kind = "sweep" /\ p \notin pass[w].seen
       /\ ~Implausible(Cardinality(NewlyMissing), Cardinality({p \in Paths : Live(p)}))]_vars

\* A pass ends: neither the files that fail nor those that come meanwhile keep
\* it going for ever.
PassesEnd == \A w \in Workers : pass[w] # Idle ~> pass[w] = Idle
=============================================================================
