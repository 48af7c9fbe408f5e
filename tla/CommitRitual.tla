---------------------------- MODULE CommitRitual ----------------------------
(***************************************************************************)
(* The nine-step install of crates/transcodarr-agent/src/commit.rs, for    *)
(* ONE destination path, together with the durable intent journal          *)
(* (journal.rs) and the recovery that replays it after a crash.            *)
(*                                                                         *)
(* A file's bytes are abstracted to their identity: Source is the original *)
(* the library held, a ritual's own name stands for the output it staged,  *)
(* and Edits are versions other programs write at the destination, over    *)
(* the file that is there or, between two renames, where there is none.    *)
(* SourceGuard is taken to tell two versions apart.  Every ritual of a     *)
(* destination uses the same trash path, because paths::trash_path_for     *)
(* derives it from the destination alone.                                  *)
(*                                                                         *)
(* One host process runs the rituals: an agent that mounts the library, or *)
(* the server, which installs what agents stream back to it.  Only the     *)
(* agent replays its journal.  The host may stop at any step (Crash), may  *)
(* take the page cache with it (PowerLoss), and every system call that the *)
(* code checks may fail (Faults).                                          *)
(*                                                                         *)
(* An operator named Mut... is a mutated form of the definition after it,  *)
(* for the check that the properties can fail; no specification uses one.  *)
(***************************************************************************)
EXTENDS Naturals

CONSTANTS
  Rituals,           \* attempts to replace this destination: (job, attempt) pairs
  Source,            \* the bytes the library held at first
  Edits,             \* bytes other programs may write at the destination
  None,              \* no file at a path, no record in the journal
  Faults,            \* whether a checked system call may fail
  Host,              \* which process runs the rituals: "agent" or "serve"
  MaxCrashes         \* bound: how often the host may stop

ASSUME ContentsAreDistinct ==
  /\ Source \notin Rituals \cup Edits
  /\ None \notin Rituals \cup Edits \cup {Source}
  /\ Rituals \cap Edits = {}
  /\ None \notin {"Granted", "Retired", "Installed"}
ASSUME HostAssumption ==
  /\ Faults \in BOOLEAN
  /\ Host \in {"agent", "serve"}
  /\ MaxCrashes \in Nat

VARIABLES
  final,    \* what the destination path holds
  trash,    \* what the trash path holds
  staged,   \* rituals whose temporary file is in the work area
  synced,   \* rituals whose output has been fsynced
  torn,     \* rituals whose output lost its bytes to a power loss
  journal,  \* the durable phase of each ritual's record, or None
  pc,       \* how far each ritual got in the running process
  guard,    \* the destination as it looked when the ritual was planned
  verdict,  \* the label each ritual was last resolved with
  mode,     \* the host: up, down, or replaying its journal
  todo,     \* records this start of the host has still to resolve
  restoring, \* records whose recovery looked and is about to put the file back
  clearing, \* resolved records whose file is not yet removed
  gaveUp,   \* this start's replay ended with an error in the log
  source,   \* history: the latest version a program other than a ritual wrote
  unused,   \* edits not yet made
  undercut, \* history: a recovery ran between a ritual's two renames
  exposed,  \* history: source was written while a rename onto it was pending
  crashes

diskVars == <<final, trash, staged, synced, torn, journal>>
hostVars == <<pc, guard, verdict, mode, todo, restoring, clearing, gaveUp>>
envVars  == <<source, unused, undercut, exposed, crashes>>
vars     == <<diskVars, hostVars, envVars>>

Contents == {Source} \cup Edits \cup Rituals
Phases   == {"Granted", "Retired", "Installed"}
Steps    == {"staged", "checked", "granted", "durable", "moved", "retired",
             "landed", "installed"}
Labels   == {"installed", "source_intact", "source_restored", "needs_operator",
             "error"}

TypeOK ==
  /\ final \in Contents \cup {None}
  /\ trash \in Contents \cup {None}
  /\ staged \in SUBSET Rituals
  /\ synced \in SUBSET Rituals
  /\ torn \in SUBSET Rituals
  /\ journal \in [Rituals -> Phases \cup {None}]
  /\ pc \in [Rituals -> Steps \cup {"idle", "over", "cut"}]
  /\ guard \in [Rituals -> Contents \cup {None}]
  /\ verdict \in [Rituals -> Labels \cup {"none"}]
  /\ mode \in {"up", "down", "recovering"}
  /\ todo \in SUBSET Rituals
  /\ restoring \in SUBSET Rituals
  /\ clearing \in SUBSET Rituals
  /\ source \in {Source} \cup Edits
  /\ unused \in SUBSET Edits
  /\ gaveUp \in BOOLEAN
  /\ undercut \in BOOLEAN
  /\ exposed \in BOOLEAN
  /\ crashes \in 0 .. MaxCrashes

Init ==
  /\ final = Source /\ trash = None
  /\ staged = {} /\ synced = {} /\ torn = {}
  /\ journal = [r \in Rituals |-> None]
  /\ pc = [r \in Rituals |-> "idle"]
  /\ guard = [r \in Rituals |-> None]
  /\ verdict = [r \in Rituals |-> "none"]
  /\ mode = "up" /\ todo = {} /\ restoring = {} /\ clearing = {}
  /\ source = Source /\ unused = Edits /\ crashes = 0
  /\ gaveUp = FALSE /\ undercut = FALSE /\ exposed = FALSE

-----------------------------------------------------------------------------
(* Steps of CommitRitual::commit.                                          *)

Active(r) == pc[r] \in Steps

At(r, step) == mode = "up" /\ pc[r] = step

Goto(r, step) ==
  /\ pc' = [pc EXCEPT ![r] = step]
  /\ UNCHANGED <<guard, verdict, mode, todo, restoring, clearing, gaveUp,
                 envVars>>

(* commit() returns Ok: the resolution is what gets reported.              *)
Return(r, label) ==
  /\ pc' = [pc EXCEPT ![r] = "over"]
  /\ verdict' = [verdict EXCEPT ![r] = label]
  /\ UNCHANGED <<guard, mode, todo, restoring, clearing, gaveUp, envVars>>

(* A `?` took commit() out with an Err.  The caller reports needs_operator  *)
(* and leaves whatever the journal says where it is.                       *)
Abort(r) == Faults /\ Return(r, "error")

Record(r, phase) == journal' = [journal EXCEPT ![r] = phase]

(* IntentJournal::record fails either before the rename that publishes the *)
(* record or after it, when the directory cannot be synced.                *)
RecordFails(r, phase) == Record(r, phase) \/ UNCHANGED journal

(* The worker observes the source, then encodes into the work area.  At    *)
(* most one attempt per destination is under way: the server's unique live *)
(* intent and unique open job see to that.  A version that is still there  *)
(* when no rename is pending any more is no longer exposed to one.         *)
Stage(r) ==
  /\ At(r, "idle")
  /\ \A q \in Rituals : ~Active(q)
  /\ final # None
  /\ pc' = [pc EXCEPT ![r] = "staged"]
  /\ guard' = [guard EXCEPT ![r] = final]
  /\ staged' = staged \cup {r}
  /\ exposed' = (exposed /\ (final # source \/ restoring # {}))
  /\ UNCHANGED <<final, trash, synced, torn, journal, verdict, mode, todo,
                 restoring, clearing, gaveUp, source, unused, undercut, crashes>>

(* Steps 1-2: the staged output must exist and the source must still be    *)
(* the one that was planned.                                               *)
SourceUnchanged(r) == r \in staged /\ final # None /\ final = guard[r]

Refuse(r) ==
  /\ At(r, "staged") /\ ~SourceUnchanged(r)
  /\ Return(r, "source_intact")
  /\ UNCHANGED diskVars

Verify(r) ==
  /\ At(r, "staged") /\ SourceUnchanged(r)
  /\ Goto(r, "checked")
  /\ UNCHANGED diskVars

(* Step 3.                                                                 *)
MutNoJournal(r) ==
  /\ At(r, "checked")
  /\ Goto(r, "granted")
  /\ UNCHANGED diskVars

JournalGranted(r) ==
  /\ At(r, "checked")
  /\ \/ Record(r, "Granted") /\ Goto(r, "granted")
     \/ RecordFails(r, "Granted") /\ Abort(r)
  /\ UNCHANGED <<final, trash, staged, synced, torn>>

(* Step 4.                                                                 *)
MutNoSync(r) ==
  /\ At(r, "granted")
  /\ Goto(r, "durable")
  /\ UNCHANGED diskVars

SyncStaged(r) ==
  /\ At(r, "granted")
  /\ \/ synced' = synced \cup {r} /\ Goto(r, "durable")
     \/ UNCHANGED synced /\ Abort(r)
  /\ UNCHANGED <<final, trash, staged, torn, journal>>

(* Step 5: rename(final, trash).  A rename replaces what the trash held.   *)
MutUnlink(r) ==
  /\ At(r, "durable") /\ final # None
  /\ final' = None
  /\ Goto(r, "moved")
  /\ UNCHANGED <<trash, staged, synced, torn, journal>>

Retire(r) ==
  /\ At(r, "durable")
  /\ \/ /\ final # None
        /\ trash' = final /\ final' = None
        /\ Goto(r, "moved")
     \/ UNCHANGED <<final, trash>> /\ Abort(r)
  /\ UNCHANGED <<staged, synced, torn, journal>>

(* Step 6.                                                                 *)
JournalRetired(r) ==
  /\ At(r, "moved")
  /\ \/ Record(r, "Retired") /\ Goto(r, "retired")
     \/ RecordFails(r, "Retired") /\ Abort(r)
  /\ UNCHANGED <<final, trash, staged, synced, torn>>

(* Step 7: rename(temp, final), over whatever came there meanwhile.        *)
Install(r) ==
  /\ At(r, "retired") /\ r \in staged
  /\ final' = r /\ staged' = staged \ {r}
  /\ Goto(r, "landed")
  /\ UNCHANGED <<trash, synced, torn, journal>>

(* Step 7 failed: put the original back, and clear the record either way;  *)
(* not being able to clear it is an error of its own.                      *)
PutBackOrNot(label) ==
  \/ /\ trash # None
     /\ final' = trash /\ trash' = None
     /\ label = "source_restored"
  \/ UNCHANGED <<final, trash>> /\ label = "needs_operator"

InstallFails(r) ==
  /\ Faults /\ At(r, "retired")
  /\ \E label \in {"source_restored", "needs_operator"} :
       /\ PutBackOrNot(label)
       /\ \/ Record(r, None) /\ Return(r, label)
          \/ RecordFails(r, None) /\ Abort(r)
  /\ UNCHANGED <<staged, synced, torn>>

(* Step 8.                                                                 *)
JournalInstalled(r) ==
  /\ At(r, "landed")
  /\ \/ Record(r, "Installed") /\ Goto(r, "installed")
     \/ RecordFails(r, "Installed") /\ Abort(r)
  /\ UNCHANGED <<final, trash, staged, synced, torn>>

(* Step 9.                                                                 *)
MutReap(r) ==
  /\ At(r, "installed")
  /\ trash' = None
  /\ Record(r, None) /\ Return(r, "installed")
  /\ UNCHANGED <<final, staged, synced, torn>>

Resolve(r) ==
  /\ At(r, "installed")
  /\ \/ Record(r, None) /\ Return(r, "installed")
     \/ RecordFails(r, None) /\ Abort(r)
  /\ UNCHANGED <<final, trash, staged, synced, torn>>

-----------------------------------------------------------------------------
(* Recovery: CommitRitual::recover_all over every outstanding record.  The *)
(* process may die between resolving a record and removing it.             *)

(* The record has an answer.  One that asks for a person is left on disk;  *)
(* any other is cleared next.                                              *)
Resolved(r, label) ==
  /\ verdict' = [verdict EXCEPT ![r] = label]
  /\ staged' = staged \ {r}
  /\ restoring' = {}
  /\ clearing' = IF label = "needs_operator" THEN {} ELSE {r}

RecoverGranted(r) ==
  /\ journal[r] = "Granted"
  /\ Resolved(r, IF final # None THEN "source_intact" ELSE "needs_operator")

(* The file in the trash is to go back: that is the next step's rename.    *)
Restoring(r) == restoring' = {r} /\ UNCHANGED <<verdict, staged, clearing>>

(* A record past Granted: what is at the destination decides, then what is *)
(* in the trash.  The two phases differ only in the wording they report.   *)
MutRestoreFirst(r) ==
  /\ journal[r] \in {"Retired", "Installed"}
  /\ \/ trash # None /\ Restoring(r)
     \/ trash = None /\ Resolved(r, "source_restored")

RecoverRetired(r) ==
  /\ journal[r] \in {"Retired", "Installed"}
  /\ \/ final # None /\ Resolved(r, "installed")
     \/ final = None /\ trash # None /\ Restoring(r)
     \/ final = None /\ trash = None /\ Resolved(r, "needs_operator")

RecoverOne(r) ==
  /\ restoring = {} /\ clearing = {} /\ journal[r] # None
  /\ RecoverGranted(r) \/ RecoverRetired(r)
  /\ UNCHANGED <<final, trash, synced, torn, journal, pc, guard, mode, gaveUp,
                 envVars>>

Replay(r) ==
  /\ mode = "recovering" /\ r \in todo
  /\ RecoverOne(r)
  /\ todo' = todo \ {r}

(* rename(trash, final): whatever has come to the destination since        *)
(* recovery looked is replaced.                                            *)
PutBack ==
  /\ trash # None
  /\ final' = trash /\ trash' = None

Between(q) == pc[q] \in {"moved", "retired"}

Restore(r) ==
  /\ r \in restoring
  /\ PutBack
  /\ Resolved(r, "source_restored")
  /\ undercut' = (undercut \/ \E q \in Rituals : Between(q))
  /\ UNCHANGED <<synced, torn, journal, pc, guard, mode, todo, gaveUp, source,
                 unused, exposed, crashes>>

(* The rename fails, as it must when nothing is in the trash any more: a   *)
(* line in the log, and the record stays.                                  *)
RestoreFails(r) ==
  /\ mode = "up" /\ r \in restoring /\ (Faults \/ trash = None)
  /\ restoring' = {}
  /\ UNCHANGED <<diskVars, pc, guard, verdict, mode, todo, clearing, gaveUp,
                 envVars>>

(* Every registration, not only the first, tells the agent which of the    *)
(* intents it named are unknown to the server (a ritual's intent is live   *)
(* at the server until the ritual reports), and the agent recovers those   *)
(* on the spot, whatever else it is running.  A ritual the process died in *)
(* ("cut") has reported nothing and stays known.                           *)
ResolveUnknown(r) ==
  /\ Host = "agent" /\ mode = "up" /\ pc[r] = "over"
  /\ RecoverOne(r)
  /\ UNCHANGED todo

ClearRecord(r) ==
  /\ r \in clearing
  /\ Record(r, None)
  /\ clearing' = {}
  /\ UNCHANGED <<final, trash, staged, synced, torn, pc, guard, verdict, mode,
                 todo, restoring, gaveUp, envVars>>

(* recover_all returned: new work is accepted.                             *)
FinishRecovery ==
  /\ mode = "recovering" /\ todo = {} /\ restoring = {} /\ clearing = {}
  /\ mode' = "up"
  /\ UNCHANGED <<diskVars, pc, guard, verdict, todo, restoring, clearing, gaveUp,
                 envVars>>

(* One record's restore, or its removal, failed: the rest is given up with *)
(* a line in the log, and the agent starts accepting work all the same.    *)
RecoveryFails ==
  /\ Faults /\ mode = "recovering" /\ todo \cup restoring \cup clearing # {}
  /\ mode' = "up" /\ todo' = {} /\ restoring' = {} /\ clearing' = {}
  /\ gaveUp' = TRUE
  /\ UNCHANGED <<diskVars, pc, guard, verdict, envVars>>

-----------------------------------------------------------------------------
(* The host and the world around it.                                       *)

Stop ==
  /\ mode # "down" /\ crashes < MaxCrashes
  /\ crashes' = crashes + 1
  /\ mode' = "down" /\ gaveUp' = FALSE
  /\ todo' = {} /\ restoring' = {} /\ clearing' = {}
  /\ pc' = [r \in Rituals |-> IF Active(r) THEN "cut" ELSE pc[r]]
  /\ UNCHANGED <<final, trash, staged, synced, journal, guard, verdict, source,
                 unused, undercut, exposed>>

Crash == Stop /\ UNCHANGED torn

(* Outputs that were never fsynced come back as files full of zeroes,      *)
(* wherever a rename has put them since.                                   *)
PowerLoss ==
  /\ Stop
  /\ torn' = torn \cup ((staged \cup ({final, trash} \cap Rituals)) \ synced)

(* Only the agent replays at startup; the server opens the same journal    *)
(* and starts serving.                                                     *)
MutNoReplay ==
  /\ mode = "down"
  /\ mode' = "up"
  /\ UNCHANGED <<diskVars, pc, guard, verdict, todo, restoring, clearing, gaveUp,
                 envVars>>

Restart ==
  /\ mode = "down"
  /\ mode' = IF Host = "agent" THEN "recovering" ELSE "up"
  /\ todo' = IF Host = "agent" THEN {r \in Rituals : journal[r] # None} ELSE {}
  /\ UNCHANGED <<diskVars, pc, guard, verdict, restoring, clearing, gaveUp,
                 envVars>>

(* A rename onto the destination is coming that looks at it no more.       *)
Pending == restoring # {} \/ \E q \in Rituals : Between(q)

(* Another program writes a file at the destination: over the one that is  *)
(* there or, while the path is empty, a new one.                           *)
Edit(e) ==
  /\ e \in unused
  /\ final' = e /\ source' = e /\ unused' = unused \ {e}
  /\ exposed' = Pending
  /\ UNCHANGED <<trash, staged, synced, torn, journal, hostVars, undercut,
                 crashes>>

(* A person moves the retained file back, when the destination is empty,   *)
(* nothing is running and a ritual has asked for one.                      *)
OperatorRestores ==
  /\ mode = "up" /\ \A r \in Rituals : ~Active(r)
  /\ \E r \in Rituals : verdict[r] \in {"needs_operator", "error"}
  /\ final = None /\ PutBack
  /\ UNCHANGED <<staged, synced, torn, journal, hostVars, envVars>>

Commit(r) ==
  \/ Stage(r) \/ Refuse(r) \/ Verify(r) \/ JournalGranted(r) \/ SyncStaged(r)
  \/ Retire(r) \/ JournalRetired(r) \/ Install(r) \/ InstallFails(r)
  \/ JournalInstalled(r) \/ Resolve(r)

Recovery ==
  \/ \E r \in Rituals : \/ Replay(r) \/ ClearRecord(r)
                         \/ Restore(r) \/ RestoreFails(r)
  \/ FinishRecovery \/ RecoveryFails

Next ==
  \/ \E r \in Rituals : Commit(r)
  \/ Recovery
  \/ \E r \in Rituals : ResolveUnknown(r)
  \/ Crash \/ PowerLoss \/ Restart
  \/ \E e \in Edits : Edit(e)
  \/ OperatorRestores

(* A started ritual keeps running, a stopped host is started again (it is  *)
(* a supervised service) and a started replay runs on; nothing makes a new *)
(* attempt, an edit or a person's help happen.                             *)
Fairness ==
  /\ \A r \in Rituals : WF_vars(Commit(r) /\ Active(r))
  /\ WF_vars(Recovery)
  /\ WF_vars(Restart)

Spec == Init /\ [][Next]_vars
FairSpec == Spec /\ Fairness

-----------------------------------------------------------------------------
(* What the ritual promises.                                               *)

Complete(c) == c # None /\ c \notin torn

(* Invariant I1 of docs/design/distributed-architecture.md: at every       *)
(* instant, and after any crash at any instant, the destination or the     *)
(* trash holds a complete file.                                            *)
NeverNeither == Complete(final) \/ Complete(trash)

(* A power loss can spoil an output that is still staged, never one that   *)
(* has reached the destination or was retired from it.                     *)
NeverTorn == {final, trash} \cap torn = {}

(* The newest version that a program other than a ritual put there is at   *)
(* the destination or in the trash, with three exceptions.  One written    *)
(* between the two renames of a ritual (commit.rs:289 and 300), or between *)
(* recovery's look at the destination and its rename, is overwritten:      *)
(* nothing looks again.  A second ritual, planned against the first one's  *)
(* output, retires that output over it.  And a recovery may put it back    *)
(* from under a running ritual, which then installs over it.  One written  *)
(* at any other time survives, whatever fails and wherever the host stops. *)
Retiring == {"moved", "retired", "landed", "installed", "over",
             "cut"}

SourceSurvives ==
  \/ source \in {final, trash}
  \/ exposed \/ undercut
  \/ \E r \in Rituals : guard[r] \in Rituals /\ pc[r] \in Retiring

(* While the destination is empty, the ritual that emptied it is running,  *)
(* or its record is on disk for the next start to find, or somebody has    *)
(* been told.                                                              *)
EmptyIsAccounted ==
  final = None =>
    \E r \in Rituals : \/ pc[r] \in {"moved", "retired"}
                       \/ journal[r] # None
                       \/ verdict[r] \in {"needs_operator", "error"}

(* An empty destination does not stay empty unless somebody has been told: *)
(* the original is put back or the replacement installed.                  *)
Told == gaveUp \/ \E r \in Rituals : verdict[r] \in {"needs_operator", "error"}

WindowCloses == (final = None) ~> (final # None \/ Told)

(* A reconnect can land while a commit is between its two renames; recovery *)
(* does not run then, so it cannot restore the original out from under the *)
(* ritual installing over it (client.rs, session).                         *)
NeverUndercut == ~undercut

(* Recovery asks for an operator only when the original cannot be found    *)
(* where the journal says it was put (commit.rs, Resolution::NeedsOperator).*)
OperatorOnlyWhenLost ==
  \A r \in Rituals :
    (mode = "recovering" /\ verdict[r] = "needs_operator" /\ journal[r] # None)
      => trash = None

(* A replaced original can still be taken back, an hour later (trash.rs):  *)
(* nothing in these modules reaps it, so it is at one of the two paths.    *)
OriginalRetained == source \in {final, trash}

(* The ritual with its journal, its recovery and every crash is a safe     *)
(* replacement: the versions that are not torn are the sound ones.         *)
Replace == INSTANCE SafeReplace WITH
  Versions <- Contents, Empty <- None,
  dest <- final, aside <- trash, sound <- Contents \ torn

ReplacesSafely == Replace!Spec
=============================================================================
