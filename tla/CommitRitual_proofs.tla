------------------------ MODULE CommitRitual_proofs ------------------------
(***************************************************************************)
(* Proofs about CommitRitual for every set of rituals and edits and any    *)
(* number of crashes, and about Journal, the inside of the calls by which  *)
(* a ritual keeps its record, for every set of records and boots.          *)
(*                                                                         *)
(* TypeOK is inductive by itself.  The safety invariants are not: each one *)
(* follows from Inv, whose parts say what a ritual's program counter means *)
(* for the disk.                                                           *)
(***************************************************************************)
EXTENDS CommitRitual, Journal, TLAPS

-----------------------------------------------------------------------------
(* The inductive invariant.                                                *)

(* A ritual that has not started has left nothing anywhere.                *)
Untouched ==
  \A r \in Rituals : pc[r] = "idle" =>
    /\ r \notin staged \cup synced \cup torn
    /\ journal[r] = None /\ verdict[r] = "none"

(* A ritual under way is alone, in a running process, and unreported.      *)
Alone ==
  /\ \A r \in Rituals : Active(r) => mode = "up" /\ verdict[r] = "none"
  /\ \A p, q \in Rituals : Active(p) /\ Active(q) => p = q

(* What reached either path had been fsynced, so no power loss spoils it.  *)
Durable ==
  /\ \A r \in Rituals :
       pc[r] \in {"durable", "moved", "retired", "landed", "installed"}
         => r \in synced
  /\ \A r \in Rituals : r \in torn => pc[r] \in {"over", "cut"} /\ r \notin synced
  /\ \A r \in Rituals : r \in {final, trash} => r \in synced

(* From step 3 on a running ritual has a record, and recovery works only   *)
(* on records of rituals that are over.                                    *)
Journaled ==
  /\ \A r \in Rituals :
       pc[r] \in {"granted", "durable", "moved", "retired", "landed", "installed"}
         => journal[r] # None
  /\ \A r \in clearing \cup restoring : pc[r] \in {"over", "cut"}
  /\ restoring # {} => clearing = {} /\ mode # "down"
  /\ \A r \in restoring : journal[r] # None /\ restoring = {r}

(* The destination of a running ritual is empty only between the two       *)
(* renames, and is not empty there only if a recovery has undercut the     *)
(* ritual or another program has put a file there.                         *)
Placed ==
  /\ final # None \/ trash # None
  /\ \A r \in Rituals : Active(r) /\ ~Between(r) => final # None
  /\ \A r \in Rituals :
       Between(r) /\ final # None => exposed \/ (undercut /\ trash = None)

(* EmptyIsAccounted, by a ritual whose record is not about to be removed.  *)
Accounted ==
  final = None =>
    \E r \in Rituals \ clearing :
      \/ Between(r)
      \/ journal[r] # None
      \/ verdict[r] \in {"needs_operator", "error"}

(* Unless the source came while a rename was pending, the destination      *)
(* never goes back to a version older than it, and a recovery that is      *)
(* about to put a file back finds the source there or nothing to put back. *)
Newest ==
  \/ exposed
  \/ /\ final \in Rituals \cup {source, None}
     /\ final = None => trash \in Rituals \cup {source}
     /\ \A r \in Rituals :
          pc[r] \in {"checked", "granted", "durable"} =>
            final = source \/ guard[r] \in Rituals
     /\ restoring # {} =>
          /\ final = source => trash = None
          /\ trash \in Rituals \cup {source, None}
          /\ \A r \in Rituals :
               pc[r] \in {"staged", "checked", "granted", "durable"} =>
                 trash = None \/ guard[r] \in Rituals

Inv ==
  /\ TypeOK /\ Untouched /\ Alone /\ Durable /\ Journaled
  /\ Placed /\ Accounted /\ Newest /\ SourceSurvives
-----------------------------------------------------------------------------
(* Type correctness.                                                       *)

LEMMA TypeInit == Init => TypeOK
<1> SUFFICES ASSUME Init PROVE TypeOK
  OBVIOUS
<1>1. crashes \in 0 .. MaxCrashes
  BY HostAssumption DEF Init
<1>2. /\ journal \in [Rituals -> Phases \cup {None}]
      /\ pc \in [Rituals -> Steps \cup {"idle", "over", "cut"}]
      /\ guard \in [Rituals -> Contents \cup {None}]
      /\ verdict \in [Rituals -> Labels \cup {"none"}]
  BY DEF Init
<1> QED
  BY <1>1, <1>2, Zenon DEF Init, TypeOK, Contents

LEMMA TypeStep == TypeOK /\ [Next]_vars => TypeOK'
<1> SUFFICES ASSUME TypeOK, [Next]_vars PROVE TypeOK'
  OBVIOUS
<1> USE HostAssumption DEF TypeOK, Contents, Phases, Steps, Labels
<1>1. ASSUME NEW r \in Rituals, Commit(r) PROVE TypeOK'
  <2> USE DEF Goto, Return, Abort, Record, RecordFails, At, envVars, diskVars
  <2>1. CASE Stage(r) BY <2>1 DEF Stage
  <2>2. CASE Refuse(r) BY <2>2 DEF Refuse
  <2>3. CASE Verify(r) BY <2>3 DEF Verify
  <2>4. CASE JournalGranted(r) BY <2>4 DEF JournalGranted
  <2>5. CASE SyncStaged(r) BY <2>5 DEF SyncStaged
  <2>6. CASE Retire(r) BY <2>6 DEF Retire
  <2>7. CASE JournalRetired(r) BY <2>7 DEF JournalRetired
  <2>8. CASE Install(r) BY <2>8 DEF Install
  <2>9. CASE InstallFails(r) BY <2>9 DEF InstallFails, PutBackOrNot
  <2>10. CASE JournalInstalled(r) BY <2>10 DEF JournalInstalled
  <2>11. CASE Resolve(r) BY <2>11 DEF Resolve
  <2> QED
    BY <1>1, <2>1, <2>2, <2>3, <2>4, <2>5, <2>6, <2>7, <2>8, <2>9, <2>10, <2>11
    DEF Commit
<1>2. ASSUME NEW r \in Rituals, Replay(r) \/ ResolveUnknown(r) PROVE TypeOK'
  BY <1>2 DEF Replay, ResolveUnknown, RecoverOne, RecoverGranted, RecoverRetired,
              Restoring, Resolved, envVars
<1>10. ASSUME NEW r \in Rituals, Restore(r) \/ RestoreFails(r) PROVE TypeOK'
  <2>1. CASE Restore(r)
    <3>1. undercut' \in BOOLEAN
      BY <2>1, Zenon DEF Restore
    <3> QED BY <2>1, <3>1 DEF Restore, PutBack, Resolved
  <2>2. CASE RestoreFails(r)
    BY <2>2 DEF RestoreFails, diskVars, envVars
  <2> QED BY <1>10, <2>1, <2>2
<1>3. ASSUME NEW r \in Rituals, ClearRecord(r) PROVE TypeOK'
  BY <1>3 DEF ClearRecord, Record, envVars
<1>4. CASE FinishRecovery \/ RecoveryFails
  BY <1>4 DEF FinishRecovery, RecoveryFails, diskVars, envVars
<1>5. CASE Crash \/ PowerLoss
  <2>1. crashes' \in 0 .. MaxCrashes
    BY <1>5, SMT DEF Crash, PowerLoss, Stop
  <2>2. torn' \in SUBSET Rituals /\ pc' \in [Rituals -> Steps \cup {"idle", "over", "cut"}]
    BY <1>5, SMT DEF Crash, PowerLoss, Stop
  <2>3. mode' = "down" /\ todo' = {} /\ clearing' = {} /\ gaveUp' = FALSE
    BY <1>5 DEF Crash, PowerLoss, Stop
  <2> QED
    BY <1>5, <2>1, <2>2, <2>3, Zenon DEF Crash, PowerLoss, Stop
<1>6. CASE Restart
  BY <1>6 DEF Restart, diskVars, envVars
<1>7. ASSUME NEW e \in Edits, Edit(e) PROVE TypeOK'
  <2>1. exposed' \in BOOLEAN
    BY <1>7, Zenon DEF Edit, Pending
  <2> QED BY <1>7, <2>1 DEF Edit, hostVars
<1>8. CASE OperatorRestores
  BY <1>8 DEF OperatorRestores, PutBack, hostVars, envVars
<1>9. CASE UNCHANGED vars
  BY <1>9 DEF vars, diskVars, hostVars, envVars
<1> QED
  BY <1>1, <1>2, <1>3, <1>4, <1>5, <1>6, <1>7, <1>8, <1>9, <1>10 DEF Next, Recovery

(* Every variable keeps its type, whatever fails and however often the     *)
(* host stops (all of commit.rs and journal.rs).                           *)
THEOREM TypeCorrect == Spec => []TypeOK
BY TypeInit, TypeStep, PTL DEF Spec

-----------------------------------------------------------------------------
(* The inductive invariant.                                                *)

LEMMA InvInit == Init => Inv
<1> SUFFICES ASSUME Init PROVE Inv
  OBVIOUS
<1>1. TypeOK
  BY TypeInit
<1>2. Untouched /\ Alone /\ Durable /\ Journaled
  BY ContentsAreDistinct DEF Init, Untouched, Alone, Durable, Journaled, Active, Steps
<1>3. Placed /\ Accounted /\ Newest /\ SourceSurvives
  BY ContentsAreDistinct
  DEF Init, Placed, Accounted, Newest, SourceSurvives, Active, Steps, Between
<1> QED
  BY <1>1, <1>2, <1>3 DEF Inv

LEMMA StageInv ==
  ASSUME Inv, TypeOK', NEW r \in Rituals, Stage(r) PROVE Inv'
<1> USE ContentsAreDistinct
    DEF Stage, Goto, Return, Abort, Record, RecordFails, At, envVars, diskVars,
        Inv, TypeOK, Active, Steps, Between
<1>1. Untouched' BY DEF Untouched
<1>2. Alone'
  <2>1. mode' = "up" /\ verdict' = verdict /\ verdict[r] = "none"
    BY DEF Untouched
  <2>2. \A q \in Rituals : pc'[q] \in Steps => q = r
    BY DEF Steps
  <2> QED
    BY <2>1, <2>2 DEF Alone, Steps
<1>3. Durable' BY DEF Durable, Contents
<1>4. Journaled' BY DEF Journaled, Phases
<1>5. Placed' BY DEF Placed, Contents
<1>6. Accounted' BY DEF Accounted, Contents
<1>7. Newest' BY DEF Newest, Contents
<1>8. SourceSurvives' BY DEF SourceSurvives, Retiring, Contents
<1> QED BY <1>1, <1>2, <1>3, <1>4, <1>5, <1>6, <1>7, <1>8

LEMMA RefuseInv ==
  ASSUME Inv, TypeOK', NEW r \in Rituals, Refuse(r) PROVE Inv'
<1> USE ContentsAreDistinct
    DEF Refuse, Goto, Return, Abort, Record, RecordFails, At, envVars, diskVars,
        Inv, TypeOK, Active, Steps, Between
<1>1. Untouched' BY DEF Untouched
<1>2. Alone' BY DEF Alone
<1>3. Durable' BY DEF Durable, Contents
<1>4. Journaled' BY DEF Journaled, Phases
<1>5. Placed' BY DEF Placed, Contents
<1>6. Accounted'
  <2>1. final # None /\ final' = final
    BY DEF Placed
  <2> QED
    BY <2>1 DEF Accounted
<1>7. Newest' BY DEF Newest, Contents
<1>8. SourceSurvives' BY DEF SourceSurvives, Retiring, Contents
<1> QED BY <1>1, <1>2, <1>3, <1>4, <1>5, <1>6, <1>7, <1>8

LEMMA VerifyInv ==
  ASSUME Inv, TypeOK', NEW r \in Rituals, Verify(r) PROVE Inv'
<1> USE ContentsAreDistinct
    DEF Verify, Goto, Return, Abort, Record, RecordFails, At, envVars, diskVars,
        Inv, TypeOK, Active, Steps, Between
<1>1. Untouched' BY DEF Untouched
<1>2. Alone' BY DEF Alone
<1>3. Durable' BY DEF Durable, Contents
<1>4. Journaled' BY DEF Journaled, Phases
<1>5. Placed' BY DEF Placed, Contents
<1>6. Accounted' BY DEF Accounted, Contents
<1>7. Newest'
  <2>1. UNCHANGED <<final, source, trash, guard, restoring, exposed>>
    OBVIOUS
  <2>2. pc[r] = "staged" /\ final # None /\ final = guard[r]
    BY DEF SourceUnchanged
  <2>3. \A q \in Rituals : q # r => pc'[q] = pc[q]
    OBVIOUS
  <2> QED
    BY <2>1, <2>2, <2>3 DEF Newest
<1>8. SourceSurvives' BY DEF SourceSurvives, Retiring, Contents
<1> QED BY <1>1, <1>2, <1>3, <1>4, <1>5, <1>6, <1>7, <1>8

LEMMA JournalGrantedInv ==
  ASSUME Inv, TypeOK', NEW r \in Rituals, JournalGranted(r) PROVE Inv'
<1> USE ContentsAreDistinct
    DEF JournalGranted, Goto, Return, Abort, Record, RecordFails, At, envVars, diskVars,
        Inv, TypeOK, Active, Steps, Between
<1>1. Untouched' BY DEF Untouched
<1>2. Alone' BY DEF Alone
<1>3. Durable' BY DEF Durable, Contents
<1>4. Journaled' BY DEF Journaled, Phases
<1>5. Placed' BY DEF Placed, Contents
<1>6. Accounted' BY DEF Accounted, Contents
<1>7. Newest' BY DEF Newest, Contents
<1>8. SourceSurvives' BY DEF SourceSurvives, Retiring, Contents
<1> QED BY <1>1, <1>2, <1>3, <1>4, <1>5, <1>6, <1>7, <1>8

LEMMA SyncStagedInv ==
  ASSUME Inv, TypeOK', NEW r \in Rituals, SyncStaged(r) PROVE Inv'
<1> USE ContentsAreDistinct
    DEF SyncStaged, Goto, Return, Abort, Record, RecordFails, At, envVars, diskVars,
        Inv, TypeOK, Active, Steps, Between
<1>1. Untouched' BY DEF Untouched
<1>2. Alone' BY DEF Alone
<1>3. Durable' BY DEF Durable, Contents
<1>4. Journaled' BY DEF Journaled, Phases
<1>5. Placed' BY DEF Placed, Contents
<1>6. Accounted' BY DEF Accounted, Contents
<1>7. Newest' BY DEF Newest, Contents
<1>8. SourceSurvives' BY DEF SourceSurvives, Retiring, Contents
<1> QED BY <1>1, <1>2, <1>3, <1>4, <1>5, <1>6, <1>7, <1>8

LEMMA RetireInv ==
  ASSUME Inv, TypeOK', NEW r \in Rituals, Retire(r) PROVE Inv'
<1> USE ContentsAreDistinct
    DEF Retire, Goto, Return, Abort, Record, RecordFails, At, envVars, diskVars,
        Inv, TypeOK, Active, Steps, Between
<1>1. Untouched' BY DEF Untouched
<1>2. Alone' BY DEF Alone
<1>3. Durable' BY DEF Durable, Contents
<1>4. Journaled' BY DEF Journaled, Phases
<1>5. CASE final' = final /\ trash' = trash
  <2>1. final # None
    BY DEF Placed
  <2>2. Placed' BY <1>5, <2>1 DEF Placed
  <2>3. Accounted' BY <1>5, <2>1 DEF Accounted
  <2>4. Newest' BY <1>5 DEF Newest
  <2>5. SourceSurvives' BY <1>5 DEF SourceSurvives, Retiring
  <2> QED BY <1>1, <1>2, <1>3, <1>4, <2>2, <2>3, <2>4, <2>5
<1>6. CASE final # None /\ final' = None /\ trash' = final /\ pc' = [pc EXCEPT ![r] = "moved"]
  <2>1. UNCHANGED <<guard, verdict, clearing, restoring, source, undercut, exposed,
                   journal>>
    BY <1>6, ContentsAreDistinct
  <2>2. \A q \in Rituals \ {r} : ~Active(q) /\ pc'[q] = pc[q]
    BY <1>6 DEF Alone
  <2>3. Placed' BY <1>6, <2>2 DEF Placed
  <2>4. Accounted'
    <3>1. r \notin clearing
      BY DEF Journaled
    <3> QED BY <1>6, <2>1, <3>1 DEF Accounted
  <2>5. Newest' BY <1>6, <2>1, <2>2 DEF Newest
  <2>6. SourceSurvives'
    <3>1. CASE final = source
      BY <1>6, <2>1, <3>1 DEF SourceSurvives
    <3>2. CASE final # source
      <4>1. exposed \/ guard[r] \in Rituals
        BY <1>6, <3>2 DEF Newest
      <4> QED BY <1>6, <2>1, <4>1 DEF SourceSurvives, Retiring
    <3> QED BY <3>1, <3>2
  <2> QED BY <1>1, <1>2, <1>3, <1>4, <2>3, <2>4, <2>5, <2>6
<1> QED BY <1>5, <1>6

LEMMA JournalRetiredInv ==
  ASSUME Inv, TypeOK', NEW r \in Rituals, JournalRetired(r) PROVE Inv'
<1> USE ContentsAreDistinct
    DEF JournalRetired, Goto, Return, Abort, Record, RecordFails, At, envVars, diskVars,
        Inv, TypeOK, Active, Steps, Between
<1>1. Untouched' BY DEF Untouched
<1>2. Alone' BY DEF Alone
<1>3. Durable' BY DEF Durable, Contents
<1>4. Journaled' BY DEF Journaled, Phases
<1>5. Placed' BY DEF Placed, Contents
<1>6. Accounted' BY DEF Accounted, Contents
<1>7. Newest' BY DEF Newest, Contents
<1>8. SourceSurvives' BY DEF SourceSurvives, Retiring, Contents
<1> QED BY <1>1, <1>2, <1>3, <1>4, <1>5, <1>6, <1>7, <1>8

LEMMA InstallInv ==
  ASSUME Inv, TypeOK', NEW r \in Rituals, Install(r) PROVE Inv'
<1> USE ContentsAreDistinct
    DEF Install, Goto, Return, Abort, Record, RecordFails, At, envVars, diskVars,
        Inv, TypeOK, Active, Steps, Between
<1>1. Untouched' BY DEF Untouched
<1>2. Alone' BY DEF Alone
<1>3. Durable' BY DEF Durable, Contents
<1>4. Journaled' BY DEF Journaled, Phases
<1>5. Placed'
  <2>1. final' = r /\ r # None /\ trash' = trash /\ undercut' = undercut
    OBVIOUS
  <2>2. \A q \in Rituals \ {r} : ~Active(q) /\ pc'[q] = pc[q]
    BY DEF Alone
  <2> QED BY <2>1, <2>2 DEF Placed
<1>6. Accounted' BY DEF Accounted, Contents
<1>7. Newest'
  <2>1. /\ final' = r /\ r # None /\ r # source
        /\ UNCHANGED <<trash, source, restoring, exposed>>
    OBVIOUS
  <2>2. \A q \in Rituals \ {r} : ~Active(q) /\ pc'[q] = pc[q]
    BY DEF Alone
  <2>3. CASE exposed
    BY <2>1, <2>3 DEF Newest
  <2>4. CASE ~exposed
    <3>1. restoring # {} => trash \in Rituals \cup {source, None}
      BY <2>4 DEF Newest
    <3>2. \A q \in Rituals :
            pc'[q] \notin {"staged", "checked", "granted", "durable"}
      BY <2>2
    <3> QED BY <2>1, <3>1, <3>2 DEF Newest
  <2> QED BY <2>3, <2>4
<1>8. SourceSurvives'
  <2>1. final = None \/ undercut \/ exposed
    BY DEF Placed
  <2>2. source # None
    OBVIOUS
  <2>3. \A q \in Rituals : pc[q] \in Retiring => pc'[q] \in Retiring
    BY DEF Retiring
  <2>4. UNCHANGED <<trash, guard, source, undercut, exposed>>
    OBVIOUS
  <2> QED BY <2>1, <2>2, <2>3, <2>4 DEF SourceSurvives
<1> QED BY <1>1, <1>2, <1>3, <1>4, <1>5, <1>6, <1>7, <1>8

LEMMA InstallFailsInv ==
  ASSUME Inv, TypeOK', NEW r \in Rituals, InstallFails(r) PROVE Inv'
<1> USE ContentsAreDistinct
    DEF InstallFails, PutBackOrNot, Goto, Return, Abort, Record, RecordFails, At, envVars, diskVars,
        Inv, TypeOK, Active, Steps, Between
<1>1. Untouched' BY DEF Untouched
<1>2. Alone' BY DEF Alone
<1>3. Durable' BY DEF Durable, Contents
<1>4. Journaled' BY DEF Journaled, Phases
<1>5. /\ UNCHANGED <<guard, source, undercut, exposed, restoring, clearing, mode>>
      /\ journal' \in {journal, [journal EXCEPT ![r] = None]}
      /\ pc' = [pc EXCEPT ![r] = "over"]
  OBVIOUS
<1>6. \A q \in Rituals \ {r} : ~Active(q) /\ pc'[q] = pc[q]
  BY <1>5 DEF Alone
<1>7. \A q \in Rituals : pc[q] \in Retiring => pc'[q] \in Retiring
  BY <1>5 DEF Retiring
<1>8. r \notin clearing
  BY DEF Journaled
<1>9. CASE final' = trash /\ trash' = None /\ trash # None
  <2>1. Placed' BY <1>5, <1>6, <1>9 DEF Placed
  <2>2. Accounted' BY <1>9 DEF Accounted
  <2>3. source \in Contents /\ source # None
    BY DEF Contents
  <2>4. exposed \/ final = None
    BY <1>9 DEF Placed
  <2>5. exposed \/ trash \in Rituals \cup {source}
    BY <2>4 DEF Newest
  <2>6. SourceSurvives' BY <1>5, <1>7, <1>9, <2>3, <2>4 DEF SourceSurvives
  <2>7. Newest'
    <3>1. \A q \in Rituals :
            pc'[q] \notin {"staged", "checked", "granted", "durable"}
      BY <1>5, <1>6
    <3> QED BY <1>5, <1>9, <2>5, <3>1 DEF Newest
  <2> QED BY <1>1, <1>2, <1>3, <1>4, <2>1, <2>2, <2>6, <2>7
<1>10. CASE /\ UNCHANGED <<final, trash>>
            /\ \E label \in {"needs_operator", "error"} :
                 verdict' = [verdict EXCEPT ![r] = label]
  <2>1. Placed' BY <1>5, <1>6, <1>10 DEF Placed
  <2>2. Accounted' BY <1>5, <1>8, <1>10 DEF Accounted
  <2>3. Newest' BY <1>5, <1>6, <1>10 DEF Newest
  <2>4. SourceSurvives' BY <1>5, <1>7, <1>10 DEF SourceSurvives
  <2> QED BY <1>1, <1>2, <1>3, <1>4, <2>1, <2>2, <2>3, <2>4
<1> QED BY <1>9, <1>10

LEMMA JournalInstalledInv ==
  ASSUME Inv, TypeOK', NEW r \in Rituals, JournalInstalled(r) PROVE Inv'
<1> USE ContentsAreDistinct
    DEF JournalInstalled, Goto, Return, Abort, Record, RecordFails, At, envVars, diskVars,
        Inv, TypeOK, Active, Steps, Between
<1>1. Untouched' BY DEF Untouched
<1>2. Alone' BY DEF Alone
<1>3. Durable' BY DEF Durable, Contents
<1>4. Journaled' BY DEF Journaled, Phases
<1>5. Placed' BY DEF Placed, Contents
<1>6. Accounted' BY DEF Accounted, Contents
<1>7. Newest' BY DEF Newest, Contents
<1>8. SourceSurvives' BY DEF SourceSurvives, Retiring, Contents
<1> QED BY <1>1, <1>2, <1>3, <1>4, <1>5, <1>6, <1>7, <1>8

LEMMA ResolveInv ==
  ASSUME Inv, TypeOK', NEW r \in Rituals, Resolve(r) PROVE Inv'
<1> USE ContentsAreDistinct
    DEF Resolve, Goto, Return, Abort, Record, RecordFails, At, envVars, diskVars,
        Inv, TypeOK, Active, Steps, Between
<1>1. Untouched' BY DEF Untouched
<1>2. Alone' BY DEF Alone
<1>3. Durable' BY DEF Durable, Contents
<1>4. Journaled' BY DEF Journaled, Phases
<1>5. Placed' BY DEF Placed, Contents
<1>6. Accounted'
  <2>1. final # None /\ final' = final
    BY DEF Placed
  <2> QED
    BY <2>1 DEF Accounted
<1>7. Newest' BY DEF Newest, Contents
<1>8. SourceSurvives' BY DEF SourceSurvives, Retiring, Contents
<1> QED BY <1>1, <1>2, <1>3, <1>4, <1>5, <1>6, <1>7, <1>8

(* Recovery looks at one record, in the replay or at a registration.  The  *)
(* record is not that of a running ritual.                                 *)
LEMMA RecoverInv ==
  ASSUME Inv, TypeOK', NEW r \in Rituals, Replay(r) \/ ResolveUnknown(r)
  PROVE  Inv'
<1> USE ContentsAreDistinct DEF Inv, TypeOK, Active, Steps, Between
<1>1. /\ UNCHANGED <<final, trash, synced, torn, journal, pc, guard, mode, source,
                     undercut, exposed>>
      /\ journal[r] # None /\ clearing = {} /\ restoring = {}
      /\ mode # "down"
  BY DEF Replay, ResolveUnknown, RecoverOne, envVars
<1>2. pc[r] \in {"over", "cut"}
  <2>1. CASE Replay(r)
    BY <2>1, <1>1 DEF Replay, Untouched, Alone
  <2>2. CASE ResolveUnknown(r)
    BY <2>2 DEF ResolveUnknown
  <2> QED BY <2>1, <2>2
<1>3. \/ /\ restoring' = {} /\ staged' = staged \ {r} /\ clearing' \subseteq {r}
         /\ final = None => verdict'[r] = "needs_operator" /\ clearing' = {}
      \/ /\ final = None /\ trash # None
         /\ restoring' = {r} /\ UNCHANGED <<verdict, staged, clearing>>
  <2>1. RecoverGranted(r) \/ RecoverRetired(r)
    BY DEF Replay, ResolveUnknown, RecoverOne
  <2> QED BY <2>1, <1>1 DEF RecoverGranted, RecoverRetired, Restoring, Resolved
<1>4. \A q \in Rituals \ {r} : verdict'[q] = verdict[q]
  BY DEF Replay, ResolveUnknown, RecoverOne, RecoverGranted, RecoverRetired,
         Restoring, Resolved
<1>5. restoring' \in {{}, {r}} /\ clearing' \subseteq {r} /\ staged' \subseteq staged
  BY <1>1, <1>3
<1>6. restoring' = {} \/ clearing' = {}
  BY <1>1, <1>3
<1>7. Untouched' BY <1>1, <1>2, <1>4, <1>5 DEF Untouched
<1>8. Alone' BY <1>1, <1>2, <1>4 DEF Alone
<1>9. Durable' BY <1>1 DEF Durable
<1>10. Journaled' BY <1>1, <1>2, <1>5, <1>6 DEF Journaled
<1>11. Placed' BY <1>1 DEF Placed
<1>12. Accounted' BY <1>1, <1>3, <1>4 DEF Accounted
<1>13. Newest'
  <2>1. CASE exposed
    BY <1>1, <2>1 DEF Newest
  <2>2. CASE ~exposed /\ restoring' = {}
    BY <1>1, <2>2 DEF Newest
  <2>3. CASE ~exposed /\ restoring' # {}
    <3>1. final = None /\ source # None
      BY <1>3, <2>3
    <3>2. \A q \in Rituals :
            pc[q] \notin {"staged", "checked", "granted", "durable"}
      BY <3>1 DEF Placed
    <3> QED BY <1>1, <2>3, <3>1, <3>2 DEF Newest
  <2> QED BY <2>1, <2>2, <2>3
<1>14. SourceSurvives' BY <1>1 DEF SourceSurvives, Retiring
<1> QED BY <1>7, <1>8, <1>9, <1>10, <1>11, <1>12, <1>13, <1>14

(* The rename that puts the file back, or the failure of it.               *)
LEMMA RestoreInv ==
  ASSUME Inv, TypeOK', NEW r \in Rituals, Restore(r) PROVE Inv'
<1> USE ContentsAreDistinct DEF Inv, TypeOK, Active, Steps, Between
<1>1. /\ UNCHANGED <<synced, torn, journal, pc, guard, mode, source, exposed>>
      /\ r \in restoring /\ restoring' = {} /\ clearing' \subseteq {r}
      /\ staged' = staged \ {r} /\ verdict' = [verdict EXCEPT ![r] = "source_restored"]
      /\ trash # None /\ final' = trash /\ trash' = None
  BY DEF Restore, PutBack, Resolved
<1>2. /\ undercut => undercut'
      /\ (\E q \in Rituals : Between(q)) => undercut'
  BY DEF Restore
<1>3. pc[r] \in {"over", "cut"} /\ mode # "down"
  BY <1>1 DEF Journaled
<1>4. Untouched' BY <1>1, <1>3 DEF Untouched
<1>5. Alone' BY <1>1, <1>3 DEF Alone
<1>6. Durable' BY <1>1 DEF Durable
<1>7. Journaled' BY <1>1, <1>3 DEF Journaled
<1>8. Placed' BY <1>1, <1>2 DEF Placed
<1>9. Accounted' BY <1>1 DEF Accounted
<1>10. Newest'
  <2>1. CASE exposed
    BY <1>1, <2>1 DEF Newest
  <2>2. CASE ~exposed
    <3>1. trash \in Rituals \cup {source}
      BY <1>1, <2>2 DEF Newest
    <3>2. \A q \in Rituals :
            pc[q] \in {"checked", "granted", "durable"} => guard[q] \in Rituals
      BY <1>1, <2>2 DEF Newest
    <3> QED BY <1>1, <3>1, <3>2 DEF Newest
  <2> QED BY <2>1, <2>2
<1>11. SourceSurvives'
  <2>1. source # None
    OBVIOUS
  <2>2. exposed \/ (final = source => trash = None)
    BY <1>1 DEF Newest
  <2> QED BY <1>1, <1>2, <2>1, <2>2 DEF SourceSurvives, Retiring
<1> QED BY <1>4, <1>5, <1>6, <1>7, <1>8, <1>9, <1>10, <1>11

LEMMA RestoreFailsInv ==
  ASSUME Inv, TypeOK', NEW r \in Rituals, RestoreFails(r) PROVE Inv'
<1> USE DEF RestoreFails, diskVars, envVars, Inv, TypeOK, Active, Steps, Between
<1>1. Untouched' /\ Alone' /\ Durable' BY DEF Untouched, Alone, Durable
<1>2. Journaled' BY DEF Journaled
<1>3. Placed' /\ Newest' BY DEF Placed, Newest
<1>4. Accounted' BY DEF Accounted
<1>5. SourceSurvives' BY DEF SourceSurvives, Retiring
<1> QED BY <1>1, <1>2, <1>3, <1>4, <1>5

LEMMA ClearRecordInv ==
  ASSUME Inv, TypeOK', NEW r \in Rituals, ClearRecord(r) PROVE Inv'
<1> USE ContentsAreDistinct
    DEF ClearRecord, Record, envVars, Inv, TypeOK, Active, Steps, Between
<1>1. Untouched' /\ Alone' /\ Durable' BY DEF Untouched, Alone, Durable
<1>2. Journaled' BY DEF Journaled
<1>3. Placed' /\ Newest' BY DEF Placed, Newest
<1>4. Accounted' BY DEF Accounted
<1>5. SourceSurvives' BY DEF SourceSurvives, Retiring
<1> QED BY <1>1, <1>2, <1>3, <1>4, <1>5

LEMMA EndOfReplayInv ==
  ASSUME Inv, TypeOK', FinishRecovery \/ RecoveryFails PROVE Inv'
<1> USE DEF FinishRecovery, RecoveryFails, diskVars, envVars, Inv, TypeOK,
            Active, Steps, Between
<1>1. clearing' = {}
  OBVIOUS
<1>2. Untouched' /\ Alone' /\ Durable' BY DEF Untouched, Alone, Durable
<1>3. Journaled' BY <1>1 DEF Journaled
<1>4. Placed' /\ Newest' BY DEF Placed, Newest
<1>5. Accounted' BY <1>1 DEF Accounted
<1>6. SourceSurvives' BY DEF SourceSurvives, Retiring
<1> QED BY <1>2, <1>3, <1>4, <1>5, <1>6

(* A crash turns running rituals into cut ones and leaves the disk; only   *)
(* what was never synced is lost with the page cache.                      *)
LEMMA StopInv ==
  ASSUME Inv, TypeOK', Crash \/ PowerLoss PROVE Inv'
<1> USE ContentsAreDistinct DEF Inv, TypeOK, Active, Steps, Between
<1>1. /\ UNCHANGED <<final, trash, staged, synced, journal, guard, verdict,
                     source, undercut, exposed>>
      /\ clearing' = {} /\ restoring' = {}
      /\ pc' = [q \in Rituals |-> IF Active(q) THEN "cut" ELSE pc[q]]
  BY DEF Crash, PowerLoss, Stop
<1>2. \A q \in torn' : q \in torn \/ (q \in staged \cup {final, trash} /\ q \notin synced)
  BY DEF Crash, PowerLoss
<1>3. Untouched'
  <2>1. \A q \in Rituals : pc'[q] = "idle" => pc[q] = "idle"
    BY <1>1
  <2>2. \A q \in Rituals : q \in {final, trash} => q \in synced
    BY DEF Durable
  <2> QED BY <1>1, <1>2, <2>1, <2>2 DEF Untouched
<1>4. \A q \in Rituals : ~Active(q)'
  BY <1>1
<1>5. Alone' BY <1>4 DEF Alone
<1>6. Durable'
  <2>1. \A q \in Rituals : q \in torn' => q \notin synced
    BY <1>2 DEF Durable
  <2>2. \A q \in Rituals : q \in torn' => pc[q] # "idle"
    BY <1>2 DEF Durable, Untouched
  <2>3. \A q \in Rituals : pc[q] # "idle" => pc'[q] \in {"over", "cut"}
    BY <1>1
  <2> QED BY <1>1, <1>4, <2>1, <2>2, <2>3 DEF Durable
<1>7. Journaled' BY <1>1, <1>4 DEF Journaled
<1>8. Placed' BY <1>1, <1>4 DEF Placed
<1>9. Accounted'
  <2>1. \A q \in Rituals : Between(q) => journal[q] # None
    BY DEF Journaled
  <2> QED BY <1>1, <2>1 DEF Accounted
<1>10. Newest' BY <1>1, <1>4 DEF Newest
<1>11. SourceSurvives' BY <1>1 DEF SourceSurvives, Retiring
<1> QED BY <1>3, <1>5, <1>6, <1>7, <1>8, <1>9, <1>10, <1>11

LEMMA RestartInv ==
  ASSUME Inv, TypeOK', Restart PROVE Inv'
<1> USE DEF Restart, diskVars, envVars, Inv, TypeOK, Active, Steps, Between
<1>1. Untouched' /\ Durable' /\ Journaled' BY DEF Untouched, Durable, Journaled
<1>2. Alone' BY DEF Alone
<1>3. Placed' /\ Newest' BY DEF Placed, Newest
<1>4. Accounted' BY DEF Accounted
<1>5. SourceSurvives' BY DEF SourceSurvives, Retiring
<1> QED BY <1>1, <1>2, <1>3, <1>4, <1>5

LEMMA EditInv ==
  ASSUME Inv, TypeOK', NEW e \in Edits, Edit(e) PROVE Inv'
<1> USE ContentsAreDistinct
    DEF Edit, Pending, hostVars, Inv, TypeOK, Active, Steps, Between
<1>1. Untouched' /\ Alone' /\ Journaled' BY DEF Untouched, Alone, Journaled
<1>2. Durable' BY DEF Durable
<1>3. Placed' BY DEF Placed
<1>4. Accounted' BY DEF Accounted
<1>5. Newest' BY DEF Newest
<1>6. SourceSurvives' BY DEF SourceSurvives
<1> QED BY <1>1, <1>2, <1>3, <1>4, <1>5, <1>6

LEMMA OperatorRestoresInv ==
  ASSUME Inv, TypeOK', OperatorRestores PROVE Inv'
<1> USE ContentsAreDistinct
    DEF OperatorRestores, PutBack, hostVars, envVars, Inv, TypeOK, Active, Steps,
        Between
<1>1. Untouched' /\ Alone' /\ Journaled' BY DEF Untouched, Alone, Journaled
<1>2. Durable' BY DEF Durable
<1>3. Placed' BY DEF Placed
<1>4. Accounted' BY DEF Accounted
<1>5. Newest' BY DEF Newest
<1>6. SourceSurvives' BY DEF SourceSurvives, Retiring
<1> QED BY <1>1, <1>2, <1>3, <1>4, <1>5, <1>6

LEMMA StutterInv ==
  ASSUME Inv, UNCHANGED vars PROVE Inv'
BY DEF Inv, TypeOK, Untouched, Alone, Durable, Journaled, Placed, Accounted, Newest,
       SourceSurvives, Active, Between, vars, diskVars, hostVars, envVars

LEMMA InvStep == Inv /\ [Next]_vars => Inv'
<1> SUFFICES ASSUME Inv, [Next]_vars PROVE Inv'
  OBVIOUS
<1>1. TypeOK'
  BY TypeStep DEF Inv
<1>2. ASSUME NEW r \in Rituals, Commit(r) PROVE Inv'
  BY <1>1, <1>2, StageInv, RefuseInv, VerifyInv, JournalGrantedInv, SyncStagedInv,
     RetireInv, JournalRetiredInv, InstallInv, InstallFailsInv,
     JournalInstalledInv, ResolveInv DEF Commit
<1>3. ASSUME NEW r \in Rituals, Replay(r) \/ ResolveUnknown(r) PROVE Inv'
  BY <1>1, <1>3, RecoverInv
<1>4. ASSUME NEW r \in Rituals, ClearRecord(r) PROVE Inv'
  BY <1>1, <1>4, ClearRecordInv
<1>11. ASSUME NEW r \in Rituals, Restore(r) \/ RestoreFails(r) PROVE Inv'
  BY <1>1, <1>11, RestoreInv, RestoreFailsInv
<1>5. CASE FinishRecovery \/ RecoveryFails
  BY <1>1, <1>5, EndOfReplayInv
<1>6. CASE Crash \/ PowerLoss
  BY <1>1, <1>6, StopInv
<1>7. CASE Restart
  BY <1>1, <1>7, RestartInv
<1>8. ASSUME NEW e \in Edits, Edit(e) PROVE Inv'
  BY <1>1, <1>8, EditInv
<1>9. CASE OperatorRestores
  BY <1>1, <1>9, OperatorRestoresInv
<1>10. CASE UNCHANGED vars
  BY <1>10, StutterInv
<1> QED
  BY <1>2, <1>3, <1>4, <1>5, <1>6, <1>7, <1>8, <1>9, <1>10, <1>11
  DEF Next, Recovery

LEMMA Invariance == Spec => []Inv
BY InvInit, InvStep, PTL DEF Spec

-----------------------------------------------------------------------------
(* What follows from it.                                                   *)

(* I1: whatever crashes, fails, is edited or is recovered, and in whatever *)
(* order, a complete file is at the destination or in the trash.           *)
THEOREM NeverNeitherHolds == Spec => []NeverNeither
<1>1. Inv => NeverNeither
  BY ContentsAreDistinct
  DEF Inv, TypeOK, Placed, Durable, NeverNeither, Complete, Contents
<1> QED BY <1>1, Invariance, PTL

(* No power loss spoils what a ritual installed or set aside.              *)
THEOREM NeverTornHolds == Spec => []NeverTorn
<1>1. Inv => NeverTorn
  BY DEF Inv, TypeOK, Durable, NeverTorn
<1> QED BY <1>1, Invariance, PTL

(* The newest foreign version is lost only in the two ways the property    *)
(* names.                                                                  *)
THEOREM SourceSurvivesHolds == Spec => []SourceSurvives
<1>1. Inv => SourceSurvives
  BY DEF Inv
<1> QED BY <1>1, Invariance, PTL

(* An empty destination always has somebody or something that knows.       *)
THEOREM EmptyIsAccountedHolds == Spec => []EmptyIsAccounted
<1>1. Inv => EmptyIsAccounted
  BY DEF Inv, Accounted, Between, EmptyIsAccounted
<1> QED BY <1>1, Invariance, PTL

-----------------------------------------------------------------------------
(* Refinement of SafeReplace.                                              *)

Held == <<final, trash, Contents \ torn>>

LEMMA ReplaceInit == Init => Replace!Init
BY DEF Init, Replace!Init, Contents

LEMMA ReplaceStep == Inv /\ Inv' /\ [Next]_vars => [Replace!Next]_Held
<1> SUFFICES ASSUME Inv, Inv', [Next]_vars PROVE Replace!Next \/ UNCHANGED Held
  BY DEF Held
<1> USE ContentsAreDistinct DEF Inv, TypeOK, Contents, Held
<1> DEFINE Same == UNCHANGED <<final, trash, torn>>
<1>0. Same => UNCHANGED Held
  OBVIOUS
<1>1. ASSUME NEW r \in Rituals, Commit(r) PROVE Replace!Next \/ Same
  <2>1. CASE Retire(r)
    <3>1. Same \/ Replace!SetAside
      BY <2>1 DEF Retire, Abort, Return, Replace!SetAside
    <3> QED BY <3>1 DEF Replace!Next
  <2>2. CASE Install(r)
    <3>1. r \in Contents \ torn /\ final' = r /\ UNCHANGED <<trash, torn>>
      BY <2>2 DEF Install, At, Durable
    <3>2. Replace!Arrive(r)
      BY <3>1 DEF Placed, Replace!Arrive
    <3> QED BY <3>2 DEF Replace!Next
  <2>3. CASE InstallFails(r)
    <3>1. CASE trash # None /\ final' = trash /\ trash' = None
      <4>1. Replace!PutBack
        BY <2>3, <3>1 DEF InstallFails, PutBackOrNot, Replace!PutBack
      <4> QED BY <4>1 DEF Replace!Next
    <3>2. CASE Same
      BY <3>2
    <3> QED BY <2>3, <3>1, <3>2 DEF InstallFails, PutBackOrNot
  <2> QED
    BY <1>1, <2>1, <2>2, <2>3
    DEF Commit, Stage, Refuse, Verify, JournalGranted, SyncStaged, JournalRetired,
        JournalInstalled, Resolve, diskVars
<1>2. PutBack /\ UNCHANGED torn => Replace!Next
  BY DEF PutBack, Replace!PutBack, Replace!Next
<1>3. ASSUME NEW r \in Rituals,
             Replay(r) \/ ResolveUnknown(r) \/ Restore(r) \/ RestoreFails(r)
      PROVE  Replace!Next \/ Same
  <2>1. CASE Replay(r) \/ ResolveUnknown(r)
    BY <2>1 DEF Replay, ResolveUnknown, RecoverOne
  <2>2. CASE Restore(r)
    BY <1>2, <2>2 DEF Restore
  <2>3. CASE RestoreFails(r)
    BY <2>3 DEF RestoreFails, diskVars
  <2> QED BY <1>3, <2>1, <2>2, <2>3
<1>4. CASE PowerLoss
  <2>1. /\ UNCHANGED <<final, trash>>
        /\ Contents \ torn' \subseteq Contents \ torn
    BY <1>4 DEF PowerLoss, Stop
  <2>2. {final, trash} \subseteq (Contents \ torn') \cup {None}
    BY <2>1 DEF Durable
  <2>3. Replace!Spoil
    BY <2>1, <2>2 DEF Replace!Spoil
  <2> QED BY <2>3 DEF Replace!Next
<1>5. ASSUME NEW e \in Edits, Edit(e) PROVE Replace!Next
  <2>1. Replace!Arrive(e)
    BY <1>5 DEF Edit, Placed, Durable, Replace!Arrive
  <2> QED BY <2>1 DEF Replace!Next
<1>6. CASE OperatorRestores
  BY <1>2, <1>6 DEF OperatorRestores
<1>7. CASE \E r \in Rituals : ClearRecord(r)
  BY <1>7 DEF ClearRecord
<1>8. CASE FinishRecovery \/ RecoveryFails \/ Crash \/ Restart \/ UNCHANGED vars
  BY <1>8 DEF FinishRecovery, RecoveryFails, Crash, Stop, Restart, vars, diskVars
<1> QED
  BY <1>0, <1>1, <1>3, <1>4, <1>5, <1>6, <1>7, <1>8 DEF Next, Recovery

(* The nine steps, the journal and the recovery are a safe in-place        *)
(* replacement, whatever crashes or fails.                                 *)
THEOREM ReplacesSafelyHolds == Spec => ReplacesSafely
<1>1. [Replace!Next]_Held <=> [Replace!Next]_<<final, trash, Contents \ torn>>
  BY DEF Held
<1> QED
  BY Invariance, ReplaceInit, ReplaceStep, <1>1, PTL
  DEF Spec, ReplacesSafely, Replace!Spec

-----------------------------------------------------------------------------
(***************************************************************************)
(* The journal on disk: Journal implements DurableMap, for any records,    *)
(* boots and bounds, when no record has an older copy at a boot (~Copies)  *)
(* and the installation root can be read ("root" \notin Trouble).          *)
(*                                                                         *)
(* A name's possible values bound what the directory shows and what a      *)
(* power cut may leave there, unless its record still waits at a boot; and *)
(* nothing waits once the agent is up.                                     *)
(***************************************************************************)

(* The inductive invariant.                                                *)

(* Only an agent that is up has calls in hand, and only one that opens its *)
(* journal has a sweep.                                                    *)
Working ==
  /\ host # "up" => \A n \in Records : call[n] = Quiet
  /\ host # "opening" => sweep = NoSweep
  /\ sweep.boot = Nowhere => sweep.left = {}
  /\ \A n \in sweep.left : legacy[sweep.boot][n] # Absent

(* What waits at a boot has that boot's directory, no entry, and one copy; *)
(* a sweep that has passed the boot has adopted it and synced.             *)
Waiting ==
  \A b \in Boots, n \in Records : legacy[b][n] # Absent =>
    /\ b \in dirs
    /\ entry[n] = Absent /\ maybe[n] = {Absent} /\ moved[n] = Nowhere
    /\ possible[n] = {legacy[b][n]}
    /\ \A c \in Boots : legacy[c][n] # Absent => c = b
    /\ host # "up"
    /\ host = "opening" => b \in sweep.boots \/ (b = sweep.boot /\ n \in sweep.left)

(* An adoption that a power cut may undo: nobody has written since.        *)
Undoable ==
  \A n \in Records : moved[n] # Nowhere =>
    /\ moved[n] \in dirs
    /\ maybe[n] = {Absent, entry[n]} /\ entry[n] # Absent
    /\ possible[n] = {entry[n]}
    /\ \A b \in Boots : legacy[b][n] = Absent
    /\ host # "up"
    /\ host = "opening" => moved[n] \in sweep.boots \cup {sweep.boot}

(* Any other name shows, and would come back as, a possible value.         *)
Bounded ==
  \A n \in Records :
    /\ entry[n] \in maybe[n]
    /\ (moved[n] = Nowhere /\ \A b \in Boots : legacy[b][n] = Absent)
         => maybe[n] \subseteq possible[n]
    /\ call[n] # Quiet => call[n].to \in possible[n]
    /\ call[n].does = "flush" => entry[n] = call[n].to

JournalInv == JournalTypeOK /\ Working /\ Waiting /\ Undoable /\ Bounded

-----------------------------------------------------------------------------
(* The initial states.                                                     *)

LEMMA JournalInvInit ==
  ASSUME ~Copies
  PROVE  JournalInit => JournalInv
<1> SUFFICES ASSUME JournalInit PROVE JournalInv
  OBVIOUS
<1>1. \A n \in Records : (CHOOSE b \in BootsOf(n) : TRUE) \in BootsOf(n) \/ BootsOf(n) = {}
  OBVIOUS
<1>2. ASSUME NEW n \in Records, NEW b \in Boots, legacy[b][n] # Absent
      PROVE  /\ entry[n] = Absent /\ possible[n] = {legacy[b][n]}
             /\ \A c \in Boots : legacy[c][n] # Absent => c = b
  <2>1. b \in BootsOf(n) /\ \A c \in BootsOf(n) : c = b
    BY <1>2 DEF JournalInit, BootsOf
  <2> QED BY <1>1, <1>2, <2>1 DEF JournalInit, BootsOf
<1>3. possible \in [Records -> SUBSET Entries]
  BY <1>1 DEF JournalInit, BootsOf
<1>4. JournalTypeOK
  BY <1>3, JournalAssumption DEF JournalInit, JournalTypeOK, Entries, Calls, NoSweep
<1>5. Working /\ Undoable
  BY DEF JournalInit, Working, Undoable, NoSweep
<1>6. Waiting
  BY <1>2 DEF JournalInit, Waiting
<1>7. Bounded
  <2> SUFFICES ASSUME NEW n \in Records
               PROVE  /\ entry[n] \in maybe[n]
                      /\ (\A b \in Boots : legacy[b][n] = Absent) => maybe[n] \subseteq possible[n]
                      /\ call[n] = Quiet /\ call[n].does # "flush"
    BY DEF Bounded
  <2>1. (\A b \in Boots : legacy[b][n] = Absent) => BootsOf(n) = {}
    BY DEF BootsOf
  <2> QED BY <2>1 DEF JournalInit, Quiet
<1> QED BY <1>4, <1>5, <1>6, <1>7 DEF JournalInv

-----------------------------------------------------------------------------
(* The calls of an agent that is up: nothing waits at a boot, and nothing  *)
(* is undoable.                                                            *)

LEMMA NothingWaits ==
  ASSUME JournalInv, host = "up"
  PROVE  /\ \A n \in Records : moved[n] = Nowhere /\ maybe[n] \subseteq possible[n]
         /\ \A b \in Boots, n \in Records : legacy[b][n] = Absent
  BY DEF JournalInv, Waiting, Undoable, Bounded

LEMMA BeginStep ==
  ASSUME JournalInv, NEW n \in Records, NEW to \in Entries, Begin(n, to)
  PROVE  JournalInv'
<1> USE DEF Begin, Calling, Smoothly, entryVars
<1>1. JournalTypeOK'
  BY DEF JournalInv, JournalTypeOK, Calls
<1>2. Working'
  BY DEF JournalInv, Working
<1>3. Waiting' /\ Undoable'
  BY NothingWaits DEF Waiting, Undoable
<1>4. Bounded'
  BY NothingWaits DEF JournalInv, Bounded, JournalTypeOK, Quiet
<1> QED BY <1>1, <1>2, <1>3, <1>4 DEF JournalInv

LEMMA FileStep ==
  ASSUME JournalInv, NEW n \in Records, WriteFile(n) \/ SyncFile(n) \/ CallFails(n)
  PROVE  JournalInv'
<1> USE DEF WriteFile, SyncFile, CallFails, Step, Calling, Smoothly, Happens, entryVars
<1>1. JournalTypeOK'
  <2>1. CASE WriteFile(n) \/ SyncFile(n)
    <3>1. call[n] \in [does : {"write", "sync", "publish", "flush"}, to : Entries]
      BY <2>1 DEF JournalInv, JournalTypeOK, Calls, Quiet
    <3> QED BY <2>1, <3>1 DEF JournalInv, JournalTypeOK, Calls
  <2>2. CASE CallFails(n)
    <3>1. call' \in [Records -> Calls]
      BY <2>2 DEF JournalInv, JournalTypeOK, Calls
    <3> QED BY <2>2, <3>1, JournalAssumption DEF JournalInv, JournalTypeOK
  <2> QED BY <2>1, <2>2
<1>2. Working'
  BY DEF JournalInv, Working
<1>3. Waiting' /\ Undoable'
  BY NothingWaits DEF Waiting, Undoable
<1>4. Bounded'
  BY NothingWaits DEF JournalInv, Bounded, JournalTypeOK, Calls, Quiet
<1> QED BY <1>1, <1>2, <1>3, <1>4 DEF JournalInv

LEMMA PublishStep ==
  ASSUME JournalInv, NEW n \in Records, Publish(n)
  PROVE  JournalInv'
<1> USE DEF Publish, Step, Calling, Smoothly
<1>1. JournalTypeOK'
  BY DEF JournalInv, JournalTypeOK, Calls, Quiet
<1>2. Working'
  BY DEF JournalInv, Working
<1>3. Waiting' /\ Undoable'
  BY NothingWaits DEF Waiting, Undoable
<1>4. Bounded'
  BY NothingWaits DEF JournalInv, Bounded, JournalTypeOK, Calls, Quiet
<1> QED BY <1>1, <1>2, <1>3, <1>4 DEF JournalInv

LEMMA FlushStep ==
  ASSUME JournalInv, NEW n \in Records, Flush(n)
  PROVE  JournalInv'
<1> USE DEF Flush, Returns, SyncDir, Calling, Smoothly
<1>1. call[n] # Quiet /\ call[n].to \in Entries /\ entry[n] = call[n].to
  BY DEF JournalInv, Bounded, JournalTypeOK, Calls, Quiet
<1>2. JournalTypeOK'
  BY <1>1 DEF JournalInv, JournalTypeOK, Calls, Entries
<1>3. Working'
  BY DEF JournalInv, Working
<1>4. Waiting' /\ Undoable'
  BY NothingWaits DEF Waiting, Undoable
<1>5. Bounded'
  BY NothingWaits, <1>1 DEF JournalInv, Bounded, JournalTypeOK, Quiet
<1> QED BY <1>2, <1>3, <1>4, <1>5 DEF JournalInv

-----------------------------------------------------------------------------
(* The opening of the journal.                                             *)

LEMMA OpenStep ==
  ASSUME JournalInv, "root" \notin Trouble, Open
  PROVE  JournalInv'
<1> USE DEF Open, Happens, Smoothly, NoSweep, entryVars
<1>1. JournalTypeOK'
  BY DEF JournalInv, JournalTypeOK
<1>2. Working' /\ Waiting' /\ Undoable' /\ Bounded'
  BY DEF JournalInv, Working, Waiting, Undoable, Bounded
<1> QED BY <1>1, <1>2 DEF JournalInv

LEMMA PickStep ==
  ASSUME JournalInv, NEW b \in Boots, PickBoot(b)
  PROVE  JournalInv'
<1> USE DEF PickBoot, Opening, Smoothly, entryVars
<1>1. JournalTypeOK'
  BY DEF JournalInv, JournalTypeOK
<1>2. Working' /\ Waiting' /\ Undoable' /\ Bounded'
  BY JournalAssumption DEF JournalInv, Working, Waiting, Undoable, Bounded
<1> QED BY <1>1, <1>2 DEF JournalInv

LEMMA AdoptStep ==
  ASSUME JournalInv, NEW b \in Boots, NEW n \in Records, Adopt(b, n)
  PROVE  JournalInv'
<1> USE DEF Adopt, Opening, Smoothly
<1>1. /\ legacy[b][n] # Absent /\ entry[n] = Absent
      /\ legacy[b][n] \in Entries \ {Absent}
  BY DEF JournalInv, Working, Waiting, JournalTypeOK
<1>2. /\ entry' = [entry EXCEPT ![n] = legacy[b][n]]
      /\ legacy' = [legacy EXCEPT ![b][n] = Absent]
      /\ maybe' = [maybe EXCEPT ![n] = @ \cup {legacy[b][n]}]
      /\ moved' = [moved EXCEPT ![n] = b]
      /\ sweep' = [sweep EXCEPT !.left = @ \ {n}]
      /\ UNCHANGED <<dirs, call, stage, host, possible, read, trouble>>
  BY <1>1
<1>3. JournalTypeOK'
  <2>1. legacy' \in [Boots -> [Records -> Entries]]
    <3>1. [legacy[b] EXCEPT ![n] = Absent] \in [Records -> Entries]
      BY DEF JournalInv, JournalTypeOK, Entries
    <3> QED BY <1>2, <3>1 DEF JournalInv, JournalTypeOK
  <2>2. /\ entry' \in [Records -> Entries \cup {Garbage}]
        /\ maybe' \in [Records -> SUBSET (Entries \cup {Garbage})]
    BY <1>1, <1>2 DEF JournalInv, JournalTypeOK
  <2>3. /\ moved' \in [Records -> Boots \cup {Nowhere}]
        /\ sweep' \in [boot : Boots \cup {Nowhere}, boots : SUBSET Boots, left : SUBSET Records]
    BY <1>2 DEF JournalInv, JournalTypeOK
  <2> QED BY <1>2, <2>1, <2>2, <2>3 DEF JournalInv, JournalTypeOK
<1>4. /\ \A m \in Records \ {n} : \A c \in Boots : legacy'[c][m] = legacy[c][m]
      /\ \A c \in Boots : legacy'[c][n] = Absent
      /\ \A m \in Records \ {n} : /\ entry'[m] = entry[m] /\ maybe'[m] = maybe[m]
                                  /\ moved'[m] = moved[m]
      /\ entry'[n] = legacy[b][n] /\ maybe'[n] = {Absent, legacy[b][n]} /\ moved'[n] = b
      /\ possible'[n] = {legacy[b][n]}
      /\ sweep'.boot = b /\ sweep'.boots = sweep.boots /\ sweep'.left = sweep.left \ {n}
  BY <1>1, <1>2 DEF JournalInv, Waiting, JournalTypeOK
<1>5. Working'
  BY <1>2, <1>4, JournalAssumption DEF JournalInv, Working, JournalTypeOK
<1>6. Waiting'
  BY <1>2, <1>4 DEF JournalInv, Waiting
<1>7. Undoable'
  BY <1>1, <1>2, <1>4 DEF JournalInv, Undoable, Waiting
<1>8. Bounded'
  BY <1>1, <1>2, <1>4, JournalAssumption DEF JournalInv, Bounded, Working, Waiting, Undoable, JournalTypeOK, Quiet
<1> QED BY <1>3, <1>5, <1>6, <1>7, <1>8 DEF JournalInv

LEMMA AdoptedStep ==
  ASSUME JournalInv, NEW b \in Boots, Adopted(b)
  PROVE  JournalInv'
<1> USE DEF Adopted, SyncDir, Opening, Smoothly
<1>1. JournalTypeOK'
  <2>1. JournalTypeOK
    BY DEF JournalInv
  <2>2. /\ entry' \in [Records -> Entries \cup {Garbage}]
        /\ maybe' \in [Records -> SUBSET (Entries \cup {Garbage})]
    BY <2>1 DEF JournalTypeOK
  <2>3. dirs' \subseteq Boots
    BY <2>1 DEF JournalTypeOK
  <2>4. sweep' \in [boot : Boots \cup {Nowhere}, boots : SUBSET Boots, left : SUBSET Records]
    BY <2>1 DEF JournalTypeOK
  <2>5. moved' \in [Records -> Boots \cup {Nowhere}]
    OBVIOUS
  <2> QED
    BY <2>1, <2>2, <2>3, <2>4, <2>5 DEF JournalTypeOK
<1>2. Working'
  BY DEF JournalInv, Working, NoSweep
<1>3. Waiting'
  BY DEF JournalInv, Waiting, JournalTypeOK
<1>4. Undoable'
  BY DEF Undoable
<1>5. \A n \in Records : (\A c \in Boots : legacy[c][n] = Absent) => entry[n] \in possible[n]
  BY DEF JournalInv, Undoable, Bounded
<1>6. Bounded'
  BY <1>5 DEF JournalInv, Bounded
<1> QED BY <1>1, <1>2, <1>3, <1>4, <1>6 DEF JournalInv

LEMMA OpenFailsStep ==
  ASSUME JournalInv, OpenFails
  PROVE  JournalInv'
<1> USE DEF OpenFails, Happens, NoSweep, entryVars
<1>1. JournalTypeOK'
  BY JournalAssumption DEF JournalInv, JournalTypeOK
<1>2. Working' /\ Waiting' /\ Undoable' /\ Bounded'
  BY DEF JournalInv, Working, Waiting, Undoable, Bounded
<1> QED BY <1>1, <1>2 DEF JournalInv

(* Once every boot was swept, nothing waits and all is synced.             *)
LEMMA AllAdopted ==
  ASSUME JournalInv, Opening(Nowhere), sweep.boots = {}
  PROVE  /\ \A n \in Records : moved[n] = Nowhere /\ maybe[n] \subseteq possible[n]
         /\ \A b \in Boots, n \in Records : legacy[b][n] = Absent
<1>1. \A b \in Boots, n \in Records : legacy[b][n] = Absent
  BY JournalAssumption DEF JournalInv, Waiting, Opening
<1>2. \A n \in Records : moved[n] = Nowhere
  BY JournalAssumption DEF JournalInv, Undoable, Opening, JournalTypeOK
<1> QED BY <1>1, <1>2 DEF JournalInv, Bounded

LEMMA OutstandingStep ==
  ASSUME JournalInv, Outstanding
  PROVE  JournalInv'
<1> USE DEF Outstanding, Opening, Smoothly, entryVars
<1>1. JournalTypeOK'
  <2>1. read' \in [Records -> Entries]
    BY DEF JournalInv, JournalTypeOK
  <2>2. stage' \in [Records -> Recordable \cup {"idle", "found", "over"}]
    BY DEF JournalInv, JournalTypeOK
  <2> QED BY <2>1, <2>2 DEF JournalInv, JournalTypeOK
<1>2. Working'
  BY JournalAssumption DEF JournalInv, Working, JournalTypeOK, NoSweep
<1>3. Waiting' /\ Undoable' /\ Bounded'
  BY AllAdopted DEF JournalInv, Waiting, Undoable, Bounded
<1> QED BY <1>1, <1>2, <1>3 DEF JournalInv

-----------------------------------------------------------------------------
(* The process ends.                                                       *)

LEMMA CrashStep ==
  ASSUME JournalInv, Killed
  PROVE  JournalInv'
<1> USE DEF Killed, Ends, Happens, NoSweep, entryVars
<1>1. JournalTypeOK'
  <2>1. call' \in [Records -> Calls]
    BY DEF Calls
  <2>2. stage' \in [Records -> Recordable \cup {"idle", "found", "over"}]
    BY DEF JournalInv, JournalTypeOK
  <2> QED BY <2>1, <2>2, JournalAssumption DEF JournalInv, JournalTypeOK
<1>2. Working' /\ Waiting' /\ Undoable' /\ Bounded'
  BY DEF JournalInv, Working, Waiting, Undoable, Bounded, Quiet
<1> QED BY <1>1, <1>2 DEF JournalInv

LEMMA PowerCutStep ==
  ASSUME JournalInv, PowerCut
  PROVE  JournalInv'
<1> USE DEF PowerCut, Ends, Happens, NoSweep
<1>1. ASSUME NEW n \in Records, moved[n] # Nowhere
      PROVE  /\ moved[n] \in dirs
             /\ possible[n] = {entry[n]} /\ entry[n] # Absent /\ entry[n] \in Entries
             /\ entry'[n] \in {Absent, entry[n]}
             /\ \A b \in Boots : legacy'[b][n] =
                  IF moved[n] = b /\ entry'[n] = Absent THEN entry[n] ELSE Absent
  BY <1>1 DEF JournalInv, Undoable, JournalTypeOK
<1>2. ASSUME NEW n \in Records, moved[n] = Nowhere
      PROVE  /\ \A b \in Boots : legacy'[b][n] = legacy[b][n]
             /\ (\E b \in Boots : legacy[b][n] # Absent) => entry'[n] = Absent
             /\ (\A b \in Boots : legacy[b][n] = Absent) => entry'[n] \in possible[n]
  BY <1>2, JournalAssumption DEF JournalInv, Waiting, Bounded
<1>3. JournalTypeOK'
  <2>1. legacy' \in [Boots -> [Records -> Entries]]
    BY <1>1, <1>2 DEF JournalInv, JournalTypeOK
  <2>2. call' \in [Records -> Calls]
    BY DEF Calls
  <2>3. stage' \in [Records -> Recordable \cup {"idle", "found", "over"}]
    BY DEF JournalInv, JournalTypeOK
  <2>4. /\ maybe' \in [Records -> SUBSET (Entries \cup {Garbage})]
        /\ moved' \in [Records -> Boots \cup {Nowhere}]
    BY DEF JournalInv, JournalTypeOK
  <2> QED BY <2>1, <2>2, <2>3, <2>4, JournalAssumption DEF JournalInv, JournalTypeOK
<1>4. Working'
  BY DEF JournalInv, Working
<1>5. Waiting'
  BY <1>1, <1>2 DEF JournalInv, Waiting
<1>6. Undoable'
  BY DEF Undoable
<1>7. Bounded'
  BY <1>1, <1>2 DEF Bounded, Quiet, JournalInv, JournalTypeOK
<1> QED BY <1>3, <1>4, <1>5, <1>6, <1>7 DEF JournalInv

-----------------------------------------------------------------------------
LEMMA JournalInvStep ==
  ASSUME JournalInv, "root" \notin Trouble, [JournalNext]_journalVars
  PROVE  JournalInv'
<1>1. CASE UNCHANGED journalVars
  <2>1. UNCHANGED <<entry, maybe, legacy, dirs, moved, call, stage, host, sweep, possible,
                    read, trouble>>
    BY <1>1 DEF journalVars, entryVars, startVars
  <2> QED BY <2>1 DEF JournalInv, JournalTypeOK, Working, Waiting, Undoable, Bounded
<1> QED BY <1>1, BeginStep, FileStep, PublishStep, FlushStep, OpenStep, PickStep, AdoptStep,
           AdoptedStep, OpenFailsStep, OutstandingStep, CrashStep, PowerCutStep
        DEF JournalNext, Call, Opens

LEMMA JournalInvariance ==
  ASSUME ~Copies, "root" \notin Trouble
  PROVE  JournalSpec => []JournalInv
  BY JournalInvInit, JournalInvStep, PTL DEF JournalSpec

(* The journal's variables have their types, and what it holds and would   *)
(* hold after a power cut is whole.                                        *)
THEOREM JournalTypeCorrect ==
  ASSUME ~Copies, "root" \notin Trouble
  PROVE  JournalSpec => []JournalTypeOK
<1>1. JournalInv => JournalTypeOK
  BY DEF JournalInv
<1> QED BY <1>1, JournalInvariance, PTL

-----------------------------------------------------------------------------
(* The refinement.                                                         *)

LEMMA MapInit == JournalInit => Map!Init
<1> SUFFICES ASSUME JournalInit PROVE Map!Init
  OBVIOUS
<1> DEFINE found(n) == IF BootsOf(n) = {} \/ entry[n] # Absent
                       THEN entry[n] ELSE legacy[CHOOSE b \in BootsOf(n) : TRUE][n]
<1>1. \A n \in Records : found(n) \in Entries
  <2> SUFFICES ASSUME NEW n \in Records PROVE found(n) \in Entries
    OBVIOUS
  <2>1. CASE BootsOf(n) = {} \/ entry[n] # Absent
    BY <2>1 DEF JournalInit
  <2>2. CASE BootsOf(n) # {} /\ entry[n] = Absent
    <3>1. (CHOOSE b \in BootsOf(n) : TRUE) \in Boots
      BY <2>2 DEF BootsOf
    <3> QED BY <2>2, <3>1 DEF JournalInit
  <2> QED BY <2>1, <2>2
<1>2. possible = [n \in Records |-> {found(n)}]
  BY DEF JournalInit
<1> HIDE DEF found
<1>3. possible \in [Records -> {{v} : v \in Entries}]
  BY <1>1, <1>2
<1> QED BY <1>3 DEF JournalInit, Map!Init

LEMMA MapStep ==
  ASSUME JournalInv, [JournalNext]_journalVars
  PROVE  [Map!Next]_<<possible, read>>
<1>1. CASE UNCHANGED journalVars
  BY <1>1 DEF journalVars
<1>2. ASSUME NEW n \in Records, NEW to \in Entries, Begin(n, to)
      PROVE  Map!Next
  BY <1>2 DEF Begin, Map!Begin, Map!Next
<1>3. ASSUME NEW n \in Records, Flush(n) PROVE Map!Next
  <2>1. call[n].to \in possible[n] /\ call[n].to \in Entries
    BY <1>3 DEF Flush, Calling, JournalInv, Bounded, JournalTypeOK, Calls, Quiet
  <2>2. Map!Acknowledge(n, call[n].to)
    BY <1>3, <2>1 DEF Flush, Returns, Map!Acknowledge
  <2> QED BY <2>1, <2>2 DEF Map!Next
<1>4. CASE Outstanding
  <2>1. \A n \in Records : entry[n] \in possible[n]
    BY <1>4, AllAdopted DEF Outstanding, JournalInv, Bounded
  <2>2. read' \in [Records -> Entries]
    BY <1>4 DEF Outstanding, JournalInv, JournalTypeOK
  <2>3. Map!Start
    BY <1>4, <2>1, <2>2 DEF Outstanding, Map!Start
  <2> QED BY <2>3 DEF Map!Next
<1>5. ASSUME NEW n \in Records, WriteFile(n) \/ SyncFile(n) \/ Publish(n) \/ CallFails(n)
      PROVE  UNCHANGED <<possible, read>>
  BY <1>5 DEF WriteFile, SyncFile, Publish, CallFails
<1>6. ASSUME \/ Open \/ OpenFails \/ Killed \/ PowerCut
             \/ \E b \in Boots : \/ PickBoot(b) \/ Adopted(b)
                                 \/ \E n \in Records : Adopt(b, n)
      PROVE  UNCHANGED <<possible, read>>
  BY <1>6 DEF Open, OpenFails, Killed, PowerCut, Ends, PickBoot, Adopted, Adopt
<1> QED BY <1>1, <1>2, <1>3, <1>4, <1>5, <1>6 DEF JournalNext, Call, Opens

(* The journal is a durable map: what was acknowledged is what the next    *)
(* start finds, for any records, boots and faults but those two.           *)
THEOREM KeepsRecordsHolds ==
  ASSUME ~Copies, "root" \notin Trouble
  PROVE  JournalSpec => KeepsRecords
  BY MapInit, MapStep, JournalInvariance, PTL DEF JournalSpec, KeepsRecords, Map!Spec
=============================================================================
