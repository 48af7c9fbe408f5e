------------------------------ MODULE Journal -------------------------------
(***************************************************************************)
(* The intent journal on disk: crates/transcodarr-agent/src/journal.rs,    *)
(* with the start of the agent that opens it (workarea.rs, run.rs).  It is *)
(* one directory with a file per install; an earlier build kept one such   *)
(* directory per boot, and its records are adopted when the journal opens. *)
(*                                                                         *)
(* A file has its contents, its name and the directory that holds the      *)
(* name, and each reaches the disk by a call of its own.  A power cut      *)
(* brings back, for every name on its own, any of the entries it had since *)
(* the directory was last synced; a file published before its contents     *)
(* were synced may come back as Garbage.  A rename between two directories *)
(* is kept or undone as one.                                               *)
(*                                                                         *)
(* CommitRitual writes this journal with one step per call and reads it as *)
(* a function; DurableMap states what it may rely on.  The two are proved  *)
(* about in one module, so the names here are the journal's own.           *)
(*                                                                         *)
(* An operator named Mut... is a mutated form of the definition after it.  *)
(***************************************************************************)
EXTENDS Naturals

CONSTANTS
  Records,     \* installs: (job, attempt) pairs
  Boots,       \* boots of an earlier build that left a directory
  Absent,      \* no file of that name
  Garbage,     \* a file that cannot be parsed
  Nowhere,     \* no boot
  Trouble,     \* what may go wrong: "call", "crash", "power", "root"
  Copies,      \* whether a record may be both in the journal and at a boot
  MaxTrouble   \* bound: how often anything goes wrong

Recordable == {"Granted", "Retired", "Installed"}
Entries    == Recordable \cup {Absent}

ASSUME JournalAssumption ==
  /\ Absent \notin Recordable /\ Garbage \notin Entries /\ Nowhere \notin Boots
  /\ Copies \in BOOLEAN /\ MaxTrouble \in Nat

VARIABLES
  entry,     \* what the running system sees under each name
  maybe,     \* what a power cut may leave under it
  legacy,    \* the records in each boot's directory
  dirs,      \* the boots whose directory is still there
  moved,     \* the boot a record was adopted from since the last sync
  call,      \* the call at work on each record
  stage,     \* how far each record's install got
  host,      \* the agent: down, opening its journal, or up
  sweep,     \* the boots, and the records of one, still to adopt
  possible,  \* history: what was last acknowledged, and begun since
  read,      \* what the last start found outstanding
  trouble    \* how much has gone wrong

entryVars == <<entry, maybe, legacy, dirs, moved>>
startVars == <<call, stage, host, sweep>>
journalVars == <<entryVars, startVars, possible, read, trouble>>

Quiet   == [does |-> "nothing", to |-> Absent]
NoSweep == [boot |-> Nowhere, boots |-> {}, left |-> {}]
Calls   == [does : {"write", "sync", "publish", "flush"}, to : Entries] \cup {Quiet}

JournalTypeOK ==
  /\ entry \in [Records -> Entries \cup {Garbage}]
  /\ maybe \in [Records -> SUBSET (Entries \cup {Garbage})]
  /\ legacy \in [Boots -> [Records -> Entries]]
  /\ dirs \subseteq Boots
  /\ moved \in [Records -> Boots \cup {Nowhere}]
  /\ call \in [Records -> Calls]
  /\ stage \in [Records -> Recordable \cup {"idle", "found", "over"}]
  /\ host \in {"down", "opening", "up"}
  /\ sweep \in [boot : Boots \cup {Nowhere}, boots : SUBSET Boots, left : SUBSET Records]
  /\ possible \in [Records -> SUBSET Entries]
  /\ read \in [Records -> Entries] \cup {Nowhere}
  /\ trouble \in 0 .. MaxTrouble

(* The disk as earlier processes left it, of this build and of the earlier *)
(* one: any records, of which the newest copy counts.                      *)
BootsOf(n) == {b \in Boots : legacy[b][n] # Absent}

JournalInit ==
  /\ entry \in [Records -> Entries]
  /\ legacy \in [Boots -> [Records -> Entries]]
  /\ \A n \in Records :
       /\ Copies \/ entry[n] = Absent \/ BootsOf(n) = {}
       /\ \A b, c \in BootsOf(n) : b = c
  /\ maybe = [n \in Records |-> {entry[n]}]
  /\ dirs = Boots
  /\ moved = [n \in Records |-> Nowhere]
  /\ call = [n \in Records |-> Quiet]
  /\ stage = [n \in Records |-> IF entry[n] = Absent /\ BootsOf(n) = {} THEN "idle" ELSE "over"]
  /\ host = "down" /\ sweep = NoSweep
  /\ possible = [n \in Records |->
       {IF BootsOf(n) = {} \/ entry[n] # Absent THEN entry[n] ELSE legacy[CHOOSE b \in BootsOf(n) : TRUE][n]}]
  /\ read = Nowhere /\ trouble = 0

Happens(kind) == kind \in Trouble /\ trouble < MaxTrouble /\ trouble' = trouble + 1
Smoothly == UNCHANGED trouble

-----------------------------------------------------------------------------
(* IntentJournal::record and clear, call by call.  A ritual records its    *)
(* phases in order; it clears its record when it is done or could not      *)
(* install, and whoever resolves what an aborted one left clears that.     *)

Follows(n) ==
  CASE stage[n] = "idle"    -> {"Granted"}
    [] stage[n] = "Granted" -> {"Retired", Absent}
    [] stage[n] = "Retired" -> {"Installed", Absent}
    [] OTHER                -> IF entry[n] = Absent THEN {} ELSE {Absent}

Calling(n, does) == host = "up" /\ call[n].does = does

Step(n, does) == call' = [call EXCEPT ![n].does = does]

(* The call begins: a record is written to a file of another name.         *)
Begin(n, to) ==
  /\ Calling(n, "nothing") /\ to \in Follows(n)
  /\ call' = [call EXCEPT ![n] = [does |-> IF to = Absent THEN "publish" ELSE "write", to |-> to]]
  /\ possible' = [possible EXCEPT ![n] = @ \cup {to}]
  /\ Smoothly
  /\ UNCHANGED <<entryVars, stage, host, sweep, read>>

WriteFile(n) ==
  /\ Calling(n, "write")
  /\ Step(n, "sync")
  /\ Smoothly
  /\ UNCHANGED <<entryVars, stage, host, sweep, possible, read>>

SyncFile(n) ==
  /\ Calling(n, "sync")
  /\ Step(n, "publish")
  /\ Smoothly
  /\ UNCHANGED <<entryVars, stage, host, sweep, possible, read>>

MutPublish(n) == \* the file is renamed before it is synced
  /\ Calling(n, "sync") \/ (Calling(n, "publish") /\ call[n].to = Absent)
  /\ entry' = [entry EXCEPT ![n] = call[n].to]
  /\ maybe' = [maybe EXCEPT ![n] = @ \cup {call[n].to}
                                   \cup (IF call[n].to = Absent THEN {} ELSE {Garbage})]
  /\ Step(n, "flush")
  /\ Smoothly
  /\ UNCHANGED <<legacy, dirs, moved, stage, host, sweep, possible, read>>

(* The rename over the record's name, or its unlink.                       *)
Publish(n) ==
  /\ Calling(n, "publish")
  /\ entry' = [entry EXCEPT ![n] = call[n].to]
  /\ maybe' = [maybe EXCEPT ![n] = @ \cup {call[n].to}]
  /\ Step(n, "flush")
  /\ Smoothly
  /\ UNCHANGED <<legacy, dirs, moved, stage, host, sweep, possible, read>>

(* sync_dir: the whole directory is on the disk.                           *)
SyncDir ==
  /\ maybe' = [n \in Records |-> {entry[n]}]
  /\ moved' = [n \in Records |-> Nowhere]
  /\ UNCHANGED <<entry, legacy>>

Returns(n) ==
  /\ call' = [call EXCEPT ![n] = Quiet]
  /\ stage' = [stage EXCEPT ![n] = IF call[n].to = Absent THEN "over" ELSE call[n].to]
  /\ possible' = [possible EXCEPT ![n] = {call[n].to}]

MutFlush(n) == \* the directory is not synced
  /\ Calling(n, "flush")
  /\ Returns(n)
  /\ Smoothly
  /\ UNCHANGED <<entryVars, host, sweep, read>>

Flush(n) ==
  /\ Calling(n, "flush")
  /\ SyncDir
  /\ Returns(n)
  /\ Smoothly
  /\ UNCHANGED <<dirs, host, sweep, read>>

(* Any of the system calls fails, and the ritual ends with its Err.  What  *)
(* was done stays, and the caller does not know how much that was.         *)
CallFails(n) ==
  /\ host = "up" /\ call[n] # Quiet
  /\ Happens("call")
  /\ call' = [call EXCEPT ![n] = Quiet]
  /\ stage' = [stage EXCEPT ![n] = "over"]
  /\ UNCHANGED <<entryVars, host, sweep, possible, read>>

-----------------------------------------------------------------------------
(* WorkArea::open_journal, outstanding, and the agent that starts on them. *)

Opening(boot) == host = "opening" /\ sweep.boot = boot

(* The installation root is listed; when it cannot be, nothing is adopted  *)
(* and the start goes on.                                                  *)
Open ==
  /\ host = "down" /\ host' = "opening"
  /\ \/ sweep' = [NoSweep EXCEPT !.boots = dirs] /\ Smoothly
     \/ sweep' = NoSweep /\ Happens("root")
  /\ UNCHANGED <<entryVars, call, stage, possible, read>>

PickBoot(b) ==
  /\ Opening(Nowhere) /\ b \in sweep.boots
  /\ sweep' = [boot |-> b, boots |-> sweep.boots \ {b},
               left |-> {n \in Records : legacy[b][n] # Absent}]
  /\ Smoothly
  /\ UNCHANGED <<entryVars, call, stage, host, possible, read>>

(* A record whose name is taken stays where it is; any other is renamed    *)
(* into the journal.                                                       *)
Adopt(b, n) ==
  /\ Opening(b) /\ n \in sweep.left
  /\ sweep' = [sweep EXCEPT !.left = @ \ {n}]
  /\ IF entry[n] # Absent
     THEN UNCHANGED <<entry, legacy, maybe, moved>>
     ELSE /\ entry' = [entry EXCEPT ![n] = legacy[b][n]]
          /\ legacy' = [legacy EXCEPT ![b][n] = Absent]
          /\ maybe' = [maybe EXCEPT ![n] = @ \cup {legacy[b][n]}]
          /\ moved' = [moved EXCEPT ![n] = b]
  /\ Smoothly
  /\ UNCHANGED <<dirs, call, stage, host, possible, read>>

(* The boot's directory goes once it is empty and the journal's is synced. *)
Adopted(b) ==
  /\ Opening(b) /\ sweep.left = {}
  /\ SyncDir
  /\ dirs' = IF \A n \in Records : legacy[b][n] = Absent THEN dirs \ {b} ELSE dirs
  /\ sweep' = [sweep EXCEPT !.boot = Nowhere]
  /\ Smoothly
  /\ UNCHANGED <<call, stage, host, possible, read>>

(* Listing, renaming, syncing or reading fails, and the agent exits.       *)
OpenFails ==
  /\ host = "opening"
  /\ Happens("call")
  /\ host' = "down" /\ sweep' = NoSweep
  /\ UNCHANGED <<entryVars, call, stage, possible, read>>

(* outstanding: every record is read, and one that cannot be parsed keeps  *)
(* the agent from starting.  What is found is resolved, and then cleared.  *)
Outstanding ==
  /\ Opening(Nowhere) /\ sweep.boots = {}
  /\ \A n \in Records : entry[n] # Garbage
  /\ host' = "up" /\ read' = entry
  /\ stage' = [n \in Records |-> IF entry[n] # Absent THEN "found" ELSE stage[n]]
  /\ Smoothly
  /\ UNCHANGED <<entryVars, call, sweep, possible>>

-----------------------------------------------------------------------------
(* The process ends, and with it whatever it had in hand.                  *)

Ends ==
  /\ host # "down" /\ host' = "down"
  /\ sweep' = NoSweep
  /\ call' = [n \in Records |-> Quiet]
  /\ stage' = [n \in Records |-> IF stage[n] = "idle" /\ call[n] = Quiet THEN "idle" ELSE "over"]
  /\ UNCHANGED <<possible, read>>

Killed ==
  /\ Ends /\ Happens("crash")
  /\ UNCHANGED entryVars

(* An adoption that is undone puts the record back where it was.           *)
PowerCut ==
  /\ Ends /\ Happens("power")
  /\ entry' \in [Records -> Entries \cup {Garbage}]
  /\ \A n \in Records : entry'[n] \in maybe[n]
  /\ legacy' = [b \in Boots |-> [n \in Records |->
       IF moved[n] = b /\ entry'[n] = Absent THEN entry[n] ELSE legacy[b][n]]]
  /\ maybe' = [n \in Records |-> {entry'[n]}]
  /\ moved' = [n \in Records |-> Nowhere]
  /\ UNCHANGED dirs

Call(n) == \/ \E to \in Entries : Begin(n, to)
           \/ WriteFile(n) \/ SyncFile(n) \/ Publish(n) \/ Flush(n)

Opens ==
  \/ Open \/ Outstanding
  \/ \E b \in Boots : \/ PickBoot(b) \/ Adopted(b)
                      \/ \E n \in Records : Adopt(b, n)

JournalNext ==
  \/ \E n \in Records : Call(n) \/ CallFails(n)
  \/ Opens \/ OpenFails
  \/ Killed \/ PowerCut

JournalSpec == JournalInit /\ [][JournalNext]_journalVars

(* The agent is a supervised service: one that ended is started again, and *)
(* a start goes on.                                                        *)
FairJournal == JournalSpec /\ WF_journalVars(Opens)

-----------------------------------------------------------------------------
(* What the journal promises.                                              *)

(* A record that was acknowledged is what the next start finds, until the  *)
(* next call for it begins; one whose call was cut off is found as it was  *)
(* or as it was to be; one that an earlier build left is found by the      *)
(* first start, and none is ever found in part.  That is what "fsynced     *)
(* before the step it describes" (journal.rs:15-22) and the adoption       *)
(* (workarea.rs:91-106) are for.                                           *)
Map == INSTANCE DurableMap WITH Names <- Records, Values <- Entries, Unread <- Nowhere

KeepsRecords == Map!Spec

(* Whatever stopped it and wherever, the agent comes up: no record ever    *)
(* keeps a start from reading the journal (run.rs:84), and a sweep ends.   *)
ComesUp == (host # "up") ~> (host = "up")
=============================================================================
