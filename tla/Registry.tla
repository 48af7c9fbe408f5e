------------------------------ MODULE Registry ------------------------------
(***************************************************************************)
(* How an agent joins: the client's session loop (client.rs), the handlers *)
(* of Register and Connect (session.rs), the version gate and the fencing   *)
(* rule (handshake.rs), the durable registry (repo/agent.rs) and the table  *)
(* of live streams (fleet.rs), for one agent name and the processes that    *)
(* ever answer to it.  A process is its own boot_id (identity.rs).          *)
(*                                                                          *)
(* Every read, write and insertion of a handler is a step of its own: other *)
(* handlers run in between.  A handler whose caller is gone is dropped at   *)
(* one of its awaits, or goes on alone.  Dispatch has what travels on the   *)
(* stream, with joining as one step; leases are modelled there.             *)
(* An operator named Mut... is a mutated form of the definition after it.   *)
(***************************************************************************)
EXTENDS Naturals, FiniteSets

CONSTANTS
    Procs, Nobody,
    Identities,     \* what the processes may say of themselves: installation,
                    \*   protocol, build, and the hash of the capability document
    Gate,           \* VersionGate: oldest and newest protocol, oldest build
    Initial, Ceiling, HalfWord, \* ReconnectPolicy, and the word it reckons in
    MaxTrouble,     \* bound: how much goes wrong in all
    Trouble         \* what may go wrong

Kinds == {"overlap", "cut", "server", "write", "online"}

ASSUME RegistryAssumption ==
    /\ IsFiniteSet(Procs) /\ Nobody \notin Procs
    /\ \A say \in Identities, p \in Procs :
           /\ say[p].proto \in Nat /\ say[p].build \in Nat
           /\ {"uid", "hash"} \subseteq DOMAIN say[p]
    /\ Gate.oldest \in Nat /\ Gate.newest \in Nat /\ Gate.build \in Nat
    /\ Initial \in Nat \ {0} /\ Ceiling \in Nat /\ Initial <= Ceiling
    /\ Ceiling <= 65536 * Initial \* reached before the shift stops at 16
    /\ HalfWord \in Nat \ {0}
    /\ MaxTrouble \in Nat /\ Trouble \subseteq Kinds

VARIABLES
    said,       \* what each process says of itself
    proc,       \* what each process's client is doing
    calls,      \* the Register and Connect handlers at work
    streams,    \* the tasks that read the streams the server accepted
    fleet,      \* the agent's entry in AgentTable
    row,        \* its row in the registry
    table,      \* how many rows agent_capability_history has for it
    issued,     \* history: the epoch each registration wrote
    met,        \* history: whose calls were at work together
    changes,    \* history: how often the stored capability changed
    missed,     \* history: changes whose registration ended before its record
    trouble

history == <<issued, met, changes, missed>>
vars == <<said, proc, calls, streams, fleet, row, table, history, trouble>>

NoRow == [boot |-> Nobody]
NoEntry == [stream |-> 0]

Running(p) == proc[p].pc \notin {"off", "stopped", "dead"}
At(p, pc) == proc[p].pc = pc
Stopping(p) == proc[p].stop # "no"

Happens(kind) ==
    /\ kind \in Trouble /\ trouble < MaxTrouble
    /\ trouble' = trouble + 1

Init ==
    /\ said \in Identities
    /\ proc = [p \in Procs |-> [pc |-> "off", epoch |-> 0, base |-> Initial, lasted |-> FALSE,
                                stream |-> 0, stop |-> "no", ear |-> "none"]]
    /\ calls = {} /\ streams = {} /\ fleet = NoEntry /\ row = NoRow /\ table = 0
    /\ issued = {} /\ met = {} /\ changes = 0 /\ missed = 0
    /\ trouble = 0

-----------------------------------------------------------------------------
(* Reconnecting: ReconnectPolicy.  A process keeps the base of its pause,   *)
(* which its number of attempts stands for.                                 *)

Least(a, b) == IF a <= b THEN a ELSE b

\* The base of the next attempt's pause.
Doubled(base) == Least(2 * base, Ceiling)

MutDelay(base, hash) == \* up to the base, from nothing
    ((base * hash) % (HalfWord * HalfWord)) \div HalfWord

\* Half the base, and a part of the other half that the hash decides: the
\* product wraps at the width of the word, and its upper half is taken.
Delay(base, hash) ==
    LET half == base \div 2 IN
    half + ((half * hash) % (HalfWord * HalfWord)) \div HalfWord

\* run: a session is over, however it ended.
Ended(p) ==
    [proc[p] EXCEPT !.pc = IF Stopping(p) THEN "stopped" ELSE "backoff",
                    !.base = IF proc[p].lasted THEN Initial ELSE Doubled(proc[p].base),
                    !.lasted = FALSE, !.stream = 0, !.ear = "none"]

EndSession(p) == proc' = [proc EXCEPT ![p] = Ended(p)]

-----------------------------------------------------------------------------
(* The client.                                                              *)

\* The server holds nothing of this name, and no other process answers to it.
Clear(p) == calls = {} /\ streams = {} /\ \A q \in Procs \ {p} : ~Running(q)

Start(p) ==
    /\ At(p, "off")
    /\ IF Clear(p) THEN UNCHANGED trouble ELSE Happens("overlap")
    /\ proc' = [proc EXCEPT ![p].pc = "dial"]
    /\ UNCHANGED <<said, calls, streams, fleet, row, table, history>>

Call(p, kind) ==
    [kind |-> kind, proc |-> p, waited |-> TRUE, pc |-> "read",
     epoch |-> proc[p].epoch, changed |-> FALSE, stream |-> 0]

\* A call enters, and is at work beside those that are.
Enter(c) ==
    /\ calls' = calls \cup {c}
    /\ met' = met \cup {{c.proc, d.proc} : d \in calls}

\* dial, and Register with this process's boot_id.  While the server still
\* holds something of this name, the dial may fail instead.
Dial(p) ==
    /\ At(p, "dial")
    /\ \/ /\ IF Clear(p) THEN UNCHANGED trouble ELSE Happens("overlap")
          /\ proc' = [proc EXCEPT ![p].pc = "registering"]
          /\ Enter(Call(p, "register"))
       \/ ~Clear(p) /\ EndSession(p) /\ UNCHANGED <<calls, met, trouble>>
    /\ UNCHANGED <<said, streams, fleet, row, table, issued, changes, missed>>

\* What the journal holds is resolved, and the stream is asked for with the
\* epoch the answer carried.
Recover(p) ==
    /\ At(p, "recovering")
    /\ proc' = [proc EXCEPT ![p].pc = "connecting"]
    /\ Enter(Call(p, "connect"))
    /\ UNCHANGED <<said, streams, fleet, row, table, issued, changes, missed, trouble>>

Waited(p) == \E c \in calls : c.proc = p /\ c.waited

\* The call failed, was refused, or has nobody left to answer it.
CallFails(p) ==
    /\ proc[p].pc \in {"registering", "connecting"} /\ ~Waited(p)
    /\ EndSession(p)
    /\ UNCHANGED <<said, calls, streams, fleet, row, table, history, trouble>>

\* The table has let go of the sender, or the task is gone with its server.
Closed(p) ==
    \/ fleet.stream # proc[p].stream
    \/ \A s \in streams : s.id # proc[p].stream

StreamCloses(p) ==
    /\ At(p, "serving") /\ Closed(p)
    /\ EndSession(p)
    /\ UNCHANGED <<said, calls, streams, fleet, row, table, history, trouble>>

\* HEALTHY_SESSION has passed.
Lasts(p) ==
    /\ At(p, "serving") /\ ~proc[p].lasted
    /\ proc' = [proc EXCEPT ![p].lasted = TRUE]
    /\ UNCHANGED <<said, calls, streams, fleet, row, table, history, trouble>>

-----------------------------------------------------------------------------
(* Shutdown::stop and Shutdown::cancelled.  Only the serving loop and the   *)
(* pause between sessions listen; "armed" is registered with the Notify.    *)

Listening(p) == proc[p].pc \in {"serving", "backoff"}
Ear(p, e) == Listening(p) /\ proc[p].ear = e
Hears(p, e) ==
    /\ proc' = [proc EXCEPT ![p].ear = e]
    /\ UNCHANGED <<said, calls, streams, fleet, row, table, history, trouble>>

Registered(p) == Ear(p, "armed") \/ Ear(p, "parked")

\* enable(), and only then the flag.
Arm(p) == Ear(p, "none") /\ Hears(p, "armed")

MutLook(p) == Ear(p, "armed") /\ Hears(p, "parked") \* waits without a look at the flag

Look(p) == Ear(p, "armed") /\ Hears(p, IF Stopping(p) THEN "woken" ELSE "parked")

\* The loop turns for a message, and listens anew.
Message(p) == At(p, "serving") /\ ~Closed(p) /\ Ear(p, "parked") /\ Hears(p, "none")

StopSet(p) ==
    /\ Running(p) /\ proc[p].stop = "no"
    /\ proc' = [proc EXCEPT ![p].stop = "set"]
    /\ UNCHANGED <<said, calls, streams, fleet, row, table, history, trouble>>

\* notify_waiters wakes who is registered and leaves nothing behind.
StopNotify(p) ==
    /\ Running(p) /\ proc[p].stop = "set"
    /\ proc' = [proc EXCEPT ![p].stop = "told",
                            ![p].ear = IF Registered(p) THEN "woken" ELSE @]
    /\ UNCHANGED <<said, calls, streams, fleet, row, table, history, trouble>>

Leave(p) ==
    /\ Ear(p, "woken")
    /\ proc' = [proc EXCEPT ![p] = [Ended(p) EXCEPT !.pc = "stopped"]]
    /\ UNCHANGED <<said, calls, streams, fleet, row, table, history, trouble>>

\* The pause is over.
Wake(p) ==
    /\ At(p, "backoff") /\ Ear(p, "parked")
    /\ proc' = [proc EXCEPT ![p].pc = IF Stopping(p) THEN "stopped" ELSE "dial",
                            ![p].ear = "none"]
    /\ UNCHANGED <<said, calls, streams, fleet, row, table, history, trouble>>

-----------------------------------------------------------------------------
(* Register.                                                                *)

Handling(c, kind, pc) == c \in calls /\ c.kind = kind /\ c.pc = pc
Becomes(c, d) == calls' = (calls \ {c}) \cup {d}

\* The handler ends with an error or a refusal.
Fails(c) ==
    /\ calls' = calls \ {c}
    /\ missed' = missed + IF c.pc = "history" THEN 1 ELSE 0

\* VersionGate::evaluate: too old and too new are both turned away.
Admits(p) ==
    /\ said[p].proto \in Gate.oldest .. Gate.newest
    /\ said[p].build >= Gate.build

MutNextEpoch(p) == \* a new process keeps the epoch of the last
    IF row = NoRow THEN 1 ELSE row.epoch

\* The fencing rule: only a process that is not the one the row names takes
\* a new epoch; another installation is never the one it names.
NextEpoch(p) ==
    IF row = NoRow THEN 1
    ELSE IF row.boot = p /\ row.uid = said[p].uid THEN row.epoch ELSE row.epoch + 1

ReadInstance(c) ==
    /\ Handling(c, "register", "read")
    /\ IF Admits(c.proc)
       THEN /\ Becomes(c, [c EXCEPT !.pc = "hash", !.epoch = NextEpoch(c.proc),
                                    !.changed = row # NoRow])
            /\ UNCHANGED missed
       ELSE Fails(c)
    /\ UNCHANGED <<said, proc, streams, fleet, row, table, issued, met, changes, trouble>>

Differs(c) == row # NoRow /\ row.hash # said[c.proc].hash

ReadHash(c) ==
    /\ Handling(c, "register", "hash")
    /\ Becomes(c, [c EXCEPT !.pc = "row", !.changed = @ /\ Differs(c)])
    /\ UNCHANGED <<said, proc, streams, fleet, row, table, history, trouble>>

\* register_op: the whole row, and Online whatever it was.
WriteRow(c) ==
    /\ Handling(c, "register", "row")
    /\ \/ /\ row' = [boot |-> c.proc, uid |-> said[c.proc].uid, epoch |-> c.epoch,
                     hash |-> said[c.proc].hash, status |-> "Online"]
          /\ issued' = issued \cup {[proc |-> c.proc, epoch |-> c.epoch]}
          /\ changes' = changes + IF Differs(c) THEN 1 ELSE 0
          /\ Becomes(c, [c EXCEPT !.pc = IF c.changed THEN "history" ELSE "lease"])
          /\ UNCHANGED <<said, missed, trouble>>
       \/ Happens("write") /\ Fails(c) /\ UNCHANGED <<row, issued, changes>>
    /\ UNCHANGED <<said, proc, streams, fleet, table, met>>

WriteHistory(c) ==
    /\ Handling(c, "register", "history")
    /\ \/ /\ table' = table + 1
          /\ Becomes(c, [c EXCEPT !.pc = "lease"]) /\ UNCHANGED <<missed, trouble>>
       \/ Happens("write") /\ Fails(c) /\ UNCHANGED table
    /\ UNCHANGED <<said, proc, streams, fleet, row, issued, met, changes>>

\* heartbeat_op, then the answer.
WriteLease(c) ==
    LET p == c.proc IN
    /\ Handling(c, "register", "lease")
    /\ \/ /\ calls' = calls \ {c}
          /\ proc' = IF c.waited
                     THEN [proc EXCEPT ![p].pc = "recovering", ![p].epoch = c.epoch]
                     ELSE proc
          /\ UNCHANGED <<said, missed, trouble>>
       \/ Happens("write") /\ Fails(c) /\ UNCHANGED proc
    /\ UNCHANGED <<said, streams, fleet, row, table, issued, met, changes>>

-----------------------------------------------------------------------------
(* Connect.                                                                 *)

\* Only the holder of the current epoch is let in.
ReadEpoch(c) ==
    /\ Handling(c, "connect", "read")
    /\ IF row # NoRow /\ row.epoch = c.epoch
       THEN Becomes(c, [c EXCEPT !.pc = "insert"]) /\ UNCHANGED missed
       ELSE Fails(c)
    /\ UNCHANGED <<said, proc, streams, fleet, row, table, issued, met, changes, trouble>>

Ids == {s.id : s \in streams} \cup {c.stream : c \in calls} \cup {proc[p].stream : p \in Procs}
           \cup {fleet.stream, 0}
NewId == CHOOSE n \in 1 .. Cardinality(Ids) : n \notin Ids

\* AgentTable::connect: the newest wins, the sender it displaces is dropped.
Insert(c) ==
    /\ Handling(c, "connect", "insert")
    /\ fleet' = [stream |-> NewId, epoch |-> c.epoch]
    /\ Becomes(c, [c EXCEPT !.pc = "online", !.stream = NewId])
    /\ UNCHANGED <<said, proc, streams, row, table, history, trouble>>

\* The status, the task that reads the stream, the answer.  An Err leaves the
\* entry behind.
Admit(c) ==
    LET p == c.proc IN
    /\ Handling(c, "connect", "online")
    /\ calls' = calls \ {c}
    /\ \/ /\ row' = [row EXCEPT !.status = "Online"]
          /\ streams' = streams \cup {[id |-> c.stream, proc |-> p, epoch |-> c.epoch,
                                       pc |-> "open"]}
          /\ proc' = IF c.waited
                     THEN [proc EXCEPT ![p].pc = "serving", ![p].stream = c.stream]
                     ELSE proc
          /\ UNCHANGED trouble
       \/ Happens("online") /\ UNCHANGED <<row, streams, proc>>
    /\ UNCHANGED <<said, fleet, table, history>>

-----------------------------------------------------------------------------
(* The end of a stream.                                                     *)

Stream(s, pc) == s \in streams /\ s.pc = pc
Turns(s, pc) == streams' = (streams \ {s}) \cup {[s EXCEPT !.pc = pc]}

MutEndStream(s) == \* its caller is still there as far as the task knows
    /\ Stream(s, "open") /\ proc[s.proc].stream # s.id /\ fleet.stream = s.id
    /\ Turns(s, "ended")
    /\ UNCHANGED <<said, proc, calls, fleet, row, table, history, trouble>>

\* The reader finds that its caller is gone; how long that takes is the
\* network's business.
EndStream(s) ==
    /\ Stream(s, "open") /\ proc[s.proc].stream # s.id
    /\ Turns(s, "ended")
    /\ UNCHANGED <<said, proc, calls, fleet, row, table, history, trouble>>

\* AgentTable::disconnect compares the epoch.
Disconnect(s) ==
    /\ Stream(s, "ended")
    /\ Turns(s, "offline")
    /\ fleet' = IF fleet # NoEntry /\ fleet.epoch = s.epoch THEN NoEntry ELSE fleet
    /\ UNCHANGED <<said, proc, calls, row, table, history, trouble>>

\* The status is written whether or not the entry was this stream's.
SetOffline(s) ==
    /\ Stream(s, "offline")
    /\ streams' = streams \ {s}
    /\ \/ row' = [row EXCEPT !.status = "Offline"] /\ UNCHANGED trouble
       \/ Happens("write") /\ UNCHANGED row
    /\ UNCHANGED <<said, proc, calls, fleet, table, history>>

-----------------------------------------------------------------------------
(* What goes wrong.                                                         *)

Deserted(p) == {IF c.proc = p THEN [c EXCEPT !.waited = FALSE] ELSE c : c \in calls}

\* The connection breaks under a call or a stream.
Cut(p) ==
    /\ proc[p].pc \in {"registering", "connecting", "serving"} /\ Happens("cut")
    /\ EndSession(p) /\ calls' = Deserted(p)
    /\ UNCHANGED <<said, streams, fleet, row, table, history>>

Die(p) ==
    /\ Running(p)
    /\ proc' = [proc EXCEPT ![p] = [Ended(p) EXCEPT !.pc = "dead"]]
    /\ calls' = Deserted(p)
    /\ UNCHANGED <<said, streams, fleet, row, table, history, trouble>>

\* The handler of a caller that is gone is dropped, at an await.
DropCall(c) ==
    /\ c \in calls /\ ~c.waited
    /\ \/ c.pc \in {"row", "history", "lease"} /\ UNCHANGED trouble
       \/ c.pc = "online" /\ Happens("online")
    /\ Fails(c)
    /\ UNCHANGED <<said, proc, streams, fleet, row, table, issued, met, changes>>

\* The table and the handlers go, the registry stays.
ServerRestarts ==
    /\ Happens("server")
    /\ calls' = {} /\ streams' = {} /\ fleet' = NoEntry
    /\ missed' = missed + Cardinality({c \in calls : c.pc = "history"})
    /\ UNCHANGED <<said, proc, row, table, issued, met, changes>>

-----------------------------------------------------------------------------
Handle(c) ==
    \/ ReadInstance(c) \/ ReadHash(c) \/ WriteRow(c) \/ WriteHistory(c) \/ WriteLease(c)
    \/ ReadEpoch(c) \/ Insert(c) \/ Admit(c)

Reader(s) == EndStream(s) \/ Disconnect(s) \/ SetOffline(s)

Client(p) ==
    \/ Dial(p) \/ Recover(p) \/ CallFails(p) \/ StreamCloses(p)
    \/ Arm(p) \/ Look(p) \/ Leave(p) \/ Wake(p)

Next ==
    \/ \E p \in Procs : \/ Client(p) \/ Start(p) \/ Lasts(p) \/ Message(p)
                        \/ StopSet(p) \/ StopNotify(p) \/ Cut(p) \/ Die(p)
    \/ \E c \in calls : Handle(c) \/ DropCall(c)
    \/ \E s \in streams : Reader(s)
    \/ ServerRestarts

Spec == Init /\ [][Next]_vars

\* Clients, handlers and readers do not stand still, and a stop that was
\* begun is finished.
Fairness ==
    /\ \A p \in Procs : WF_vars(Client(p)) /\ WF_vars(StopNotify(p))
    /\ WF_vars(\E c \in calls : Handle(c))
    /\ WF_vars(\E s \in streams : Reader(s))

FairSpec == Spec /\ Fairness

-----------------------------------------------------------------------------
(* Properties.                                                              *)

(* Every variable has its type; a process that serves is one whose stream   *)
(* was opened, and it is the only one to hold that stream.                  *)
TypeOK ==
    /\ \A p \in Procs :
           /\ proc[p].pc \in {"off", "dial", "registering", "recovering", "connecting",
                              "serving", "backoff", "stopped", "dead"}
           /\ proc[p].epoch \in Nat /\ proc[p].base \in Initial .. Ceiling
           /\ proc[p].stop \in {"no", "set", "told"} /\ proc[p].lasted \in BOOLEAN
           /\ proc[p].ear \in {"none", "armed", "parked", "woken"}
           /\ proc[p].ear # "none" => Listening(p)
           /\ (proc[p].stream # 0) <=> At(p, "serving")
           /\ At(p, "serving") => \A q \in Procs \ {p} : proc[q].stream # proc[p].stream
    /\ \A c \in calls : /\ c.proc \in Procs /\ c.kind \in {"register", "connect"}
                        /\ c.waited \in BOOLEAN /\ c.changed \in BOOLEAN
                        /\ c.epoch \in Nat
    /\ \A s, t \in streams : s.id = t.id => s = t
    /\ \A s \in streams : s.pc \in {"open", "ended", "offline"} /\ s.id # 0
    /\ row # NoRow => row.boot \in Procs /\ row.epoch \in Nat \ {0}
    /\ table \in Nat /\ changes \in Nat /\ missed \in Nat
    /\ trouble \in 0 .. MaxTrouble

(* The fence (agent.rs:6-12, handshake.rs:13-17): no two processes are ever *)
(* given one epoch, across restarts of the server, lost answers and retries,*)
(* and a process takes a new one only if another came in between - unless   *)
(* two processes' calls were at work at once, which the handler does not    *)
(* exclude.                                                                 *)
EpochFences ==
    \/ \E m \in met : Cardinality(m) > 1
    \/ \A x, y \in issued : x.epoch <= y.epoch =>
           \/ x = y
           \/ /\ x.epoch < y.epoch
              /\ x.proc = y.proc => \E z \in issued : /\ z.proc # x.proc
                                                       /\ x.epoch < z.epoch
                                                       /\ z.epoch < y.epoch

(* Every change of the stored capability has its row in the history, is     *)
(* about to have it, or was lost with the registration that made it         *)
(* (session.rs:765-767); a reconnect adds none.                             *)
HistoryTells ==
    met = {} => table + missed + Cardinality({c \in calls : c.pc = "history"}) = changes

(* client.rs:151-193: however sessions end, the pause before the next one   *)
(* is at least twice the least pause before the last one, up to the         *)
(* ceiling, unless the session lasted; and it is never above its base.      *)
BacksOff ==
    [][\A p \in Procs :
         Listening(p)' /\ At(p, "backoff")' /\ ~At(p, "backoff") =>
             LET n == proc[p].base  m == proc'[p].base IN
             \A h \in 0 .. HalfWord - 1 :
                 /\ Delay(m, h) <= m /\ 2 * Delay(m, h) >= Initial
                 /\ ~proc[p].lasted => 2 * Delay(m, h) >= Least(2 * n, Ceiling)]_vars

(* A client that is told to stop stops, wherever the word finds it          *)
(* (client.rs:632-648).                                                     *)
Stops == \A p \in Procs : (proc[p].stop = "told") ~> ~Running(p)

Alone(p) == Running(p) /\ \A q \in Procs \ {p} : ~Running(q)

Reached(p) == At(p, "serving") /\ fleet.stream = proc[p].stream

\* Its Connect was dropped or failed between the insertion and the reader.
Orphaned ==
    /\ \A s \in streams : s.id # fleet.stream
    /\ \A c \in calls : c.stream # fleet.stream

(* The table comes to say who is reachable (fleet.rs:7-13): nobody once     *)
(* they are all gone, and the process that runs by itself, whatever streams *)
(* it or another left behind.  An orphaned entry is the one exception.      *)
TableTells ==
    <>[](/\ (\A p \in Procs : ~Running(p)) => fleet = NoEntry \/ Orphaned
         /\ \A p \in Procs : Alone(p) /\ Admits(p) => Reached(p))

(* fleet.rs:114-118: a teardown removes the entry "only if it is still the  *)
(* one that opened it".  (What is compared is the epoch, which a process    *)
(* keeps when it reconnects.)                                               *)
OnlyItsOwn ==
    [][\A s \in streams : Disconnect(s) /\ fleet' # fleet => fleet.stream = s.id]_vars
=============================================================================
