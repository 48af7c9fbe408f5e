--------------------------- MODULE Library_proofs ---------------------------
(***************************************************************************)
(* Proofs about Library, for any library, any number of versions, scans    *)
(* and troubles, and any mass-missing guard.                               *)
(*                                                                         *)
(* The types hold however many processes run passes (TypeCorrect).  What   *)
(* the facts and the sweeps promise needs OneWorker, one process running   *)
(* passes at a time: the writes by row id compare nothing, and            *)
(* library_stale.cfg shows what two of them do.  The induction goes in     *)
(* three layers, each proved over the ones before it: Typed; Right, what   *)
(* rows and passes say of the files; Finds, what a scan has found.         *)
(***************************************************************************)
EXTENDS Library, FiniteSetTheorems, TLAPS

Versions == 1 .. MaxVersion
Facts == 0 .. MaxVersion

FileRows ==
  [state : {"Discovered", "Probed", "ProbeFailed", "Evaluated", "Missing"},
   stat : Versions, gen : Nat, facts : Facts, decided : BOOLEAN, decidedOn : Facts]
Rows == {NoRow} \cup FileRows

Scans == [kind : {"scan"}, gen : Nat, live : Nat, todo : SUBSET Paths,
          pending : SUBSET (Paths \X Versions), seen : SUBSET Paths]
Sweeps == [kind : {"sweep", "close"}, gen : Nat, seen : SUBSET Paths]
Probes == [kind : {"probe"}, batch : SUBSET Paths, read : SUBSET (Paths \X Facts)]
Evaluations == [kind : {"evaluate"}, batch : SUBSET (Paths \X Facts)]
Creations == [kind : {"create"}, batch : SUBSET (Paths \X Facts), id : Paths \X Facts]
Passes == {Idle} \cup Scans \cup Sweeps \cup Probes \cup Evaluations \cup Creations

WorldTypes == disk \in [Paths -> Facts] /\ mounted \in BOOLEAN
RowTypes == row \in [Paths -> Rows] /\ runs \in Nat
JobTypes == open \subseteq jobs
PassTypes == pass \in [Workers -> Passes]
UsedTypes == used \in [version : Versions, trouble : Nat]

(* What a pass has in hand are files the table knows, and its scan's        *)
(* generation was allocated.                                                *)
InHand(x) ==
  /\ x.kind = "scan" => x.gen \in 1 .. runs
  /\ x.kind = "probe" => (\A p \in x.batch : Known(p)) /\ \A r \in x.read : Known(r[1])
  /\ x.kind \in {"evaluate", "create"} => \A f \in x.batch : Known(f[1])

Generations == \A p \in Paths : Known(p) => row[p].gen \in 1 .. runs

Typed == 
  /\ WorldTypes /\ RowTypes /\ JobTypes /\ PassTypes /\ UsedTypes
  /\ Generations /\ \A w \in Workers : InHand(pass[w])

----------------------------------------------------------------------------

LEMMA Kinds ==
  ASSUME NEW x \in Passes
  PROVE  /\ x.kind \in {"idle", "scan", "sweep", "close", "probe", "evaluate", "create"}
         /\ x.kind = "scan" => x \in Scans
         /\ x.kind \in {"sweep", "close"} => x \in Sweeps
         /\ x.kind = "probe" => x \in Probes
         /\ x.kind = "evaluate" => x \in Evaluations
         /\ x.kind = "create" => x \in Creations
         /\ x # Idle => x.kind # "idle"
BY DEF Passes, Idle, Scans, Sweeps, Probes, Evaluations, Creations

LEMMA Becoming ==
  ASSUME PassTypes, NEW w \in Workers, NEW to \in Passes, Become(w, to)
  PROVE  /\ PassTypes'
         /\ \A v \in Workers : pass'[v] = IF v = w THEN to ELSE pass[v]
BY DEF PassTypes, Become

LEMMA KnownRows ==
  ASSUME RowTypes, NEW p \in Paths
  PROVE  /\ Known(p) => row[p] \in FileRows
         /\ ~Known(p) => row[p] = NoRow /\ row[p].state = "none"
BY DEF RowTypes, Rows, FileRows, Known, NoRow

LEMMA FileRowsAreRows ==
  ASSUME NEW r \in FileRows PROVE r # NoRow /\ r \in Rows
BY DEF Rows, FileRows, NoRow

(* What a refreshed row holds.                                             *)
LEMMA RefreshedIsRow ==
  ASSUME NEW r \in FileRows, NEW v \in Versions, NEW g \in Nat
  PROVE  /\ Refreshed(r, v, g) \in FileRows
         /\ Refreshed(r, v, g).gen = g /\ Refreshed(r, v, g).stat = v
         /\ Refreshed(r, v, g).facts = r.facts
         /\ Refreshed(r, v, g).decidedOn = r.decidedOn
         /\ r.stat # v \/ r.state = "Missing" => Refreshed(r, v, g).state = "Discovered"
         /\ r.stat = v /\ r.state # "Missing" => Refreshed(r, v, g).state = r.state
         /\ Refreshed(r, v, g).decided => r.decided /\ r.stat = v
<1>1. PICK s \in {"Discovered", "Probed", "ProbeFailed", "Evaluated", "Missing"} :
        s = IF Changed(r, v) \/ r.state = "Missing" THEN "Discovered" ELSE r.state
  BY DEF FileRows
<1>2. PICK e \in BOOLEAN : e = (r.decided /\ ~Changed(r, v))
  BY Zenon DEF FileRows
<1>3. Refreshed(r, v, g) = [r EXCEPT !.state = s, !.decided = e, !.stat = v, !.gen = g]
  BY <1>1, <1>2, Zenon DEF Refreshed
<1> DEFINE y == [r EXCEPT !.state = s, !.decided = e, !.stat = v, !.gen = g]
<1>4. /\ y \in FileRows /\ y.gen = g /\ y.stat = v /\ y.facts = r.facts
      /\ y.decidedOn = r.decidedOn /\ y.state = s /\ y.decided = e
  BY DEF FileRows
<1> HIDE DEF y
<1>5. Refreshed(r, v, g) = y BY <1>3, Zenon DEF y
<1>6. Refreshed(r, v, g).decided = e
  BY <1>4, <1>5, Zenon
<1>7. Refreshed(r, v, g).decided => r.decided /\ r.stat = v
  BY <1>2, <1>6, Zenon DEF Changed
<1>8. /\ Refreshed(r, v, g) \in FileRows
      /\ Refreshed(r, v, g).gen = g /\ Refreshed(r, v, g).stat = v
      /\ Refreshed(r, v, g).facts = r.facts
      /\ Refreshed(r, v, g).decidedOn = r.decidedOn
      /\ Refreshed(r, v, g).state = s
  BY <1>4, <1>5, Zenon
<1>9. /\ r.stat # v \/ r.state = "Missing" => Refreshed(r, v, g).state = "Discovered"
      /\ r.stat = v /\ r.state # "Missing" => Refreshed(r, v, g).state = r.state
  BY <1>1, <1>8 DEF Changed
<1> QED
  BY <1>7, <1>8, <1>9, Zenon

(* The other ways a row is written.                                        *)
LEMMA MarksAreRows ==
  ASSUME NEW r \in FileRows
  PROVE  LET x == [r EXCEPT !.state = "Missing"] IN
         /\ x \in FileRows /\ x.state = "Missing" /\ x.stat = r.stat /\ x.gen = r.gen
         /\ x.facts = r.facts /\ x.decidedOn = r.decidedOn /\ x.decided = r.decided
BY DEF FileRows

LEMMA FailuresAreRows ==
  ASSUME NEW r \in FileRows
  PROVE  LET x == [r EXCEPT !.state = "ProbeFailed"] IN
         /\ x \in FileRows /\ x.state = "ProbeFailed" /\ x.stat = r.stat /\ x.gen = r.gen
         /\ x.facts = r.facts /\ x.decidedOn = r.decidedOn /\ x.decided = r.decided
BY DEF FileRows

LEMMA ProbesAreRows ==
  ASSUME NEW r \in FileRows, NEW f \in Facts
  PROVE  LET x == [r EXCEPT !.state = "Probed", !.facts = f] IN
         /\ x \in FileRows /\ x.state = "Probed" /\ x.stat = r.stat /\ x.gen = r.gen
         /\ x.facts = f /\ x.decidedOn = r.decidedOn /\ x.decided = r.decided
BY DEF FileRows

LEMMA DecisionsAreRows ==
  ASSUME NEW r \in FileRows, NEW f \in Facts
  PROVE  LET x == [r EXCEPT !.state = "Evaluated", !.decided = TRUE, !.decidedOn = f] IN
         /\ x \in FileRows /\ x.state = "Evaluated" /\ x.stat = r.stat /\ x.gen = r.gen
         /\ x.facts = r.facts /\ x.decidedOn = f
BY DEF FileRows

LEMMA ResetsAreRows ==
  ASSUME NEW r \in FileRows
  PROVE  LET x == [r EXCEPT !.decided = FALSE] IN
         /\ x \in FileRows /\ x.state = r.state /\ x.stat = r.stat /\ x.gen = r.gen
         /\ x.facts = r.facts /\ x.decidedOn = r.decidedOn /\ ~x.decided
BY DEF FileRows

LEMMA DiscoveriesAreRows ==
  ASSUME NEW v \in Versions, NEW g \in Nat
  PROVE  /\ Discovered(v, g) \in FileRows /\ Discovered(v, g).state = "Discovered"
         /\ Discovered(v, g).stat = v /\ Discovered(v, g).gen = g
         /\ Discovered(v, g).facts = 0 /\ Discovered(v, g).decidedOn = 0
         /\ ~Discovered(v, g).decided
BY LibraryAssumption DEF FileRows, Discovered, Versions, Facts

----------------------------------------------------------------------------
(* Types, and what a pass has in hand.                                     *)

Grows == /\ \A p \in Paths : Known(p) => Known(p)'
         /\ runs' \in Nat /\ runs <= runs'

LEMMA InHandStays ==
  ASSUME RowTypes, Grows, NEW x \in Passes, InHand(x)
  PROVE  InHand(x)'
<1>1. x.kind = "scan" => x.gen \in 1 .. runs'
  BY Kinds DEF RowTypes, Grows, InHand, Scans
<1>2. x.kind = "probe" => \A p \in x.batch : Known(p)'
  BY Kinds DEF Grows, InHand, Probes
<1>3. x.kind = "probe" => \A r \in x.read : Known(r[1])'
  BY Kinds DEF Grows, InHand, Probes
<1>4. x.kind \in {"evaluate", "create"} => \A f \in x.batch : Known(f[1])'
  BY Kinds DEF Grows, InHand, Evaluations, Creations
<1> QED
  BY <1>1, <1>2, <1>3, <1>4, Zenon DEF InHand

LEMMA TypedWith ==
  ASSUME Typed, WorldTypes', RowTypes', JobTypes', UsedTypes', Generations', Grows,
         NEW w \in Workers, NEW to \in Passes, Become(w, to), InHand(to)'
  PROVE  Typed'
<1>1. PassTypes' /\ \A v \in Workers : pass'[v] = IF v = w THEN to ELSE pass[v]
  BY Becoming DEF Typed
<1>2. ASSUME NEW v \in Workers PROVE InHand(pass[v])'
  <2>1. CASE v = w
    BY <1>1, <2>1 DEF InHand
  <2>2. CASE v # w
    <3>1. pass[v] \in Passes /\ InHand(pass[v])
      BY DEF Typed, PassTypes
    <3>2. PICK x \in Passes : x = pass[v]
      BY <3>1
    <3>3. InHand(x)'
      BY <3>1, <3>2, InHandStays DEF Typed
    <3>4. pass'[v] = x
      BY <1>1, <2>2, <3>2
    <3> QED
      BY <3>3, <3>4 DEF InHand
  <2> QED
    BY <2>1, <2>2
<1> QED
  BY <1>1, <1>2 DEF Typed

LEMMA TypedWithout ==
  ASSUME Typed, WorldTypes', RowTypes', JobTypes', UsedTypes', Generations', Grows, pass' = pass
  PROVE  Typed'
<1>1. ASSUME NEW v \in Workers PROVE InHand(pass[v])'
  <2>1. pass[v] \in Passes /\ InHand(pass[v])
    BY DEF Typed, PassTypes
  <2>2. PICK x \in Passes : x = pass[v]
    BY <2>1
  <2>3. InHand(x)'
    BY <2>1, <2>2, InHandStays DEF Typed
  <2> QED
    BY <2>2, <2>3 DEF InHand
<1> QED
  BY <1>1 DEF Typed, PassTypes

LEMMA TroubleTyped ==
  ASSUME UsedTypes, Trouble PROVE UsedTypes' /\ used'.version = used.version
BY DEF UsedTypes, Trouble

(* A step that leaves the tables and the world alone.                      *)
LEMMA TypedThin ==
  ASSUME Typed, UNCHANGED <<world, table>>, UNCHANGED used \/ Trouble,
         NEW w \in Workers, NEW to \in Passes, Become(w, to), InHand(to)
  PROVE  Typed'
<1>1. WorldTypes' /\ RowTypes' /\ JobTypes' /\ Generations'
  BY DEF Typed, world, table, WorldTypes, RowTypes, JobTypes, Generations, Known
<1>2. Grows
  BY DEF Typed, RowTypes, Grows, Known, table
<1>3. UsedTypes'
  BY TroubleTyped DEF Typed, UsedTypes
<1>4. InHand(to)'
  BY DEF InHand, Known, table
<1> QED
  BY <1>1, <1>2, <1>3, <1>4, TypedWith

(* A step that writes one known or new row.                                *)
LEMMA RowWritten ==
  ASSUME RowTypes, Generations, NEW p \in Paths, NEW x \in FileRows,
         row' = [row EXCEPT ![p] = x], x.gen \in 1 .. runs, runs' = runs
  PROVE  /\ RowTypes' /\ Generations' /\ Grows /\ row'[p] = x
         /\ Known(p)' /\ \A q \in Paths : q # p => row'[q] = row[q]
<1>1. RowTypes' /\ row'[p] = x /\ \A q \in Paths : q # p => row'[q] = row[q]
  BY FileRowsAreRows DEF RowTypes
<1>2. Known(p)'
  BY <1>1, FileRowsAreRows DEF Known
<1>3. Generations'
  BY <1>1 DEF Generations, Known, RowTypes
<1>4. Grows
  BY <1>1, <1>2 DEF Grows, Known, RowTypes
<1> QED
  BY <1>1, <1>2, <1>3, <1>4

----------------------------------------------------------------------------
(* What the actions that write rows do to them.                            *)

LEMMA UpsertWrites ==
  ASSUME Typed, NEW p \in Paths, NEW v \in Versions, NEW g \in 1 .. runs, Upsert(p, v, g), runs' = runs
  PROVE  LET r == row[p]
             x == row'[p] IN
         /\ RowTypes' /\ Generations' /\ Grows
         /\ Known(p)' /\ \A q \in Paths : q # p => row'[q] = row[q]
         /\ x \in FileRows /\ x.stat = v /\ x.gen = g
         /\ Known(p) =>
              /\ r \in FileRows /\ x.facts = r.facts /\ x.decidedOn = r.decidedOn
              /\ r.stat # v \/ r.state = "Missing" => x.state = "Discovered"
              /\ r.stat = v /\ r.state # "Missing" => x.state = r.state
              /\ x.decided => r.decided /\ r.stat = v
         /\ ~Known(p) => x = Discovered(v, g)
<1>1. g \in Nat
  BY DEF Typed, RowTypes
<1>2. CASE Known(p)
  <2>1. row[p] \in FileRows
    BY <1>2, KnownRows DEF Typed
  <2>2. row' = [row EXCEPT ![p] = Refreshed(row[p], v, g)]
    BY <1>2, Zenon DEF Upsert
  <2>3. PICK r \in FileRows : r = row[p]
    BY <2>1
  <2>4. PICK x \in FileRows : x = Refreshed(r, v, g)
    BY <1>1, RefreshedIsRow
  <2>5. x.gen = g /\ x.stat = v /\ x.facts = r.facts /\ x.decidedOn = r.decidedOn
    BY <1>1, <2>4, RefreshedIsRow
  <2>6. /\ r.stat # v \/ r.state = "Missing" => x.state = "Discovered"
        /\ r.stat = v /\ r.state # "Missing" => x.state = r.state
    BY <1>1, <2>4, RefreshedIsRow
  <2>7. x.decided => r.decided /\ r.stat = v
    <3>1. Refreshed(r, v, g).decided => r.decided /\ r.stat = v
      BY <1>1, RefreshedIsRow
    <3> QED
      BY <2>4, <3>1, Zenon
  <2>8. row' = [row EXCEPT ![p] = x]
    BY <2>2, <2>3, <2>4, Zenon
  <2>9. /\ RowTypes' /\ Generations' /\ Grows /\ row'[p] = x
        /\ Known(p)' /\ \A q \in Paths : q # p => row'[q] = row[q]
    BY <2>5, <2>8, RowWritten DEF Typed
  <2> QED
    BY <1>2, <2>3, <2>5, <2>6, <2>7, <2>9, Zenon
<1>3. CASE ~Known(p)
  <2>1. row' = [row EXCEPT ![p] = Discovered(v, g)]
    BY <1>3, Zenon DEF Upsert
  <2>2. PICK x \in FileRows : x = Discovered(v, g)
    BY <1>1, DiscoveriesAreRows
  <2>3. x.gen = g /\ x.stat = v
    BY <1>1, <2>2, DiscoveriesAreRows
  <2>4. row' = [row EXCEPT ![p] = x]
    BY <2>1, <2>2, Zenon
  <2>5. /\ RowTypes' /\ Generations' /\ Grows /\ row'[p] = x
        /\ Known(p)' /\ \A q \in Paths : q # p => row'[q] = row[q]
    BY <2>3, <2>4, RowWritten DEF Typed
  <2> QED
    BY <1>3, <2>2, <2>3, <2>5, Zenon
<1> QED
  BY <1>2, <1>3

LEMMA ProbeWrites ==
  ASSUME Typed, NEW p \in Paths, Known(p), NEW f \in Facts, RecordProbe(p, f), runs' = runs
  PROVE  LET r == row[p]
             x == row'[p] IN
         /\ RowTypes' /\ Generations' /\ Grows
         /\ Known(p)' /\ \A q \in Paths : q # p => row'[q] = row[q]
         /\ r \in FileRows /\ x \in FileRows
         /\ x.state = "Probed" /\ x.stat = r.stat /\ x.gen = r.gen
         /\ x.facts = f /\ x.decidedOn = r.decidedOn /\ x.decided = r.decided
<1>1. PICK r \in FileRows : r = row[p]
  BY KnownRows DEF Typed
<1>2. PICK x \in FileRows : x = [r EXCEPT !.state = "Probed", !.facts = f]
  BY ProbesAreRows
<1>3. /\ x.state = "Probed" /\ x.stat = r.stat /\ x.gen = r.gen
      /\ x.facts = f /\ x.decidedOn = r.decidedOn /\ x.decided = r.decided
  BY <1>2, ProbesAreRows, Zenon
<1>4. row' = [row EXCEPT ![p] = x]
  BY <1>1, <1>2, Zenon DEF RecordProbe
<1>5. x.gen \in 1 .. runs
  BY <1>1, <1>3 DEF Typed, Generations
<1>6. /\ RowTypes' /\ Generations' /\ Grows /\ row'[p] = x
      /\ Known(p)' /\ \A q \in Paths : q # p => row'[q] = row[q]
  BY <1>4, <1>5, RowWritten DEF Typed
<1> QED
  BY <1>1, <1>3, <1>6, Zenon

LEMMA FailureWrites ==
  ASSUME Typed, NEW p \in Paths, Known(p), RecordProbeFailure(p), runs' = runs
  PROVE  LET r == row[p]
             x == row'[p] IN
         /\ RowTypes' /\ Generations' /\ Grows
         /\ Known(p)' /\ \A q \in Paths : q # p => row'[q] = row[q]
         /\ r \in FileRows /\ x \in FileRows
         /\ x.state = "ProbeFailed" /\ x.stat = r.stat /\ x.gen = r.gen
         /\ x.facts = r.facts /\ x.decidedOn = r.decidedOn /\ x.decided = r.decided
<1>1. PICK r \in FileRows : r = row[p]
  BY KnownRows DEF Typed
<1>2. PICK x \in FileRows : x = [r EXCEPT !.state = "ProbeFailed"]
  BY FailuresAreRows
<1>3. /\ x.state = "ProbeFailed" /\ x.stat = r.stat /\ x.gen = r.gen
      /\ x.facts = r.facts /\ x.decidedOn = r.decidedOn /\ x.decided = r.decided
  BY <1>2, FailuresAreRows, Zenon
<1>4. row' = [row EXCEPT ![p] = x]
  BY <1>1, <1>2, Zenon DEF RecordProbeFailure
<1>5. x.gen \in 1 .. runs
  BY <1>1, <1>3 DEF Typed, Generations
<1>6. /\ RowTypes' /\ Generations' /\ Grows /\ row'[p] = x
      /\ Known(p)' /\ \A q \in Paths : q # p => row'[q] = row[q]
  BY <1>4, <1>5, RowWritten DEF Typed
<1> QED
  BY <1>1, <1>3, <1>6, Zenon

LEMMA DecisionWrites ==
  ASSUME Typed, NEW p \in Paths, Known(p), NEW f \in Facts, RecordDecision(p, f), runs' = runs
  PROVE  LET r == row[p]
             x == row'[p] IN
         /\ RowTypes' /\ Generations' /\ Grows
         /\ Known(p)' /\ \A q \in Paths : q # p => row'[q] = row[q]
         /\ r \in FileRows /\ x \in FileRows
         /\ x.state = "Evaluated" /\ x.stat = r.stat /\ x.gen = r.gen
         /\ x.facts = r.facts /\ x.decidedOn = f
<1>1. PICK r \in FileRows : r = row[p]
  BY KnownRows DEF Typed
<1>2. PICK x \in FileRows : x = [r EXCEPT !.state = "Evaluated", !.decided = TRUE, !.decidedOn = f]
  BY DecisionsAreRows
<1>3. /\ x.state = "Evaluated" /\ x.stat = r.stat /\ x.gen = r.gen
      /\ x.facts = r.facts /\ x.decidedOn = f
  BY <1>2, DecisionsAreRows, Zenon
<1>4. row' = [row EXCEPT ![p] = x]
  BY <1>1, <1>2, Zenon DEF RecordDecision
<1>5. x.gen \in 1 .. runs
  BY <1>1, <1>3 DEF Typed, Generations
<1>6. /\ RowTypes' /\ Generations' /\ Grows /\ row'[p] = x
      /\ Known(p)' /\ \A q \in Paths : q # p => row'[q] = row[q]
  BY <1>4, <1>5, RowWritten DEF Typed
<1> QED
  BY <1>1, <1>3, <1>6, Zenon

(* Those that write every row change one field of them.                    *)
LEMMA ResetWrites ==
  ASSUME Typed, Reset
  PROVE  /\ RowTypes' /\ Generations' /\ Grows
         /\ \A p \in Paths : Known(p)' <=> Known(p)
         /\ \A p \in Paths : LET r == row[p]
                                 x == row'[p] IN
              Known(p) => /\ r \in FileRows /\ x \in FileRows
                          /\ x.state = r.state /\ x.stat = r.stat /\ x.gen = r.gen
                          /\ x.facts = r.facts /\ x.decidedOn = r.decidedOn /\ ~x.decided
<1>1. ASSUME NEW p \in Paths, Known(p)
      PROVE  LET r == row[p]
                 x == row'[p] IN
             /\ r \in FileRows /\ x \in FileRows
             /\ x.state = r.state /\ x.stat = r.stat /\ x.gen = r.gen
             /\ x.facts = r.facts /\ x.decidedOn = r.decidedOn /\ ~x.decided
  <2>1. PICK r \in FileRows : r = row[p]
    BY <1>1, KnownRows DEF Typed
  <2>2. row'[p] = [r EXCEPT !.decided = FALSE]
    BY <1>1, <2>1, Zenon DEF Reset
  <2>3. PICK x \in FileRows : x = [r EXCEPT !.decided = FALSE]
    BY ResetsAreRows
  <2>4. /\ x.state = r.state /\ x.stat = r.stat /\ x.gen = r.gen
        /\ x.facts = r.facts /\ x.decidedOn = r.decidedOn /\ ~x.decided
    BY <2>3, ResetsAreRows, Zenon
  <2> QED
    BY <2>1, <2>2, <2>3, <2>4, Zenon
<1>2. ASSUME NEW p \in Paths, ~Known(p) PROVE row'[p] = NoRow
  BY <1>2, KnownRows DEF Typed, Reset
<1>3. row' \in [Paths -> Rows]
  <2>1. row' = [p \in Paths |-> row'[p]]
    BY DEF Reset
  <2>2. \A p \in Paths : row'[p] \in Rows
    BY <1>1, <1>2, FileRowsAreRows DEF Rows
  <2> QED
    BY <2>1, <2>2
<1>4. \A p \in Paths : Known(p)' <=> Known(p)
  BY <1>1, <1>2, FileRowsAreRows DEF Known
<1>5. RowTypes' /\ Grows /\ Generations'
  BY <1>1, <1>3, <1>4 DEF RowTypes, Grows, Generations, Typed, Reset
<1> QED
  BY <1>1, <1>4, <1>5

LEMMA MarkWrites ==
  ASSUME Typed, NEW g \in Nat, MarkMissing(g), runs' = runs
  PROVE  /\ RowTypes' /\ Generations' /\ Grows
         /\ \A p \in Paths : p \notin NotSeenIn(g) => row'[p] = row[p]
         /\ \A p \in Paths : Known(p)' <=> Known(p)
         /\ \A p \in NotSeenIn(g) : LET r == row[p]
                                        x == row'[p] IN
              /\ p \in Paths /\ Known(p) /\ r \in FileRows /\ x \in FileRows
              /\ x.state = "Missing" /\ x.stat = r.stat /\ x.gen = r.gen
              /\ x.facts = r.facts /\ x.decidedOn = r.decidedOn /\ x.decided = r.decided
<1>1. ASSUME NEW p \in NotSeenIn(g)
      PROVE  LET r == row[p]
                 x == row'[p] IN
             /\ p \in Paths /\ Known(p) /\ r \in FileRows /\ x \in FileRows
             /\ x.state = "Missing" /\ x.stat = r.stat /\ x.gen = r.gen
             /\ x.facts = r.facts /\ x.decidedOn = r.decidedOn /\ x.decided = r.decided
  <2>1. p \in Paths /\ Known(p)
    BY DEF NotSeenIn, Live
  <2>2. PICK r \in FileRows : r = row[p]
    BY <2>1, KnownRows DEF Typed
  <2>3. row'[p] = [r EXCEPT !.state = "Missing"]
    BY <2>1, <2>2, Zenon DEF MarkMissing
  <2>4. PICK x \in FileRows : x = [r EXCEPT !.state = "Missing"]
    BY MarksAreRows
  <2>5. /\ x.state = "Missing" /\ x.stat = r.stat /\ x.gen = r.gen
        /\ x.facts = r.facts /\ x.decidedOn = r.decidedOn /\ x.decided = r.decided
    BY <2>4, MarksAreRows, Zenon
  <2> QED
    BY <2>1, <2>2, <2>3, <2>4, <2>5, Zenon
<1>2. ASSUME NEW p \in Paths, p \notin NotSeenIn(g) PROVE row'[p] = row[p]
  BY <1>2 DEF MarkMissing
<1>3. row' \in [Paths -> Rows]
  <2>1. row' = [p \in Paths |-> row'[p]]
    BY DEF MarkMissing
  <2>2. \A p \in Paths : row'[p] \in Rows
    BY <1>1, <1>2, FileRowsAreRows DEF Typed, RowTypes
  <2> QED
    BY <2>1, <2>2
<1>4. \A p \in Paths : Known(p)' <=> Known(p)
  BY <1>1, <1>2, FileRowsAreRows DEF Known
<1>5. RowTypes' /\ Grows /\ Generations'
  BY <1>1, <1>2, <1>3, <1>4 DEF RowTypes, Grows, Generations, Typed
<1> QED
  BY <1>1, <1>2, <1>4, <1>5

----------------------------------------------------------------------------
(* Every step keeps the types.                                             *)

LEMMA WorldTyped == ASSUME Typed, World PROVE Typed'
<1>1. CASE \E p \in Paths : Write(p)
  <2>1. used.version + 1 \in Versions /\ used' = [used EXCEPT !.version = used.version + 1]
    BY <1>1, LibraryAssumption DEF Write, Typed, UsedTypes, Versions
  <2>2. UsedTypes'
    BY <2>1 DEF Typed, UsedTypes
  <2>3. used.version + 1 \in Facts
    BY <1>1, LibraryAssumption DEF Write, Typed, UsedTypes, Versions, Facts
  <2>4. WorldTypes'
    BY <1>1, <2>3 DEF Write, Typed, WorldTypes
  <2>5. RowTypes' /\ JobTypes' /\ Generations' /\ Grows /\ pass' = pass
    BY <1>1 DEF Write, Typed, table, RowTypes, JobTypes, Generations, Grows, Known
  <2> QED
    BY <2>2, <2>5, <2>4, TypedWithout
<1>2. CASE \E p \in Paths : Delete(p)
  <2>1. WorldTypes' /\ UsedTypes'
    BY <1>2, LibraryAssumption DEF Delete, Typed, WorldTypes, UsedTypes, Versions, Facts
  <2>2. RowTypes' /\ JobTypes' /\ Generations' /\ Grows /\ pass' = pass
    BY <1>2 DEF Delete, Typed, table, RowTypes, JobTypes, Generations, Grows, Known
  <2> QED
    BY <2>1, <2>2, TypedWithout
<1>3. CASE Mount
  <2>1. WorldTypes'
    BY <1>3 DEF Mount, Typed, WorldTypes
  <2>2. UsedTypes'
    BY <1>3, TroubleTyped DEF Mount, Typed, UsedTypes
  <2>3. RowTypes' /\ JobTypes' /\ Generations' /\ Grows /\ pass' = pass
    BY <1>3 DEF Mount, Typed, table, RowTypes, JobTypes, Generations, Grows, Known
  <2> QED
    BY <2>1, <2>2, <2>3, TypedWithout
<1>4. CASE Reset
  <2>1. WorldTypes' /\ JobTypes' /\ pass' = pass
    BY <1>4 DEF Reset, Typed, world, WorldTypes, JobTypes
  <2>2. UsedTypes'
    BY <1>4, TroubleTyped DEF Reset, Typed
  <2>3. RowTypes' /\ Generations' /\ Grows
    BY <1>4, ResetWrites
  <2> QED
    BY <2>1, <2>2, <2>3, TypedWithout
<1>5. CASE \E j \in open : EndJob(j)
  <2>1. WorldTypes' /\ JobTypes' /\ pass' = pass /\ UsedTypes'
    BY <1>5 DEF EndJob, Typed, world, WorldTypes, JobTypes, UsedTypes
  <2>2. RowTypes' /\ Generations' /\ Grows
    BY <1>5 DEF EndJob, Typed, RowTypes, Generations, Grows, Known
  <2> QED
    BY <2>1, <2>2, TypedWithout
<1> QED
  BY <1>1, <1>2, <1>3, <1>4, <1>5 DEF World

LEMMA ScanTyped == ASSUME Typed, NEW w \in Workers, Scan(w) PROVE Typed'
<1>1. pass[w] \in Passes /\ InHand(pass[w])
  BY DEF Typed, PassTypes
<1>2. CASE BeginScan(w)
  <2>1. LiveCount \in Nat
    <3>1. IsFiniteSet({p \in Paths : Live(p)})
      BY LibraryAssumption, FS_Subset
    <3> QED
      BY <3>1, FS_CardinalityType DEF LiveCount
  <2> DEFINE to == [kind |-> "scan", gen |-> runs + 1, live |-> LiveCount, todo |-> Paths,
                    pending |-> {}, seen |-> {}]
  <2>2. to \in Scans /\ to.kind = "scan" /\ to.gen = runs + 1
    BY <2>1 DEF Scans, Typed, RowTypes
  <2>3. Become(w, to)
    BY <1>2, Zenon DEF BeginScan
  <2> HIDE DEF to
  <2>4. PICK x \in Scans : x = to
    BY <2>2
  <2>5. WorldTypes' /\ RowTypes' /\ JobTypes' /\ UsedTypes' /\ Generations' /\ Grows
    BY <1>2 DEF BeginScan, Typed, world, WorldTypes, RowTypes, JobTypes, UsedTypes, Generations, Grows, Known
  <2>6. InHand(x)'
    BY <1>2, <2>2, <2>4 DEF InHand, BeginScan, Typed, RowTypes
  <2> QED
    BY <2>3, <2>5, <2>6, <2>4, TypedWith DEF Passes
<1>3. ASSUME NEW p \in Paths, Visit(w, p) PROVE Typed'
  <2>1. pass[w] \in Scans
    BY <1>1, <1>3, Kinds DEF Visit
  <2>2. disk[p] \in Versions
    BY <1>3 DEF Visit, Visible, Typed, WorldTypes, Facts, Versions
  <2>3. PICK s \in Paths \X Versions : s = <<p, disk[p]>>
    BY <2>2
  <2> DEFINE to == [pass[w] EXCEPT !.todo = @ \ {p}, !.pending = @ \cup {s}, !.seen = @ \cup {p}]
  <2>4. to \in Scans /\ to.gen = pass[w].gen
    BY <2>1, <2>2 DEF Scans
  <2>5. InHand(to)
    BY <1>1, <2>1, <2>4 DEF InHand, Scans
  <2>6. Become(w, to)
    BY <1>3, <2>3, Zenon DEF Visit
  <2> HIDE DEF to
  <2> QED
    BY <1>3, <2>4, <2>5, <2>6, TypedThin DEF Visit, Passes
<1>4. ASSUME NEW p \in Paths, PassOver(w, p) PROVE Typed'
  <2>1. pass[w] \in Scans
    BY <1>1, <1>4, Kinds DEF PassOver
  <2> DEFINE to == [pass[w] EXCEPT !.todo = @ \ {p}]
  <2>2. to \in Scans /\ to.gen = pass[w].gen
    BY <2>1 DEF Scans
  <2>3. InHand(to)
    BY <1>1, <2>1, <2>2 DEF InHand, Scans
  <2>4. Become(w, to)
    BY <1>4, Zenon DEF PassOver
  <2> HIDE DEF to
  <2> QED
    BY <1>4, <2>2, <2>3, <2>4, TypedThin DEF PassOver, Passes
<1>5. CASE Record(w)
  <2>1. pass[w] \in Scans /\ pass[w].gen \in 1 .. runs
    BY <1>1, <1>5, Kinds DEF Record, InHand
  <2>2. PICK s \in pass[w].pending :
          /\ Upsert(s[1], s[2], pass[w].gen)
          /\ Become(w, [pass[w] EXCEPT !.pending = @ \ {s}])
    BY <1>5 DEF Record
  <2>3. s[1] \in Paths /\ s[2] \in Versions
    BY <2>1 DEF Scans
  <2>4. RowTypes' /\ Generations' /\ Grows
    BY <1>5, <2>1, <2>2, <2>3, UpsertWrites DEF Record
  <2> DEFINE to == [pass[w] EXCEPT !.pending = @ \ {s}]
  <2>5. to \in Scans /\ to.gen = pass[w].gen
    BY <2>1 DEF Scans
  <2>6. Become(w, to)
    BY <2>2
  <2> HIDE DEF to
  <2>7. PICK x \in Scans : x = to
    BY <2>5
  <2>8. InHand(x)'
    BY <1>5, <2>1, <2>5, <2>7 DEF InHand, Scans, Record
  <2>9. WorldTypes' /\ JobTypes' /\ UsedTypes'
    BY <1>5 DEF Record, Typed, world, WorldTypes, JobTypes, UsedTypes
  <2> QED
    BY <2>4, <2>8, <2>6, <2>9, <2>7, TypedWith DEF Passes
<1>6. CASE Refuse(w) \/ CloseRun(w)
  <2>1. Idle \in Passes /\ InHand(Idle)
    BY DEF Idle, Passes, InHand
  <2> QED
    BY <1>6, <2>1, TypedThin DEF Refuse, CloseRun
<1>7. CASE Count(w)
  <2>1. pass[w] \in Scans
    BY <1>1, <1>7, Kinds DEF Count, Walked
  <2> DEFINE to == [kind |-> IF NotSeenIn(pass[w].gen) = {} THEN "close" ELSE "sweep",
                    gen |-> pass[w].gen, seen |-> pass[w].seen]
  <2>2. to \in Sweeps
    BY <2>1 DEF Sweeps, Scans
  <2>3. InHand(to)
    BY <2>2 DEF InHand, Sweeps
  <2>4. Become(w, to)
    BY <1>7, Zenon DEF Count
  <2> HIDE DEF to
  <2> QED
    BY <1>7, <2>2, <2>3, <2>4, TypedThin DEF Count, Passes
<1>8. CASE Sweep(w)
  <2>1. pass[w] \in Sweeps
    BY <1>1, <1>8, Kinds DEF Sweep
  <2>2. RowTypes' /\ Generations' /\ Grows
    BY <1>8, <2>1, MarkWrites DEF Sweep, Sweeps
  <2> DEFINE to == [pass[w] EXCEPT !.kind = "close"]
  <2>3. to \in Sweeps
    BY <2>1 DEF Sweeps
  <2>4. Become(w, to)
    BY <1>8 DEF Sweep
  <2> HIDE DEF to
  <2>5. PICK x \in Sweeps : x = to
    BY <2>3
  <2>6. InHand(x)'
    BY <2>3 DEF InHand, Sweeps
  <2>7. WorldTypes' /\ JobTypes' /\ UsedTypes'
    BY <1>8 DEF Sweep, Typed, world, WorldTypes, JobTypes, UsedTypes
  <2> QED
    BY <2>2, <2>6, <2>4, <2>7, <2>5, TypedWith DEF Passes
<1> QED
  BY <1>2, <1>3, <1>4, <1>5, <1>6, <1>7, <1>8 DEF Scan

LEMMA ProbeTyped == ASSUME Typed, NEW w \in Workers, ProbePass(w) PROVE Typed'
<1>1. pass[w] \in Passes /\ InHand(pass[w])
  BY DEF Typed, PassTypes
<1>2. CASE BeginProbe(w)
  <2> DEFINE to == [kind |-> "probe", batch |-> NeedsProbe, read |-> {}]
  <2>1. to \in Probes
    BY DEF Probes, NeedsProbe
  <2>2. \A p \in NeedsProbe : p \in Paths /\ Known(p)
    BY KnownRows DEF NeedsProbe, Typed
  <2>3. InHand(to)
    BY <2>2 DEF InHand
  <2>4. Become(w, to)
    BY <1>2 DEF BeginProbe
  <2> HIDE DEF to
  <2> QED
    BY <1>2, <2>1, <2>3, <2>4, TypedThin DEF BeginProbe, Passes
<1>3. CASE EndProbe(w)
  <2>1. Idle \in Passes /\ InHand(Idle)
    BY DEF Idle, Passes, InHand
  <2> QED
    BY <1>3, <2>1, TypedThin DEF EndProbe
<1>4. ASSUME NEW p \in Paths, RunFfprobe(w, p) PROVE Typed'
  <2>1. pass[w] \in Probes /\ p \in pass[w].batch
    BY <1>1, <1>4, Kinds DEF RunFfprobe
  <2>2. PICK facts \in {0} \cup (IF Visible(p) THEN {disk[p]} ELSE {}) :
          Become(w, [pass[w] EXCEPT !.batch = @ \ {p}, !.read = @ \cup {<<p, facts>>}])
    BY <1>4 DEF RunFfprobe
  <2>3. facts \in Facts
    BY <2>2, LibraryAssumption DEF Typed, WorldTypes, Facts
  <2>4. PICK s \in Paths \X Facts : s = <<p, facts>>
    BY <2>3
  <2> DEFINE to == [pass[w] EXCEPT !.batch = @ \ {p}, !.read = @ \cup {s}]
  <2>5. to \in Probes /\ to.batch = pass[w].batch \ {p} /\ to.read = pass[w].read \cup {s}
    BY <2>1 DEF Probes
  <2>6. InHand(to)
    BY <1>1, <2>1, <2>5, <2>4 DEF InHand, Probes
  <2>7. Become(w, to)
    BY <2>2, <2>4
  <2> HIDE DEF to
  <2> QED
    BY <1>4, <2>5, <2>6, <2>7, TypedThin DEF RunFfprobe, Passes
<1>5. ASSUME NEW r \in pass[w].read, pass[w].kind = "probe",
             Become(w, [pass[w] EXCEPT !.read = @ \ {r}])
      PROVE  \E to \in Passes : Become(w, to) /\ InHand(to) /\ r[1] \in Paths /\ r[2] \in Facts /\ Known(r[1])
  <2>1. pass[w] \in Probes
    BY <1>1, <1>5, Kinds
  <2> DEFINE to == [pass[w] EXCEPT !.read = @ \ {r}]
  <2>2. to \in Probes /\ to.batch = pass[w].batch /\ to.read \subseteq pass[w].read
    BY <2>1 DEF Probes
  <2>3. InHand(to)
    BY <1>1, <2>1, <2>2 DEF InHand, Probes
  <2>4. r[1] \in Paths /\ r[2] \in Facts /\ Known(r[1])
    BY <1>1, <1>5, <2>1 DEF InHand, Probes
  <2>5. Become(w, to)
    BY <1>5
  <2> HIDE DEF to
  <2> QED
    BY <2>2, <2>3, <2>4, <2>5 DEF Passes
<1>6. CASE StoreProbe(w)
  <2>1. PICK r \in pass[w].read :
          /\ IF r[2] = 0 THEN RecordProbeFailure(r[1]) ELSE RecordProbe(r[1], r[2])
          /\ Become(w, [pass[w] EXCEPT !.read = @ \ {r}])
    BY <1>6 DEF StoreProbe
  <2>2. PICK to \in Passes :
          Become(w, to) /\ InHand(to) /\ r[1] \in Paths /\ r[2] \in Facts /\ Known(r[1])
    BY <1>5, <1>6, <2>1 DEF StoreProbe
  <2>3. RowTypes' /\ Generations' /\ Grows
    BY <1>6, <2>1, <2>2, FailureWrites, ProbeWrites DEF StoreProbe
  <2>4. InHand(to)'
    BY <2>2, <2>3, InHandStays DEF Typed
  <2>5. WorldTypes' /\ JobTypes' /\ UsedTypes'
    BY <1>6 DEF StoreProbe, Typed, world, WorldTypes, JobTypes, UsedTypes
  <2> QED
    BY <2>2, <2>3, <2>4, <2>5, TypedWith
<1>7. CASE StoreProbeFails(w)
  <2>1. PICK r \in pass[w].read : Become(w, [pass[w] EXCEPT !.read = @ \ {r}])
    BY <1>7 DEF StoreProbeFails
  <2>2. PICK to \in Passes : Become(w, to) /\ InHand(to)
    BY <1>5, <1>7, <2>1 DEF StoreProbeFails
  <2> QED
    BY <1>7, <2>2, TypedThin DEF StoreProbeFails
<1> QED
  BY <1>2, <1>3, <1>4, <1>6, <1>7 DEF ProbePass

LEMMA EvaluateTyped == ASSUME Typed, NEW w \in Workers, EvaluatePass(w) PROVE Typed'
<1>1. pass[w] \in Passes /\ InHand(pass[w])
  BY DEF Typed, PassTypes
<1>2. CASE BeginEvaluate(w)
  <2> DEFINE to == [kind |-> "evaluate", batch |-> {<<p, row[p].facts>> : p \in NeedsEval}]
  <2>1. \A p \in NeedsEval : p \in Paths /\ Known(p) /\ row[p].facts \in Facts
    BY KnownRows DEF NeedsEval, Typed, FileRows
  <2>2. to \in Evaluations
    BY <2>1 DEF Evaluations
  <2>3. InHand(to)
    BY <2>1 DEF InHand
  <2>4. Become(w, to)
    BY <1>2 DEF BeginEvaluate
  <2> HIDE DEF to
  <2> QED
    BY <1>2, <2>2, <2>3, <2>4, TypedThin DEF BeginEvaluate, Passes
<1>3. CASE EndEvaluate(w) \/ CreateRefused(w)
  <2>1. Idle \in Passes /\ InHand(Idle)
    BY DEF Idle, Passes, InHand
  <2> QED
    BY <1>3, <2>1, TypedThin DEF EndEvaluate, CreateRefused
<1>4. CASE Decide(w)
  <2>1. pass[w] \in Evaluations
    BY <1>1, <1>4, Kinds DEF Decide
  <2>2. PICK f \in pass[w].batch :
          /\ RecordDecision(f[1], f[2])
          /\ Become(w, IF f[2] \in Owing
                       THEN [kind |-> "create", batch |-> pass[w].batch \ {f}, id |-> f]
                       ELSE [pass[w] EXCEPT !.batch = @ \ {f}])
    BY <1>4 DEF Decide
  <2>3. f[1] \in Paths /\ f[2] \in Facts /\ Known(f[1]) /\ f \in Paths \X Facts
    BY <1>1, <2>1, <2>2 DEF InHand, Evaluations
  <2>4. RowTypes' /\ Generations' /\ Grows
    BY <1>4, <2>2, <2>3, DecisionWrites DEF Decide
  <2>5. WorldTypes' /\ JobTypes' /\ UsedTypes'
    BY <1>4 DEF Decide, Typed, world, WorldTypes, JobTypes, UsedTypes
  <2>6. \E to \in Passes : Become(w, to) /\ InHand(to)
    <3>1. CASE f[2] \in Owing
      <4> DEFINE to == [kind |-> "create", batch |-> pass[w].batch \ {f}, id |-> f]
      <4>1. to \in Creations /\ InHand(to)
        BY <1>1, <2>1, <2>3 DEF Creations, Evaluations, InHand
      <4>2. Become(w, to)
        BY <2>2, <3>1
      <4> HIDE DEF to
      <4> QED
        BY <4>1, <4>2 DEF Passes
    <3>2. CASE f[2] \notin Owing
      <4> DEFINE to == [pass[w] EXCEPT !.batch = @ \ {f}]
      <4>1. to \in Evaluations /\ to.batch \subseteq pass[w].batch
        BY <2>1 DEF Evaluations
      <4>2. InHand(to)
        BY <1>1, <2>1, <4>1 DEF Evaluations, InHand
      <4>3. Become(w, to)
        BY <2>2, <3>2
      <4> HIDE DEF to
      <4> QED
        BY <4>1, <4>2, <4>3 DEF Passes
    <3> QED
      BY <3>1, <3>2
  <2>7. PICK to \in Passes : Become(w, to) /\ InHand(to)
    BY <2>6
  <2>8. InHand(to)'
    BY <2>4, <2>7, InHandStays DEF Typed
  <2> QED
    BY <2>4, <2>5, <2>7, <2>8, TypedWith
<1>5. CASE CreateJob(w)
  <2>1. pass[w] \in Creations
    BY <1>1, <1>5, Kinds DEF CreateJob
  <2> DEFINE to == [kind |-> "evaluate", batch |-> pass[w].batch]
  <2>2. to \in Evaluations /\ InHand(to)
    BY <1>1, <2>1 DEF Evaluations, Creations, InHand
  <2>3. Become(w, to)
    BY <1>5 DEF CreateJob
  <2> HIDE DEF to
  <2>4. WorldTypes' /\ UsedTypes' /\ RowTypes' /\ Generations' /\ Grows
    BY <1>5 DEF CreateJob, Typed, world, WorldTypes, UsedTypes, RowTypes, Generations, Grows, Known
  <2>5. JobTypes'
    BY <1>5 DEF CreateJob, Typed, JobTypes
  <2>6. PICK x \in Passes : x = to
    BY <2>2 DEF Passes
  <2>7. InHand(x)'
    BY <2>2, <2>4, <2>6, InHandStays DEF Typed
  <2> QED
    BY <2>3, <2>4, <2>5, <2>6, <2>7, TypedWith
<1> QED
  BY <1>2, <1>3, <1>4, <1>5 DEF EvaluatePass

LEMMA FailTyped == ASSUME Typed, NEW w \in Workers, Fail(w) PROVE Typed'
<1>1. Idle \in Passes /\ InHand(Idle)
  BY DEF Idle, Passes, InHand
<1> QED
  BY <1>1, TypedThin DEF Fail

LEMMA TypedInit == ASSUME Init PROVE Typed
<1>1. WorldTypes /\ RowTypes /\ JobTypes /\ UsedTypes
  BY LibraryAssumption DEF Init, WorldTypes, RowTypes, JobTypes, UsedTypes, Versions, Facts, Rows
<1>2. PassTypes /\ \A w \in Workers : InHand(pass[w])
  BY DEF Init, PassTypes, Passes, Idle, InHand
<1>3. Generations
  BY DEF Init, Generations, Known
<1> QED
  BY <1>1, <1>2, <1>3 DEF Typed

LEMMA TypedStays == ASSUME Typed, [Next]_vars PROVE Typed'
<1>1. CASE UNCHANGED vars
  BY <1>1 DEF vars, Typed, WorldTypes, RowTypes, JobTypes, UsedTypes, PassTypes, Generations, InHand, Known
<1> QED
  BY <1>1, WorldTyped, ScanTyped, ProbeTyped, EvaluateTyped, FailTyped DEF Next

LEMMA TypedAlways == Spec => []Typed
<1>1. Init => Typed
  BY TypedInit
<1>2. Typed /\ [Next]_vars => Typed'
  BY TypedStays
<1> QED
  BY <1>1, <1>2, PTL DEF Spec

(* Every variable of the library's tables and passes keeps its type, with   *)
(* any number of processes running passes.                                  *)
THEOREM TypeCorrect == Spec => []TypeOK
<1>1. ASSUME Typed PROVE TypeOK
  <2>1. disk \in [Paths -> 0 .. MaxVersion] /\ mounted \in BOOLEAN /\ open \subseteq jobs
    BY <1>1 DEF Typed, WorldTypes, JobTypes, Facts
  <2>2. ASSUME NEW p \in Paths, Known(p)
        PROVE  /\ row[p].state \in {"Discovered", "Probed", "ProbeFailed", "Evaluated", "Missing"}
               /\ row[p].stat \in 1 .. MaxVersion /\ row[p].gen \in 1 .. runs
               /\ {row[p].facts, row[p].decidedOn} \subseteq 0 .. MaxVersion /\ row[p].decided \in BOOLEAN
    <3>1. row[p] \in FileRows /\ row[p].gen \in 1 .. runs
      BY <1>1, <2>2, KnownRows DEF Typed, Generations
    <3>2. row[p].decided \in BOOLEAN
      BY <3>1, Zenon DEF FileRows
    <3> QED
      BY <3>1, <3>2 DEF FileRows, Versions, Facts
  <2>3. ASSUME NEW w \in Workers
        PROVE  pass[w].kind \in {"idle", "scan", "sweep", "close", "probe", "evaluate", "create"}
    BY <1>1, Kinds DEF Typed, PassTypes
  <2> QED
    BY <2>1, <2>2, <2>3, Zenon DEF TypeOK
<1> QED
  BY <1>1, TypedAlways, PTL

----------------------------------------------------------------------------
(* What the rows and a pass in progress say of the files, with one process *)
(* running passes.                                                         *)

OneWorker == \A v, w \in Workers : v = w

(* A version p has had: what comes after it at p, and what is there now if  *)
(* anything is, is no older.                                                *)
Had(p, v) == v <= used.version /\ (disk[p] # 0 => v <= disk[p])

Usable(p) == row[p].state \in {"Probed", "Evaluated"}

RightRow(p) ==
  Known(p) =>
    /\ Had(p, row[p].stat) /\ Had(p, row[p].facts) /\ Had(p, row[p].decidedOn)
    /\ Usable(p) => row[p].stat <= row[p].facts
    /\ row[p].decided => row[p].stat <= row[p].decidedOn

RightPass(x) ==
  /\ x.kind = "scan" => \A s \in x.pending : Had(s[1], s[2])
  /\ x.kind = "probe" =>
       \A r \in x.read : Had(r[1], r[2]) /\ (r[2] # 0 => row[r[1]].stat <= r[2])
  /\ x.kind \in {"evaluate", "create"} =>
       \A f \in x.batch : Usable(f[1]) /\ Had(f[1], f[2]) /\ row[f[1]].stat <= f[2]

Numbered == \A p \in Paths : disk[p] <= used.version

Right == /\ Numbered
         /\ \A p \in Paths : RightRow(p)
         /\ \A w \in Workers : RightPass(pass[w])

Ages == \A p \in Paths : \A v \in Nat : Had(p, v) => Had(p, v)'
Still == disk' = disk /\ used'.version = used.version

LEMMA NaturalVersions == Versions \subseteq Nat /\ Facts \subseteq Nat
BY LibraryAssumption DEF Versions, Facts

LEMMA StillAges == ASSUME Still PROVE \A p, v : Had(p, v)' <=> Had(p, v)
BY DEF Still, Had

LEMMA StillTrouble ==
  ASSUME Typed, UNCHANGED world, UNCHANGED used \/ Trouble PROVE Still
BY TroubleTyped DEF Typed, Still, world

LEMMA RightAges ==
  ASSUME Typed, Right, Ages, Numbered', row' = row, pass' = pass
  PROVE  Right'
<1>1. ASSUME NEW p \in Paths PROVE RightRow(p)'
  <2>1. CASE ~Known(p)
    BY <2>1 DEF RightRow, Known
  <2>2. CASE Known(p)
    <3>1. row[p] \in FileRows /\ RightRow(p)
      BY <2>2, KnownRows DEF Typed, Right
    <3>2. Had(p, row[p].stat) /\ Had(p, row[p].facts) /\ Had(p, row[p].decidedOn)
      BY <2>2, <3>1 DEF RightRow
    <3>3. PICK a \in Nat, b \in Nat, c \in Nat : a = row[p].stat /\ b = row[p].facts /\ c = row[p].decidedOn
      BY <3>1, NaturalVersions DEF FileRows
    <3>4. Had(p, a)' /\ Had(p, b)' /\ Had(p, c)'
      BY <3>2, <3>3 DEF Ages
    <3>5. Had(p, row[p].stat)' /\ Had(p, row[p].facts)' /\ Had(p, row[p].decidedOn)'
      BY <3>3, <3>4 DEF Had
    <3>6. Usable(p)' => row'[p].stat <= row'[p].facts
      BY <2>2, <3>1 DEF RightRow, Usable
    <3>7. row'[p].decided => row'[p].stat <= row'[p].decidedOn
      BY <2>2, <3>1, Zenon DEF RightRow
    <3> QED
      BY <3>5, <3>6, <3>7, Zenon DEF RightRow
  <2> QED
    BY <2>1, <2>2
<1>2. ASSUME NEW w \in Workers PROVE RightPass(pass[w])'
  <2>1. PICK x \in Passes : x = pass[w]
    BY DEF Typed, PassTypes
  <2>2. RightPass(x)
    BY <2>1 DEF Right
  <2>3. ASSUME x.kind = "scan", NEW s \in x.pending PROVE Had(s[1], s[2])'
    <3>1. s[1] \in Paths /\ s[2] \in Nat
      BY <2>3, Kinds, NaturalVersions DEF Scans
    <3> QED
      BY <2>2, <2>3, <3>1 DEF RightPass, Ages
  <2>4. ASSUME x.kind = "probe", NEW r \in x.read
        PROVE  Had(r[1], r[2])' /\ (r[2] # 0 => row'[r[1]].stat <= r[2])
    <3>1. r[1] \in Paths /\ r[2] \in Nat
      BY <2>4, Kinds, NaturalVersions DEF Probes
    <3> QED
      BY <2>2, <2>4, <3>1 DEF RightPass, Ages
  <2>5. ASSUME x.kind \in {"evaluate", "create"}, NEW f \in x.batch
        PROVE  Usable(f[1])' /\ Had(f[1], f[2])' /\ row'[f[1]].stat <= f[2]
    <3>1. f[1] \in Paths /\ f[2] \in Nat
      BY <2>5, Kinds, NaturalVersions DEF Evaluations, Creations
    <3> QED
      BY <2>2, <2>5, <3>1 DEF RightPass, Ages, Usable
  <2>6. RightPass(x)'
    BY <2>3, <2>4, <2>5, Zenon DEF RightPass
  <2> QED
    BY <2>1, <2>6
<1> QED
  BY <1>1, <1>2 DEF Right

LEMMA RightWith ==
  ASSUME OneWorker, Typed, Right, Still, \A p \in Paths : RightRow(p)',
         NEW w \in Workers, NEW to \in Passes, Become(w, to), RightPass(to)'
  PROVE  Right'
<1>1. \A v \in Workers : pass'[v] = to
  BY Becoming DEF OneWorker, Typed
<1> QED
  BY <1>1 DEF Right, Numbered, Still

LEMMA RightThin ==
  ASSUME OneWorker, Typed, Right, Still, row' = row,
         NEW w \in Workers, NEW to \in Passes, Become(w, to), RightPass(to)
  PROVE  Right'
<1>1. \A p \in Paths : RightRow(p)'
  BY StillAges, Zenon DEF Right, RightRow, Usable, Known
<1>2. RightPass(to)'
  BY StillAges DEF RightPass, Usable
<1> QED
  BY <1>1, <1>2, RightWith

(* A row that another is written beside.                                    *)
LEMMA RightBeside ==
  ASSUME Right, Still, NEW p \in Paths, row'[p] = row[p] PROVE RightRow(p)'
BY StillAges, Zenon DEF Right, RightRow, Usable, Known

LEMMA WorldRight == ASSUME Typed, Right, World PROVE Right'
<1>1. CASE \E p \in Paths : Write(p)
  <2>1. PICK p \in Paths : Write(p)
    BY <1>1
  <2>2. Ages
    BY <2>1, LibraryAssumption DEF Ages, Had, Write, Typed, WorldTypes, UsedTypes, Versions
  <2>3. Numbered'
    BY <2>1, LibraryAssumption DEF Right, Numbered, Write, Typed, WorldTypes, UsedTypes, Facts, Versions
  <2> QED
    BY <2>1, <2>2, <2>3, RightAges DEF Write, table
<1>2. CASE \E p \in Paths : Delete(p)
  <2>1. PICK p \in Paths : Delete(p)
    BY <1>2
  <2>2. Ages
    BY <2>1 DEF Ages, Had, Delete, Typed, WorldTypes
  <2>3. Numbered'
    BY <2>1, LibraryAssumption DEF Versions, Facts, Right, Numbered, Delete, Typed, WorldTypes, UsedTypes
  <2> QED
    BY <2>1, <2>2, <2>3, RightAges DEF Delete, table
<1>3. CASE Mount
  <2>1. Still
    BY <1>3, TroubleTyped DEF Still, Mount, Typed
  <2>2. Ages
    BY <2>1, StillAges DEF Ages
  <2> QED
    BY <1>3, <2>1, <2>2, RightAges DEF Mount, table, Right, Numbered, Still
<1>4. CASE Reset
  <2>1. Still
    BY <1>4, StillTrouble DEF Reset
  <2>2. ASSUME NEW p \in Paths PROVE RightRow(p)'
    <3>1. CASE ~Known(p)
      BY <1>4, <3>1, ResetWrites, Zenon DEF RightRow
    <3>2. CASE Known(p)
      <4>1. PICK r \in FileRows, x \in FileRows :
              /\ r = row[p] /\ x = row'[p]
              /\ x.state = r.state /\ x.stat = r.stat /\ x.gen = r.gen
              /\ x.facts = r.facts /\ x.decidedOn = r.decidedOn /\ ~x.decided
        BY <1>4, <3>2, ResetWrites, Zenon
      <4>2. Had(p, r.stat) /\ Had(p, r.facts) /\ Had(p, r.decidedOn)
        BY <3>2, <4>1 DEF Right, RightRow
      <4>3. Had(p, x.stat)' /\ Had(p, x.facts)' /\ Had(p, x.decidedOn)'
        BY <2>1, <4>1, <4>2, StillAges
      <4>4. Usable(p)' => x.stat <= x.facts
        BY <3>2, <4>1 DEF Right, RightRow, Usable
      <4> QED
        BY <4>1, <4>3, <4>4, Zenon DEF RightRow
    <3> QED
      BY <3>1, <3>2
  <2>3. ASSUME NEW w \in Workers PROVE RightPass(pass[w])'
    <3>1. PICK x \in Passes : x = pass[w]
      BY DEF Typed, PassTypes
    <3>2. RightPass(x) /\ InHand(x)
      BY <3>1 DEF Right, Typed
    <3>3. x.kind = "scan" => \A s \in x.pending : Had(s[1], s[2])'
      BY <2>1, <3>2, StillAges DEF RightPass
    <3>4. ASSUME x.kind = "probe", NEW r \in x.read
          PROVE  Had(r[1], r[2])' /\ (r[2] # 0 => row'[r[1]].stat <= r[2])
      <4>1. r[1] \in Paths /\ Known(r[1])
        BY <3>2, <3>4, Kinds DEF InHand, Probes
      <4>2. row'[r[1]].stat = row[r[1]].stat
        BY <1>4, <4>1, ResetWrites
      <4> QED
        BY <2>1, <3>2, <3>4, <4>2, StillAges DEF RightPass
    <3>5. ASSUME x.kind \in {"evaluate", "create"}, NEW f \in x.batch
          PROVE  Usable(f[1])' /\ Had(f[1], f[2])' /\ row'[f[1]].stat <= f[2]
      <4>1. f[1] \in Paths /\ Known(f[1])
        BY <3>2, <3>5, Kinds DEF InHand, Evaluations, Creations
      <4>2. row'[f[1]].stat = row[f[1]].stat /\ row'[f[1]].state = row[f[1]].state
        BY <1>4, <4>1, ResetWrites
      <4> QED
        BY <2>1, <3>2, <3>5, <4>2, StillAges DEF RightPass, Usable
    <3>6. RightPass(x)'
      BY <3>3, <3>4, <3>5, Zenon DEF RightPass
    <3> QED
      BY <1>4, <3>1, <3>6 DEF Reset
  <2> QED
    BY <2>1, <2>2, <2>3 DEF Right, Numbered, Still
<1>5. CASE \E j \in open : EndJob(j)
  <2>1. Still /\ row' = row /\ pass' = pass
    BY <1>5 DEF EndJob, Still, world
  <2>2. Ages
    BY <2>1, StillAges DEF Ages
  <2> QED
    BY <2>1, <2>2, RightAges DEF Right, Numbered, Still
<1> QED
  BY <1>1, <1>2, <1>3, <1>4, <1>5 DEF World

LEMMA ScanRight == ASSUME OneWorker, Typed, Right, NEW w \in Workers, Scan(w) PROVE Right'
<1>1. pass[w] \in Passes /\ InHand(pass[w]) /\ RightPass(pass[w])
  BY DEF Typed, PassTypes, Right
<1>2. CASE BeginScan(w)
  <2>1. LiveCount \in Nat
    <3>1. IsFiniteSet({p \in Paths : Live(p)})
      BY LibraryAssumption, FS_Subset
    <3> QED
      BY <3>1, FS_CardinalityType DEF LiveCount
  <2> DEFINE to == [kind |-> "scan", gen |-> runs + 1, live |-> LiveCount, todo |-> Paths,
                    pending |-> {}, seen |-> {}]
  <2>2. to \in Scans /\ RightPass(to)
    BY <2>1 DEF Scans, Typed, RowTypes, RightPass
  <2>3. Become(w, to)
    BY <1>2, Zenon DEF BeginScan
  <2> HIDE DEF to
  <2>4. row' = row /\ Still
    BY <1>2 DEF BeginScan, Still, world
  <2> QED
    BY <2>2, <2>3, <2>4, RightThin DEF Passes
<1>3. ASSUME NEW p \in Paths, Visit(w, p) PROVE Right'
  <2>1. pass[w] \in Scans /\ pass[w].kind = "scan"
    BY <1>1, <1>3, Kinds DEF Visit
  <2>2. disk[p] \in Versions /\ Had(p, disk[p])
    BY <1>3 DEF Visit, Visible, Typed, WorldTypes, UsedTypes, Facts, Versions, Had, Right, Numbered
  <2>3. PICK s \in Paths \X Versions : s = <<p, disk[p]>>
    BY <2>2
  <2> DEFINE to == [pass[w] EXCEPT !.todo = @ \ {p}, !.pending = @ \cup {s}, !.seen = @ \cup {p}]
  <2>4. to \in Scans /\ to.pending = pass[w].pending \cup {s}
    BY <2>1 DEF Scans
  <2>5. RightPass(to)
    BY <1>1, <2>1, <2>2, <2>4, <2>3 DEF RightPass, Scans
  <2>6. Become(w, to)
    BY <1>3, <2>3, Zenon DEF Visit
  <2> HIDE DEF to
  <2>7. row' = row /\ Still
    BY <1>3 DEF Visit, Still, world, table
  <2> QED
    BY <2>4, <2>5, <2>6, <2>7, RightThin DEF Passes
<1>4. ASSUME NEW p \in Paths, PassOver(w, p) PROVE Right'
  <2>1. pass[w] \in Scans /\ pass[w].kind = "scan"
    BY <1>1, <1>4, Kinds DEF PassOver
  <2> DEFINE to == [pass[w] EXCEPT !.todo = @ \ {p}]
  <2>2. to \in Scans /\ to.pending = pass[w].pending
    BY <2>1 DEF Scans
  <2>3. RightPass(to)
    BY <1>1, <2>1, <2>2 DEF RightPass, Scans
  <2>4. Become(w, to)
    BY <1>4, Zenon DEF PassOver
  <2> HIDE DEF to
  <2>5. row' = row /\ Still
    BY <1>4 DEF PassOver, Still, world, table
  <2> QED
    BY <2>2, <2>3, <2>4, <2>5, RightThin DEF Passes
<1>5. CASE Record(w)
  <2>1. pass[w] \in Scans /\ pass[w].gen \in 1 .. runs /\ pass[w].kind = "scan"
    BY <1>1, <1>5, Kinds DEF Record, InHand
  <2>2. PICK s \in pass[w].pending :
          /\ Upsert(s[1], s[2], pass[w].gen)
          /\ Become(w, [pass[w] EXCEPT !.pending = @ \ {s}])
    BY <1>5 DEF Record
  <2>3. PICK p \in Paths, v \in Versions, g \in 1 .. runs : p = s[1] /\ v = s[2] /\ g = pass[w].gen
    BY <2>1 DEF Scans
  <2>4. Had(p, v)
    BY <1>1, <2>1, <2>3 DEF RightPass
  <2>5. Upsert(p, v, g) /\ runs' = runs
    BY <1>5, <2>2, <2>3 DEF Record
  <2>6. Still
    BY <1>5 DEF Record, Still, world
  <2>7. ASSUME NEW q \in Paths PROVE RightRow(q)'
    <3>1. CASE q # p
      BY <2>5, <2>6, <3>1, UpsertWrites, RightBeside
    <3>2. CASE Known(p) /\ q = p
      <4>1. PICK r \in FileRows, x \in FileRows :
              /\ r = row[p] /\ x = row'[p]
              /\ x.stat = v /\ x.facts = r.facts /\ x.decidedOn = r.decidedOn
              /\ r.stat # v \/ r.state = "Missing" => x.state = "Discovered"
              /\ r.stat = v /\ r.state # "Missing" => x.state = r.state
              /\ x.decided => r.decided /\ r.stat = v
        <5>1. /\ row[p] \in FileRows /\ row'[p] \in FileRows
              /\ row'[p].stat = v /\ row'[p].facts = row[p].facts
              /\ row'[p].decidedOn = row[p].decidedOn
              /\ row[p].stat # v \/ row[p].state = "Missing" => row'[p].state = "Discovered"
              /\ row[p].stat = v /\ row[p].state # "Missing" => row'[p].state = row[p].state
              /\ row'[p].decided => row[p].decided /\ row[p].stat = v
          BY <2>5, <3>2, UpsertWrites
        <5> QED
          BY <5>1, Zenon
      <4>2. Had(p, x.stat)' /\ Had(p, x.facts)' /\ Had(p, x.decidedOn)'
        BY <2>4, <2>6, <3>2, <4>1, StillAges DEF Right, RightRow
      <4>3. Usable(p)' => x.stat <= x.facts
        BY <3>2, <4>1 DEF Right, RightRow, Usable
      <4>4. x.decided => x.stat <= x.decidedOn
        <5>1. r.decided => r.stat <= r.decidedOn
          BY <3>2, <4>1, Zenon DEF Right, RightRow
        <5> QED
          BY <4>1, <5>1, Zenon
      <4> QED
        BY <3>2, <4>1, <4>2, <4>3, <4>4, Zenon DEF RightRow
    <3>3. CASE ~Known(p) /\ q = p
      <4>1. row'[p] = Discovered(v, g)
        BY <2>5, <3>3, UpsertWrites
      <4>2. g \in Nat
        BY DEF Typed, RowTypes
      <4>3. /\ row'[p].state = "Discovered" /\ row'[p].stat = v
            /\ row'[p].facts = 0 /\ row'[p].decidedOn = 0 /\ ~row'[p].decided
        <5>1. /\ Discovered(v, g).state = "Discovered" /\ Discovered(v, g).stat = v
              /\ Discovered(v, g).facts = 0 /\ Discovered(v, g).decidedOn = 0
              /\ ~Discovered(v, g).decided
          BY <4>2, DiscoveriesAreRows
        <5> QED
          BY <4>1, <5>1, Zenon
      <4>4. Had(p, 0)
        BY LibraryAssumption DEF Had, Typed, WorldTypes, UsedTypes, Versions, Facts
      <4>5. Had(p, 0)' /\ Had(p, v)'
        BY <2>4, <2>6, <4>4, StillAges
      <4>6. Had(p, row[p].stat)' /\ Had(p, row[p].facts)' /\ Had(p, row[p].decidedOn)' /\ ~Usable(p)'
        BY <4>3, <4>5 DEF Had, Usable
      <4> QED
        BY <3>3, <4>3, <4>6, Zenon DEF RightRow
    <3> QED
      BY <3>1, <3>2, <3>3
  <2> DEFINE to == [pass[w] EXCEPT !.pending = @ \ {s}]
  <2>8. to \in Scans /\ to.pending \subseteq pass[w].pending
    BY <2>1 DEF Scans
  <2>9. Become(w, to)
    BY <2>2
  <2> HIDE DEF to
  <2>10. PICK x \in Scans : x = to
    BY <2>8
  <2>11. RightPass(x)'
    BY <1>1, <2>1, <2>6, <2>8, <2>10, StillAges DEF RightPass, Scans
  <2> QED
    BY <2>6, <2>7, <2>9, <2>10, <2>11, RightWith DEF Passes
<1>6. CASE Refuse(w) \/ CloseRun(w)
  <2>1. Idle \in Passes /\ RightPass(Idle)
    BY DEF Idle, Passes, RightPass
  <2>2. row' = row /\ Still /\ Become(w, Idle)
    BY <1>6 DEF Refuse, CloseRun, Still, world, table
  <2> QED
    BY <2>1, <2>2, RightThin
<1>7. CASE Count(w)
  <2>1. pass[w] \in Scans
    BY <1>1, <1>7, Kinds DEF Count, Walked
  <2> DEFINE to == [kind |-> IF NotSeenIn(pass[w].gen) = {} THEN "close" ELSE "sweep",
                    gen |-> pass[w].gen, seen |-> pass[w].seen]
  <2>2. to \in Sweeps
    BY <2>1 DEF Sweeps, Scans
  <2>3. RightPass(to)
    BY <2>2 DEF RightPass, Sweeps
  <2>4. Become(w, to)
    BY <1>7, Zenon DEF Count
  <2> HIDE DEF to
  <2>5. row' = row /\ Still
    BY <1>7 DEF Count, Still, world, table
  <2> QED
    BY <2>2, <2>3, <2>4, <2>5, RightThin DEF Passes
<1>8. CASE Sweep(w)
  <2>1. pass[w] \in Sweeps
    BY <1>1, <1>8, Kinds DEF Sweep
  <2>2. PICK g \in Nat : g = pass[w].gen
    BY <2>1 DEF Sweeps
  <2>3. MarkMissing(g) /\ runs' = runs /\ Still
    BY <1>8, <2>2 DEF Sweep, Still, world
  <2>4. ASSUME NEW p \in Paths PROVE RightRow(p)'
    <3>1. CASE p \notin NotSeenIn(g)
      BY <2>3, <3>1, MarkWrites, RightBeside
    <3>2. CASE p \in NotSeenIn(g)
      <4>1. PICK r \in FileRows, x \in FileRows :
              /\ r = row[p] /\ x = row'[p] /\ Known(p)
              /\ x.state = "Missing" /\ x.stat = r.stat
              /\ x.facts = r.facts /\ x.decidedOn = r.decidedOn /\ x.decided = r.decided
        BY <2>3, <3>2, MarkWrites, Zenon
      <4>2. Had(p, x.stat)' /\ Had(p, x.facts)' /\ Had(p, x.decidedOn)'
        BY <2>3, <4>1, StillAges DEF Right, RightRow
      <4>3. x.decided => x.stat <= x.decidedOn
        BY <4>1, Zenon DEF Right, RightRow
      <4>4. ~Usable(p)'
        BY <4>1 DEF Usable
      <4> QED
        BY <4>1, <4>2, <4>3, <4>4, Zenon DEF RightRow
    <3> QED
      BY <3>1, <3>2
  <2> DEFINE to == [pass[w] EXCEPT !.kind = "close"]
  <2>5. to \in Sweeps /\ to.kind = "close"
    BY <2>1 DEF Sweeps
  <2>6. Become(w, to)
    BY <1>8 DEF Sweep
  <2> HIDE DEF to
  <2>7. PICK x \in Sweeps : x = to
    BY <2>5
  <2>8. RightPass(x)'
    BY <2>5, <2>7 DEF RightPass
  <2> QED
    BY <2>3, <2>4, <2>6, <2>7, <2>8, RightWith DEF Passes
<1> QED
  BY <1>2, <1>3, <1>4, <1>5, <1>6, <1>7, <1>8 DEF Scan

LEMMA ProbeRight == ASSUME OneWorker, Typed, Right, NEW w \in Workers, ProbePass(w) PROVE Right'
<1>1. pass[w] \in Passes /\ InHand(pass[w]) /\ RightPass(pass[w])
  BY DEF Typed, PassTypes, Right
<1>2. CASE BeginProbe(w)
  <2> DEFINE to == [kind |-> "probe", batch |-> NeedsProbe, read |-> {}]
  <2>1. to \in Probes
    BY DEF Probes, NeedsProbe
  <2>2. RightPass(to)
    BY DEF RightPass
  <2>3. Become(w, to)
    BY <1>2 DEF BeginProbe
  <2> HIDE DEF to
  <2>4. row' = row /\ Still
    BY <1>2 DEF BeginProbe, Still, world, table
  <2> QED
    BY <2>1, <2>2, <2>3, <2>4, RightThin DEF Passes
<1>3. CASE EndProbe(w)
  <2>1. Idle \in Passes /\ RightPass(Idle)
    BY DEF Idle, Passes, RightPass
  <2>2. row' = row /\ Still /\ Become(w, Idle)
    BY <1>3 DEF EndProbe, Still, world, table
  <2> QED
    BY <2>1, <2>2, RightThin
<1>4. ASSUME NEW p \in Paths, RunFfprobe(w, p) PROVE Right'
  <2>1. pass[w] \in Probes /\ p \in pass[w].batch /\ pass[w].kind = "probe"
    BY <1>1, <1>4, Kinds DEF RunFfprobe
  <2>2. PICK facts \in {0} \cup (IF Visible(p) THEN {disk[p]} ELSE {}) :
          Become(w, [pass[w] EXCEPT !.batch = @ \ {p}, !.read = @ \cup {<<p, facts>>}])
    BY <1>4 DEF RunFfprobe
  <2>3. facts \in Facts
    BY <2>2, LibraryAssumption DEF Typed, WorldTypes, Facts
  <2>4. Had(p, facts)
    BY <2>2 DEF Had, Typed, WorldTypes, UsedTypes, Versions, Facts, Right, Numbered
  <2>5. facts # 0 => row[p].stat <= facts
    <3>1. Known(p)
      BY <1>1, <2>1 DEF InHand
    <3>2. Had(p, row[p].stat)
      BY <3>1 DEF Right, RightRow
    <3> QED
      BY <2>2, <3>2 DEF Had, Visible
  <2>6. PICK s \in Paths \X Facts : s = <<p, facts>>
    BY <2>3
  <2> DEFINE to == [pass[w] EXCEPT !.batch = @ \ {p}, !.read = @ \cup {s}]
  <2>7. to \in Probes /\ to.read = pass[w].read \cup {s}
    BY <2>1 DEF Probes
  <2>8. RightPass(to)
    BY <1>1, <2>1, <2>4, <2>5, <2>6, <2>7 DEF RightPass, Probes
  <2>9. Become(w, to)
    BY <2>2, <2>6
  <2> HIDE DEF to
  <2>10. row' = row /\ Still
    BY <1>4 DEF RunFfprobe, Still, world, table
  <2> QED
    BY <2>7, <2>8, <2>9, <2>10, RightThin DEF Passes
<1>5. ASSUME NEW r \in pass[w].read, pass[w].kind = "probe",
             Become(w, [pass[w] EXCEPT !.read = @ \ {r}])
      PROVE  \E to \in Probes : Become(w, to) /\ to.read = pass[w].read \ {r}
  <2>1. pass[w] \in Probes
    BY <1>1, <1>5, Kinds
  <2> DEFINE to == [pass[w] EXCEPT !.read = @ \ {r}]
  <2>2. to \in Probes /\ to.read = pass[w].read \ {r}
    BY <2>1 DEF Probes
  <2>3. Become(w, to)
    BY <1>5
  <2> HIDE DEF to
  <2> QED
    BY <2>2, <2>3
<1>6. CASE StoreProbe(w)
  <2>1. pass[w] \in Probes /\ pass[w].kind = "probe"
    BY <1>1, <1>6, Kinds DEF StoreProbe
  <2>2. PICK s \in pass[w].read :
          /\ IF s[2] = 0 THEN RecordProbeFailure(s[1]) ELSE RecordProbe(s[1], s[2])
          /\ Become(w, [pass[w] EXCEPT !.read = @ \ {s}])
    BY <1>6 DEF StoreProbe
  <2>3. PICK to \in Probes : Become(w, to) /\ to.read = pass[w].read \ {s}
    BY <1>5, <2>1, <2>2
  <2>4. PICK p \in Paths, f \in Facts : p = s[1] /\ f = s[2] /\ Known(p)
    BY <1>1, <2>1 DEF InHand, Probes
  <2>5. Had(p, f) /\ (f # 0 => row[p].stat <= f)
    BY <1>1, <2>1, <2>4 DEF RightPass
  <2>6. Still /\ runs' = runs
    BY <1>6 DEF StoreProbe, Still, world
  <2>7. PICK r \in FileRows, x \in FileRows :
          /\ r = row[p] /\ x = row'[p]
          /\ x.stat = r.stat /\ x.decidedOn = r.decidedOn /\ x.decided = r.decided
          /\ \/ f = 0 /\ x.state = "ProbeFailed" /\ x.facts = r.facts
             \/ f # 0 /\ x.state = "Probed" /\ x.facts = f
    <3>1. CASE f = 0
      BY <2>2, <2>4, <2>6, <3>1, FailureWrites
    <3>2. CASE f # 0
      BY <2>2, <2>4, <2>6, <3>2, ProbeWrites
    <3> QED
      BY <3>1, <3>2
  <2>8. \A q \in Paths : q # p => row'[q] = row[q]
    <3>1. CASE f = 0
      BY <2>2, <2>4, <2>6, <3>1, FailureWrites
    <3>2. CASE f # 0
      BY <2>2, <2>4, <2>6, <3>2, ProbeWrites
    <3> QED
      BY <3>1, <3>2
  <2>9. ASSUME NEW q \in Paths PROVE RightRow(q)'
    <3>1. CASE q # p
      BY <2>6, <2>8, <3>1, RightBeside
    <3>2. CASE q = p
      <4>1. Had(p, x.stat)' /\ Had(p, x.facts)' /\ Had(p, x.decidedOn)'
        BY <2>4, <2>5, <2>6, <2>7, StillAges DEF Right, RightRow
      <4>2. Usable(p)' => x.stat <= x.facts
        BY <2>5, <2>7 DEF Usable
      <4>3. x.decided => x.stat <= x.decidedOn
        BY <2>4, <2>7, Zenon DEF Right, RightRow
      <4> QED
        BY <2>7, <3>2, <4>1, <4>2, <4>3, Zenon DEF RightRow
    <3> QED
      BY <3>1, <3>2
  <2>10. RightPass(to)'
    <3>1. ASSUME NEW t \in to.read PROVE Had(t[1], t[2])' /\ (t[2] # 0 => row'[t[1]].stat <= t[2])
      <4>1. t \in pass[w].read /\ t[1] \in Paths
        BY <2>1, <2>3 DEF Probes
      <4>2. row'[t[1]].stat = row[t[1]].stat
        BY <2>7, <2>8, <4>1
      <4>3. Had(t[1], t[2]) /\ (t[2] # 0 => row[t[1]].stat <= t[2])
        BY <1>1, <2>1, <4>1 DEF RightPass
      <4> QED
        BY <2>6, <4>2, <4>3, StillAges
    <3>2. to.kind = "probe"
      BY DEF Probes
    <3> QED
      BY <3>1, <3>2 DEF RightPass
  <2> QED
    BY <2>3, <2>6, <2>9, <2>10, RightWith DEF Passes
<1>7. CASE StoreProbeFails(w)
  <2>1. pass[w] \in Probes /\ pass[w].kind = "probe"
    BY <1>1, <1>7, Kinds DEF StoreProbeFails
  <2>2. PICK r \in pass[w].read : Become(w, [pass[w] EXCEPT !.read = @ \ {r}])
    BY <1>7 DEF StoreProbeFails
  <2>3. PICK to \in Probes : Become(w, to) /\ to.read = pass[w].read \ {r}
    BY <1>5, <2>1, <2>2
  <2>4. RightPass(to)
    BY <1>1, <2>1, <2>3 DEF RightPass, Probes
  <2>5. row' = row /\ Still
    BY <1>7, StillTrouble DEF StoreProbeFails, table
  <2> QED
    BY <2>3, <2>4, <2>5, RightThin DEF Passes
<1> QED
  BY <1>2, <1>3, <1>4, <1>6, <1>7 DEF ProbePass

LEMMA EvaluateRight == ASSUME OneWorker, Typed, Right, NEW w \in Workers, EvaluatePass(w) PROVE Right'
<1>1. pass[w] \in Passes /\ InHand(pass[w]) /\ RightPass(pass[w])
  BY DEF Typed, PassTypes, Right
<1>2. CASE BeginEvaluate(w)
  <2> DEFINE to == [kind |-> "evaluate", batch |-> {<<p, row[p].facts>> : p \in NeedsEval}]
  <2>1. \A p \in NeedsEval : p \in Paths /\ Known(p) /\ row[p].facts \in Facts /\ Usable(p)
    BY KnownRows DEF NeedsEval, Typed, FileRows, Usable
  <2>2. to \in Evaluations
    BY <2>1 DEF Evaluations
  <2>3. \A p \in NeedsEval : Had(p, row[p].facts) /\ row[p].stat <= row[p].facts
    BY <2>1 DEF Right, RightRow
  <2>4. RightPass(to)
    BY <2>1, <2>3 DEF RightPass
  <2>5. Become(w, to)
    BY <1>2 DEF BeginEvaluate
  <2> HIDE DEF to
  <2>6. row' = row /\ Still
    BY <1>2 DEF BeginEvaluate, Still, world, table
  <2> QED
    BY <2>2, <2>4, <2>5, <2>6, RightThin DEF Passes
<1>3. CASE EndEvaluate(w) \/ CreateRefused(w)
  <2>1. Idle \in Passes /\ RightPass(Idle)
    BY DEF Idle, Passes, RightPass
  <2>2. row' = row /\ Still /\ Become(w, Idle)
    BY <1>3 DEF EndEvaluate, CreateRefused, Still, world, table
  <2> QED
    BY <2>1, <2>2, RightThin
<1>4. CASE Decide(w)
  <2>1. pass[w] \in Evaluations /\ pass[w].kind = "evaluate"
    BY <1>1, <1>4, Kinds DEF Decide
  <2>2. PICK f \in pass[w].batch :
          /\ RecordDecision(f[1], f[2])
          /\ Become(w, IF f[2] \in Owing
                       THEN [kind |-> "create", batch |-> pass[w].batch \ {f}, id |-> f]
                       ELSE [pass[w] EXCEPT !.batch = @ \ {f}])
    BY <1>4 DEF Decide
  <2>3. f \in Paths \X Facts
    BY <2>1 DEF Evaluations
  <2>4. PICK p \in Paths, n \in Facts : p = f[1] /\ n = f[2] /\ Known(p)
    BY <1>1, <2>1, <2>3 DEF InHand
  <2>5. Usable(p) /\ Had(p, n) /\ row[p].stat <= n
    BY <1>1, <2>1, <2>4 DEF RightPass
  <2>6. Still /\ runs' = runs /\ RecordDecision(p, n)
    BY <1>4, <2>2, <2>4 DEF Decide, Still, world
  <2>7. PICK r \in FileRows, x \in FileRows :
          /\ r = row[p] /\ x = row'[p]
          /\ x.state = "Evaluated" /\ x.stat = r.stat /\ x.facts = r.facts /\ x.decidedOn = n
          /\ \A q \in Paths : q # p => row'[q] = row[q]
    <3>1. /\ row[p] \in FileRows /\ row'[p] \in FileRows
          /\ row'[p].state = "Evaluated" /\ row'[p].stat = row[p].stat
          /\ row'[p].facts = row[p].facts /\ row'[p].decidedOn = n
          /\ \A q \in Paths : q # p => row'[q] = row[q]
      BY <2>4, <2>6, DecisionWrites
    <3> QED
      BY <3>1
  <2>8. ASSUME NEW q \in Paths PROVE RightRow(q)'
    <3>1. CASE q # p
      BY <2>6, <2>7, <3>1, RightBeside
    <3>2. CASE q = p
      <4>1. Had(p, x.stat)' /\ Had(p, x.facts)' /\ Had(p, x.decidedOn)'
        BY <2>4, <2>5, <2>6, <2>7, StillAges DEF Right, RightRow
      <4>2. x.stat <= x.facts
        BY <2>4, <2>5, <2>7 DEF Right, RightRow
      <4>3. x.stat <= x.decidedOn
        BY <2>5, <2>7
      <4> QED
        BY <2>7, <3>2, <4>1, <4>2, <4>3, Zenon DEF RightRow
    <3> QED
      BY <3>1, <3>2
  <2>9. \E to \in Evaluations \cup Creations : Become(w, to) /\ to.batch \subseteq pass[w].batch
    <3>1. CASE f[2] \in Owing
      <4> DEFINE to == [kind |-> "create", batch |-> pass[w].batch \ {f}, id |-> f]
      <4>1. to \in Creations /\ to.batch \subseteq pass[w].batch
        BY <2>1, <2>3 DEF Creations, Evaluations
      <4>2. Become(w, to)
        BY <2>2, <3>1
      <4> HIDE DEF to
      <4> QED
        BY <4>1, <4>2
    <3>2. CASE f[2] \notin Owing
      <4> DEFINE to == [pass[w] EXCEPT !.batch = @ \ {f}]
      <4>1. to \in Evaluations /\ to.batch \subseteq pass[w].batch
        BY <2>1 DEF Evaluations
      <4>2. Become(w, to)
        BY <2>2, <3>2
      <4> HIDE DEF to
      <4> QED
        BY <4>1, <4>2
    <3> QED
      BY <3>1, <3>2
  <2>10. PICK to \in Evaluations \cup Creations : Become(w, to) /\ to.batch \subseteq pass[w].batch
    BY <2>9
  <2>11. RightPass(to)'
    <3>1. ASSUME NEW t \in to.batch PROVE Usable(t[1])' /\ Had(t[1], t[2])' /\ row'[t[1]].stat <= t[2]
      <4>1. t \in pass[w].batch /\ t[1] \in Paths
        BY <2>1, <2>10 DEF Evaluations
      <4>2. row'[t[1]].stat = row[t[1]].stat /\ (Usable(t[1]) => Usable(t[1])')
        BY <2>7, <4>1 DEF Usable
      <4>3. Usable(t[1]) /\ Had(t[1], t[2]) /\ row[t[1]].stat <= t[2]
        BY <1>1, <2>1, <4>1 DEF RightPass
      <4> QED
        BY <2>6, <4>2, <4>3, StillAges
    <3>2. to.kind \in {"evaluate", "create"}
      BY DEF Evaluations, Creations
    <3> QED
      BY <3>1, <3>2 DEF RightPass
  <2> QED
    BY <2>6, <2>8, <2>10, <2>11, RightWith DEF Passes
<1>5. CASE CreateJob(w)
  <2>1. pass[w] \in Creations
    BY <1>1, <1>5, Kinds DEF CreateJob
  <2> DEFINE to == [kind |-> "evaluate", batch |-> pass[w].batch]
  <2>2. to \in Evaluations /\ RightPass(to)
    BY <1>1, <2>1 DEF Evaluations, Creations, RightPass
  <2>3. Become(w, to)
    BY <1>5 DEF CreateJob
  <2> HIDE DEF to
  <2>4. row' = row /\ Still
    BY <1>5 DEF CreateJob, Still, world
  <2> QED
    BY <2>2, <2>3, <2>4, RightThin DEF Passes
<1> QED
  BY <1>2, <1>3, <1>4, <1>5 DEF EvaluatePass

LEMMA FailRight == ASSUME OneWorker, Typed, Right, NEW w \in Workers, Fail(w) PROVE Right'
<1>1. Idle \in Passes /\ RightPass(Idle)
  BY DEF Idle, Passes, RightPass
<1>2. row' = row /\ Still /\ Become(w, Idle)
  BY StillTrouble DEF Fail, table
<1> QED
  BY <1>1, <1>2, RightThin

LEMMA RightStays == ASSUME OneWorker, Typed, Right, [Next]_vars PROVE Right'
<1>1. CASE UNCHANGED vars
  <2>1. Still /\ row' = row /\ pass' = pass
    BY <1>1 DEF vars, Still
  <2>2. Ages
    BY <2>1, StillAges DEF Ages
  <2> QED
    BY <2>1, <2>2, RightAges DEF Right, Numbered, Still
<1> QED
  BY <1>1, WorldRight, ScanRight, ProbeRight, EvaluateRight, FailRight DEF Next

LEMMA RightInit == ASSUME Init PROVE Right
<1>1. \A p \in Paths : ~Known(p)
  BY DEF Init, Known
<1> QED
  BY <1>1 DEF Init, Right, Numbered, RightRow, RightPass, Idle

(* With one process running passes, facts that count as current are the    *)
(* file's, and a decision that counts as made was made on them.            *)
THEOREM FactsStayCurrent ==
  ASSUME OneWorker
  PROVE  Spec => []FactsAreCurrent
<1>1. Typed /\ Right => FactsAreCurrent
  <2> SUFFICES ASSUME Typed, Right, NEW p \in Paths,
                      row[p].state \in {"Probed", "Evaluated"}, row[p].stat = disk[p]
               PROVE  row[p].facts = disk[p] /\ (row[p].decided => row[p].decidedOn = disk[p])
    BY Zenon DEF FactsAreCurrent
  <2>1. Known(p)
    BY KnownRows DEF Typed
  <2>2. row[p] \in FileRows
    BY <2>1, KnownRows DEF Typed
  <2>3. PICK s \in Nat \ {0}, f \in Nat, d \in Nat : s = row[p].stat /\ f = row[p].facts /\ d = row[p].decidedOn
    BY <2>2, LibraryAssumption DEF FileRows, Versions, Facts
  <2>4. Had(p, f) /\ Had(p, d) /\ s <= f
    BY <2>1, <2>3 DEF Right, RightRow, Usable
  <2>5. f = s /\ d <= s
    BY <2>3, <2>4 DEF Had
  <2>6. row[p].decided => s <= d
    BY <2>1, <2>3, Zenon DEF Right, RightRow
  <2>7. s <= d => d = s
    BY <2>5
  <2> QED
    BY <2>3, <2>5, <2>6, <2>7, Zenon
<1>2. Init => Right
  BY RightInit
<1>3. Typed /\ Right /\ [Next]_vars => Right'
  BY RightStays
<1> QED
  BY <1>1, <1>2, <1>3, TypedAlways, PTL DEF Spec

----------------------------------------------------------------------------
(* What a scan has found, with one process running passes.                 *)

SeenIn(p, gen) == Known(p) /\ row[p].gen >= gen

Found(x) ==
  /\ x.kind = "scan" =>
       /\ \A p \in x.seen : SeenIn(p, x.gen) \/ \E s \in x.pending : s[1] = p
       /\ x.live <= LiveCount
       /\ x.live = 0 => NotSeenIn(x.gen) = {}
  /\ x.kind \in {"sweep", "close"} => \A p \in x.seen : SeenIn(p, x.gen)
  /\ x.kind = "sweep" => ~Implausible(Cardinality(NotSeenIn(x.gen)), LiveCount)

Finds == \A w \in Workers : Found(pass[w])

LivePaths == {p \in Paths : Live(p)}

LEMMA LiveFinite ==
  IsFiniteSet(LivePaths) /\ LiveCount = Cardinality(LivePaths) /\ LiveCount \in Nat
<1>1. IsFiniteSet(LivePaths)
  BY LibraryAssumption, FS_Subset DEF LivePaths
<1> QED
  BY <1>1, FS_CardinalityType DEF LiveCount, LivePaths

LEMMA LiveFiniteNext ==
  IsFiniteSet(LivePaths') /\ LiveCount' = Cardinality(LivePaths') /\ LiveCount' \in Nat
<1>1. IsFiniteSet(LivePaths')
  BY LibraryAssumption, FS_Subset DEF LivePaths
<1> QED
  BY <1>1, FS_CardinalityType DEF LiveCount, LivePaths

LEMMA NotSeenFinite ==
  ASSUME NEW g PROVE IsFiniteSet(NotSeenIn(g)) /\ Cardinality(NotSeenIn(g)) \in Nat
<1>1. IsFiniteSet(NotSeenIn(g))
  BY LibraryAssumption, FS_Subset DEF NotSeenIn
<1> QED
  BY <1>1, FS_CardinalityType

(* A library is no less plausible for more files in it.                    *)
LEMMA MoreIsPlausible ==
  ASSUME NEW m \in Nat, NEW a \in Nat, NEW b \in Nat, 0 < a, a <= b, ~Implausible(m, a)
  PROVE  ~Implausible(m, b)
<1>1. Percent \in Nat /\ Floor \in Nat
  BY GuardAssumption
<1>2. PICK d \in Nat : b = a + d
  BY SMT
<1>3. Percent * b = Percent * a + Percent * d /\ Percent * d >= 0
  BY <1>1, <1>2
<1>4. Percent * a \in Nat /\ Percent * b \in Nat
  BY <1>1
<1> QED
  BY <1>1, <1>3, <1>4 DEF Implausible

(* A step that does not touch what the scans compare.                      *)
Steady ==
  \A p \in Paths : (Known(p)' <=> Known(p)) /\ (Known(p) => row'[p].gen = row[p].gen /\ (Live(p)' <=> Live(p)))

LEMMA SteadyRow == ASSUME row' = row PROVE Steady
BY DEF Steady, Known, Live

LEMMA FoundSteady ==
  ASSUME Typed, Steady, NEW x \in Passes, Found(x) PROVE Found(x)'
<1>1. \A p \in Paths : \A g : SeenIn(p, g)' <=> SeenIn(p, g)
  BY DEF Steady, SeenIn
<1>2. \A p \in Paths : Live(p)' <=> Live(p)
  BY DEF Steady, Live
<1>3. LiveCount' = LiveCount
  BY <1>2 DEF LiveCount
<1>4. \A g : NotSeenIn(g)' = NotSeenIn(g)
  BY <1>2 DEF NotSeenIn, Steady, Live
<1>5. x.kind \in {"scan", "sweep", "close"} => x.seen \subseteq Paths
  BY Kinds DEF Scans, Sweeps
<1>6. x.kind = "scan" =>
        /\ \A p \in x.seen : SeenIn(p, x.gen)' \/ \E s \in x.pending : s[1] = p
        /\ x.live <= LiveCount'
        /\ x.live = 0 => NotSeenIn(x.gen)' = {}
  BY <1>1, <1>3, <1>4, <1>5 DEF Found
<1>7. x.kind \in {"sweep", "close"} => \A p \in x.seen : SeenIn(p, x.gen)'
  BY <1>1, <1>5 DEF Found
<1>8. x.kind = "sweep" => ~Implausible(Cardinality(NotSeenIn(x.gen)'), LiveCount')
  BY <1>3, <1>4 DEF Found
<1> QED
  BY <1>6, <1>7, <1>8 DEF Found

LEMMA FindsWith ==
  ASSUME OneWorker, Typed, NEW w \in Workers, NEW to \in Passes, Become(w, to), Found(to)'
  PROVE  Finds'
<1>1. \A v \in Workers : pass'[v] = to
  BY Becoming DEF OneWorker, Typed
<1> QED
  BY <1>1 DEF Finds

LEMMA FindsThin ==
  ASSUME OneWorker, Typed, Steady, NEW w \in Workers, NEW to \in Passes, Become(w, to), Found(to)
  PROVE  Finds'
BY FoundSteady, FindsWith

LEMMA FindsWorld ==
  ASSUME Typed, Finds, Steady, pass' = pass PROVE Finds'
<1>1. ASSUME NEW w \in Workers PROVE Found(pass[w])'
  <2>1. PICK x \in Passes : x = pass[w]
    BY DEF Typed, PassTypes
  <2>2. Found(x)'
    BY <2>1, FoundSteady DEF Finds
  <2> QED
    BY <2>1, <2>2
<1> QED
  BY <1>1 DEF Finds

LEMMA FindsOther ==
  ASSUME OneWorker, NEW w \in Workers, pass'[w].kind \notin {"scan", "sweep", "close"}
  PROVE  Finds'
BY DEF OneWorker, Finds, Found

LEMMA WorldFinds == ASSUME Typed, Finds, World PROVE Finds'
<1>1. CASE Reset
  <2>1. \A p \in Paths : ~Known(p) => ~Live(p) /\ ~Live(p)'
    BY <1>1, ResetWrites DEF Live
  <2>2. Steady
    BY <1>1, <2>1, ResetWrites DEF Steady, Live
  <2> QED
    BY <1>1, <2>2, FindsWorld DEF Reset
<1>2. CASE ~Reset
  <2>1. row' = row /\ pass' = pass
    BY <1>2 DEF World, Write, Delete, Mount, EndJob, table
  <2> QED
    BY <2>1, SteadyRow, FindsWorld
<1> QED
  BY <1>1, <1>2

LEMMA ScanFinds == ASSUME OneWorker, Typed, Finds, NEW w \in Workers, Scan(w) PROVE Finds'
<1>1. pass[w] \in Passes /\ InHand(pass[w]) /\ Found(pass[w])
  BY DEF Typed, PassTypes, Finds
<1>2. CASE BeginScan(w)
  <2> DEFINE to == [kind |-> "scan", gen |-> runs + 1, live |-> LiveCount, todo |-> Paths,
                    pending |-> {}, seen |-> {}]
  <2>1. to \in Scans
    BY LiveFinite DEF Scans, Typed, RowTypes
  <2>2. LiveCount = 0 => NotSeenIn(runs + 1) = {}
    <3>1. LiveCount = 0 => LivePaths = {}
      BY LiveFinite, FS_EmptySet
    <3> QED
      BY <3>1 DEF LivePaths, NotSeenIn
  <2>3. Found(to)
    BY <2>2, LiveFinite DEF Found
  <2>4. Become(w, to)
    BY <1>2, Zenon DEF BeginScan
  <2> HIDE DEF to
  <2>5. Steady
    BY <1>2, SteadyRow DEF BeginScan
  <2> QED
    BY <2>1, <2>3, <2>4, <2>5, FindsThin DEF Passes
<1>3. ASSUME NEW p \in Paths, Visit(w, p) PROVE Finds'
  <2>1. pass[w] \in Scans /\ pass[w].kind = "scan"
    BY <1>1, <1>3, Kinds DEF Visit
  <2>2. disk[p] \in Versions
    BY <1>3 DEF Visit, Visible, Typed, WorldTypes, Facts, Versions
  <2>3. PICK s \in Paths \X Versions : s = <<p, disk[p]>>
    BY <2>2
  <2> DEFINE to == [pass[w] EXCEPT !.todo = @ \ {p}, !.pending = @ \cup {s}, !.seen = @ \cup {p}]
  <2>4. /\ to \in Scans /\ to.pending = pass[w].pending \cup {s} /\ to.seen = pass[w].seen \cup {p}
        /\ to.gen = pass[w].gen /\ to.live = pass[w].live /\ to.kind = "scan"
    BY <2>1 DEF Scans
  <2>5. Become(w, to)
    BY <1>3, <2>3, Zenon DEF Visit
  <2> HIDE DEF to
  <2>6. s[1] = p
    BY <2>3
  <2>7. Found(to)
    BY <1>1, <2>1, <2>4, <2>6 DEF Found
  <2>8. Steady
    BY <1>3, SteadyRow DEF Visit, table
  <2> QED
    BY <2>4, <2>5, <2>7, <2>8, FindsThin DEF Passes
<1>4. ASSUME NEW p \in Paths, PassOver(w, p) PROVE Finds'
  <2>1. pass[w] \in Scans /\ pass[w].kind = "scan"
    BY <1>1, <1>4, Kinds DEF PassOver
  <2> DEFINE to == [pass[w] EXCEPT !.todo = @ \ {p}]
  <2>2. /\ to \in Scans /\ to.pending = pass[w].pending /\ to.seen = pass[w].seen
        /\ to.gen = pass[w].gen /\ to.live = pass[w].live /\ to.kind = "scan"
    BY <2>1 DEF Scans
  <2>3. Become(w, to)
    BY <1>4, Zenon DEF PassOver
  <2> HIDE DEF to
  <2>4. Found(to)
    BY <1>1, <2>1, <2>2 DEF Found
  <2>5. Steady
    BY <1>4, SteadyRow DEF PassOver, table
  <2> QED
    BY <2>2, <2>3, <2>4, <2>5, FindsThin DEF Passes
<1>5. CASE Record(w)
  <2>1. pass[w] \in Scans /\ pass[w].gen \in 1 .. runs /\ pass[w].kind = "scan"
    BY <1>1, <1>5, Kinds DEF Record, InHand
  <2>2. PICK s \in pass[w].pending :
          /\ Upsert(s[1], s[2], pass[w].gen)
          /\ Become(w, [pass[w] EXCEPT !.pending = @ \ {s}])
    BY <1>5 DEF Record
  <2>3. PICK p \in Paths, v \in Versions, g \in 1 .. runs : p = s[1] /\ v = s[2] /\ g = pass[w].gen
    BY <2>1 DEF Scans
  <2>4. Upsert(p, v, g) /\ runs' = runs
    BY <1>5, <2>2, <2>3 DEF Record
  <2>5. g \in Nat
    BY DEF Typed, RowTypes
  <2>6. /\ Known(p)' /\ row'[p].gen = g /\ row'[p] \in FileRows
        /\ \A q \in Paths : q # p => row'[q] = row[q]
    BY <2>4, UpsertWrites
  <2>7. Live(p) => Live(p)'
    BY <2>4, UpsertWrites DEF Live
  <2>8. \A q \in Paths : SeenIn(q, g) => SeenIn(q, g)'
    BY <2>5, <2>6 DEF SeenIn, Known
  <2>9. SeenIn(p, g)'
    BY <2>5, <2>6 DEF SeenIn
  <2>10. LiveCount <= LiveCount'
    <3>1. LivePaths \subseteq LivePaths'
      BY <2>6, <2>7 DEF LivePaths, Live, Known
    <3> QED
      BY <3>1, LiveFinite, LiveFiniteNext, FS_Subset
  <2>11. NotSeenIn(g)' \subseteq NotSeenIn(g)
    BY <2>5, <2>6 DEF NotSeenIn, Live, Known
  <2> DEFINE to == [pass[w] EXCEPT !.pending = @ \ {s}]
  <2>12. /\ to \in Scans /\ to.pending = pass[w].pending \ {s} /\ to.seen = pass[w].seen
         /\ to.gen = g /\ to.live = pass[w].live /\ to.kind = "scan"
    BY <2>1, <2>3 DEF Scans
  <2>13. Become(w, to)
    BY <2>2
  <2> HIDE DEF to
  <2>14. PICK x \in Scans : x = to
    BY <2>12
  <2>15. \A q \in x.seen : SeenIn(q, x.gen)' \/ \E t \in x.pending : t[1] = q
    <3> SUFFICES ASSUME NEW q \in x.seen PROVE SeenIn(q, g)' \/ \E t \in x.pending : t[1] = q
      BY <2>12, <2>14
    <3>1. q \in pass[w].seen /\ q \in Paths
      BY <2>1, <2>12, <2>14 DEF Scans
    <3>2. CASE SeenIn(q, g)
      BY <2>8, <3>1, <3>2
    <3>3. CASE ~SeenIn(q, g)
      <4>1. PICK t \in pass[w].pending : t[1] = q
        BY <1>1, <2>1, <2>3, <3>1, <3>3 DEF Found
      <4> QED
        BY <2>3, <2>9, <2>12, <2>14, <4>1
    <3> QED
      BY <3>2, <3>3
  <2>16. x.live <= LiveCount'
    <3>1. x.live <= LiveCount /\ x.live \in Nat
      BY <1>1, <2>1, <2>12, <2>14 DEF Found, Scans
    <3> QED
      BY <2>10, <3>1, LiveFinite, LiveFiniteNext
  <2>17. x.live = 0 => NotSeenIn(x.gen)' = {}
    BY <1>1, <2>1, <2>3, <2>11, <2>12, <2>14 DEF Found
  <2>18. Found(x)'
    BY <2>12, <2>14, <2>15, <2>16, <2>17 DEF Found
  <2> QED
    BY <2>13, <2>14, <2>18, FindsWith DEF Passes
<1>6. CASE Refuse(w) \/ CloseRun(w)
  <2>1. Idle \in Passes /\ Found(Idle)
    BY DEF Idle, Passes, Found
  <2>2. Steady /\ Become(w, Idle)
    BY <1>6, SteadyRow DEF Refuse, CloseRun, table
  <2> QED
    BY <2>1, <2>2, FindsThin
<1>7. CASE Count(w)
  <2>1. pass[w] \in Scans /\ pass[w].kind = "scan" /\ pass[w].pending = {}
    BY <1>1, <1>7, Kinds DEF Count, Walked
  <2>2. PICK g \in Nat, l \in Nat : g = pass[w].gen /\ l = pass[w].live
    BY <2>1 DEF Scans
  <2> DEFINE to == [kind |-> IF NotSeenIn(g) = {} THEN "close" ELSE "sweep",
                    gen |-> g, seen |-> pass[w].seen]
  <2>3. to \in Sweeps /\ to.gen = g /\ to.seen = pass[w].seen /\ (to.kind = "sweep" => NotSeenIn(g) # {})
    BY <2>1 DEF Sweeps, Scans
  <2>4. Become(w, to)
    BY <1>7, <2>2, Zenon DEF Count
  <2> HIDE DEF to
  <2>5. \A p \in pass[w].seen : SeenIn(p, g)
    BY <1>1, <2>1, <2>2 DEF Found
  <2>6. NotSeenIn(g) # {} => ~Implausible(Cardinality(NotSeenIn(g)), LiveCount)
    <3> SUFFICES ASSUME NotSeenIn(g) # {} PROVE ~Implausible(Cardinality(NotSeenIn(g)), LiveCount)
      OBVIOUS
    <3>1. l # 0 /\ l <= LiveCount
      BY <1>1, <2>1, <2>2 DEF Found
    <3>2. PICK m \in Nat : m = Cardinality(NotSeenIn(g))
      BY NotSeenFinite
    <3>3. PICK b \in Nat : b = LiveCount
      BY LiveFinite
    <3>4. ~Implausible(m, l)
      BY <1>7, <2>2, <3>2 DEF Count
    <3>5. ~Implausible(m, b)
      BY <3>1, <3>3, <3>4, MoreIsPlausible
    <3> QED
      BY <3>2, <3>3, <3>5
  <2>7. Found(to)
    BY <2>3, <2>5, <2>6 DEF Found, Sweeps
  <2>8. Steady
    BY <1>7, SteadyRow DEF Count, table
  <2> QED
    BY <2>3, <2>4, <2>7, <2>8, FindsThin DEF Passes
<1>8. CASE Sweep(w)
  <2>1. pass[w] \in Sweeps /\ pass[w].kind = "sweep"
    BY <1>1, <1>8, Kinds DEF Sweep
  <2>2. PICK g \in Nat : g = pass[w].gen
    BY <2>1 DEF Sweeps
  <2>3. MarkMissing(g) /\ runs' = runs
    BY <1>8, <2>2 DEF Sweep
  <2> DEFINE to == [pass[w] EXCEPT !.kind = "close"]
  <2>4. to \in Sweeps /\ to.kind = "close" /\ to.seen = pass[w].seen /\ to.gen = g
    BY <2>1, <2>2 DEF Sweeps
  <2>5. Become(w, to)
    BY <1>8 DEF Sweep
  <2> HIDE DEF to
  <2>6. PICK x \in Sweeps : x = to
    BY <2>4
  <2>7. \A p \in Paths : SeenIn(p, g) => SeenIn(p, g)'
    BY <2>3, MarkWrites DEF SeenIn
  <2>8. \A p \in x.seen : SeenIn(p, g)'
    BY <1>1, <2>1, <2>2, <2>4, <2>6, <2>7 DEF Found, Sweeps
  <2>9. Found(x)'
    BY <2>4, <2>6, <2>8 DEF Found
  <2> QED
    BY <2>5, <2>6, <2>9, FindsWith DEF Passes
<1> QED
  BY <1>2, <1>3, <1>4, <1>5, <1>6, <1>7, <1>8 DEF Scan

LEMMA ProbeFinds == ASSUME OneWorker, Typed, NEW w \in Workers, ProbePass(w) PROVE Finds'
<1>1. pass[w] \in Passes /\ pass \in [Workers -> Passes]
  BY DEF Typed, PassTypes
<1>2. pass'[w].kind \in {"probe", "idle"}
  <2>1. CASE BeginProbe(w)
    BY <1>1, <2>1 DEF BeginProbe, Become
  <2>2. CASE EndProbe(w)
    BY <1>1, <2>2 DEF EndProbe, Become, Idle
  <2>3. CASE \E p \in Paths : RunFfprobe(w, p)
    <3>1. pass[w] \in Probes
      BY <1>1, <2>3, Kinds DEF RunFfprobe
    <3> QED
      BY <1>1, <2>3, <3>1 DEF RunFfprobe, Become, Probes
  <2>4. CASE StoreProbe(w) \/ StoreProbeFails(w)
    <3>1. pass[w] \in Probes
      BY <1>1, <2>4, Kinds DEF StoreProbe, StoreProbeFails
    <3>2. PICK r \in pass[w].read : pass' = [pass EXCEPT ![w] = [pass[w] EXCEPT !.read = @ \ {r}]]
      BY <2>4 DEF StoreProbe, StoreProbeFails, Become
    <3> QED
      BY <1>1, <3>1, <3>2 DEF Probes
  <2> QED
    BY <2>1, <2>2, <2>3, <2>4 DEF ProbePass
<1> QED
  BY <1>2, FindsOther

LEMMA EvaluateFinds == ASSUME OneWorker, Typed, NEW w \in Workers, EvaluatePass(w) PROVE Finds'
<1>1. pass[w] \in Passes /\ pass \in [Workers -> Passes]
  BY DEF Typed, PassTypes
<1>2. pass'[w].kind \in {"evaluate", "create", "idle"}
  <2>1. CASE BeginEvaluate(w)
    BY <1>1, <2>1 DEF BeginEvaluate, Become
  <2>2. CASE EndEvaluate(w) \/ CreateRefused(w)
    BY <1>1, <2>2 DEF EndEvaluate, CreateRefused, Become, Idle
  <2>3. CASE Decide(w)
    <3>1. pass[w] \in Evaluations
      BY <1>1, <2>3, Kinds DEF Decide
    <3>2. PICK f \in pass[w].batch :
            pass'[w] = IF f[2] \in Owing
                       THEN [kind |-> "create", batch |-> pass[w].batch \ {f}, id |-> f]
                       ELSE [pass[w] EXCEPT !.batch = @ \ {f}]
      BY <1>1, <2>3, Zenon DEF Decide, Become
    <3> QED
      BY <3>1, <3>2 DEF Evaluations
  <2>4. CASE CreateJob(w)
    BY <1>1, <2>4 DEF CreateJob, Become
  <2> QED
    BY <2>1, <2>2, <2>3, <2>4 DEF EvaluatePass
<1> QED
  BY <1>2, FindsOther

LEMMA FailFinds == ASSUME OneWorker, Typed, NEW w \in Workers, Fail(w) PROVE Finds'
<1>1. pass'[w].kind = "idle"
  BY DEF Fail, Become, Idle, Typed, PassTypes
<1> QED
  BY <1>1, FindsOther

LEMMA FindsStays == ASSUME OneWorker, Typed, Finds, [Next]_vars PROVE Finds'
<1>1. CASE UNCHANGED vars
  BY <1>1, SteadyRow, FindsWorld DEF vars
<1> QED
  BY <1>1, WorldFinds, ScanFinds, ProbeFinds, EvaluateFinds, FailFinds DEF Next

LEMMA FindsInit == ASSUME Init PROVE Finds
BY DEF Init, Finds, Found, Idle

(* Only a sweep marks a file missing.                                      *)
LEMMA OnlySweepsMark ==
  ASSUME Typed, [Next]_vars, \A w \in Workers : ~Sweep(w) PROVE NewlyMissing = {}
<1>1. CASE row' = row
  BY <1>1 DEF NewlyMissing, Live
<1>2. CASE Reset
  <2>1. ASSUME NEW p \in Paths, Live(p) PROVE row'[p].state # "Missing"
    <3>1. row'[p].state = row[p].state
      BY <1>2, <2>1, ResetWrites DEF Live
    <3> QED
      BY <2>1, <3>1 DEF Live
  <2> QED
    BY <2>1 DEF NewlyMissing
<1>3. ASSUME NEW w \in Workers, Record(w) PROVE NewlyMissing = {}
  <2>1. pass[w] \in Scans /\ pass[w].gen \in 1 .. runs
    BY <1>3, Kinds DEF Record, InHand, Typed, PassTypes
  <2>2. PICK s \in pass[w].pending : Upsert(s[1], s[2], pass[w].gen)
    BY <1>3 DEF Record
  <2>3. PICK p \in Paths, v \in Versions, g \in 1 .. runs : p = s[1] /\ v = s[2] /\ g = pass[w].gen
    BY <2>1 DEF Scans
  <2>4. Upsert(p, v, g) /\ runs' = runs
    BY <1>3, <2>2, <2>3 DEF Record
  <2>5. \A q \in Paths : q # p => row'[q] = row[q]
    BY <2>4, UpsertWrites
  <2>6. Live(p) => row'[p].state # "Missing"
    BY <2>4, UpsertWrites DEF Live
  <2> QED
    BY <2>5, <2>6 DEF NewlyMissing, Live
<1>4. ASSUME NEW w \in Workers, StoreProbe(w) PROVE NewlyMissing = {}
  <2>1. pass[w] \in Probes /\ pass[w].kind = "probe" /\ InHand(pass[w])
    BY <1>4, Kinds DEF StoreProbe, Typed, PassTypes
  <2>2. PICK s \in pass[w].read : IF s[2] = 0 THEN RecordProbeFailure(s[1]) ELSE RecordProbe(s[1], s[2])
    BY <1>4 DEF StoreProbe
  <2>3. PICK p \in Paths, f \in Facts : p = s[1] /\ f = s[2] /\ Known(p)
    BY <2>1 DEF InHand, Probes
  <2>4. runs' = runs
    BY <1>4 DEF StoreProbe
  <2>5. row'[p].state # "Missing" /\ \A q \in Paths : q # p => row'[q] = row[q]
    <3>1. CASE f = 0
      BY <2>2, <2>3, <2>4, <3>1, FailureWrites
    <3>2. CASE f # 0
      BY <2>2, <2>3, <2>4, <3>2, ProbeWrites
    <3> QED
      BY <3>1, <3>2
  <2> QED
    BY <2>5 DEF NewlyMissing, Live
<1>5. ASSUME NEW w \in Workers, Decide(w) PROVE NewlyMissing = {}
  <2>1. pass[w] \in Evaluations /\ pass[w].kind = "evaluate" /\ InHand(pass[w])
    BY <1>5, Kinds DEF Decide, Typed, PassTypes
  <2>2. PICK f \in pass[w].batch : RecordDecision(f[1], f[2])
    BY <1>5 DEF Decide
  <2>3. PICK p \in Paths, n \in Facts : p = f[1] /\ n = f[2] /\ Known(p)
    BY <2>1 DEF InHand, Evaluations
  <2>4. RecordDecision(p, n) /\ runs' = runs
    BY <1>5, <2>2, <2>3 DEF Decide
  <2>5. row'[p].state = "Evaluated" /\ \A q \in Paths : q # p => row'[q] = row[q]
    BY <2>3, <2>4, DecisionWrites
  <2> QED
    BY <2>5 DEF NewlyMissing, Live
<1>6. row' = row \/ Reset \/ \E w \in Workers : Record(w) \/ StoreProbe(w) \/ Decide(w)
  <2>1. CASE UNCHANGED vars
    BY <2>1 DEF vars
  <2>2. CASE World
    BY <2>2 DEF World, Write, Delete, Mount, EndJob, table
  <2>3. ASSUME NEW w \in Workers, Scan(w) PROVE row' = row \/ Record(w)
    BY <2>3 DEF Scan, BeginScan, Visit, PassOver, Refuse, Count, CloseRun, table
  <2>4. ASSUME NEW w \in Workers, ProbePass(w) PROVE row' = row \/ StoreProbe(w)
    BY <2>4 DEF ProbePass, BeginProbe, EndProbe, RunFfprobe, StoreProbeFails, table
  <2>5. ASSUME NEW w \in Workers, EvaluatePass(w) PROVE row' = row \/ Decide(w)
    BY <2>5 DEF EvaluatePass, BeginEvaluate, EndEvaluate, CreateJob, CreateRefused, table
  <2>6. ASSUME NEW w \in Workers, Fail(w) PROVE row' = row
    BY <2>6 DEF Fail, table
  <2> QED
    BY <2>1, <2>2, <2>3, <2>4, <2>5, <2>6 DEF Next
<1> QED
  BY <1>1, <1>2, <1>3, <1>4, <1>5, <1>6

LEMMA SweepIsMeant ==
  ASSUME Typed, Finds, NEW w \in Workers, Sweep(w)
  PROVE  /\ \A p \in NewlyMissing : pass[w].kind = "sweep" /\ p \notin pass[w].seen
         /\ ~Implausible(Cardinality(NewlyMissing), LiveCount)
<1>1. pass[w] \in Sweeps /\ pass[w].kind = "sweep" /\ Found(pass[w])
  BY Kinds DEF Sweep, Typed, PassTypes, Finds
<1>2. PICK g \in Nat : g = pass[w].gen
  BY <1>1 DEF Sweeps
<1>3. MarkMissing(g) /\ runs' = runs
  BY <1>2 DEF Sweep
<1>4. NewlyMissing = NotSeenIn(g)
  BY <1>3, MarkWrites DEF NewlyMissing, NotSeenIn, Live
<1>5. ASSUME NEW p \in NotSeenIn(g) PROVE p \notin pass[w].seen
  <2>1. p \in Paths /\ Known(p) /\ row[p].gen < g /\ row[p].gen \in Nat
    BY KnownRows DEF NotSeenIn, Live, Typed, FileRows
  <2>2. ~SeenIn(p, g)
    BY <2>1 DEF SeenIn
  <2> QED
    BY <1>1, <1>2, <2>2 DEF Found
<1>6. ~Implausible(Cardinality(NotSeenIn(g)), LiveCount)
  BY <1>1, <1>2 DEF Found
<1> QED
  BY <1>1, <1>4, <1>5, <1>6

(* With one process running passes, only what a scan did not see is marked *)
(* missing, and never more than the guard allows of what is live by then.  *)
THEOREM OnlyTheMissingAreMarked ==
  ASSUME OneWorker
  PROVE  Spec => MissingIsMeant
<1>1. Typed /\ Finds /\ [Next]_vars =>
        [/\ \A p \in NewlyMissing : \E w \in Workers : pass[w].kind = "sweep" /\ p \notin pass[w].seen
         /\ ~Implausible(Cardinality(NewlyMissing), Cardinality({p \in Paths : Live(p)}))]_vars
  <2> SUFFICES ASSUME Typed, Finds, [Next]_vars
               PROVE  /\ \A p \in NewlyMissing : \E w \in Workers : pass[w].kind = "sweep" /\ p \notin pass[w].seen
                      /\ ~Implausible(Cardinality(NewlyMissing), LiveCount)
    BY DEF LiveCount
  <2>1. CASE \E w \in Workers : Sweep(w)
    BY <2>1, SweepIsMeant
  <2>2. CASE \A w \in Workers : ~Sweep(w)
    <3>1. NewlyMissing = {}
      BY <2>2, OnlySweepsMark
    <3>2. Cardinality(NewlyMissing) = 0
      BY <3>1, FS_EmptySet
    <3> QED
      BY <3>1, <3>2, GuardAssumption DEF Implausible
  <2> QED
    BY <2>1, <2>2
<1>2. Init => Finds
  BY FindsInit
<1>3. Typed /\ Finds /\ [Next]_vars => Finds'
  BY FindsStays
<1> QED
  BY <1>1, <1>2, <1>3, TypedAlways, PTL DEF Spec, MissingIsMeant
=============================================================================
