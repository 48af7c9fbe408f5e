------------------------------ MODULE Schedule ------------------------------
(***************************************************************************)
(* When work may start: the windows and overrides of                       *)
(* crates/transcodarr-server/src/schedule.rs.  Only the total number of    *)
(* slots is here; nothing reads the limits per class that effective also   *)
(* computes.                                                               *)
(***************************************************************************)
EXTENDS Integers, Sequences, FiniteSetsExt

CONSTANTS
  Day, Minute,  \* their length in seconds
  Windows,      \* a sequence: enabled, days, start, end, priority, total
  Overrides,    \* a sequence: scope, class, slots, expires
  Everyone,     \* the scope "*"
  Unset         \* no total, no class

ASSUME ScheduleAssumption == Day \in Nat \ {0} /\ Minute \in 1 .. Day

MinutesPerDay == Day \div Minute

(* The weekday, Monday being 0, and the minute of the day, in UTC.         *)
Clock(now) == [weekday |-> (now \div Day + 3) % 7, minute |-> (now % Day) \div Minute]

(* A window whose end is before its start goes on past midnight.           *)
MutCovers(w, at) == w.enabled /\ at.weekday \in w.days /\ at.minute \in w.start .. w.end - 1

Covers(w, at) ==
  /\ w.enabled /\ at.weekday \in w.days
  /\ IF w.start <= w.end THEN w.start <= at.minute /\ at.minute < w.end
                         ELSE w.start <= at.minute \/ at.minute < w.end

Active(o, now) == now < o.expires
AppliesTo(o, a) == o.scope \in {Everyone, a}

(* Of the covering windows the one of highest priority decides, and of     *)
(* equals the last; of the overrides in force the last.                    *)
Effective(a, baseline, now) ==
  LET covering == {i \in DOMAIN Windows : Covers(Windows[i], Clock(now))}
      highest  == {i \in covering :
                     \A k \in covering : Windows[k].priority <= Windows[i].priority}
      forced   == {i \in DOMAIN Overrides : LET o == Overrides[i] IN
                     Active(o, now) /\ AppliesTo(o, a) /\ o.class = Unset}
      planned  == IF covering = {} \/ Windows[Max(highest)].total = Unset
                  THEN baseline ELSE Windows[Max(highest)].total
  IN IF forced = {} THEN planned ELSE Overrides[Max(forced)].slots
=============================================================================
