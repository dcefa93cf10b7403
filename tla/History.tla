------------------------------- MODULE History -------------------------------
(***************************************************************************)
(* What Postgres keeps of the checks' results and what the maintenance     *)
(* loop makes of it: raw rows, the live state of each check, the daily and *)
(* hourly buckets recomputed from the rows, and the deletion of each past  *)
(* its retention.                                                          *)
(*                                                                         *)
(* A bucket is the set of the rows it counts.  As a row's check and time   *)
(* give its bucket, check_daily and check_hourly are each one set of rows; *)
(* a bucket no member of the set belongs to has no row in the table.       *)
(***************************************************************************)
EXTENDS Health, FiniteSets

CONSTANTS
  Check,         \* the checks that record results
  Sample,        \* what a check can record: [state, reason]
  Hour, Day,     \* lengths in time units
  Offset,        \* the display zone is ahead of UTC by this much
  HistoryHours,  \* hours that are rolled up again, and shown
  RawDays, DailyDays, HourlyDays,          \* retention
  MaxTime, MaxRows, MaxBoots, MaxFaults    \* bounds of the model

\* config.Load validates the hours shown and the hourly retention only.  Only
\* the scheduler gives the reason of a pause, and always with "unknown".
ASSUME HistoryAssumption ==
  /\ Sample \subseteq [state : State, reason : {"none", "paused_after_failure"}]
  /\ \A s \in Sample : s.reason = "paused_after_failure" => s.state = "unknown"
  /\ Hour \in Nat \ {0} /\ Day \in Nat \ {0} /\ Day % Hour = 0
  /\ Offset \in Nat
  /\ HistoryHours \in Nat \ {0} /\ HourlyDays \in Nat \ {0}
  /\ RawDays \in Int /\ DailyDays \in Int
  /\ MaxTime \in Nat /\ MaxRows \in Nat /\ MaxBoots \in Nat /\ MaxFaults \in Nat

VARIABLES
  \* Postgres
  results,    \* check_results
  current,    \* check_current
  daily,      \* check_daily
  hourly,     \* check_hourly
  \* the process
  running,
  pending,    \* per check: the result about to be stored
  step,       \* where maintain is
  asOf,       \* the clock as this pass of maintain read it
  lastPrune,
  \* the environment
  now, boots, faults,
  \* history, for the properties only
  recorded,   \* every row ever stored
  passed,     \* rows a daily rollup came across on their day or the next
  hourPassed  \* rows an hourly rollup came across while their hour was shown

tables == <<results, current, daily, hourly>>
maintenance == <<step, asOf, lastPrune>>
environment == <<now, boots, faults>>
passes == <<passed, hourPassed>>
historyVars == <<tables, running, pending, maintenance, environment, recorded, passes>>

-----------------------------------------------------------------------------
None == -1
Time == 0 .. MaxTime
Row == [n : 1 .. MaxRows, check : Check, at : Time, sample : Sample]
\* (mutant)
ZeroRow == [state |-> "", reason |-> "none", since |-> None, checkedAt |-> None]

\* How the readers of check_current treat a check that has no row.
NoRow == [state |-> "unknown", reason |-> "none", since |-> None, checkedAt |-> None]
Steps == {"idle", "rollup", "hourly", "raw", "days", "hours"}

\* The calendar of the display zone.
LocalDay(t) == (t + Offset) \div Day
LocalHour(t) == (t + Offset) \div Hour
HourStart(h) == h * Hour - Offset

Succeeds == UNCHANGED faults
Fails == faults < MaxFaults /\ faults' = faults + 1

Init ==
  /\ results = {} /\ daily = {} /\ hourly = {}
  /\ current = [c \in Check |-> NoRow]
  /\ running = FALSE
  /\ pending = [c \in Check |-> {}]
  /\ step = "idle" /\ asOf = 0 /\ lastPrune = None
  /\ now = 0 /\ boots = 0 /\ faults = 0
  /\ recorded = {} /\ passed = {} /\ hourPassed = {}

-----------------------------------------------------------------------------
(* The process, the clock and the results.                                 *)

Tick ==
  /\ now < MaxTime
  /\ now' = now + 1
  /\ UNCHANGED <<tables, running, pending, maintenance, boots, faults, recorded, passes>>

\* RunMaintenance makes its first pass at once.
Boot ==
  /\ ~running /\ boots < MaxBoots
  /\ running' = TRUE /\ boots' = boots + 1
  /\ step' = "rollup" /\ asOf' = now /\ lastPrune' = None
  /\ UNCHANGED <<tables, pending, now, faults, recorded, passes>>

\* The process ends at whatever step it is; only Postgres remains.
Crash ==
  /\ running
  /\ running' = FALSE
  /\ pending' = [c \in Check |-> {}]
  /\ step' = "idle" /\ asOf' = 0 /\ lastPrune' = None
  /\ UNCHANGED <<tables, environment, recorded, passes>>

\* A check has a result and the scheduler reads the clock for it.
Observe(c) ==
  /\ running /\ pending[c] = {}
  /\ Cardinality(recorded) + Cardinality({d \in Check : pending[d] # {}}) < MaxRows
  /\ \E s \in Sample : pending' = [pending EXCEPT ![c] = {[at |-> now, sample |-> s]}]
  /\ UNCHANGED <<tables, running, maintenance, environment, recorded, passes>>

\* (mutant)
SinceLastCheck(old, s, t) == t

\* since advances only when the state changes.
Since(old, s, t) ==
  IF old # NoRow /\ old.state = s.state THEN old.since ELSE t

\* RecordResult is one transaction: the row and the live state, or neither.
RecordResult(c) ==
  /\ \E p \in pending[c] :
       LET row == [n |-> Cardinality(recorded) + 1, check |-> c,
                   at |-> p.at, sample |-> p.sample]
       IN  \/ /\ Succeeds
              /\ results' = results \cup {row}
              /\ recorded' = recorded \cup {row}
              /\ current' = [current EXCEPT ![c] =
                   [state |-> p.sample.state, reason |-> p.sample.reason,
                    since |-> Since(@, p.sample, p.at), checkedAt |-> p.at]]
           \/ Fails /\ UNCHANGED <<results, recorded, current>>
  /\ pending' = [pending EXCEPT ![c] = {}]
  /\ UNCHANGED <<daily, hourly, running, maintenance, now, boots, passes>>

-----------------------------------------------------------------------------
(* One pass of maintain: the rollups, then, once an hour, the deletions.   *)
(* A failed call is logged and the pass goes on.                           *)

StartPass ==
  /\ running /\ step = "idle"
  /\ step' = "rollup" /\ asOf' = now
  /\ UNCHANGED <<tables, running, pending, lastPrune, environment, recorded, passes>>

\* Recompute the buckets of the selected rows, each of a day's or an hour's
\* length; a bucket none of them falls in is left as it was.
Recompute(table, selected, length) ==
  {r \in table : \A s \in selected :
     s.check = r.check => (s.at + Offset) \div length # (r.at + Offset) \div length}
    \cup selected

\* (mutants)
OnlyToday == {LocalDay(asOf)}
OneHourLess == {r \in results : r.at >= ((asOf - (HistoryHours - 1) * Hour) \div Hour) * Hour}
DayBeforeYesterday == (RawDays - 1) * Day

RollupDays == {LocalDay(asOf), LocalDay(asOf) - 1}

\* The lower end is a whole hour of UTC, not of the display zone.
RollupHours == {r \in results : r.at >= ((asOf - HistoryHours * Hour) \div Hour) * Hour}

Rollup ==
  /\ step = "rollup" /\ step' = "hourly"
  /\ \/ /\ Succeeds
        /\ daily' = Recompute(daily, {r \in results : LocalDay(r.at) \in RollupDays}, Day)
        /\ passed' = passed \cup
             {r \in results : LocalDay(asOf) - LocalDay(r.at) \in {0, 1}}
     \/ Fails /\ UNCHANGED <<daily, passed>>
  /\ UNCHANGED <<results, current, hourly, running, pending, asOf, lastPrune, now, boots,
                 recorded, hourPassed>>

PruneDue == lastPrune = None \/ asOf - lastPrune >= Hour

RollupHourly ==
  /\ step = "hourly"
  /\ \/ /\ Succeeds
        /\ hourly' = Recompute(hourly, RollupHours, Hour)
        /\ hourPassed' = hourPassed \cup
             {r \in results : LocalHour(asOf) - LocalHour(r.at) < HistoryHours}
     \/ Fails /\ UNCHANGED <<hourly, hourPassed>>
  /\ IF PruneDue THEN step' = "raw" /\ lastPrune' = asOf /\ UNCHANGED asOf
     ELSE step' = "idle" /\ asOf' = 0 /\ UNCHANGED lastPrune
  /\ UNCHANGED <<results, current, daily, running, pending, now, boots, recorded, passed>>

RawKept == RawDays * Day

\* Prune gives up on the days when it cannot delete the rows.
PruneRaw ==
  /\ step = "raw"
  /\ \/ /\ Succeeds /\ step' = "days"
        /\ results' = {r \in results : r.at >= asOf - RawKept}
     \/ Fails /\ step' = "hours" /\ UNCHANGED results
  /\ UNCHANGED <<current, daily, hourly, running, pending, asOf, lastPrune, now, boots,
                 recorded, passes>>

PruneDays ==
  /\ step = "days" /\ step' = "hours"
  /\ \/ Succeeds /\ daily' = {r \in daily : LocalDay(r.at) >= LocalDay(asOf) - DailyDays}
     \/ Fails /\ UNCHANGED daily
  /\ UNCHANGED <<results, current, hourly, running, pending, asOf, lastPrune, now, boots,
                 recorded, passes>>

PruneHourly ==
  /\ step = "hours" /\ step' = "idle" /\ asOf' = 0
  /\ \/ /\ Succeeds
        /\ hourly' = {r \in hourly : HourStart(LocalHour(r.at)) >= asOf - HourlyDays * Day}
     \/ Fails /\ UNCHANGED hourly
  /\ UNCHANGED <<results, current, daily, running, pending, lastPrune, now, boots,
                 recorded, passes>>

Maintain == StartPass \/ Rollup \/ RollupHourly \/ PruneRaw \/ PruneDays \/ PruneHourly

Next ==
  \/ Tick \/ Boot \/ Crash \/ Maintain
  \/ \E c \in Check : Observe(c) \/ RecordResult(c)

Spec == Init /\ [][Next]_historyVars

-----------------------------------------------------------------------------
(* Properties.                                                             *)

\* Every variable keeps its type, and no table counts a row that was never
\* recorded.
TypeOK ==
  /\ recorded \subseteq Row
  /\ results \cup daily \cup hourly \cup passed \cup hourPassed \subseteq recorded
  /\ current \in [Check -> [state : State, reason : {"none", "paused_after_failure"},
                            since : Time \cup {None}, checkedAt : Time \cup {None}]]
  /\ running \in BOOLEAN
  /\ pending \in [Check -> SUBSET [at : Time, sample : Sample]]
  /\ step \in Steps /\ asOf \in Time /\ lastPrune \in Time \cup {None}
  /\ now \in Time /\ boots \in 0 .. MaxBoots /\ faults \in 0 .. MaxFaults

\* No hole in the strip of days: a row that one successful daily rollup came
\* across, on its day or the day after, stays counted until its day is past
\* the daily retention, whatever crash, failed call, late result or deletion
\* of raw rows comes before or after.
NoHole == \A r \in passed : r \in daily \/ LocalDay(r.at) < LocalDay(now) - DailyDays

\* Every hour the page still shows counts all the rows an hourly rollup came
\* across in it, in a display zone of half hours too.
ShownHoursWhole ==
  \A r \in hourPassed : r \in hourly \/ LocalHour(now) - LocalHour(r.at) >= HistoryHours

\* since is the moment of the first result in the unbroken run of the state
\* the check is in, whatever was lost in between.
SinceIsFirstOfRun ==
  \A c \in Check : current[c] # NoRow =>
    LET mine == {r \in recorded : r.check = c}
        other == {r \in mine : r.sample.state # current[c].state}
        run == {r \in mine : \A o \in other : o.n < r.n}
    IN  /\ current[c].since \in {r.at : r \in run}
        /\ \A r \in run : current[c].since <= r.at
=============================================================================
