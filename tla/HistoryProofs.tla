---------------------------- MODULE HistoryProofs ----------------------------
(***************************************************************************)
(* No row that a rollup came across is lost from the strips while it is    *)
(* shown, for every calendar, retention and number of checks.  The         *)
(* inductive invariant says where a row that is no longer raw lies: before *)
(* the raw retention of the pass under way, hence before every bucket that *)
(* pass or a later one recomputes.                                         *)
(***************************************************************************)
EXTENDS History, FiniteSetTheorems, TLAPS

LEMMA Lengths ==
  /\ Hour \in Nat /\ Hour >= 1 /\ Day \in Nat /\ Day >= 1 /\ Offset \in Nat
  /\ HistoryHours \in Nat /\ HourlyDays \in Nat /\ RawDays \in Int /\ DailyDays \in Int
BY HistoryAssumption

-----------------------------------------------------------------------------
(* Division.                                                               *)

LEMMA Quotient ==
  ASSUME NEW a \in Int, NEW d \in Nat, d >= 1
  PROVE  /\ a \div d \in Int
         /\ (a \div d) * d <= a /\ a < (a \div d) * d + d
OBVIOUS

LEMMA TimesMonotone ==
  ASSUME NEW x \in Int, NEW y \in Int, NEW d \in Nat, x <= y
  PROVE  x * d \in Int /\ y * d \in Int /\ x * d <= y * d
OBVIOUS

\* A quotient is below c exactly when the number is below c times the divisor.
LEMMA QuotientBelow ==
  ASSUME NEW a \in Int, NEW d \in Nat, d >= 1, NEW c \in Int
  PROVE  a \div d < c <=> a < c * d
<1> DEFINE q == a \div d
<1>1. q \in Int /\ q * d \in Int /\ q * d <= a /\ a < q * d + d
  BY Quotient
<1> HIDE DEF q
<1>2. c * d \in Int
  OBVIOUS
<1>3. (q + 1) * d = q * d + d
  BY <1>1
<1>4. ASSUME q < c PROVE a < c * d
  <2>1. (q + 1) * d <= c * d
    BY <1>1, <1>4, TimesMonotone
  <2> QED
    BY <1>1, <1>2, <1>3, <2>1
<1>5. ASSUME a < c * d PROVE q < c
  <2>1. c <= q => c * d <= q * d
    BY <1>1, TimesMonotone
  <2> QED
    BY <1>1, <1>2, <1>5, <2>1
<1> QED
  BY <1>4, <1>5 DEF q

LEMMA QuotientMonotone ==
  ASSUME NEW a \in Int, NEW b \in Int, NEW d \in Nat, d >= 1, a <= b
  PROVE  a \div d <= b \div d
<1> DEFINE q == b \div d
<1>1. q \in Int /\ b < (q + 1) * d /\ (q + 1) * d \in Int
  <2>1. q \in Int /\ q * d \in Int /\ b < q * d + d
    BY Quotient
  <2> HIDE DEF q
  <2>2. (q + 1) * d = q * d + d
    BY <2>1
  <2> QED
    BY <2>1, <2>2
<1> HIDE DEF q
<1>2. a < (q + 1) * d /\ q + 1 \in Int
  BY <1>1
<1>3. a \div d < q + 1
  BY <1>2, QuotientBelow
<1>4. a \div d \in Int
  BY Quotient
<1> QED
  BY <1>1, <1>3, <1>4 DEF q

\* A moment more than k divisors earlier lies at least k quotients earlier.
LEMMA QuotientBack ==
  ASSUME NEW a \in Int, NEW b \in Int, NEW d \in Nat, d >= 1, NEW k \in Int, a < b - k * d
  PROVE  a \div d <= b \div d - k
<1> DEFINE q == b \div d
<1>1. q \in Int /\ q * d \in Int /\ b < q * d + d
  BY Quotient
<1> HIDE DEF q
<1>2. (q + 1 - k) * d = q * d + d - k * d /\ k * d \in Int
  BY <1>1
<1>3. a < (q + 1 - k) * d /\ q + 1 - k \in Int
  BY <1>1, <1>2
<1>4. a \div d < q + 1 - k
  BY <1>3, QuotientBelow
<1>5. a \div d \in Int
  BY Quotient
<1> QED
  BY <1>1, <1>4, <1>5 DEF q

LEMMA DayTypes == \A t \in Int : LocalDay(t) \in Int
BY Lengths, Quotient DEF LocalDay

LEMMA HourTypes == \A t \in Int : LocalHour(t) \in Int
BY Lengths, Quotient DEF LocalHour

LEMMA DayMonotone == ASSUME NEW a \in Int, NEW b \in Int, a <= b PROVE LocalDay(a) <= LocalDay(b)
BY Lengths, QuotientMonotone DEF LocalDay

LEMMA HourMonotone == ASSUME NEW a \in Int, NEW b \in Int, a <= b PROVE LocalHour(a) <= LocalHour(b)
BY Lengths, QuotientMonotone DEF LocalHour

-----------------------------------------------------------------------------
(* Rows and moments.                                                       *)

Moment == IF step = "idle" THEN now ELSE asOf

RowInv ==
  /\ now \in Nat /\ asOf \in Nat /\ asOf <= now
  /\ \A c \in Check : \A p \in pending[c] : p.at \in Nat
  /\ \A r \in recorded : r.at \in Nat
  /\ results \subseteq recorded /\ passed \subseteq recorded /\ hourPassed \subseteq recorded

\* A row that is no longer raw is older than the raw retention.
PrunedOld == \A r \in recorded \ results : r.at < Moment - RawKept

HistoryInv == RowInv /\ PrunedOld

LEMMA InitHistory == Init => HistoryInv
BY HistoryAssumption DEF Init, HistoryInv, RowInv, PrunedOld

LEMMA KeptType == RawKept \in Int
BY Lengths DEF RawKept

LEMMA StepHistory == HistoryInv /\ [Next]_historyVars => HistoryInv'
<1> SUFFICES ASSUME HistoryInv, [Next]_historyVars PROVE HistoryInv'
  OBVIOUS
<1> USE DEF HistoryInv, RowInv, PrunedOld, Moment
<1>0. now \in Nat /\ asOf \in Nat /\ RawKept \in Int /\ \A r \in recorded : r.at \in Nat
  BY KeptType
<1>1. CASE Tick
  BY <1>0, <1>1 DEF Tick, tables, maintenance, passes, RawKept
<1>2. CASE Boot \/ StartPass \/ Crash
  BY <1>0, <1>2 DEF Boot, StartPass, Crash, tables, environment, passes, RawKept
<1>3. ASSUME NEW c \in Check, Observe(c) PROVE HistoryInv'
  <2>1. UNCHANGED <<tables, maintenance, environment, recorded, passes>>
    BY <1>3 DEF Observe
  <2>2. \A d \in Check : \A p \in pending'[d] : p.at \in Nat
    BY <1>0, <1>3 DEF Observe
  <2> QED
    BY <2>1, <2>2 DEF tables, maintenance, environment, passes, RawKept
<1>4. ASSUME NEW c \in Check, RecordResult(c) PROVE HistoryInv'
  <2>1. UNCHANGED <<step, asOf, now, passed, hourPassed>>
    BY <1>4 DEF RecordResult, maintenance, passes
  <2>2. \A d \in Check : \A p \in pending'[d] : p.at \in Nat
    BY <1>4 DEF RecordResult
  <2>3. \/ UNCHANGED <<results, recorded>>
        \/ \E row : row.at \in Nat /\ results' = results \cup {row} /\ recorded' = recorded \cup {row}
    BY <1>4 DEF RecordResult
  <2> QED
    BY <1>0, <2>1, <2>2, <2>3 DEF RawKept
<1>5. CASE Rollup
  BY <1>0, <1>5 DEF Rollup, RawKept
<1>6. CASE RollupHourly
  <2>1. UNCHANGED <<results, recorded, passed, pending, now>> /\ step = "hourly"
    BY <1>6 DEF RollupHourly
  <2>2. hourPassed' \subseteq recorded
    BY <1>6 DEF RollupHourly
  <2>3. (step' = "raw" /\ asOf' = asOf) \/ (step' = "idle" /\ asOf' = 0)
    BY <1>6 DEF RollupHourly
  <2> QED
    BY <1>0, <2>1, <2>2, <2>3 DEF RawKept
<1>7. CASE PruneRaw
  BY <1>0, <1>7 DEF PruneRaw, RawKept, passes
<1>8. CASE PruneDays \/ PruneHourly
  BY <1>0, <1>8 DEF PruneDays, PruneHourly, RawKept, passes
<1>9. CASE UNCHANGED historyVars
  BY <1>9 DEF historyVars, tables, maintenance, environment, passes, RawKept
<1> QED
  BY <1>1, <1>2, <1>3, <1>4, <1>5, <1>6, <1>7, <1>8, <1>9 DEF Next, Maintain

THEOREM HistoryCorrect == Spec => []HistoryInv
BY InitHistory, StepHistory, PTL DEF Spec

-----------------------------------------------------------------------------
(* Recomputing a table.                                                    *)

\* A row that is no longer raw lies before every day the pass rolls up.
LEMMA PrunedBeforeRollup ==
  ASSUME HistoryInv, RawDays >= 2, step # "idle", NEW r \in recorded, r \notin results
  PROVE  LocalDay(r.at) <= LocalDay(asOf) - 2
<1>1. r.at \in Nat /\ asOf \in Nat /\ r.at < asOf - RawKept
  BY DEF HistoryInv, RowInv, PrunedOld, Moment
<1>2. RawKept >= 2 * Day /\ RawKept \in Int
  BY Lengths, TimesMonotone, KeptType DEF RawKept
<1>3. r.at + Offset < (asOf + Offset) - 2 * Day
  BY <1>1, <1>2, Lengths
<1> QED
  BY <1>1, <1>3, Lengths, QuotientBack DEF LocalDay

\* A pass of the daily rollup keeps every row it ever came across.
LEMMA RollupNoHole ==
  ASSUME HistoryInv, NoHole, RawDays >= 2, Rollup
  PROVE  NoHole'
<1> DEFINE selected == {r \in results : LocalDay(r.at) \in RollupDays}
<1>1. UNCHANGED now /\ step = "rollup"
  BY DEF Rollup
<1>2. CASE UNCHANGED <<daily, passed>>
  BY <1>1, <1>2 DEF NoHole
<1>3. CASE /\ daily' = Recompute(daily, selected, Day)
           /\ passed' = passed \cup {r \in results : LocalDay(asOf) - LocalDay(r.at) \in {0, 1}}
  <2> SUFFICES ASSUME NEW r \in passed', r \notin daily'
               PROVE  LocalDay(r.at) < LocalDay(now) - DailyDays
    BY <1>1 DEF NoHole
  <2>0. /\ asOf \in Int /\ LocalDay(asOf) \in Int
        /\ \A s \in recorded : s.at \in Int /\ LocalDay(s.at) \in Int
        /\ results \subseteq recorded /\ passed \subseteq recorded
    BY DayTypes DEF HistoryInv, RowInv
  <2>1. selected \subseteq daily'
    BY <1>3 DEF Recompute
  <2>2. r \notin selected
    BY <2>1
  <2>3. r \in passed
    BY <1>3, <2>0, <2>2 DEF RollupDays
  <2>4. CASE r \in daily
    <3>1. PICK s \in selected : s.check = r.check /\ LocalDay(s.at) = LocalDay(r.at)
      BY <1>3, <2>4 DEF Recompute, LocalDay
    <3>2. LocalDay(r.at) \in {LocalDay(asOf), LocalDay(asOf) - 1}
      BY <3>1 DEF RollupDays
    <3>3. r \notin results
      BY <2>2, <3>2 DEF RollupDays
    <3>4. LocalDay(r.at) <= LocalDay(asOf) - 2
      BY <1>1, <2>0, <2>3, <3>3, PrunedBeforeRollup
    <3> QED
      BY <2>0, <2>3, <3>2, <3>4
  <2>5. CASE r \notin daily
    BY <2>3, <2>5 DEF NoHole
  <2> QED
    BY <2>4, <2>5
<1> QED
  BY <1>2, <1>3 DEF Rollup

\* The deletion of days takes none that the retention keeps.
LEMMA PruneNoHole ==
  ASSUME HistoryInv, NoHole, PruneDays
  PROVE  NoHole'
<1>1. UNCHANGED <<now, passed>>
  BY DEF PruneDays, passes
<1>2. CASE UNCHANGED daily
  BY <1>1, <1>2 DEF NoHole
<1>3. CASE daily' = {r \in daily : LocalDay(r.at) >= LocalDay(asOf) - DailyDays}
  <2> SUFFICES ASSUME NEW r \in passed, r \notin daily'
               PROVE  LocalDay(r.at) < LocalDay(now) - DailyDays
    BY <1>1 DEF NoHole
  <2>1. /\ r.at \in Int /\ asOf \in Int /\ now \in Int /\ asOf <= now
    BY DEF HistoryInv, RowInv
  <2>2. LocalDay(r.at) \in Int /\ LocalDay(asOf) \in Int /\ LocalDay(now) \in Int
        /\ LocalDay(asOf) <= LocalDay(now)
    BY <2>1, DayTypes, DayMonotone
  <2>3. CASE r \in daily
    BY <1>3, <2>2, <2>3, Lengths
  <2>4. CASE r \notin daily
    BY <2>4 DEF NoHole
  <2> QED
    BY <2>3, <2>4
<1> QED
  BY <1>2, <1>3 DEF PruneDays

LEMMA StepNoHole ==
  RawDays >= 2 /\ HistoryInv /\ NoHole /\ [Next]_historyVars => NoHole'
<1> SUFFICES ASSUME RawDays >= 2, HistoryInv, NoHole, [Next]_historyVars PROVE NoHole'
  OBVIOUS
<1>1. CASE Tick
  <2> SUFFICES ASSUME NEW r \in passed, r \notin daily
               PROVE  LocalDay(r.at) < LocalDay(now') - DailyDays
    BY <1>1 DEF Tick, tables, passes, NoHole
  <2>1. r.at \in Int /\ now \in Int /\ now' \in Int /\ now <= now'
    BY <1>1 DEF HistoryInv, RowInv, Tick
  <2>2. LocalDay(r.at) \in Int /\ LocalDay(now) \in Int /\ LocalDay(now') \in Int
        /\ LocalDay(now) <= LocalDay(now')
    BY <2>1, DayTypes, DayMonotone
  <2> QED
    BY <2>2, Lengths DEF NoHole
<1>2. CASE UNCHANGED <<daily, passed, now>>
  BY <1>2 DEF NoHole
<1>3. CASE Rollup
  BY <1>3, RollupNoHole
<1>4. CASE PruneDays
  BY <1>4, PruneNoHole
<1>5. \/ Tick \/ Rollup \/ PruneDays
      \/ UNCHANGED <<daily, passed, now>>
  BY DEF Next, Maintain, Boot, Crash, Observe, RecordResult, StartPass, RollupHourly, PruneRaw,
         PruneHourly, tables, environment, passes, historyVars
<1> QED
  BY <1>1, <1>2, <1>3, <1>4, <1>5

LEMMA InitNoHole == Init => NoHole
BY DEF Init, NoHole

\* A row a daily rollup came across stays counted as long as its day is kept,
\* if raw results live for two days at least: for every calendar, number of
\* checks and retention of days, over any crash and any failed call.
THEOREM NoHoleSafe ==
  ASSUME RawDays >= 2
  PROVE  Spec => []NoHole
<1>1. HistoryInv /\ NoHole /\ [Next]_historyVars => NoHole'
  BY StepNoHole
<1> QED
  BY <1>1, HistoryCorrect, InitNoHole, PTL DEF Spec

-----------------------------------------------------------------------------
(* The same for hours: what is shown lies inside every range an hourly     *)
(* pass recomputes, deletes raw rows from or deletes buckets from.         *)

Shown(r, t) == LocalHour(t) - LocalHour(r.at) < HistoryHours

LEMMA HourStartBound ==
  ASSUME NEW t \in Int
  PROVE  /\ LocalHour(t) * Hour <= t + Offset
         /\ t + Offset < LocalHour(t) * Hour + Hour
         /\ LocalHour(t) * Hour \in Int
BY Lengths, Quotient DEF LocalHour

\* A row of a shown hour is younger than the hours shown, and its hour starts
\* later than their start.
LEMMA ShownIsYoung ==
  ASSUME NEW r \in recorded, HistoryInv, NEW t \in Int, Shown(r, t)
  PROVE  /\ r.at > t - HistoryHours * Hour
         /\ HourStart(LocalHour(r.at)) > t - HistoryHours * Hour
         /\ HistoryHours * Hour \in Int
<1> DEFINE h == LocalHour(r.at)
           g == LocalHour(t)
<1>1. r.at \in Int /\ h \in Int /\ g \in Int /\ HistoryHours * Hour \in Int
  BY HourTypes, Lengths DEF HistoryInv, RowInv
<1>2. g - h < HistoryHours
  BY DEF Shown
<1>3. /\ h * Hour \in Int /\ h * Hour <= r.at + Offset
      /\ g * Hour \in Int /\ t + Offset < g * Hour + Hour
  BY <1>1, HourStartBound
<1> HIDE DEF h, g
<1>4. (g + 1) * Hour <= (h + HistoryHours) * Hour
  BY <1>1, <1>2, Lengths, TimesMonotone
<1>5. (g + 1) * Hour = g * Hour + Hour /\ (h + HistoryHours) * Hour = h * Hour + HistoryHours * Hour
  BY <1>1, Lengths
<1>6. t + Offset < h * Hour + HistoryHours * Hour
  BY <1>1, <1>3, <1>4, <1>5, Lengths
<1>7. HourStart(h) = h * Hour - Offset
  BY DEF HourStart
<1> QED
  BY <1>1, <1>3, <1>6, <1>7, Lengths DEF h

\* What is shown now was shown at any earlier moment.
LEMMA ShownBefore ==
  ASSUME HistoryInv, NEW r \in recorded, NEW t \in Int, NEW u \in Int, t <= u, Shown(r, u)
  PROVE  Shown(r, t)
<1>1. r.at \in Int
  BY DEF HistoryInv, RowInv
<1>2. LocalHour(r.at) \in Int /\ LocalHour(t) \in Int /\ LocalHour(u) \in Int
      /\ LocalHour(t) <= LocalHour(u)
  BY <1>1, HourTypes, HourMonotone
<1> QED
  BY <1>2, Lengths DEF Shown

\* Rows of shown hours that are still raw are in the range of the pass.
LEMMA ShownInRange ==
  ASSUME HistoryInv, NEW r \in results, Shown(r, asOf)
  PROVE  r \in RollupHours
<1>1. r \in recorded /\ r.at \in Int /\ asOf \in Int
  BY DEF HistoryInv, RowInv
<1>2. r.at > asOf - HistoryHours * Hour /\ HistoryHours * Hour \in Int
  BY <1>1, ShownIsYoung
<1> DEFINE e == asOf - HistoryHours * Hour
<1>3. e \in Int /\ r.at > e
  BY <1>1, <1>2
<1>4. (e \div Hour) * Hour \in Int /\ (e \div Hour) * Hour <= e
  <2> HIDE DEF e
  <2> QED
    BY <1>3, Lengths, Quotient
<1>5. r.at >= (e \div Hour) * Hour
  <2> HIDE DEF e
  <2> QED
    BY <1>1, <1>3, <1>4
<1> QED
  BY <1>5 DEF RollupHours

HoursFit == RawDays * Day >= HistoryHours * Hour /\ HourlyDays * Day >= HistoryHours * Hour

\* A pass of the hourly rollup keeps every shown row it ever came across.
LEMMA RollupHoursWhole ==
  ASSUME HoursFit, HistoryInv, ShownHoursWhole, RollupHourly
  PROVE  ShownHoursWhole'
<1>1. UNCHANGED now /\ step = "hourly"
  BY DEF RollupHourly
<1>2. CASE UNCHANGED <<hourly, hourPassed>>
  BY <1>1, <1>2 DEF ShownHoursWhole
<1>3. CASE /\ hourly' = Recompute(hourly, RollupHours, Hour)
           /\ hourPassed' = hourPassed \cup
                {r \in results : LocalHour(asOf) - LocalHour(r.at) < HistoryHours}
  <2> SUFFICES ASSUME NEW r \in hourPassed', Shown(r, now)
               PROVE  r \in hourly'
    <3>1. \A r \in hourPassed' : Shown(r, now) \/ LocalHour(now) - LocalHour(r.at) >= HistoryHours
      <4> SUFFICES ASSUME NEW r \in hourPassed' PROVE Shown(r, now) \/ LocalHour(now) - LocalHour(r.at) >= HistoryHours
        OBVIOUS
      <4>1. r.at \in Int /\ now \in Int
        BY <1>3 DEF HistoryInv, RowInv
      <4>2. LocalHour(r.at) \in Int /\ LocalHour(now) \in Int
        BY <4>1, HourTypes
      <4> QED
        BY <4>2, Lengths DEF Shown
    <3> QED
      BY <1>1, <3>1 DEF ShownHoursWhole
  <2>0. /\ asOf \in Int /\ now \in Int /\ asOf <= now /\ r \in recorded /\ r.at \in Int
        /\ results \subseteq recorded /\ \A s \in results : s.at \in Int
    BY <1>3 DEF HistoryInv, RowInv
  <2>1. Shown(r, asOf)
    BY <2>0, ShownBefore
  <2>2. RollupHours \subseteq hourly'
    BY <1>3 DEF Recompute
  <2>3. CASE r \in results
    BY <2>1, <2>2, <2>3, ShownInRange
  <2>4. CASE r \notin results
    <3>1. r.at < asOf - RawKept /\ RawKept \in Int
      BY <1>1, <2>0, <2>4, KeptType DEF HistoryInv, PrunedOld, Moment
    <3>2. r.at > asOf - HistoryHours * Hour /\ HistoryHours * Hour \in Int
      BY <2>0, <2>1, ShownIsYoung
    <3> QED
      BY <2>0, <3>1, <3>2 DEF HoursFit, RawKept
  <2> QED
    BY <2>3, <2>4
<1> QED
  BY <1>2, <1>3 DEF RollupHourly

\* The deletion of hours takes none that is shown.
LEMMA PruneHoursWhole ==
  ASSUME HoursFit, HistoryInv, ShownHoursWhole, PruneHourly
  PROVE  ShownHoursWhole'
<1>1. UNCHANGED <<now, hourPassed>> /\ step = "hours"
  BY DEF PruneHourly, passes
<1>2. CASE UNCHANGED hourly
  BY <1>1, <1>2 DEF ShownHoursWhole
<1>3. CASE hourly' = {r \in hourly : HourStart(LocalHour(r.at)) >= asOf - HourlyDays * Day}
  <2> SUFFICES ASSUME NEW r \in hourPassed,
                      ~(LocalHour(now) - LocalHour(r.at) >= HistoryHours)
               PROVE  r \in hourly'
    BY <1>1 DEF ShownHoursWhole
  <2>1. /\ asOf \in Int /\ now \in Int /\ asOf <= now /\ r \in recorded /\ r.at \in Int
    BY DEF HistoryInv, RowInv
  <2>2. LocalHour(r.at) \in Int /\ LocalHour(now) \in Int
    BY <2>1, HourTypes
  <2>3. Shown(r, now) /\ r \in hourly
    BY <2>2, Lengths DEF Shown, ShownHoursWhole
  <2>4. HourStart(LocalHour(r.at)) > now - HistoryHours * Hour /\ HistoryHours * Hour \in Int
    BY <2>1, <2>3, ShownIsYoung
  <2>5. HourStart(LocalHour(r.at)) \in Int /\ HourlyDays * Day \in Int
    BY <2>2, Lengths DEF HourStart
  <2>6. HourStart(LocalHour(r.at)) >= asOf - HourlyDays * Day
    <3> DEFINE h == HourStart(LocalHour(r.at))
    <3>1. h \in Int /\ h > now - HistoryHours * Hour
      BY <2>4, <2>5
    <3> HIDE DEF h
    <3>2. h >= asOf - HourlyDays * Day
      BY <2>1, <2>4, <2>5, <3>1 DEF HoursFit
    <3> QED
      BY <3>2 DEF h
  <2> QED
    BY <1>3, <2>3, <2>6
<1> QED
  BY <1>2, <1>3 DEF PruneHourly

LEMMA StepHoursWhole ==
  HoursFit /\ HistoryInv /\ ShownHoursWhole /\ [Next]_historyVars => ShownHoursWhole'
<1> SUFFICES ASSUME HoursFit, HistoryInv, ShownHoursWhole, [Next]_historyVars
             PROVE  ShownHoursWhole'
  OBVIOUS
<1>1. CASE Tick
  <2> SUFFICES ASSUME NEW r \in hourPassed, r \notin hourly
               PROVE  LocalHour(now') - LocalHour(r.at) >= HistoryHours
    BY <1>1 DEF Tick, tables, passes, ShownHoursWhole
  <2>1. r.at \in Int /\ now \in Int /\ now' \in Int /\ now <= now'
    BY <1>1 DEF HistoryInv, RowInv, Tick
  <2>2. LocalHour(r.at) \in Int /\ LocalHour(now) \in Int /\ LocalHour(now') \in Int
        /\ LocalHour(now) <= LocalHour(now')
    BY <2>1, HourTypes, HourMonotone
  <2> QED
    BY <2>2, Lengths DEF ShownHoursWhole
<1>2. CASE UNCHANGED <<hourly, hourPassed, now>>
  BY <1>2 DEF ShownHoursWhole
<1>3. CASE RollupHourly
  BY <1>3, RollupHoursWhole
<1>4. CASE PruneHourly
  BY <1>4, PruneHoursWhole
<1>5. \/ Tick \/ RollupHourly \/ PruneHourly
      \/ UNCHANGED <<hourly, hourPassed, now>>
  BY DEF Next, Maintain, Boot, Crash, Observe, RecordResult, StartPass, Rollup, PruneRaw,
         PruneDays, tables, environment, passes, historyVars
<1> QED
  BY <1>1, <1>2, <1>3, <1>4, <1>5

LEMMA InitHoursWhole == Init => ShownHoursWhole
BY DEF Init, ShownHoursWhole

\* Every hour the page shows counts all the rows a pass came across in it, if
\* raw results and hourly buckets outlive the hours shown: for every display
\* zone, half hours included, over any crash and any failed call.
THEOREM HoursWholeSafe ==
  ASSUME RawDays * Day >= HistoryHours * Hour, HourlyDays * Day >= HistoryHours * Hour
  PROVE  Spec => []ShownHoursWhole
<1>1. HistoryInv /\ ShownHoursWhole /\ [Next]_historyVars => ShownHoursWhole'
  BY StepHoursWhole DEF HoursFit
<1> QED
  BY <1>1, HistoryCorrect, InitHoursWhole, PTL DEF Spec

-----------------------------------------------------------------------------
(* Types, and the numbers of the rows: the rows recorded and the results   *)
(* waiting to be are bounded together, and no row's number is above the    *)
(* count.                                                                  *)

Waiting == {d \in Check : pending[d] # {}}

CountInv ==
  /\ IsFiniteSet(recorded) /\ IsFiniteSet(Waiting)
  /\ Cardinality(recorded) + Cardinality(Waiting) <= MaxRows
  /\ \A r \in recorded : r.n <= Cardinality(recorded)

NewRow(c, p) == [n |-> Cardinality(recorded) + 1, check |-> c, at |-> p.at, sample |-> p.sample]

Store(c, p) ==
  /\ results' = results \cup {NewRow(c, p)}
  /\ recorded' = recorded \cup {NewRow(c, p)}
  /\ current' = [current EXCEPT ![c] =
       [state |-> p.sample.state, reason |-> p.sample.reason,
        since |-> Since(@, p.sample, p.at), checkedAt |-> p.at]]

\* Storing a result is a transaction: all of it or nothing.
LEMMA RecordCases ==
  ASSUME NEW c \in Check, RecordResult(c)
  PROVE  /\ \E p \in pending[c] : (Succeeds /\ Store(c, p)) \/ (Fails /\ UNCHANGED <<results, recorded, current>>)
         /\ pending' = [pending EXCEPT ![c] = {}]
         /\ UNCHANGED <<daily, hourly, running, step, asOf, lastPrune, now, boots, passed, hourPassed>>
BY DEF RecordResult, Store, NewRow, maintenance, passes

LEMMA Counts ==
  ASSUME CountInv
  PROVE  /\ Cardinality(recorded) \in Nat /\ Cardinality(Waiting) \in Nat
         /\ MaxRows \in Nat
BY FS_CardinalityType, HistoryAssumption DEF CountInv

LEMMA InitTypes == Init => TypeOK /\ CountInv
<1> SUFFICES ASSUME Init PROVE TypeOK /\ CountInv
  OBVIOUS
<1>1. TypeOK
  <2>1. 0 \in Time /\ 0 \in 0 .. MaxBoots /\ 0 \in 0 .. MaxFaults
    BY HistoryAssumption DEF Time
  <2> QED
    BY <2>1 DEF Init, TypeOK, NoRow, State, Steps
<1>2. CountInv
  <2>1. Waiting = {}
    BY DEF Init, Waiting
  <2> QED
    BY <2>1, FS_EmptySet, HistoryAssumption DEF Init, CountInv
<1> QED
  BY <1>1, <1>2

\* A result that waits makes room for its row, whose number is a new one.
LEMMA RoomForRow ==
  ASSUME CountInv, NEW c \in Check, pending[c] # {}
  PROVE  /\ Cardinality(recorded) + 1 \in 1 .. MaxRows
         /\ Cardinality(Waiting \ {c}) = Cardinality(Waiting) - 1
         /\ IsFiniteSet(Waiting \ {c})
         /\ \A p : NewRow(c, p) \notin recorded
<1>1. c \in Waiting /\ Waiting # {}
  BY DEF Waiting
<1>2. Cardinality(Waiting) # 0
  BY <1>1, FS_EmptySet DEF CountInv
<1>3. Cardinality(recorded) + 1 \in 1 .. MaxRows
  BY <1>2, Counts DEF CountInv
<1>4. Cardinality(Waiting \ {c}) = Cardinality(Waiting) - 1 /\ IsFiniteSet(Waiting \ {c})
  BY <1>1, FS_RemoveElement DEF CountInv
<1>5. \A p : NewRow(c, p) \notin recorded
  BY Counts DEF NewRow, CountInv
<1> QED
  BY <1>3, <1>4, <1>5

LEMMA RecordCounts ==
  ASSUME TypeOK, CountInv, NEW c \in Check, RecordResult(c)
  PROVE  CountInv'
<1>1. PICK p \in pending[c] : Store(c, p) \/ UNCHANGED recorded
  BY RecordCases
<1>2. pending' = [pending EXCEPT ![c] = {}]
  BY RecordCases
<1>3. Waiting' = Waiting \ {c}
  BY <1>2 DEF Waiting, TypeOK
<1>4. /\ Cardinality(recorded) + 1 \in 1 .. MaxRows /\ IsFiniteSet(Waiting')
      /\ Cardinality(Waiting') = Cardinality(Waiting) - 1 /\ NewRow(c, p) \notin recorded
  BY <1>1, <1>3, RoomForRow
<1>5. CASE UNCHANGED recorded
  BY <1>4, <1>5, Counts DEF CountInv
<1>6. CASE Store(c, p)
  <2>1. recorded' = recorded \cup {NewRow(c, p)}
    BY <1>6 DEF Store
  <2>2. IsFiniteSet(recorded') /\ Cardinality(recorded') = Cardinality(recorded) + 1
    BY <1>4, <2>1, FS_AddElement DEF CountInv
  <2>3. NewRow(c, p).n = Cardinality(recorded')
    BY <2>2 DEF NewRow
  <2>4. \A r \in recorded : r.n \in Int
    BY DEF TypeOK, Row
  <2>5. \A r \in recorded' : r.n <= Cardinality(recorded')
    BY <2>1, <2>2, <2>3, <2>4, Counts DEF CountInv
  <2> QED
    BY <1>4, <2>2, <2>5, Counts DEF CountInv
<1> QED
  BY <1>1, <1>5, <1>6

LEMMA RecordTypes ==
  ASSUME TypeOK, CountInv, NEW c \in Check, RecordResult(c)
  PROVE  TypeOK'
<1>1. PICK p \in pending[c] : Store(c, p) \/ UNCHANGED <<results, recorded, current>>
  BY RecordCases
<1>2. /\ pending' = [pending EXCEPT ![c] = {}] /\ (UNCHANGED faults \/ (faults < MaxFaults /\ faults' = faults + 1))
      /\ UNCHANGED <<daily, hourly, running, step, asOf, lastPrune, now, boots, passed, hourPassed>>
  BY RecordCases DEF Succeeds, Fails
<1>3. pending' \in [Check -> SUBSET [at : Time, sample : Sample]]
  BY <1>2 DEF TypeOK
<1>4. faults' \in 0 .. MaxFaults
  BY <1>2, HistoryAssumption DEF TypeOK
<1>5. CASE UNCHANGED <<results, recorded, current>>
  BY <1>2, <1>3, <1>4, <1>5 DEF TypeOK
<1>6. CASE Store(c, p)
  <2>1. p.at \in Time /\ p.sample \in Sample
    BY DEF TypeOK
  <2>2. p.sample.state \in State /\ p.sample.reason \in {"none", "paused_after_failure"}
    BY <2>1, HistoryAssumption
  <2>3. NewRow(c, p) \in Row
    BY <2>1, RoomForRow DEF NewRow, Row
  <2>4. recorded' \subseteq Row /\ results' \subseteq recorded' /\ recorded \subseteq recorded'
    BY <1>6, <2>3 DEF Store, TypeOK
  <2>5. Since(current[c], p.sample, p.at) \in Time \cup {None}
    BY <2>1 DEF Since, TypeOK
  <2>6. current' \in [Check -> [state : State, reason : {"none", "paused_after_failure"},
                                since : Time \cup {None}, checkedAt : Time \cup {None}]]
    BY <1>6, <2>1, <2>2, <2>5 DEF Store, TypeOK
  <2> QED
    BY <1>2, <1>3, <1>4, <2>4, <2>6 DEF TypeOK
<1> QED
  BY <1>1, <1>5, <1>6

LEMMA ObserveTypes ==
  ASSUME TypeOK, CountInv, NEW c \in Check, Observe(c)
  PROVE  TypeOK' /\ CountInv'
<1>1. /\ pending[c] = {} /\ Cardinality(recorded) + Cardinality(Waiting) < MaxRows
      /\ UNCHANGED <<results, current, daily, hourly, running, step, asOf, lastPrune,
                     now, boots, faults, recorded, passed, hourPassed>>
  BY DEF Observe, Waiting, tables, maintenance, environment, passes
<1>2. PICK s \in Sample : pending' = [pending EXCEPT ![c] = {[at |-> now, sample |-> s]}]
  BY DEF Observe
<1>3. TypeOK'
  BY <1>1, <1>2 DEF TypeOK
<1>4. Waiting' = Waiting \cup {c}
  BY <1>2 DEF Waiting, TypeOK
<1>5. IsFiniteSet(Waiting') /\ Cardinality(Waiting') = Cardinality(Waiting) + 1
  <2>1. c \notin Waiting
    BY <1>1 DEF Waiting
  <2> QED
    BY <1>4, <2>1, FS_AddElement DEF CountInv
<1>6. CountInv'
  BY <1>1, <1>5, Counts DEF CountInv
<1> QED
  BY <1>3, <1>6

\* The maintenance loop moves rows between tables and makes none up.
LEMMA MaintainTypes ==
  ASSUME TypeOK, Maintain
  PROVE  TypeOK' /\ UNCHANGED <<recorded, pending>>
<1> USE DEF TypeOK, Steps
<1>0. \A k \in {faults, faults + 1} : k \in Int /\ (k = faults \/ faults < MaxFaults => k \in 0 .. MaxFaults)
  BY HistoryAssumption
<1>1. 0 \in Time
  BY HistoryAssumption DEF Time
<1>2. CASE StartPass
  BY <1>2 DEF StartPass, tables, environment, passes
<1>3. CASE Rollup
  <2>1. daily' \subseteq daily \cup results /\ passed' \subseteq passed \cup results
    BY <1>3 DEF Rollup, Recompute
  <2>2. faults' \in 0 .. MaxFaults
    BY <1>0, <1>3 DEF Rollup, Succeeds, Fails
  <2> QED
    BY <1>3, <2>1, <2>2 DEF Rollup
<1>4. CASE RollupHourly
  <2>1. hourly' \subseteq hourly \cup results /\ hourPassed' \subseteq hourPassed \cup results
    BY <1>4 DEF RollupHourly, Recompute, RollupHours
  <2>2. faults' \in 0 .. MaxFaults
    BY <1>0, <1>4 DEF RollupHourly, Succeeds, Fails
  <2>3. step' \in Steps /\ asOf' \in Time /\ lastPrune' \in Time \cup {None}
    BY <1>1, <1>4 DEF RollupHourly
  <2>4. UNCHANGED <<results, current, daily, running, pending, now, boots, recorded, passed>>
    BY <1>4 DEF RollupHourly
  <2> QED
    BY <2>1, <2>2, <2>3, <2>4
<1>5. CASE PruneRaw
  <2>1. results' \subseteq results /\ step' \in Steps
    BY <1>5 DEF PruneRaw
  <2>2. faults' \in 0 .. MaxFaults
    BY <1>0, <1>5 DEF PruneRaw, Succeeds, Fails
  <2> QED
    BY <1>5, <2>1, <2>2 DEF PruneRaw, passes
<1>6. CASE PruneDays
  <2>1. daily' \subseteq daily
    BY <1>6 DEF PruneDays
  <2>2. faults' \in 0 .. MaxFaults
    BY <1>0, <1>6 DEF PruneDays, Succeeds, Fails
  <2> QED
    BY <1>6, <2>1, <2>2 DEF PruneDays, passes
<1>7. CASE PruneHourly
  <2>1. hourly' \subseteq hourly
    BY <1>7 DEF PruneHourly
  <2>2. faults' \in 0 .. MaxFaults
    BY <1>0, <1>7 DEF PruneHourly, Succeeds, Fails
  <2> QED
    BY <1>1, <1>7, <2>1, <2>2 DEF PruneHourly, passes
<1> QED
  BY <1>2, <1>3, <1>4, <1>5, <1>6, <1>7 DEF Maintain

LEMMA StepTypes == TypeOK /\ CountInv /\ [Next]_historyVars => TypeOK' /\ CountInv'
<1> SUFFICES ASSUME TypeOK, CountInv, [Next]_historyVars PROVE TypeOK' /\ CountInv'
  OBVIOUS
<1>1. CASE Tick
  <2>1. now' \in Time
    BY <1>1, HistoryAssumption DEF Tick, TypeOK, Time
  <2> QED
    BY <1>1, <2>1 DEF Tick, tables, maintenance, passes, TypeOK, CountInv, Waiting
<1>2. CASE Boot
  <2>1. boots' \in 0 .. MaxBoots /\ lastPrune' = None /\ step' \in Steps
    BY <1>2, HistoryAssumption DEF Boot, TypeOK, Steps
  <2> QED
    BY <1>2, <2>1 DEF Boot, tables, passes, TypeOK, CountInv, Waiting
<1>3. CASE Crash
  <2>1. 0 \in Time /\ step' \in Steps
    BY <1>3, HistoryAssumption DEF Crash, Time, Steps
  <2>2. TypeOK'
    BY <1>3, <2>1 DEF Crash, tables, environment, passes, TypeOK
  <2>3. Waiting' = {} /\ UNCHANGED recorded
    BY <1>3 DEF Crash, Waiting
  <2>4. CountInv'
    BY <2>3, Counts, FS_EmptySet DEF CountInv
  <2> QED
    BY <2>2, <2>4
<1>4. CASE Maintain
  BY <1>4, MaintainTypes DEF CountInv, Waiting
<1>5. ASSUME NEW c \in Check, Observe(c) \/ RecordResult(c) PROVE TypeOK' /\ CountInv'
  BY <1>5, ObserveTypes, RecordCounts, RecordTypes
<1>6. CASE UNCHANGED historyVars
  BY <1>6 DEF historyVars, tables, maintenance, environment, passes, TypeOK, CountInv, Waiting
<1> QED
  BY <1>1, <1>2, <1>3, <1>4, <1>5, <1>6 DEF Next

THEOREM TypesAndCounts == Spec => [](TypeOK /\ CountInv)
BY InitTypes, StepTypes, PTL DEF Spec

\* Every variable keeps its type, and no table ever counts a row that was not
\* recorded, for any number of checks, calendar and retention.
COROLLARY HistoryTypeSafe == Spec => []TypeOK
BY TypesAndCounts, PTL

-----------------------------------------------------------------------------
(* The moment a state is held since.  The live state of a check is that of *)
(* its last row, and a result is never stored before an older one of the   *)
(* same check.                                                             *)

Of(c) == {r \in recorded : r.check = c}

InOrder ==
  \A c \in Check :
    /\ \A p \in pending[c] : p.at <= now
    /\ \A r \in Of(c) : r.at <= now /\ \A p \in pending[c] : r.at <= p.at

LastRow ==
  \A c \in Check :
    IF current[c] = NoRow THEN Of(c) = {}
    ELSE \E last \in Of(c) :
           /\ last.sample.state = current[c].state
           /\ last.sample.reason = current[c].reason
           /\ last.at = current[c].checkedAt
           /\ \A r \in Of(c) : r.n <= last.n

RunInv == InOrder /\ LastRow /\ SinceIsFirstOfRun

\* The rows of a check's unbroken run, as SinceIsFirstOfRun takes them.
Other(c) == {r \in Of(c) : r.sample.state # current[c].state}
LatestRun(c) == {r \in Of(c) : \A o \in Other(c) : o.n < r.n}

LEMMA SinceForm ==
  SinceIsFirstOfRun <=>
    \A c \in Check : current[c] # NoRow =>
      /\ \E r \in LatestRun(c) : r.at = current[c].since
      /\ \A r \in LatestRun(c) : current[c].since <= r.at
BY DEF SinceIsFirstOfRun, LatestRun, Other, Of

LEMMA InitRun == Init => RunInv
BY DEF Init, RunInv, InOrder, LastRow, SinceIsFirstOfRun, Of

LEMMA RecordOrder ==
  ASSUME TypeOK, InOrder, NEW c \in Check, RecordResult(c)
  PROVE  InOrder'
<1>1. PICK p \in pending[c] : Store(c, p) \/ UNCHANGED recorded
  BY RecordCases
<1>2. pending' = [pending EXCEPT ![c] = {}] /\ UNCHANGED now
  BY RecordCases
<1>3. NewRow(c, p).check = c /\ NewRow(c, p).at = p.at /\ p.at <= now
  BY DEF NewRow, InOrder
<1>4. \A d \in Check : pending'[d] = IF d = c THEN {} ELSE pending[d]
  BY <1>2 DEF TypeOK
<1>5. \A d \in Check : \A r \in Of(d)' : r \in Of(d) \/ (d = c /\ r.at = p.at)
  BY <1>1, <1>3 DEF Of, Store
<1> QED
  BY <1>2, <1>3, <1>4, <1>5 DEF InOrder

\* What a check's new row does to its run.
LEMMA RecordRun ==
  ASSUME TypeOK, CountInv, RunInv, NEW c \in Check, NEW p \in pending[c], Store(c, p)
  PROVE  LastRow' /\ SinceIsFirstOfRun'
<1> DEFINE new == NewRow(c, p)
<1>1. /\ new.check = c /\ new.at = p.at /\ new.sample = p.sample
      /\ new.n = Cardinality(recorded) + 1 /\ recorded' = recorded \cup {new}
  BY DEF NewRow, Store
<1>2. p.at \in Int /\ p.sample \in Sample
  BY DEF TypeOK, Time
<1>3. \A r \in recorded : r.n \in Int /\ r.at \in Int /\ r.n < new.n
  <2>1. \A r \in recorded : r.n \in Int /\ r.at \in Int /\ r.n <= Cardinality(recorded)
    BY DEF TypeOK, Row, Time, CountInv
  <2> HIDE DEF new
  <2> QED
    BY <1>1, <2>1, Counts
<1>4. \A d \in Check \ {c} : current'[d] = current[d]
  BY DEF Store, TypeOK
<1>5. /\ current'[c].state = p.sample.state /\ current'[c].reason = p.sample.reason
      /\ current'[c].checkedAt = p.at
      /\ current'[c].since = Since(current[c], p.sample, p.at)
  BY DEF Store, TypeOK
<1>6. current'[c] # NoRow
  <2>1. current'[c].checkedAt # None
    BY <1>5 DEF TypeOK, Time, None
  <2> QED
    BY <2>1 DEF NoRow
<1> HIDE DEF new
<1>7. Of(c)' = Of(c) \cup {new} /\ \A d \in Check \ {c} : Of(d)' = Of(d)
  BY <1>1 DEF Of
<1>8. \A r \in Of(c) : r \in recorded /\ r.n \in Int /\ r.at \in Int /\ r.n < new.n /\ r.at <= p.at
  BY <1>3 DEF Of, RunInv, InOrder
<1>9. LastRow'
  <2> SUFFICES ASSUME NEW d \in Check
               PROVE  IF current'[d] = NoRow THEN Of(d)' = {}
                      ELSE \E last \in Of(d)' :
                             /\ last.sample.state = current'[d].state
                             /\ last.sample.reason = current'[d].reason
                             /\ last.at = current'[d].checkedAt
                             /\ \A r \in Of(d)' : r.n <= last.n
    BY DEF LastRow, NoRow
  <2>1. CASE d = c
    <3>1. new.n \in Int
      BY <1>1, Counts
    <3>2. \A r \in Of(c)' : r.n <= new.n
      BY <1>7, <1>8, <3>1
    <3> QED
      BY <1>1, <1>5, <1>6, <1>7, <2>1, <3>2
  <2>2. CASE d # c
    BY <1>4, <1>7, <2>2 DEF RunInv, LastRow
  <2> QED
    BY <2>1, <2>2
<1>10. ASSUME NEW d \in Check \ {c}, current'[d] # NoRow
       PROVE  /\ \E r \in LatestRun(d)' : r.at = current'[d].since
              /\ \A r \in LatestRun(d)' : current'[d].since <= r.at
  <2>1. LatestRun(d)' = LatestRun(d)
    BY <1>4, <1>7 DEF LatestRun, Other
  <2> QED
    BY <1>4, <1>10, <2>1, SinceForm DEF RunInv
<1>11. new \in LatestRun(c)'
  <2>1. Other(c)' \subseteq Of(c)
    BY <1>1, <1>5, <1>7 DEF Other
  <2> QED
    BY <1>7, <1>8, <2>1 DEF LatestRun
<1>12. ASSUME /\ \E r \in LatestRun(c)' : r.at = current'[c].since
              /\ \A r \in LatestRun(c)' : current'[c].since <= r.at
       PROVE  SinceIsFirstOfRun'
  <2>1. \A d \in Check : current'[d] # NoRow =>
          /\ \E r \in LatestRun(d)' : r.at = current'[d].since
          /\ \A r \in LatestRun(d)' : current'[d].since <= r.at
    BY <1>10, <1>12
  <2> QED
    BY <2>1 DEF SinceIsFirstOfRun, LatestRun, Other, Of, NoRow
<1>13. CASE current[c] # NoRow /\ current[c].state = p.sample.state
  <2>1. current'[c].since = current[c].since
    BY <1>5, <1>13 DEF Since
  <2>2. Other(c)' = Other(c)
    BY <1>1, <1>5, <1>7, <1>13 DEF Other
  <2>3. LatestRun(c)' = LatestRun(c) \cup {new}
    BY <1>7, <1>11, <2>2 DEF LatestRun
  <2>4. PICK r \in LatestRun(c) : r.at = current[c].since
    BY <1>13, SinceForm DEF RunInv
  <2>5. \A q \in LatestRun(c) : current[c].since <= q.at
    BY <1>13, SinceForm DEF RunInv
  <2>6. current[c].since <= new.at
    BY <1>1, <1>8, <2>4 DEF LatestRun
  <2> QED
    BY <1>9, <1>12, <2>1, <2>3, <2>4, <2>5, <2>6
<1>14. CASE ~(current[c] # NoRow /\ current[c].state = p.sample.state)
  <2>1. current'[c].since = new.at
    BY <1>1, <1>5, <1>14 DEF Since
  <2>2. ASSUME NEW r \in LatestRun(c)' PROVE r = new
    <3>1. CASE current[c] = NoRow
      BY <1>7, <2>2, <3>1 DEF RunInv, LastRow, LatestRun
    <3>2. CASE current[c] # NoRow
      <4>1. PICK last \in Of(c) : last.sample.state = current[c].state /\ \A q \in Of(c) : q.n <= last.n
        BY <3>2 DEF RunInv, LastRow
      <4>2. last \in Other(c)'
        BY <1>5, <1>7, <1>14, <3>2, <4>1 DEF Other
      <4>3. last.n < r.n
        BY <2>2, <4>2 DEF LatestRun
      <4>4. r \notin Of(c)
        BY <1>8, <4>1, <4>3
      <4> QED
        BY <1>7, <2>2, <4>4 DEF LatestRun
    <3> QED
      BY <3>1, <3>2
  <2>3. new.at <= new.at
    BY <1>1, <1>2
  <2> QED
    BY <1>9, <1>11, <1>12, <2>1, <2>2, <2>3
<1> QED
  BY <1>13, <1>14

LEMMA StepRun == TypeOK /\ CountInv /\ RunInv /\ [Next]_historyVars => RunInv'
<1> SUFFICES ASSUME TypeOK, CountInv, RunInv, [Next]_historyVars PROVE RunInv'
  OBVIOUS
<1>1. CASE Tick
  <2>1. UNCHANGED <<recorded, current, pending>> /\ now \in Int /\ now' = now + 1
    BY <1>1 DEF Tick, tables, TypeOK, Time
  <2>2. \A r \in recorded : r.at \in Int
    BY DEF TypeOK, Row, Time
  <2>3. \A c \in Check : \A p \in pending[c] : p.at \in Int
    BY DEF TypeOK, Time
  <2> QED
    BY <2>1, <2>2, <2>3 DEF RunInv, InOrder, LastRow, SinceIsFirstOfRun, Of
<1>2. CASE UNCHANGED <<recorded, current, pending, now>>
  BY <1>2 DEF RunInv, InOrder, LastRow, SinceIsFirstOfRun, Of
<1>3. CASE Crash
  BY <1>3 DEF Crash, tables, environment, RunInv, InOrder, LastRow, SinceIsFirstOfRun, Of
<1>4. ASSUME NEW c \in Check, Observe(c) PROVE RunInv'
  <2>1. UNCHANGED <<recorded, current, now>>
    BY <1>4 DEF Observe, tables, environment
  <2>2. \A d \in Check : \A p \in pending'[d] : p \in pending[d] \/ p.at = now
    BY <1>4 DEF Observe, TypeOK
  <2>3. now \in Int /\ now <= now
    BY DEF TypeOK, Time
  <2> QED
    BY <2>1, <2>2, <2>3 DEF RunInv, InOrder, LastRow, SinceIsFirstOfRun, Of
<1>5. ASSUME NEW c \in Check, RecordResult(c) PROVE RunInv'
  <2>1. InOrder'
    BY <1>5, RecordOrder DEF RunInv
  <2>2. PICK p \in pending[c] : Store(c, p) \/ UNCHANGED <<recorded, current>>
    BY <1>5, RecordCases
  <2>3. CASE UNCHANGED <<recorded, current>>
    BY <2>1, <2>3 DEF RunInv, LastRow, SinceIsFirstOfRun, Of
  <2> QED
    BY <2>1, <2>2, <2>3, RecordRun DEF RunInv
<1>6. \/ Tick \/ Crash \/ UNCHANGED <<recorded, current, pending, now>>
      \/ \E c \in Check : Observe(c) \/ RecordResult(c)
  BY DEF Next, Maintain, Boot, StartPass, Rollup, RollupHourly, PruneRaw, PruneDays,
         PruneHourly, tables, environment, historyVars
<1> QED
  BY <1>1, <1>2, <1>3, <1>4, <1>5, <1>6

THEOREM RunCorrect == Spec => []RunInv
BY TypesAndCounts, InitRun, StepRun, PTL DEF Spec

\* since is the moment of the first result of the run of the state a check is
\* in, for any number of checks, whatever is lost, deleted or crashes.
COROLLARY SinceFirstSafe == Spec => []SinceIsFirstOfRun
<1>1. RunInv => SinceIsFirstOfRun
  BY DEF RunInv
<1> QED
  BY <1>1, RunCorrect, PTL
=============================================================================
