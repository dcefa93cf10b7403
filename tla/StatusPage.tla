----------------------------- MODULE StatusPage ------------------------------
(***************************************************************************)
(* One visitor's page, built from the tables of History while the checks   *)
(* and the maintenance loop go on writing them.  Build reads the clock     *)
(* once and then Postgres four times, in no transaction: the live states,  *)
(* the daily buckets, the hourly buckets, and the raw rows of the current  *)
(* hour.                                                                   *)
(***************************************************************************)
EXTENDS History, Sequences

CONSTANTS
  Service,      \* the rows of the page
  ChecksOf,     \* each one's checks
  HistoryDays   \* days shown

ASSUME PageAssumption ==
  /\ ChecksOf \in [Service -> SUBSET Check]
  /\ HistoryDays \in Nat \ {0}

VARIABLES
  reading,   \* what Build reads next
  builtAt,   \* the clock as the handler read it
  row,       \* the live states it read
  dayRows, hourRows   \* the rows counted by the buckets it read

view == <<reading, builtAt, row, dayRows, hourRows>>
vars == <<historyVars, view>>

-----------------------------------------------------------------------------
(* How samples become a colour and checks become a row.                    *)

Tally(rows, s) == Cardinality({r \in rows : r.sample.state = s})
Conclusive(rows) == Tally(rows, "up") + Tally(rows, "degraded") + Tally(rows, "down")

\* (mutant)
MostlyUp(rows) ==
  IF Conclusive(rows) = 0 THEN "unknown"
  ELSE IF 2 * Tally(rows, "up") > Conclusive(rows) THEN "up" ELSE "down"

\* dayState summarises one check's bucket.
DayState(rows) ==
  CASE Conclusive(rows) = 0 /\ Tally(rows, "retired") > 0      -> "retired"
    [] Conclusive(rows) = 0 /\ Tally(rows, "retired") = 0      -> "unknown"
    [] Conclusive(rows) > 0 /\ Tally(rows, "up") = Conclusive(rows)   -> "up"
    [] Conclusive(rows) > 0 /\ Tally(rows, "down") = Conclusive(rows) -> "down"
    [] OTHER -> "degraded"

CheckStates(svc, live) ==
  {RollupState(live[c].state, live[c].reason) : c \in ChecksOf[svc]}
ServiceState(svc, live) == DeriveServiceState(CheckStates(svc, live))
Overall(live) == DeriveServiceState({ServiceState(s, live) : s \in Service})
Banner(state) == IF state \in {"up", "retired"} THEN "ok" ELSE state

\* The first of the moments at which a check entered the service's state.
EarliestSince(svc, live) ==
  LET since == {live[c].since : c \in
                  {d \in ChecksOf[svc] : live[d].state = ServiceState(svc, live)}} \ {None}
  IN  IF since = {} THEN None ELSE CHOOSE t \in since : \A u \in since : t <= u

\* One box of a strip, from the rows its buckets count.  A check none of
\* whose buckets in the window exist has no series and no say in the box.
Box(svc, bucket, series) ==
  [state |-> DeriveServiceState({DayState(bucket[c]) : c \in ChecksOf[svc] \cap series}),
   rows  |-> UNION {bucket[c] : c \in ChecksOf[svc] \cap series}]

Window(newest, length) == newest - length + 1 .. newest

DayBox(svc, d) ==
  LET shown == {r \in dayRows : LocalDay(r.at) \in Window(LocalDay(builtAt), HistoryDays)}
      bucket == [c \in Check |-> {r \in shown : r.check = c /\ LocalDay(r.at) = d}]
  IN  Box(svc, bucket, {r.check : r \in shown})

\* (mutant)
UpToNow(r) == r.at >= HourStart(LocalHour(builtAt)) /\ r.at <= builtAt

\* currentHourBuckets has a lower bound only.
InCurrentHour(r) == r.at >= HourStart(LocalHour(builtAt))
LiveRows == {r \in results : InCurrentHour(r)}

\* The current hour's box is the raw rows, for a check that has any.
HourBox(svc, h) ==
  LET shown == {r \in hourRows : LocalHour(r.at) \in Window(LocalHour(builtAt), HistoryHours)}
      Live(c) == {r \in LiveRows : r.check = c}
      Stored(c) == {r \in shown : r.check = c /\ LocalHour(r.at) = h}
      bucket == [c \in Check |->
                   IF h = LocalHour(builtAt) /\ Live(c) # {} THEN Live(c) ELSE Stored(c)]
  IN  Box(svc, bucket, {r.check : r \in shown \cup LiveRows})

\* The strips, oldest box first.
Days(svc) == [i \in 1 .. HistoryDays |-> DayBox(svc, LocalDay(builtAt) - HistoryDays + i)]
Hours(svc) == [i \in 1 .. HistoryHours |-> HourBox(svc, LocalHour(builtAt) - HistoryHours + i)]

\* (mutant)
Oldest(strip, n) == SubSeq(strip, 1, n)

\* The API hands out the newest n boxes of a strip.
Trimmed(strip, n) == SubSeq(strip, Len(strip) - n + 1, Len(strip))

\* GET .../history: what is asked for is a number of boxes, or nothing.
ApiHistory(strip, asked) ==
  IF asked = None THEN [code |-> 200, buckets |-> strip]
  ELSE IF asked \in 1 .. Len(strip) THEN [code |-> 200, buckets |-> Trimmed(strip, asked)]
  ELSE [code |-> 400, buckets |-> <<>>]

-----------------------------------------------------------------------------
(* Building the page.                                                      *)

PageInit ==
  /\ Init
  /\ reading = "nothing" /\ builtAt = 0
  /\ row = [c \in Check |-> NoRow]
  /\ dayRows = {} /\ hourRows = {}

Discarded ==
  /\ reading' = "nothing" /\ builtAt' = 0
  /\ row' = [c \in Check |-> NoRow]
  /\ dayRows' = {} /\ hourRows' = {}

\* A request arrives; the handler reads the clock.
Request ==
  /\ running /\ reading = "nothing"
  /\ reading' = "current" /\ builtAt' = now
  /\ UNCHANGED <<historyVars, row, dayRows, hourRows>>

CurrentStates ==
  /\ reading = "current" /\ reading' = "days"
  /\ row' = current
  /\ UNCHANGED <<historyVars, builtAt, dayRows, hourRows>>

DailyHistory ==
  /\ reading = "days" /\ reading' = "hours"
  /\ dayRows' = daily
  /\ UNCHANGED <<historyVars, builtAt, row, hourRows>>

HourlyHistory ==
  /\ reading = "hours" /\ reading' = "live"
  /\ hourRows' = hourly
  /\ UNCHANGED <<historyVars, builtAt, row, dayRows>>

\* The last read completes the page, which is served.
CurrentHourBuckets == reading = "live" /\ Discarded /\ UNCHANGED historyVars

\* A call to Postgres fails, or the visitor leaves.
Abandon == reading # "nothing" /\ Discarded /\ UNCHANGED historyVars

\* The process takes the request with it.
Exit == Crash /\ Discarded

Build ==
  Request \/ CurrentStates \/ DailyHistory \/ HourlyHistory \/ CurrentHourBuckets \/ Abandon

Write ==
  \/ Tick \/ Boot \/ Maintain
  \/ \E c \in Check : Observe(c) \/ RecordResult(c)

PageNext == (Write /\ UNCHANGED view) \/ Exit \/ Build

PageSpec == PageInit /\ [][PageNext]_vars

-----------------------------------------------------------------------------
(* Properties.  Those of a page are about the page the last read would     *)
(* complete.                                                               *)

Complete == reading = "live"

\* Every variable of the page keeps its type; it counts recorded rows only.
PageTypeOK ==
  /\ reading \in {"nothing", "current", "days", "hours", "live"}
  /\ builtAt \in Time
  /\ row \in [Check -> [state : State, reason : {"none", "paused_after_failure"},
                        since : Time \cup {None}, checkedAt : Time \cup {None}]]
  /\ dayRows \cup hourRows \subseteq recorded

\* The newest box answers "is it broken right now": a check whose live state
\* is of the current hour has the very result behind it counted in that box,
\* though results, rollups and the turn of the hour come between the reads.
NewestBoxCoversRow ==
  Complete =>
    \A s \in Service : \A c \in ChecksOf[s] :
      row[c].checkedAt # None /\ LocalHour(row[c].checkedAt) >= LocalHour(builtAt) =>
        \E r \in HourBox(s, LocalHour(builtAt)).rows :
          r.check = c /\ r.at = row[c].checkedAt /\ r.sample.state = row[c].state

\* A box is green exactly when it shows 100 %, and red only when it shows 0 %,
\* over all the samples of all the service's checks.
ColourMatchesUptime ==
  Complete =>
    \A s \in Service :
      \A b \in {Days(s)[i] : i \in 1 .. HistoryDays} \cup {Hours(s)[i] : i \in 1 .. HistoryHours} :
            /\ b.state = "up" <=>
                 Conclusive(b.rows) > 0 /\ Tally(b.rows, "up") = Conclusive(b.rows)
            /\ b.state = "down" => Tally(b.rows, "up") = 0

\* The API and the page cannot disagree about the present: however few hours
\* or days a consumer asks for, the last bucket it gets is the page's newest
\* box, and it gets as many as it asked for or is told that it cannot.
ApiEndsNow ==
  Complete =>
    \A s \in Service : \A strip \in {Days(s), Hours(s)} :
      \A asked \in {None} \cup 0 .. Len(strip) + 1 :
        LET answer == ApiHistory(strip, asked)
        IN  IF asked \in {0, Len(strip) + 1} THEN answer.code = 400
            ELSE /\ answer.code = 200
                 /\ asked # None => Len(answer.buckets) = asked
                 /\ answer.buckets[Len(answer.buckets)] = strip[Len(strip)]

\* No failing check hides behind the page: a check that is down, or paused
\* after a failure, keeps its service's row off green and grey, and the banner
\* off both "ok" and "unknown".
FailureReachesTheBanner ==
  Complete =>
    \A s \in Service :
      (\E c \in ChecksOf[s] :
          row[c].state = "down" \/ row[c].reason = "paused_after_failure")
        => /\ ServiceState(s, row) \in {"down", "degraded"}
           /\ Banner(Overall(row)) \in {"down", "degraded"}

\* What the comment on earliestSince says of the moment the row shows: the
\* service has held its current state since then.
LiveAfter(n) ==
  [c \in Check |->
    LET mine == {r \in recorded : r.check = c /\ r.n <= n}
        last == CHOOSE r \in mine : \A o \in mine : o.n <= r.n
    IN  IF mine = {} THEN NoRow
        ELSE [NoRow EXCEPT !.state = last.sample.state, !.reason = last.sample.reason]]
SinceIsServiceSince ==
  \A s \in Service :
    LET since == EarliestSince(s, current)
    IN  since # None =>
          \A r \in recorded : r.at > since =>
            ServiceState(s, LiveAfter(r.n)) = ServiceState(s, current)
=============================================================================
