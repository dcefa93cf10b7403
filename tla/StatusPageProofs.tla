--------------------------- MODULE StatusPageProofs --------------------------
(***************************************************************************)
(* What a page shows, for any services, calendar and interleaving of its   *)
(* reads with the writers.  A page step stutters for History, so what is   *)
(* proved of the tables holds here too; a page that is read is a true copy *)
(* of rows that were recorded, taken no earlier than the moment it is of.  *)
(***************************************************************************)
EXTENDS StatusPage, HistoryProofs

\* The tables do not notice who reads them.
LEMMA PageStep == [PageNext]_vars => [Next]_historyVars
BY DEF PageNext, Write, Exit, Build, Request, CurrentStates, DailyHistory, HourlyHistory,
       CurrentHourBuckets, Abandon, Next, vars

THEOREM PageReadsHistory == PageSpec => Spec
BY PageStep, PTL DEF PageSpec, PageInit, Spec

LEMMA PageConstants ==
  /\ \A s \in Service : ChecksOf[s] \subseteq Check
  /\ HistoryDays \in Nat /\ HistoryDays >= 1 /\ HistoryHours \in Nat /\ HistoryHours >= 1
BY PageAssumption, HistoryAssumption

-----------------------------------------------------------------------------
(* Types, and the rows behind the live states that were read.              *)

States == [Check -> [state : State, reason : {"none", "paused_after_failure"},
                     since : Time \cup {None}, checkedAt : Time \cup {None}]]

\* A live state is that of a recorded row, or of none.
Copied(live) ==
  \A c \in Check : live[c] # NoRow =>
    \E r \in Of(c) : /\ r.sample.state = live[c].state
                     /\ r.sample.reason = live[c].reason
                     /\ r.at = live[c].checkedAt

PageInv == PageTypeOK /\ builtAt <= now /\ Copied(row)

LEMMA NoRowType == [c \in Check |-> NoRow] \in States
BY DEF States, NoRow, State

LEMMA InitPage == PageInit => PageInv
<1> SUFFICES ASSUME PageInit PROVE PageInv
  OBVIOUS
<1>1. 0 \in Time /\ now = 0 /\ builtAt = 0
  BY HistoryAssumption DEF PageInit, Init, Time
<1> QED
  BY <1>1, NoRowType DEF PageInit, PageInv, PageTypeOK, States, Copied

LEMMA PageStepKinds ==
  ASSUME [PageNext]_vars
  PROVE  \/ UNCHANGED view
         \/ Discarded
         \/ UNCHANGED historyVars /\ Build /\ ~Discarded
BY DEF PageNext, Write, Exit, Build, CurrentHourBuckets, Abandon, Request, CurrentStates,
       DailyHistory, HourlyHistory, vars

\* Rows are only ever added to what was recorded, and the clock only advances.
LEMMA RecordedGrows ==
  ASSUME TypeOK, CountInv, [Next]_historyVars
  PROVE  recorded \subseteq recorded' /\ now <= now' /\ now \in Int /\ now' \in Int
<1>1. now \in Int /\ now <= now
  BY DEF TypeOK, Time
<1>2. CASE Tick
  BY <1>1, <1>2 DEF Tick
<1>3. ASSUME NEW c \in Check, RecordResult(c) PROVE recorded \subseteq recorded' /\ now' = now
  BY <1>3, RecordCases DEF Store
<1>4. CASE UNCHANGED <<recorded, now>>
  BY <1>1, <1>4
<1>5. \/ Tick \/ UNCHANGED <<recorded, now>> \/ \E c \in Check : RecordResult(c)
  BY DEF Next, Maintain, Boot, Crash, StartPass, Rollup, RollupHourly, PruneRaw, PruneDays,
         PruneHourly, Observe, environment, historyVars
<1> QED
  BY <1>1, <1>2, <1>3, <1>4, <1>5

LEMMA StepPage ==
  TypeOK /\ CountInv /\ LastRow /\ PageInv /\ [PageNext]_vars => PageInv'
<1> SUFFICES ASSUME TypeOK, CountInv, LastRow, PageInv, [PageNext]_vars PROVE PageInv'
  OBVIOUS
<1>1. recorded \subseteq recorded' /\ now <= now' /\ now \in Int /\ now' \in Int /\ builtAt \in Int
      /\ Check' = Check
  BY PageStep, RecordedGrows DEF PageInv, PageTypeOK, Time
<1>2. \A c \in Check : Of(c) \subseteq Of(c)'
  BY <1>1 DEF Of
<1>3. CASE UNCHANGED view
  <2>1. PageTypeOK' /\ builtAt' <= now'
    BY <1>1, <1>3 DEF view, PageInv, PageTypeOK
  <2>2. Copied(row)'
    BY <1>2, <1>3 DEF view, PageInv, Copied, NoRow
  <2> QED
    BY <2>1, <2>2 DEF PageInv
<1>4. CASE Discarded
  <2>1. 0 \in Time /\ 0 <= now'
    BY <1>1, HistoryAssumption DEF Time, TypeOK, PageInv, PageTypeOK
  <2>2. PageTypeOK'
    BY <1>4, <2>1, NoRowType DEF Discarded, PageTypeOK, States
  <2>3. Copied(row)'
    BY <1>4 DEF Discarded, Copied, NoRow
  <2> QED
    BY <1>4, <2>1, <2>2, <2>3 DEF Discarded, PageInv
<1>5. CASE UNCHANGED historyVars /\ Build /\ ~Discarded
  <2>1. UNCHANGED <<recorded, now, current, daily, hourly>>
    BY <1>5 DEF historyVars, tables, environment
  <2>2. CASE Request
    <3>1. PageTypeOK' /\ builtAt' <= now'
      BY <1>1, <2>1, <2>2 DEF Request, PageInv, PageTypeOK, TypeOK
    <3>2. Copied(row)'
      BY <1>2, <2>2 DEF Request, PageInv, Copied, NoRow
    <3> QED
      BY <3>1, <3>2 DEF PageInv
  <2>3. CASE CurrentStates
    <3>1. PageTypeOK' /\ builtAt' <= now'
      BY <2>1, <2>3 DEF CurrentStates, PageInv, PageTypeOK, TypeOK
    <3>2. Copied(current)
      BY DEF LastRow, Copied
    <3>3. Copied(row)'
      BY <1>2, <2>3, <3>2 DEF CurrentStates, Copied, NoRow
    <3> QED
      BY <3>1, <3>3 DEF PageInv
  <2>4. CASE DailyHistory \/ HourlyHistory
    <3>1. PageTypeOK' /\ builtAt' <= now'
      BY <2>1, <2>4 DEF DailyHistory, HourlyHistory, PageInv, PageTypeOK, TypeOK
    <3>2. Copied(row)'
      BY <1>2, <2>4 DEF DailyHistory, HourlyHistory, PageInv, Copied, NoRow
    <3> QED
      BY <3>1, <3>2 DEF PageInv
  <2> QED
    BY <1>5, <2>2, <2>3, <2>4 DEF Build, CurrentHourBuckets, Abandon
<1> QED
  BY <1>3, <1>4, <1>5, PageStepKinds

\* What the page's properties rest on, of the tables and of the page.
BothInv == HistoryInv /\ TypeOK /\ CountInv /\ RunInv /\ PageInv

THEOREM PageCorrect == PageSpec => []BothInv
<1>1. RunInv => LastRow
  BY DEF RunInv
<1>2. PageSpec => []PageInv
  BY <1>1, PageReadsHistory, TypesAndCounts, RunCorrect, InitPage, StepPage, PTL DEF PageSpec
<1> QED
  BY <1>2, PageReadsHistory, HistoryCorrect, TypesAndCounts, RunCorrect, PTL DEF BothInv

\* Every variable of the page keeps its type; it counts recorded rows only.
COROLLARY PageTypeSafe == PageSpec => []PageTypeOK
<1>1. BothInv => PageTypeOK
  BY DEF BothInv, PageInv
<1> QED
  BY <1>1, PageCorrect, PTL

-----------------------------------------------------------------------------
(* The newest box.                                                         *)

\* The page is built within the raw retention, less the hour it is of.
BuiltInTime == now - builtAt <= RawKept - Hour

\* What happened in the hour of the page has not been deleted yet.
LEMMA HourStillRaw ==
  ASSUME HistoryInv, builtAt <= now, builtAt \in Int, BuiltInTime,
         NEW r \in recorded, LocalHour(r.at) >= LocalHour(builtAt)
  PROVE  r \in LiveRows
<1> DEFINE h == LocalHour(builtAt)
           g == LocalHour(r.at)
<1>1. r.at \in Int /\ h \in Int /\ g \in Int /\ now \in Int /\ asOf \in Int /\ asOf <= now
  BY HourTypes DEF HistoryInv, RowInv
<1>2. /\ g * Hour \in Int /\ g * Hour <= r.at + Offset
      /\ h * Hour \in Int /\ builtAt + Offset < h * Hour + Hour
  BY <1>1, HourStartBound
<1>3. h <= g
  BY <1>1
<1> HIDE DEF h, g
<1>4. h * Hour <= g * Hour
  BY <1>1, <1>3, Lengths, TimesMonotone
<1>5. h * Hour - Offset <= r.at /\ builtAt - Hour < r.at
  BY <1>1, <1>2, <1>4, Lengths
<1>6. r.at >= HourStart(h)
  BY <1>1, <1>2, <1>5, Lengths DEF HourStart
<1>7. RawKept \in Int /\ Moment \in Int /\ Moment <= now
  BY <1>1, KeptType DEF Moment
<1>8. ~(r.at < Moment - RawKept)
  BY <1>1, <1>5, <1>7, Lengths DEF BuiltInTime
<1>9. r \in results
  BY <1>8 DEF HistoryInv, PrunedOld
<1> QED
  BY <1>6, <1>9 DEF LiveRows, InCurrentHour, h

\* A check with raw rows in the current hour has them all in the newest box.
LEMMA NewestBoxRows ==
  ASSUME NEW s \in Service, NEW c \in ChecksOf[s], NEW r \in LiveRows, r.check = c
  PROVE  r \in HourBox(s, LocalHour(builtAt)).rows
<1> DEFINE h == LocalHour(builtAt)
           shown == {q \in hourRows : LocalHour(q.at) \in Window(LocalHour(builtAt), HistoryHours)}
           Live(d) == {q \in LiveRows : q.check = d}
           Stored(d) == {q \in shown : q.check = d /\ LocalHour(q.at) = h}
           bucket == [d \in Check |->
                        IF h = LocalHour(builtAt) /\ Live(d) # {} THEN Live(d) ELSE Stored(d)]
           series == {q.check : q \in shown \cup LiveRows}
<1>1. c \in Check /\ c \in series /\ r \in Live(c)
  BY PageConstants
<1>2. bucket[c] = Live(c)
  BY <1>1
<1>3. r \in UNION {bucket[d] : d \in ChecksOf[s] \cap series}
  BY <1>1, <1>2
<1>4. HourBox(s, h).rows = UNION {bucket[d] : d \in ChecksOf[s] \cap series}
  BY DEF HourBox, Box
<1> QED
  BY <1>3, <1>4

LEMMA RowCovered == BothInv /\ BuiltInTime => NewestBoxCoversRow
<1> SUFFICES ASSUME BothInv, BuiltInTime, NEW s \in Service, NEW c \in ChecksOf[s],
                    row[c].checkedAt # None, LocalHour(row[c].checkedAt) >= LocalHour(builtAt)
             PROVE  \E r \in HourBox(s, LocalHour(builtAt)).rows :
                      r.check = c /\ r.at = row[c].checkedAt /\ r.sample.state = row[c].state
  BY DEF NewestBoxCoversRow
<1>1. c \in Check /\ row[c] # NoRow
  BY PageConstants DEF NoRow
<1>2. PICK r \in Of(c) : r.sample.state = row[c].state /\ r.at = row[c].checkedAt
  BY <1>1 DEF BothInv, PageInv, Copied
<1>3. r \in recorded /\ r.check = c
  BY DEF Of
<1>4. builtAt \in Int /\ builtAt <= now
  BY DEF BothInv, PageInv, PageTypeOK, Time
<1>5. r \in LiveRows
  BY <1>2, <1>3, <1>4, HourStillRaw DEF BothInv
<1> QED
  BY <1>2, <1>3, <1>5, NewestBoxRows

\* A page built in time counts the result behind each live state of the
\* current hour in its newest box, for every display zone and retention and
\* whatever the writers do between its reads.
THEOREM NewestBoxSafe == PageSpec => [](BuiltInTime => NewestBoxCoversRow)
BY RowCovered, PageCorrect, PTL

-----------------------------------------------------------------------------
(* The row and the banner.                                                 *)

Failing == {"down", "degraded"}

\* A failure among the states a row or the banner is made of is not lost, and
\* up, down and degraded come about as they should.
LEMMA FailureSurvives ==
  ASSUME NEW S, S \cap Failing # {}
  PROVE  DeriveServiceState(S) \in Failing
<1> DEFINE live == S \ {"retired"}
           known == live \ {"unknown"}
<1>1. S # {} /\ live # {} /\ known # {} /\ known # {"up"}
  BY DEF Failing
<1>2. CASE known = {"down"}
  <2>1. (CHOOSE s \in known : TRUE) = "down"
    BY <1>2
  <2> QED
    BY <1>1, <1>2, <2>1 DEF DeriveServiceState, Failing
<1>3. CASE known # {"down"}
  BY <1>1, <1>3 DEF DeriveServiceState, Failing
<1> QED
  BY <1>2, <1>3

\* Only a check that is unknown carries the reason of a pause.
PausedIsUnknown(live) ==
  \A c \in Check : live[c].reason = "paused_after_failure" => live[c].state = "unknown"

LEMMA CopiedPause == TypeOK /\ Copied(row) => PausedIsUnknown(row)
<1> SUFFICES ASSUME TypeOK, Copied(row), NEW c \in Check, row[c].reason = "paused_after_failure"
             PROVE  row[c].state = "unknown"
  BY DEF PausedIsUnknown
<1>1. row[c] # NoRow
  BY DEF NoRow
<1>2. PICK r \in Of(c) : r.sample.state = row[c].state /\ r.sample.reason = row[c].reason
  BY <1>1 DEF Copied
<1>3. r.sample \in Sample
  BY DEF Of, TypeOK, Row
<1> QED
  BY <1>2, <1>3, HistoryAssumption

LEMMA FailureShown == BothInv => FailureReachesTheBanner
<1> SUFFICES ASSUME BothInv, NEW s \in Service, NEW c \in ChecksOf[s],
                    row[c].state = "down" \/ row[c].reason = "paused_after_failure"
             PROVE  /\ ServiceState(s, row) \in {"down", "degraded"}
                    /\ Banner(Overall(row)) \in {"down", "degraded"}
  BY DEF FailureReachesTheBanner
<1>1. c \in Check /\ PausedIsUnknown(row)
  BY PageConstants, CopiedPause DEF BothInv, PageInv
<1>2. RollupState(row[c].state, row[c].reason) = "down"
  BY <1>1 DEF PausedIsUnknown, RollupState
<1>3. "down" \in CheckStates(s, row)
  BY <1>2 DEF CheckStates
<1>4. ServiceState(s, row) \in Failing
  BY <1>3, FailureSurvives DEF ServiceState, Failing
<1>5. Overall(row) \in Failing
  <2>1. ServiceState(s, row) \in {ServiceState(t, row) : t \in Service}
    OBVIOUS
  <2> HIDE DEF ServiceState
  <2> QED
    BY <1>4, <2>1, FailureSurvives DEF Overall
<1> QED
  BY <1>4, <1>5 DEF Banner, Failing

\* A check that is down, or paused after a failure, shows in its row and in
\* the banner, for any services and any number of checks.
THEOREM FailureShownSafe == PageSpec => []FailureReachesTheBanner
BY FailureShown, PageCorrect, PTL

-----------------------------------------------------------------------------
(* The API.                                                                *)

LEMMA TrimmedEndsNow ==
  ASSUME NEW T, NEW len \in Nat, len >= 1, NEW strip \in [1 .. len -> T], NEW n \in 1 .. len
  PROVE  /\ Len(strip) = len /\ Len(Trimmed(strip, n)) = n
         /\ Trimmed(strip, n)[n] = strip[len]
<1>1. strip \in Seq(T) /\ Len(strip) = len
  OBVIOUS
<1>2. len - n + 1 \in 1 .. len /\ len - (len - n + 1) + 1 = n
  OBVIOUS
<1>3. Trimmed(strip, n) = SubSeq(strip, len - n + 1, len)
  BY <1>1 DEF Trimmed
<1>4. /\ Len(SubSeq(strip, len - n + 1, len)) = n
      /\ SubSeq(strip, len - n + 1, len)[n] = strip[len]
  BY <1>1, <1>2
<1> QED
  BY <1>1, <1>3, <1>4

\* What ApiEndsNow says of one answer.
EndsNow(strip, asked) ==
  LET answer == ApiHistory(strip, asked)
  IN  IF asked \in {0, Len(strip) + 1} THEN answer.code = 400
      ELSE /\ answer.code = 200
           /\ asked # None => Len(answer.buckets) = asked
           /\ answer.buckets[Len(answer.buckets)] = strip[Len(strip)]

LEMMA StripAnswers ==
  ASSUME NEW T, NEW len \in Nat, len >= 1, NEW strip \in [1 .. len -> T],
         NEW asked \in {None} \cup 0 .. Len(strip) + 1
  PROVE  EndsNow(strip, asked)
<1> USE DEF EndsNow
<1>1. Len(strip) = len
  OBVIOUS
<1>2. CASE asked = None
  BY <1>1, <1>2 DEF ApiHistory, None
<1>3. CASE asked \in 1 .. len
  BY <1>1, <1>3, TrimmedEndsNow DEF ApiHistory, None
<1>4. CASE asked \in {0, len + 1}
  BY <1>1, <1>4 DEF ApiHistory, None
<1>5. asked = None \/ asked \in 1 .. len \/ asked \in {0, len + 1}
  BY <1>1
<1> QED
  BY <1>2, <1>3, <1>4, <1>5

LEMMA ApiAgrees == ApiEndsNow
<1> SUFFICES ASSUME NEW s \in Service, NEW strip \in {Days(s), Hours(s)}
             PROVE  \A asked \in {None} \cup 0 .. Len(strip) + 1 : EndsNow(strip, asked)
  BY DEF ApiEndsNow, EndsNow
<1>1. CASE strip = Days(s)
  <2> DEFINE T == {DayBox(s, LocalDay(builtAt) - HistoryDays + i) : i \in 1 .. HistoryDays}
  <2>1. strip \in [1 .. HistoryDays -> T]
    BY <1>1 DEF Days
  <2> HIDE DEF T
  <2> QED
    BY <2>1, PageConstants, StripAnswers
<1>2. CASE strip = Hours(s)
  <2> DEFINE T == {HourBox(s, LocalHour(builtAt) - HistoryHours + i) : i \in 1 .. HistoryHours}
  <2>1. strip \in [1 .. HistoryHours -> T]
    BY <1>2 DEF Hours
  <2> HIDE DEF T
  <2> QED
    BY <2>1, PageConstants, StripAnswers
<1> QED
  BY <1>1, <1>2

\* However many boxes a consumer of the API asks for, the last it gets is the
\* page's newest, for strips of any length.
THEOREM ApiEndsNowSafe == PageSpec => []ApiEndsNow
BY ApiAgrees, PTL

-----------------------------------------------------------------------------
(* The colour of a box.                                                    *)

Has(rows, s) == \E r \in rows : r.sample.state = s

\* A tally is positive exactly when there is such a sample, and all the
\* conclusive samples are of one state exactly when the others are missing.
LEMMA Tallies ==
  ASSUME NEW rows, IsFiniteSet(rows)
  PROVE  /\ \A s : Tally(rows, s) \in Nat /\ (Tally(rows, s) > 0 <=> Has(rows, s))
         /\ Conclusive(rows) \in Nat
         /\ Conclusive(rows) > 0 <=> Has(rows, "up") \/ Has(rows, "degraded") \/ Has(rows, "down")
         /\ Tally(rows, "up") = Conclusive(rows) <=> ~Has(rows, "degraded") /\ ~Has(rows, "down")
         /\ Tally(rows, "down") = Conclusive(rows) <=> ~Has(rows, "up") /\ ~Has(rows, "degraded")
<1>1. ASSUME NEW s PROVE Tally(rows, s) \in Nat /\ (Tally(rows, s) > 0 <=> Has(rows, s))
  <2> DEFINE T == {r \in rows : r.sample.state = s}
  <2>1. IsFiniteSet(T)
    BY FS_Subset
  <2>2. Cardinality(T) \in Nat /\ (Cardinality(T) = 0 <=> T = {})
    BY <2>1, FS_CardinalityType, FS_EmptySet
  <2>3. T = {} <=> ~Has(rows, s)
    BY DEF Has
  <2>4. Tally(rows, s) = Cardinality(T)
    BY DEF Tally
  <2> HIDE DEF T
  <2> QED
    BY <2>2, <2>3, <2>4
<1>2. Conclusive(rows) = Tally(rows, "up") + Tally(rows, "degraded") + Tally(rows, "down")
  BY DEF Conclusive
<1> QED
  BY <1>1, <1>2

\* The state of a day: which samples it has decides it.
LEMMA DayColour ==
  ASSUME NEW rows, IsFiniteSet(rows)
  PROVE  /\ DayState(rows) = "up" <=>
              Has(rows, "up") /\ ~Has(rows, "degraded") /\ ~Has(rows, "down")
         /\ DayState(rows) = "down" <=>
              Has(rows, "down") /\ ~Has(rows, "degraded") /\ ~Has(rows, "up")
         /\ DayState(rows) \in {"unknown", "retired"} <=>
              ~Has(rows, "up") /\ ~Has(rows, "degraded") /\ ~Has(rows, "down")
<1>1. CASE Conclusive(rows) = 0
  <2>1. DayState(rows) \in {"unknown", "retired"}
    <3>1. Tally(rows, "retired") \in Nat
      BY Tallies
    <3> QED
      BY <1>1, <3>1 DEF DayState
  <2> QED
    BY <1>1, <2>1, Tallies
<1>2. CASE Conclusive(rows) > 0
  <2> DEFINE U == Tally(rows, "up") = Conclusive(rows)
             D == Tally(rows, "down") = Conclusive(rows)
  <2>0. Conclusive(rows) # 0
    BY <1>2, Tallies
  <2>1. ~(U /\ D)
    BY <1>2, Tallies
  <2>2. DayState(rows) = IF U THEN "up" ELSE IF D THEN "down" ELSE "degraded"
    BY <1>2, <2>0, <2>1 DEF DayState
  <2> QED
    BY <1>2, <2>1, <2>2, Tallies
<1>3. Conclusive(rows) \in Nat
  BY Tallies
<1> QED
  BY <1>1, <1>2, <1>3

\* When the checks agree, the row is of the state they agree on.
LEMMA Agreement ==
  ASSUME NEW S
  PROVE  /\ DeriveServiceState(S) = "up" <=> "up" \in S /\ S \subseteq {"up", "unknown", "retired"}
         /\ DeriveServiceState(S) = "down" <=> "down" \in S /\ S \subseteq {"down", "unknown", "retired"}
<1> DEFINE live == S \ {"retired"}
           known == live \ {"unknown"}
<1>1. known = {"up"} <=> "up" \in S /\ S \subseteq {"up", "unknown", "retired"}
  OBVIOUS
<1>2. known = {"down"} <=> "down" \in S /\ S \subseteq {"down", "unknown", "retired"}
  OBVIOUS
<1>3. CASE known = {"up"}
  <2>1. (CHOOSE s \in known : TRUE) = "up" /\ S # {} /\ live # {} /\ known # {}
    BY <1>3
  <2>2. DeriveServiceState(S) = "up"
    BY <1>3, <2>1 DEF DeriveServiceState
  <2> QED
    BY <1>1, <1>2, <1>3, <2>2
<1>4. CASE known = {"down"}
  <2>1. (CHOOSE s \in known : TRUE) = "down" /\ S # {} /\ live # {} /\ known # {}
    BY <1>4
  <2>2. DeriveServiceState(S) = "down"
    BY <1>4, <2>1 DEF DeriveServiceState
  <2> QED
    BY <1>1, <1>2, <1>4, <2>2
<1>5. CASE known # {"up"} /\ known # {"down"}
  <2>1. DeriveServiceState(S) \in {"unknown", "retired", "degraded"}
    BY <1>5 DEF DeriveServiceState
  <2> QED
    BY <1>1, <1>2, <1>5, <2>1
<1> QED
  BY <1>3, <1>4, <1>5

\* A box of any buckets shows what all their samples together say.
BoxColoured(b) ==
  /\ b.state = "up" <=> Conclusive(b.rows) > 0 /\ Tally(b.rows, "up") = Conclusive(b.rows)
  /\ b.state = "down" => Tally(b.rows, "up") = 0

LEMMA BoxColour ==
  ASSUME NEW svc, NEW bucket, NEW series,
         IsFiniteSet(UNION {bucket[c] : c \in ChecksOf[svc] \cap series})
  PROVE  BoxColoured(Box(svc, bucket, series))
<1> DEFINE shown == ChecksOf[svc] \cap series
           rows == UNION {bucket[c] : c \in shown}
           S == {DayState(bucket[c]) : c \in shown}
           state == DeriveServiceState(S)
<1>1. Box(svc, bucket, series).state = state /\ Box(svc, bucket, series).rows = rows
  BY DEF Box
<1>2. \A c \in shown : bucket[c] \subseteq rows
  OBVIOUS
<1>3. \A c \in shown : IsFiniteSet(bucket[c])
  BY <1>2, FS_Subset
<1>4. \A s : Has(rows, s) <=> \E c \in shown : Has(bucket[c], s)
  BY DEF Has
<1>5. \A c \in shown :
        /\ DayState(bucket[c]) = "up" <=>
             Has(bucket[c], "up") /\ ~Has(bucket[c], "degraded") /\ ~Has(bucket[c], "down")
        /\ DayState(bucket[c]) = "down" <=>
             Has(bucket[c], "down") /\ ~Has(bucket[c], "degraded") /\ ~Has(bucket[c], "up")
        /\ DayState(bucket[c]) \in {"unknown", "retired"} <=>
             ~Has(bucket[c], "up") /\ ~Has(bucket[c], "degraded") /\ ~Has(bucket[c], "down")
  BY <1>3, DayColour
<1>6. /\ state = "up" <=> "up" \in S /\ S \subseteq {"up", "unknown", "retired"}
      /\ state = "down" <=> "down" \in S /\ S \subseteq {"down", "unknown", "retired"}
  BY Agreement
<1>7. /\ Conclusive(rows) > 0 <=> Has(rows, "up") \/ Has(rows, "degraded") \/ Has(rows, "down")
      /\ Tally(rows, "up") = Conclusive(rows) <=> ~Has(rows, "degraded") /\ ~Has(rows, "down")
      /\ Tally(rows, "up") \in Nat /\ (Tally(rows, "up") > 0 <=> Has(rows, "up"))
  BY Tallies
<1> HIDE DEF state, rows, shown
<1>8. "up" \in S /\ S \subseteq {"up", "unknown", "retired"} <=>
        Has(rows, "up") /\ ~Has(rows, "degraded") /\ ~Has(rows, "down")
  <2>1. "up" \in S <=> \E c \in shown : DayState(bucket[c]) = "up"
    OBVIOUS
  <2>2. S \subseteq {"up", "unknown", "retired"} <=>
          \A c \in shown : DayState(bucket[c]) = "up" \/ DayState(bucket[c]) \in {"unknown", "retired"}
    OBVIOUS
  <2> HIDE DEF S
  <2> QED
    BY <1>4, <1>5, <2>1, <2>2
<1>9. S \subseteq {"down", "unknown", "retired"} => ~Has(rows, "up")
  <2>1. S \subseteq {"down", "unknown", "retired"} =>
          \A c \in shown : DayState(bucket[c]) = "down" \/ DayState(bucket[c]) \in {"unknown", "retired"}
    OBVIOUS
  <2> HIDE DEF S
  <2> QED
    BY <1>4, <1>5, <2>1
<1> QED
  BY <1>1, <1>6, <1>7, <1>8, <1>9 DEF BoxColoured

LEMMA DayBoxColour ==
  ASSUME BothInv, NEW s \in Service, NEW d
  PROVE  BoxColoured(DayBox(s, d))
<1> DEFINE shown == {r \in dayRows : LocalDay(r.at) \in Window(LocalDay(builtAt), HistoryDays)}
           bucket == [c \in Check |-> {r \in shown : r.check = c /\ LocalDay(r.at) = d}]
           series == {r.check : r \in shown}
<1>1. \A c \in ChecksOf[s] \cap series : bucket[c] \subseteq recorded
  BY PageConstants DEF BothInv, PageInv, PageTypeOK
<1>2. UNION {bucket[c] : c \in ChecksOf[s] \cap series} \subseteq recorded
  BY <1>1
<1>3. IsFiniteSet(UNION {bucket[c] : c \in ChecksOf[s] \cap series})
  BY <1>2, FS_Subset DEF BothInv, CountInv
<1>4. DayBox(s, d) = Box(s, bucket, series)
  BY DEF DayBox
<1> HIDE DEF bucket, series
<1> QED
  BY <1>3, <1>4, BoxColour

LEMMA HourBoxColour ==
  ASSUME BothInv, NEW s \in Service, NEW h
  PROVE  BoxColoured(HourBox(s, h))
<1> DEFINE shown == {q \in hourRows : LocalHour(q.at) \in Window(LocalHour(builtAt), HistoryHours)}
           Live(d) == {q \in LiveRows : q.check = d}
           Stored(d) == {q \in shown : q.check = d /\ LocalHour(q.at) = h}
           bucket == [d \in Check |->
                        IF h = LocalHour(builtAt) /\ Live(d) # {} THEN Live(d) ELSE Stored(d)]
           series == {q.check : q \in shown \cup LiveRows}
<1>1. LiveRows \subseteq recorded /\ shown \subseteq recorded
  BY DEF LiveRows, BothInv, TypeOK, PageInv, PageTypeOK
<1>2. \A c \in ChecksOf[s] \cap series : bucket[c] \subseteq recorded
  BY <1>1, PageConstants
<1>3. UNION {bucket[c] : c \in ChecksOf[s] \cap series} \subseteq recorded
  BY <1>2
<1>4. IsFiniteSet(UNION {bucket[c] : c \in ChecksOf[s] \cap series})
  BY <1>3, FS_Subset DEF BothInv, CountInv
<1>5. HourBox(s, h) = Box(s, bucket, series)
  BY DEF HourBox
<1> HIDE DEF bucket, series
<1> QED
  BY <1>4, <1>5, BoxColour

LEMMA AllBoxesColoured == BothInv => ColourMatchesUptime
<1> SUFFICES ASSUME BothInv, NEW s \in Service,
                    NEW b \in {Days(s)[i] : i \in 1 .. HistoryDays}
                                \cup {Hours(s)[i] : i \in 1 .. HistoryHours}
             PROVE  BoxColoured(b)
  BY DEF ColourMatchesUptime, BoxColoured
<1>1. ASSUME NEW i \in 1 .. HistoryDays, b = Days(s)[i] PROVE BoxColoured(b)
  <2>1. b = DayBox(s, LocalDay(builtAt) - HistoryDays + i)
    BY <1>1 DEF Days
  <2> QED
    BY <2>1, DayBoxColour
<1>2. ASSUME NEW i \in 1 .. HistoryHours, b = Hours(s)[i] PROVE BoxColoured(b)
  <2>1. b = HourBox(s, LocalHour(builtAt) - HistoryHours + i)
    BY <1>2 DEF Hours
  <2> QED
    BY <2>1, HourBoxColour
<1> QED
  BY <1>1, <1>2

\* Every box of either strip is green exactly when it shows 100 %, and red
\* only when it shows 0 %, for any services, checks and numbers of samples.
THEOREM ColourSafe == PageSpec => []ColourMatchesUptime
BY AllBoxesColoured, PageCorrect, PTL
=============================================================================
