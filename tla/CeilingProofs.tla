--------------------------- MODULE CeilingProofs -----------------------------
(***************************************************************************)
(* The daily ceiling.  The guard counts stored rows, the ceiling speaks of *)
(* presentations: the invariant relates the two.  Every stored run whose   *)
(* presentation lies in the window still has its row, dated no earlier;    *)
(* and a run that passed the count has room for one more.                  *)
(***************************************************************************)
EXTENDS SuspensionProofs

CountedOrPast == {"gate"} \cup InRun

\* Stored runs whose presentation lies in the window that ends now.
BookedInWindow(k) ==
  {i \in booked[k] : log[k][i].sent # None /\ log[k][i].sent >= now - Day}

SentBefore ==
  \A k \in Guarded :
    /\ \A i \in Run : log[k][i].sent <= now
    /\ pc[k] \in Answered => log[k][runs[k]].sent <= asOf[k]
NotBookedYet ==
  \A k \in Guarded :
    /\ \A i \in booked[k] : i <= runs[k]
    /\ pc[k] \in InRun => runs[k] \notin booked[k]
RowsKept ==
  \A k \in Guarded : \A i \in BookedInWindow(k) :
    rows[k][i] # None /\ rows[k][i] >= log[k][i].sent
RoomLeft ==
  \A k \in Guarded :
    /\ Cardinality(BookedInWindow(k)) <= MaxAttemptsPerDay
    /\ pc[k] \in CountedOrPast => Cardinality(BookedInWindow(k)) <= MaxAttemptsPerDay - 1

CeilingInv ==
  /\ SentBefore /\ NotBookedYet
  /\ RawRetention >= Day => RowsKept
  /\ MaxAttemptsPerDay > 0 /\ RawRetention >= Day => RoomLeft

-----------------------------------------------------------------------------
LEMMA CeilingTypes ==
  ASSUME TypeInv, NEW k \in Guarded
  PROVE  /\ booked[k] \in SUBSET Run /\ BookedInWindow(k) \in SUBSET Run
         /\ booked \in [Guarded -> SUBSET Run]
         /\ rows \in [Guarded -> [Run -> Time \cup {None}]]
         /\ Day \in Nat /\ RawRetention \in Int /\ MaxAttemptsPerDay \in Int
         /\ \A i \in Run : rows[k][i] \in Int
<1>1. booked \in [Guarded -> SUBSET Run] /\ rows \in [Guarded -> [Run -> Time \cup {None}]]
  BY DEF TypeInv, TypeOK
<1>2. \A i \in Run : rows[k][i] \in Int
  BY <1>1, SchedulerAssumption DEF Time, None
<1> QED
  BY <1>1, <1>2, SchedulerAssumption DEF BookedInWindow

\* The invariant is what makes the property true.
LEMMA CeilingImplies ==
  ASSUME TypeInv, CeilingInv
  PROVE  CeilingHolds
<1> SUFFICES ASSUME MaxAttemptsPerDay > 0, RawRetention >= Day, NEW k \in Guarded
             PROVE  Cardinality({i \in PresentedInWindow(k) :
                                   i \in booked[k] \/ (i = runs[k] /\ InFlight(k))})
                      <= MaxAttemptsPerDay
  BY DEF CeilingHolds
<1> DEFINE X == {i \in PresentedInWindow(k) :
                   i \in booked[k] \/ (i = runs[k] /\ InFlight(k))}
<1>1. RoomLeft
  BY DEF CeilingInv
<1>2. BookedInWindow(k) \in SUBSET Run /\ Cardinality(BookedInWindow(k)) \in Nat
  BY CeilingTypes, RunsFinite
<1>3. CASE InFlight(k)
  <2>1. runs[k] \in Run /\ pc[k] \in CountedOrPast
    BY <1>3, SuspensionTypes DEF InFlight, InRun, CountedOrPast
  <2>2. X \in SUBSET (BookedInWindow(k) \cup {runs[k]})
    BY DEF PresentedInWindow, BookedInWindow
  <2>3. Cardinality(X) <= Cardinality(BookedInWindow(k)) + 1
    BY <1>2, <2>1, <2>2, OneMoreRun
  <2>4. X \in SUBSET Run
    BY DEF PresentedInWindow
  <2>5. Cardinality(X) \in Nat
    BY <2>4, RunsFinite
  <2> QED
    BY <1>1, <1>2, <2>1, <2>3, <2>5, CeilingTypes DEF RoomLeft
<1>4. CASE ~InFlight(k)
  <2>1. X \in SUBSET BookedInWindow(k)
    BY <1>4 DEF PresentedInWindow, BookedInWindow
  <2>2. Cardinality(X) <= Cardinality(BookedInWindow(k)) /\ X \in SUBSET Run
    BY <1>2, <2>1, RunsFinite
  <2>3. Cardinality(X) \in Nat
    BY <2>2, RunsFinite
  <2> QED
    BY <1>1, <1>2, <2>2, <2>3, CeilingTypes DEF RoomLeft
<1> QED
  BY <1>3, <1>4

LEMMA InitCeiling == Init => CeilingInv
<1> SUFFICES ASSUME Init PROVE CeilingInv
  OBVIOUS
<1>1. \A k \in Guarded : BookedInWindow(k) = {}
  BY DEF Init, BookedInWindow
<1>2. SentBefore /\ NotBookedYet
  BY SchedulerAssumption DEF Init, SentBefore, NotBookedYet, Answered, InRun, NotRun, None
<1>3. MaxAttemptsPerDay > 0 => RoomLeft
  <2>1. \A k \in Guarded : Cardinality(BookedInWindow(k)) = 0
    BY <1>1, FS_EmptySet
  <2>2. \A k \in Guarded : pc[k] \notin CountedOrPast
    BY SchedulerAssumption DEF Init, CountedOrPast, InRun
  <2> QED
    BY <2>1, <2>2, SchedulerAssumption DEF RoomLeft
<1> QED
  BY <1>1, <1>2, <1>3 DEF CeilingInv, RowsKept

-----------------------------------------------------------------------------
\* A step that neither submits, stores nor prunes, and past the count lets only
\* a login that was counted.
UncountedStep ==
  /\ UNCHANGED <<booked, rows>>
  /\ now' = now \/ now' = now + 1
  /\ \A k \in Guarded :
       /\ \A i \in Run : log'[k][i].sent = log[k][i].sent
       /\ runs'[k] = runs[k] \/ runs'[k] = runs[k] + 1
       /\ pc'[k] \in CountedOrPast => pc[k] \in CountedOrPast
       /\ pc'[k] \in InRun => (pc[k] \in InRun /\ runs'[k] = runs[k]) \/ runs'[k] = runs[k] + 1
       /\ pc'[k] \in Answered =>
            /\ runs'[k] = runs[k] /\ runs[k] \in Run
            /\ asOf'[k] = now \/ (pc[k] \in Answered /\ asOf'[k] = asOf[k])

\* The window only moves forward.
LEMMA WindowSlides ==
  ASSUME TypeInv, UncountedStep, NEW k \in Guarded
  PROVE  /\ BookedInWindow(k)' \in SUBSET BookedInWindow(k)
         /\ Cardinality(BookedInWindow(k)') <= Cardinality(BookedInWindow(k))
         /\ Cardinality(BookedInWindow(k)') \in Nat /\ Cardinality(BookedInWindow(k)) \in Nat
<1>1. BookedInWindow(k)' \in SUBSET BookedInWindow(k)
  BY SuspensionTypes, CeilingTypes DEF UncountedStep, BookedInWindow
<1>2. BookedInWindow(k) \in SUBSET Run /\ BookedInWindow(k)' \in SUBSET Run
  BY <1>1, CeilingTypes
<1> QED
  BY <1>1, <1>2, RunsFinite

LEMMA UncountedCeiling ==
  ASSUME TypeInv, CeilingInv, UncountedStep
  PROVE  CeilingInv'
<1>1. SentBefore'
  <2> SUFFICES ASSUME NEW k \in Guarded
               PROVE  /\ \A i \in Run : log'[k][i].sent <= now'
                      /\ pc'[k] \in Answered => log'[k][runs'[k]].sent <= asOf'[k]
    BY DEF SentBefore
  <2>1. \A i \in Run : log'[k][i].sent <= now'
    BY SuspensionTypes DEF UncountedStep, CeilingInv, SentBefore
  <2>2. pc'[k] \in Answered => log'[k][runs'[k]].sent <= asOf'[k]
    BY DEF UncountedStep, CeilingInv, SentBefore
  <2> QED
    BY <2>1, <2>2
<1>2. NotBookedYet'
  BY SuspensionTypes, CeilingTypes DEF UncountedStep, CeilingInv, NotBookedYet
<1>3. RawRetention >= Day => RowsKept'
  <2> SUFFICES ASSUME RawRetention >= Day, NEW k \in Guarded, NEW i \in BookedInWindow(k)'
               PROVE  rows'[k][i] # None /\ rows'[k][i] >= log'[k][i].sent
    BY DEF RowsKept
  <2>1. i \in BookedInWindow(k) /\ i \in Run
    BY WindowSlides, CeilingTypes
  <2> QED
    BY <2>1 DEF UncountedStep, CeilingInv, RowsKept
<1>4. MaxAttemptsPerDay > 0 /\ RawRetention >= Day => RoomLeft'
  BY WindowSlides, CeilingTypes DEF UncountedStep, CeilingInv, RoomLeft
<1> QED
  BY <1>1, <1>2, <1>3, <1>4 DEF CeilingInv

-----------------------------------------------------------------------------
\* Which steps those are.
LEMMA ProcessUncounted ==
  ASSUME TypeInv,
         Boot \/ Cancel \/ Exit \/ Tick \/ ProbesDone \/ StartTickers \/ UNCHANGED vars
  PROVE  UncountedStep
<1>1. UNCHANGED <<booked, rows, log, runs>> /\ (now' = now \/ now' = now + 1)
  BY DEF Boot, Cancel, Exit, Tick, ProbesDone, StartTickers, vars, stored, locals, history
<1>2. \A k \in Guarded : \/ pc'[k] \in {"off", "idle"}
                         \/ pc'[k] = pc[k] /\ asOf'[k] = asOf[k]
  BY SchedulerAssumption
     DEF Boot, Cancel, Exit, Tick, ProbesDone, StartTickers, vars, stored, locals, history,
         Unguarded
<1>3. \A k \in Guarded : pc[k] \in InRun => runs[k] \in Run
  BY SuspensionTypes
<1> QED
  BY <1>1, <1>2, <1>3 DEF UncountedStep, CountedOrPast, InRun, Answered

LEMMA CheckUncounted ==
  ASSUME TypeInv, NEW j \in Job, TickFires(j) \/ ProbeStep(j)
  PROVE  UncountedStep
<1>1. UNCHANGED <<booked, rows, log, runs, now>>
  BY DEF TickFires, ProbeStep, ProbeAnswers, RecordProbe, stored, history
<1>2. \A k \in Guarded : pc'[k] = "load" \/ (pc'[k] = pc[k] /\ asOf'[k] = asOf[k])
  <2>0. pc \in [Job -> Step] /\ asOf \in [Guarded -> Time]
    BY LocalTypes
  <2>1. CASE TickFires(j)
    <3>1. \/ /\ j \in Guarded /\ pc' = [pc EXCEPT ![j] = "load"]
             /\ asOf' = [asOf EXCEPT ![j] = now]
          \/ /\ j \notin Guarded /\ pc' = [pc EXCEPT ![j] = "probe"]
             /\ asOf' = asOf
      BY <2>1 DEF TickFires, StartLogin
    <3> QED
      BY <2>0, <3>1, SchedulerAssumption
  <2>2. CASE ProbeStep(j)
    <3>1. /\ j \notin Guarded /\ asOf' = asOf
          /\ \E s \in Step : pc' = [pc EXCEPT ![j] = s]
      BY <2>2 DEF ProbeStep, ProbeAnswers, RecordProbe, Resting, Unguarded, Step
    <3> QED
      BY <2>0, <3>1, SchedulerAssumption
  <2> QED
    BY <2>1, <2>2
<1>3. \A k \in Guarded : pc[k] \in InRun => runs[k] \in Run
  BY SuspensionTypes
<1> QED
  BY <1>1, <1>2, <1>3 DEF UncountedStep, CountedOrPast, InRun, Answered

\* A step of login k alone.
LEMMA LoginUncounted ==
  ASSUME TypeInv, NEW k \in Guarded,
         \/ SweepLogin(k) \/ LoadBreaker(k) \/ CheckGate(k)
         \/ LoginAnswers(k) \/ UpdateBreaker(k) \/ SaveBreaker(k)
         \/ (CountAttempts(k) /\ pc'[k] # "gate")
         \/ (RecordLogin(k) /\ UNCHANGED <<booked, rows>>)
  PROVE  UncountedStep
<1>1. UNCHANGED <<booked, rows, now>>
  BY DEF SweepLogin, LoadBreaker, CountAttempts, CheckGate, LoginAnswers, UpdateBreaker,
         SaveBreaker, RecordLogin, stored, history
<1>2. pc \in [Job -> Step] /\ asOf \in [Guarded -> Time] /\ runs \in [Guarded -> 0 .. MaxRuns]
  BY LocalTypes
<1>3. pc' = pc \/ \E s \in Step : pc' = [pc EXCEPT ![k] = s]
  BY DEF Step, SweepLogin, SkipLogin, RunLogin, StartLogin, LoadBreaker, CountAttempts, CheckGate,
         LoginAnswers, UpdateBreaker, SaveBreaker, RecordLogin, Resting, Decline, Proceed
<1>4. asOf' = asOf \/ \E t \in {now, 0} : asOf' = [asOf EXCEPT ![k] = t]
  BY DEF SweepLogin, SkipLogin, RunLogin, StartLogin, LoadBreaker, CountAttempts, CheckGate,
         LoginAnswers, UpdateBreaker, SaveBreaker, RecordLogin, Decline, Proceed
<1>5. runs' = runs \/ (CheckGate(k) /\ runs' = [runs EXCEPT ![k] = @ + 1])
  BY DEF SweepLogin, LoadBreaker, CountAttempts, CheckGate, LoginAnswers, UpdateBreaker,
         SaveBreaker, RecordLogin, history
<1>6. \A l \in Guarded \ {k} : pc'[l] = pc[l] /\ asOf'[l] = asOf[l] /\ runs'[l] = runs[l]
  BY <1>2, <1>3, <1>4, <1>5, SchedulerAssumption
<1>7. \A l \in Guarded : \A i \in Run : log'[l][i].sent = log[l][i].sent
  <2>1. CASE SaveBreaker(k)
    <3>1. /\ log \in [Guarded -> [Run -> LoginRecord]] /\ runs[k] \in Run
          /\ log[k][runs[k]] \in LoginRecord
      BY <2>1, SuspensionTypes DEF SaveBreaker, InRun
    <3>2. Verdict(k).sent = log[k][runs[k]].sent
      BY <3>1 DEF Verdict, LoginRecord
    <3>3. log' = log \/ log' = [log EXCEPT ![k] = [log[k] EXCEPT ![runs[k]] = Verdict(k)]]
      BY <2>1 DEF SaveBreaker
    <3> QED
      BY <3>1, <3>2, <3>3
  <2>2. CASE ~SaveBreaker(k)
    BY <2>2 DEF SweepLogin, LoadBreaker, CountAttempts, CheckGate, LoginAnswers, UpdateBreaker,
                RecordLogin, history
  <2> QED
    BY <2>1, <2>2
<1>8. /\ pc'[k] \in CountedOrPast => pc[k] \in CountedOrPast
      /\ pc'[k] \in InRun => (pc[k] \in InRun /\ runs'[k] = runs[k]) \/ runs'[k] = runs[k] + 1
      /\ pc'[k] \in Answered =>
           /\ runs'[k] = runs[k] /\ runs[k] \in Run
           /\ asOf'[k] = now \/ (pc[k] \in Answered /\ asOf'[k] = asOf[k])
  <2>0. pc[k] \in InRun => runs[k] \in Run
    BY SuspensionTypes
  <2>1. CASE SweepLogin(k) \/ RecordLogin(k)
    <3>1. (pc' = pc /\ asOf' = asOf /\ runs' = runs) \/ pc'[k] \in {"load", "off", "idle"}
      BY <2>1, <1>2, SchedulerAssumption
         DEF SweepLogin, SkipLogin, RunLogin, StartLogin, RecordLogin, Resting
    <3> QED
      BY <3>1, <2>0 DEF CountedOrPast, InRun, Answered
  <2>2. CASE LoadBreaker(k) \/ (CountAttempts(k) /\ pc'[k] # "gate")
    <3>1. pc'[k] \in {"decline", "count"}
      BY <2>2, <1>2, SchedulerAssumption DEF LoadBreaker, CountAttempts, Decline, Proceed
    <3> QED
      BY <3>1 DEF CountedOrPast, InRun, Answered
  <2>3. CASE CheckGate(k)
    <3>1. pc[k] = "gate" /\ (pc'[k] = "decline" \/ (pc'[k] = "probe" /\ runs'[k] = runs[k] + 1))
      BY <2>3, <1>2, SchedulerAssumption DEF CheckGate, Decline, Proceed
    <3> QED
      BY <3>1 DEF CountedOrPast, InRun, Answered
  <2>4. CASE LoginAnswers(k) \/ UpdateBreaker(k) \/ SaveBreaker(k)
    <3>1. /\ pc[k] \in {"probe", "submitted", "update", "save"} /\ pc'[k] \in Answered
          /\ runs' = runs
          /\ asOf'[k] = now \/ (pc[k] = "update" /\ asOf'[k] = asOf[k])
      BY <2>4, <1>2, SchedulerAssumption
         DEF LoginAnswers, UpdateBreaker, SaveBreaker, Answered, history
    <3> QED
      BY <3>1, <2>0 DEF CountedOrPast, InRun, Answered
  <2> QED
    BY <2>1, <2>2, <2>3, <2>4
<1>9. \A l \in Guarded : pc[l] \in InRun => runs[l] \in Run
  BY SuspensionTypes
<1>10. \A l \in Guarded : runs'[l] = runs[l] \/ runs'[l] = runs[l] + 1
  BY <1>2, <1>5
<1> QED
  BY <1>1, <1>6, <1>7, <1>8, <1>9, <1>10 DEF UncountedStep, InRun, Answered

-----------------------------------------------------------------------------
\* Passing the count: what is counted includes every stored run in the window,
\* so there is room for this one.
LEMMA CountPassCeiling ==
  ASSUME TypeInv, SuspensionInv, CeilingInv, NEW k \in Guarded,
         CountAttempts(k), pc'[k] = "gate"
  PROVE  CeilingInv'
<1>1. /\ UNCHANGED <<booked, rows, log, now, runs, asOf>>
      /\ ~CeilingReached(k)
      /\ \A l \in Guarded \ {k} : pc'[l] = pc[l]
  BY LocalTypes, SchedulerAssumption DEF CountAttempts, Decline, Proceed, stored
<1>2. SentBefore' /\ NotBookedYet'
  <2>1. \A l \in Guarded : pc'[l] \in InRun => pc[l] \in InRun
    BY <1>1 DEF InRun
  <2>2. \A l \in Guarded : pc'[l] \in Answered => pc[l] \in Answered
    BY <1>1 DEF Answered
  <2> QED
    BY <1>1, <2>1, <2>2 DEF CeilingInv, SentBefore, NotBookedYet
<1>3. \A l \in Guarded : BookedInWindow(l)' = BookedInWindow(l)
  BY <1>1 DEF BookedInWindow
<1>4. RawRetention >= Day => RowsKept'
  BY <1>1, <1>3 DEF CeilingInv, RowsKept
<1>5. ASSUME MaxAttemptsPerDay > 0, RawRetention >= Day
      PROVE  RoomLeft'
  <2>1. BookedInWindow(k) \in SUBSET CountedAttempts(k)
    <3> SUFFICES ASSUME NEW i \in BookedInWindow(k)
                 PROVE  i \in CountedAttempts(k)
      OBVIOUS
    <3>1. i \in Run /\ rows[k][i] # None /\ rows[k][i] >= log[k][i].sent
      BY <1>5, CeilingTypes DEF CeilingInv, RowsKept
    <3>2. log[k][i].sent >= now - Day
      BY DEF BookedInWindow
    <3>3. rows[k][i] >= asOf[k] - Day
      BY <3>1, <3>2, SuspensionTypes, CeilingTypes DEF SuspensionInv, ClockRead
    <3> QED
      BY <3>1, <3>3 DEF CountedAttempts
  <2>2. CountedAttempts(k) \in SUBSET Run
    BY DEF CountedAttempts
  <2>3. /\ Cardinality(BookedInWindow(k)) <= Cardinality(CountedAttempts(k))
        /\ Cardinality(CountedAttempts(k)) \in Nat
    BY <2>1, <2>2, RunsFinite
  <2>4. Cardinality(BookedInWindow(k)) \in Nat
    BY CeilingTypes, RunsFinite
  <2>5. ~(Cardinality(CountedAttempts(k)) >= MaxAttemptsPerDay)
    BY <1>1, <1>5 DEF CeilingReached
  <2>6. Cardinality(BookedInWindow(k)) <= MaxAttemptsPerDay - 1
    BY <2>3, <2>4, <2>5, CeilingTypes
  <2> QED
    BY <1>1, <1>3, <1>5, <2>6 DEF CeilingInv, RoomLeft
<1> QED
  BY <1>2, <1>4, <1>5 DEF CeilingInv

\* Submitting dates a run that is not stored yet.
LEMMA SubmitCeiling ==
  ASSUME TypeInv, CeilingInv, NEW k \in Guarded, Submit(k)
  PROVE  CeilingInv'
<1>1. /\ UNCHANGED <<booked, rows, now, runs, asOf>>
      /\ runs[k] \in Run /\ pc[k] = "probe"
      /\ log' = [log EXCEPT ![k] = [log[k] EXCEPT ![runs[k]] = [log[k][runs[k]] EXCEPT !.sent = now]]]
      /\ pc' = [pc EXCEPT ![k] = "submitted"]
  BY SuspensionTypes DEF Submit, InRun, stored
<1>2. runs[k] \notin booked[k]
  BY <1>1 DEF CeilingInv, NotBookedYet, InRun
<1>3. /\ \A l \in Guarded \ {k} : log'[l] = log[l] /\ pc'[l] = pc[l]
      /\ pc'[k] = "submitted"
      /\ \A i \in Run : i # runs[k] => log'[k][i] = log[k][i]
      /\ log'[k][runs[k]].sent = now
  <2>1. log \in [Guarded -> [Run -> LoginRecord]] /\ log[k][runs[k]] \in LoginRecord
    BY <1>1, SuspensionTypes
  <2>2. pc \in [Job -> Step]
    BY LocalTypes
  <2> QED
    BY <1>1, <2>1, <2>2, SchedulerAssumption DEF LoginRecord
<1>4. \A l \in Guarded : \A i \in booked[l] : log'[l][i] = log[l][i]
  BY <1>2, <1>3, CeilingTypes
<1>5. \A l \in Guarded : BookedInWindow(l)' = BookedInWindow(l)
  BY <1>1, <1>4 DEF BookedInWindow
<1>6. SentBefore'
  <2> SUFFICES ASSUME NEW l \in Guarded
               PROVE  /\ \A i \in Run : log'[l][i].sent <= now'
                      /\ pc'[l] \in Answered => log'[l][runs'[l]].sent <= asOf'[l]
    BY DEF SentBefore
  <2>1. CASE l = k
    BY <2>1, <1>1, <1>3, SuspensionTypes DEF CeilingInv, SentBefore, Answered
  <2>2. CASE l # k
    BY <2>2, <1>1, <1>3 DEF CeilingInv, SentBefore
  <2> QED
    BY <2>1, <2>2
<1>7. NotBookedYet'
  BY <1>1, <1>2, <1>3 DEF CeilingInv, NotBookedYet
<1>8. RawRetention >= Day => RowsKept'
  <2>1. \A l \in Guarded : \A i \in BookedInWindow(l) : log'[l][i] = log[l][i]
    BY <1>4 DEF BookedInWindow
  <2> QED
    BY <1>1, <1>5, <2>1 DEF CeilingInv, RowsKept
<1>9. MaxAttemptsPerDay > 0 /\ RawRetention >= Day => RoomLeft'
  <2>1. \A l \in Guarded : pc'[l] \in CountedOrPast => pc[l] \in CountedOrPast
    BY <1>1, <1>3 DEF CountedOrPast, InRun
  <2> QED
    BY <1>5, <2>1 DEF CeilingInv, RoomLeft
<1> QED
  BY <1>6, <1>7, <1>8, <1>9 DEF CeilingInv

\* Storing: the run joins those counted, with a row dated after it.
LEMMA StoreCeiling ==
  ASSUME TypeInv, CeilingInv, NEW k \in Guarded, RecordLogin(k), ~UNCHANGED <<booked, rows>>
  PROVE  CeilingInv'
<1> DEFINE r == runs[k]
<1>1. /\ pc[k] = "record" /\ r \in Run
      /\ rows' = [rows EXCEPT ![k] = [rows[k] EXCEPT ![r] = asOf[k]]]
      /\ booked' = [booked EXCEPT ![k] = booked[k] \cup {r}]
      /\ UNCHANGED <<log, now, runs>>
      /\ pc' = [pc EXCEPT ![k] = Resting] /\ asOf' = [asOf EXCEPT ![k] = 0]
  BY SuspensionTypes DEF RecordLogin, InRun
<1>2. /\ \A l \in Guarded \ {k} : /\ rows'[l] = rows[l] /\ booked'[l] = booked[l]
                                 /\ pc'[l] = pc[l] /\ asOf'[l] = asOf[l]
      /\ \A i \in Run : i # r => rows'[k][i] = rows[k][i]
      /\ rows'[k][r] = asOf[k] /\ booked'[k] = booked[k] \cup {r}
      /\ pc'[k] \in {"off", "idle"}
  <2>1. pc \in [Job -> Step] /\ asOf \in [Guarded -> Time]
    BY LocalTypes
  <2> QED
    BY <1>1, <2>1, CeilingTypes, SchedulerAssumption DEF Resting
<1>3. log[k][r].sent <= asOf[k]
  BY <1>1 DEF CeilingInv, SentBefore, Answered
<1>4. /\ BookedInWindow(k)' \in SUBSET (BookedInWindow(k) \cup {r})
      /\ \A l \in Guarded \ {k} : BookedInWindow(l)' = BookedInWindow(l)
  BY <1>1, <1>2 DEF BookedInWindow
<1>5. SentBefore'
  BY <1>1, <1>2 DEF CeilingInv, SentBefore, Answered
<1>6. NotBookedYet'
  BY <1>1, <1>2, SuspensionTypes DEF CeilingInv, NotBookedYet, InRun
<1>7. RawRetention >= Day => RowsKept'
  <2> SUFFICES ASSUME RawRetention >= Day, NEW l \in Guarded, NEW i \in BookedInWindow(l)'
               PROVE  rows'[l][i] # None /\ rows'[l][i] >= log'[l][i].sent
    BY DEF RowsKept
  <2>1. CASE l = k /\ i = r
    BY <2>1, <1>1, <1>2, <1>3, SuspensionTypes DEF None
  <2>2. CASE ~(l = k /\ i = r)
    <3>1. i \in BookedInWindow(l) /\ i \in Run
      BY <2>2, <1>4, CeilingTypes
    <3>2. rows'[l][i] = rows[l][i]
      BY <2>2, <3>1, <1>2
    <3> QED
      BY <3>1, <3>2, <1>1 DEF CeilingInv, RowsKept
  <2> QED
    BY <2>1, <2>2
<1>8. ASSUME MaxAttemptsPerDay > 0, RawRetention >= Day
      PROVE  RoomLeft'
  <2>1. /\ Cardinality(BookedInWindow(k)) <= MaxAttemptsPerDay - 1
        /\ \A l \in Guarded : /\ Cardinality(BookedInWindow(l)) <= MaxAttemptsPerDay
                              /\ pc[l] \in CountedOrPast =>
                                   Cardinality(BookedInWindow(l)) <= MaxAttemptsPerDay - 1
    BY <1>1, <1>8 DEF CeilingInv, RoomLeft, CountedOrPast, InRun
  <2>2. BookedInWindow(k) \in SUBSET Run /\ Cardinality(BookedInWindow(k)) \in Nat
    BY CeilingTypes, RunsFinite
  <2>3. Cardinality(BookedInWindow(k)') <= Cardinality(BookedInWindow(k)) + 1
    BY <1>1, <1>4, <2>2, OneMoreRun
  <2>4. BookedInWindow(k)' \in SUBSET Run
    BY <1>1, <1>4, <2>2
  <2>5. Cardinality(BookedInWindow(k)') \in Nat
    BY <2>4, RunsFinite
  <2>6. Cardinality(BookedInWindow(k)') <= MaxAttemptsPerDay
    BY <2>1, <2>2, <2>3, <2>5, CeilingTypes
  <2>7. pc'[k] \notin CountedOrPast
    BY <1>2 DEF CountedOrPast, InRun
  <2> QED
    BY <1>2, <1>4, <2>1, <2>6, <2>7 DEF RoomLeft
<1> QED
  BY <1>5, <1>6, <1>7, <1>8 DEF CeilingInv

\* Pruning: rows old enough to go are of runs that left the window.
LEMMA PruneCeiling ==
  ASSUME TypeInv, CeilingInv, Prune
  PROVE  CeilingInv'
<1>1. UNCHANGED <<booked, log, now, runs, pc, asOf>>
  BY DEF Prune, locals, history
<1>2. \A l \in Guarded : BookedInWindow(l)' = BookedInWindow(l)
  BY <1>1 DEF BookedInWindow
<1>3. SentBefore' /\ NotBookedYet'
  BY <1>1 DEF CeilingInv, SentBefore, NotBookedYet
<1>4. RawRetention >= Day => RowsKept'
  <2> SUFFICES ASSUME RawRetention >= Day, NEW l \in Guarded, NEW i \in BookedInWindow(l)
               PROVE  rows'[l][i] # None /\ rows'[l][i] >= log'[l][i].sent
    BY <1>2 DEF RowsKept
  <2>1. /\ i \in Run /\ rows[l][i] # None /\ rows[l][i] >= log[l][i].sent
        /\ log[l][i].sent >= now - Day
    BY CeilingTypes DEF CeilingInv, RowsKept, BookedInWindow
  <2>2. ~Expired(rows[l][i])
    BY <2>1, SuspensionTypes, CeilingTypes DEF Expired
  <2>3. rows'[l][i] = rows[l][i]
    BY <2>1, <2>2 DEF Prune
  <2> QED
    BY <2>1, <2>3, <1>1
<1>5. MaxAttemptsPerDay > 0 /\ RawRetention >= Day => RoomLeft'
  BY <1>1, <1>2 DEF CeilingInv, RoomLeft
<1> QED
  BY <1>3, <1>4, <1>5 DEF CeilingInv

LEMMA StepCeiling == TypeInv /\ SuspensionInv /\ CeilingInv /\ [Next]_vars => CeilingInv'
<1> SUFFICES ASSUME TypeInv, SuspensionInv, CeilingInv, [Next]_vars PROVE CeilingInv'
  OBVIOUS
<1>1. CASE UncountedStep
  BY <1>1, UncountedCeiling
<1>2. CASE Prune
  BY <1>2, PruneCeiling
<1>3. ASSUME NEW k \in Guarded, LoginStep(k) PROVE CeilingInv'
  BY <1>3, <1>1, LoginUncounted, CountPassCeiling, SubmitCeiling, StoreCeiling DEF LoginStep
<1> QED
  BY <1>1, <1>2, <1>3, ProcessUncounted, CheckUncounted, LoginUncounted DEF Next

\* The daily ceiling holds for every configuration whose raw results outlive the
\* window: no window of a day holds more presentations of a login than the
\* ceiling, counting those whose result was stored and the one under way.
THEOREM CeilingSafe == Spec => []CeilingHolds
<1>1. Spec => []CeilingInv
  BY TypeCorrect, SuspensionCorrect, InitCeiling, StepCeiling, PTL DEF Spec
<1>2. TypeInv /\ CeilingInv => CeilingHolds
  BY CeilingImplies
<1> QED
  BY <1>1, <1>2, TypeCorrect, PTL
=============================================================================
