--------------------------- MODULE SchedulerProofs ---------------------------
(***************************************************************************)
(* Proofs about Scheduler for every set of checks, every configuration and *)
(* every bound.                                                            *)
(***************************************************************************)
EXTENDS Scheduler, FiniteSetTheorems, TLAPS

-----------------------------------------------------------------------------
(* The breaker's arithmetic.                                               *)

\* nextBackoff stays within the configured maximum.
LEMMA NextBackoffType ==
  ASSUME NEW b \in 0 .. BackoffMax
  PROVE  NextBackoff(b) \in 0 .. BackoffMax
BY BreakerAssumption, SMT DEF NextBackoff, Lesser

\* One result turns a breaker record into a breaker record.
LEMMA AfterResultType ==
  ASSUME NEW r \in BreakerRecord, NEW s \in Answer, NEW t \in Nat
  PROVE  AfterResult(r, s, t) \in BreakerRecord
<1> DEFINE b == NextBackoff(r.backoff)
<1>1. b \in 0 .. BackoffMax /\ t + b \in Nat
  BY NextBackoffType, BreakerAssumption DEF BreakerRecord
<1>2. ClosedBreaker \in BreakerRecord
  BY BreakerAssumption DEF ClosedBreaker, BreakerRecord
<1> HIDE DEF b
<1>3. [fails |-> r.fails + 1, until |-> t + b, backoff |-> b] \in BreakerRecord
  BY <1>1 DEF BreakerRecord
<1>4. [r EXCEPT !.fails = @ + 1] \in BreakerRecord
  BY DEF BreakerRecord
<1> QED
  BY <1>2, <1>3, <1>4 DEF AfterResult, b

-----------------------------------------------------------------------------
(* Types.  A run's index and its result are typed by the step it is at.    *)

Deciding == {"load", "count", "gate"}
InRun == {"probe", "submitted", "update", "save", "record"}
Answered == {"update", "save", "record"}

StepOK ==
  \A k \in Guarded :
    /\ pc[k] \in Deciding => runs[k] < MaxRuns
    /\ pc[k] \in InRun => runs[k] \in Run
    /\ pc[k] \in Answered => res[k] \in Answer

TypeInv == TypeOK /\ StepOK

LEMMA ConstantTypes ==
  /\ NoResult \in Result
  /\ Answer \subseteq Result
  /\ \A why \in PauseReasons : Declined(why) \in Result
  /\ ClosedBreaker \in BreakerRecord
  /\ NotRun \in LoginRecord
  /\ \A r \in Answer : r.state \in {"up", "down"}
  /\ Up \in Answer /\ [state |-> "down", reason |-> "timeout"] \in Answer
  /\ 0 \in Time
BY SchedulerAssumption, BreakerAssumption
   DEF NoResult, Result, Answer, PauseReasons, Declined, ClosedBreaker, BreakerRecord,
       NotRun, LoginRecord, Up, HardAuthFailures, Time, None

LEMMA InitType == Init => TypeInv
<1> SUFFICES ASSUME Init PROVE TypeInv
  OBVIOUS
<1> USE SchedulerAssumption, ConstantTypes DEF Init
<1>1. TypeOK
  <2>1. /\ current \in [Job -> Result] /\ res \in [Job -> Result]
        /\ checkedAt \in [Guarded -> Time] /\ asOf \in [Guarded -> Time]
        /\ breaker \in [Guarded -> BreakerRecord] /\ rec \in [Guarded -> BreakerRecord]
    OBVIOUS
  <2>2. rows \in [Guarded -> [Run -> Time \cup {None}]]
    OBVIOUS
  <2>3. log \in [Guarded -> [Run -> LoginRecord]]
    OBVIOUS
  <2>4. /\ pc \in [Job -> Step]
        /\ due \in [Job -> Nat]
        /\ runs \in [Guarded -> 0 .. MaxRuns]
        /\ booked \in [Guarded -> SUBSET Run]
        /\ clean \in [Guarded -> BOOLEAN]
    BY DEF Step
  <2>5. now \in Time /\ boots \in 0 .. MaxBoots /\ faults \in 0 .. MaxFaults
    OBVIOUS
  <2> QED
    BY <2>1, <2>2, <2>3, <2>4, <2>5 DEF TypeOK
<1>2. StepOK
  BY SchedulerAssumption DEF Init, StepOK, Deciding, InRun, Answered
<1> QED
  BY <1>1, <1>2 DEF TypeInv

\* A step of one login leaves every other login as it was, so that StepOK only
\* has to be shown of the one.
LEMMA StepFrame ==
  ASSUME StepOK, NEW k \in Guarded,
         \A l \in Guarded \ {k} : pc'[l] = pc[l] /\ res'[l] = res[l] /\ runs'[l] = runs[l],
         pc'[k] \in Deciding => runs'[k] < MaxRuns,
         pc'[k] \in InRun => runs'[k] \in Run,
         pc'[k] \in Answered => res'[k] \in Answer
  PROVE  StepOK'
BY DEF StepOK

\* A step that leaves the logins' runs alone, or only stops some of them.
LEMMA StepKept ==
  ASSUME StepOK, UNCHANGED runs,
         \A l \in Guarded : \/ pc'[l] = pc[l] /\ res'[l] = res[l]
                            \/ pc'[l] \in {"off", "idle"}
                            \/ pc'[l] = "load" /\ runs[l] < MaxRuns
  PROVE  StepOK'
BY DEF StepOK, Deciding, InRun, Answered

\* The types of the variables most steps touch.
LEMMA LocalTypes ==
  ASSUME TypeInv
  PROVE  /\ pc \in [Job -> Step] /\ asOf \in [Guarded -> Time] /\ res \in [Job -> Result]
         /\ rec \in [Guarded -> BreakerRecord] /\ clean \in [Guarded -> BOOLEAN]
         /\ now \in Time /\ faults \in 0 .. MaxFaults /\ runs \in [Guarded -> 0 .. MaxRuns]
         /\ StepOK
BY DEF TypeInv, TypeOK

LEMMA FaultsType ==
  ASSUME TypeInv, StoreFails \/ StoreWorks
  PROVE  faults' \in 0 .. MaxFaults
BY SchedulerAssumption, LocalTypes DEF StoreFails, StoreWorks

\* Boot, shutdown, exit and the passing of time.
LEMMA ProcessType ==
  ASSUME TypeInv, Boot \/ Cancel \/ Exit \/ Tick
  PROVE  TypeInv'
<1>1. CASE Boot
  <2>1. boots' \in 0 .. MaxBoots /\ unswept' \subseteq Guarded /\ pc' \in [Job -> Step]
    BY <1>1, SchedulerAssumption DEF Boot, TypeInv, TypeOK, Step
  <2>2. TypeOK'
    BY <1>1, <2>1 DEF Boot, TypeInv, TypeOK, stored, history
  <2>3. StepOK'
    BY <1>1, LocalTypes, StepKept, SchedulerAssumption DEF Boot, Unguarded, history
  <2> QED
    BY <2>2, <2>3 DEF TypeInv
<1>2. CASE Cancel
  BY <1>2 DEF Cancel, TypeInv, TypeOK, StepOK, stored, locals, history
<1>3. CASE Exit
  <2>1. /\ pc' \in [Job -> Step] /\ due' \in [Job -> Nat] /\ asOf' \in [Guarded -> Time]
        /\ rec' \in [Guarded -> BreakerRecord] /\ res' \in [Job -> Result]
        /\ clean' \in [Guarded -> BOOLEAN]
    BY <1>3, LocalTypes, ConstantTypes DEF Exit, AtRest, Step
  <2>2. TypeOK'
    BY <1>3, <2>1 DEF Exit, TypeInv, TypeOK, stored
  <2>3. StepOK'
    BY <1>3, LocalTypes, StepKept, SchedulerAssumption DEF Exit
  <2> QED
    BY <2>2, <2>3 DEF TypeInv
<1>4. CASE Tick
  BY <1>4, SchedulerAssumption DEF Tick, Time, TypeInv, TypeOK, StepOK, stored, locals, history
<1> QED
  BY <1>1, <1>2, <1>3, <1>4

\* The sweep and the maintenance loop.
LEMMA SweepType ==
  ASSUME TypeInv,
         ProbesDone \/ StartTickers \/ Prune \/ \E k \in Guarded : SweepLogin(k)
  PROVE  TypeInv'
<1>1. CASE ProbesDone
  BY <1>1 DEF ProbesDone, TypeInv, TypeOK, StepOK, stored, locals, history
<1>2. CASE StartTickers
  <2>1. pc' \in [Job -> Step] /\ due' \in [Job -> Nat]
    BY <1>2, LocalTypes, SchedulerAssumption DEF StartTickers, Time, Step
  <2>2. TypeOK'
    BY <1>2, <2>1 DEF StartTickers, TypeInv, TypeOK, stored, history
  <2>3. StepOK'
    BY <1>2, LocalTypes, StepKept, SchedulerAssumption DEF StartTickers, history
  <2> QED
    BY <2>2, <2>3 DEF TypeInv
<1>3. CASE Prune
  <2>1. rows' \in [Guarded -> [Run -> Time \cup {None}]]
    BY <1>3 DEF Prune, TypeInv, TypeOK
  <2>2. TypeOK'
    BY <1>3, <2>1 DEF Prune, TypeInv, TypeOK, locals, history
  <2>3. StepOK'
    BY <1>3 DEF Prune, TypeInv, StepOK, locals, history
  <2> QED
    BY <2>2, <2>3 DEF TypeInv
<1>4. ASSUME NEW k \in Guarded, SweepLogin(k)
      PROVE  TypeInv'
  <2>1. SkipLogin(k) \/ (StartLogin(k) /\ (StoreWorks \/ StoreFails))
    BY <1>4 DEF SweepLogin, RunLogin
  <2>2. pc' \in [Job -> Step] /\ asOf' \in [Guarded -> Time] /\ clean' \in [Guarded -> BOOLEAN]
    BY <2>1, LocalTypes DEF SkipLogin, StartLogin, Step
  <2>3. faults' \in 0 .. MaxFaults
    BY <2>1, LocalTypes, FaultsType DEF SkipLogin
  <2>4. TypeOK'
    BY <1>4, <2>2, <2>3 DEF SweepLogin, SweptOver, TypeInv, TypeOK, stored
  <2>5. \A l \in Guarded : pc'[l] = pc[l] \/ (pc'[l] = "load" /\ runs[l] < MaxRuns)
    BY <2>1, LocalTypes, SchedulerAssumption DEF SkipLogin, StartLogin
  <2>6. StepOK'
    BY <1>4, <2>5, LocalTypes, StepKept DEF SweepLogin
  <2> QED
    BY <2>4, <2>6 DEF TypeInv
<1> QED
  BY <1>1, <1>2, <1>3, <1>4

\* The tickers and the unguarded checks.
LEMMA TickerType ==
  ASSUME TypeInv, NEW j \in Job, TickFires(j) \/ ProbeStep(j)
  PROVE  TypeInv'
<1>1. CASE TickFires(j)
  <2>1. due' \in [Job -> Nat]
    BY <1>1, SchedulerAssumption DEF TickFires, NextTick, Time, TypeInv, TypeOK
  <2>2. pc' \in [Job -> Step] /\ asOf' \in [Guarded -> Time] /\ clean' \in [Guarded -> BOOLEAN]
    BY <1>1, LocalTypes DEF TickFires, StartLogin, Step
  <2>3. TypeOK'
    BY <1>1, <2>1, <2>2 DEF TickFires, TypeInv, TypeOK, stored
  <2>4. \A l \in Guarded : pc'[l] = pc[l] \/ (pc'[l] = "load" /\ runs[l] < MaxRuns)
    BY <1>1, LocalTypes, SchedulerAssumption DEF TickFires, StartLogin
  <2>5. StepOK'
    BY <1>1, <2>4, LocalTypes, StepKept DEF TickFires
  <2> QED
    BY <2>3, <2>5 DEF TypeInv
<1>2. CASE ProbeAnswers(j)
  <2>1. pc' \in [Job -> Step] /\ res' \in [Job -> Result]
    BY <1>2, LocalTypes, ConstantTypes DEF ProbeAnswers, Step
  <2>2. TypeOK'
    BY <1>2, <2>1 DEF ProbeAnswers, TypeInv, TypeOK, stored, history
  <2>3. StepOK'
    BY <1>2, LocalTypes, StepKept DEF ProbeAnswers, Unguarded, history
  <2> QED
    BY <2>2, <2>3 DEF TypeInv
<1>3. CASE RecordProbe(j)
  <2>1. pc' \in [Job -> Step] /\ res' \in [Job -> Result]
    BY <1>3, LocalTypes, ConstantTypes DEF RecordProbe, Resting, Step
  <2>2. current' \in [Job -> Result] /\ reported' \subseteq Job
    BY <1>3 DEF RecordProbe, TypeInv, TypeOK
  <2>3. faults' \in 0 .. MaxFaults
    BY <1>3, FaultsType DEF RecordProbe
  <2>4. TypeOK'
    BY <1>3, <2>1, <2>2, <2>3 DEF RecordProbe, TypeInv, TypeOK
  <2>5. StepOK'
    BY <1>3, LocalTypes, StepKept DEF RecordProbe, Unguarded
  <2> QED
    BY <2>4, <2>5 DEF TypeInv
<1> QED
  BY <1>1, <1>2, <1>3 DEF ProbeStep

\* What declining and proceeding assign.
LEMMA DeclineType ==
  ASSUME TypeInv, NEW k \in Guarded, NEW why \in PauseReasons, Decline(k, why)
  PROVE  /\ pc' \in [Job -> Step] /\ res' \in [Job -> Result]
         /\ rec' \in [Guarded -> BreakerRecord] /\ asOf' \in [Guarded -> Time]
         /\ pc'[k] = "decline"
         /\ \A l \in Guarded \ {k} : pc'[l] = pc[l] /\ res'[l] = res[l]
BY LocalTypes, ConstantTypes, SchedulerAssumption DEF Decline, Step

LEMMA ProceedType ==
  ASSUME TypeInv, NEW k \in Guarded, NEW where \in Step, Proceed(k, where)
  PROVE  /\ pc' \in [Job -> Step] /\ res' = res /\ asOf' = asOf
         /\ pc'[k] = where
         /\ \A l \in Guarded \ {k} : pc'[l] = pc[l]
BY LocalTypes, SchedulerAssumption DEF Proceed

\* The three steps of the guard.
LEMMA GuardType ==
  ASSUME TypeInv, NEW k \in Guarded, LoadBreaker(k) \/ CountAttempts(k) \/ CheckGate(k)
  PROVE  TypeInv'
<1> DEFINE Declines == \E why \in PauseReasons : Decline(k, why) /\ UNCHANGED runs
           Loads == Proceed(k, "count") /\ rec' = [rec EXCEPT ![k] = breaker[k]] /\ UNCHANGED runs
           Counts == Proceed(k, "gate") /\ rec' = [rec EXCEPT ![k] = ClosedBreaker] /\ UNCHANGED runs
           Passes == Proceed(k, "probe") /\ UNCHANGED rec /\ runs' = [runs EXCEPT ![k] = @ + 1]
<1>1. \A r \in BreakerRecord : PauseReason(r) \in PauseReasons
  BY DEF PauseReason, PauseReasons
<1>2. breaker[k] \in BreakerRecord /\ rec[k] \in BreakerRecord
  BY DEF TypeInv, TypeOK
<1>3. /\ pc[k] \in Deciding
      /\ Declines \/ Loads \/ Counts \/ Passes
  BY <1>1, <1>2 DEF LoadBreaker, CountAttempts, CheckGate, Deciding, PauseReasons
<1>4. /\ clean' \in [Guarded -> BOOLEAN] /\ faults' \in 0 .. MaxFaults
      /\ UNCHANGED <<stored, phase, cancelled, unswept, due, now, boots, log, booked, reported>>
  BY LocalTypes, FaultsType DEF LoadBreaker, CountAttempts, CheckGate, Lost
<1>5. runs[k] < MaxRuns
  BY <1>3, LocalTypes DEF StepOK
<1>6. ASSUME Declines PROVE TypeInv'
  <2>1. /\ pc' \in [Job -> Step] /\ res' \in [Job -> Result]
        /\ rec' \in [Guarded -> BreakerRecord] /\ asOf' \in [Guarded -> Time]
        /\ pc'[k] = "decline" /\ UNCHANGED runs
        /\ \A l \in Guarded \ {k} : pc'[l] = pc[l] /\ res'[l] = res[l]
    BY <1>6, DeclineType
  <2>2. TypeOK'
    BY <1>4, <2>1 DEF TypeInv, TypeOK, stored
  <2>3. StepOK'
    BY <2>1, LocalTypes, StepFrame DEF Deciding, InRun, Answered
  <2> QED
    BY <2>2, <2>3 DEF TypeInv
<1>7. ASSUME Loads \/ Counts \/ Passes PROVE TypeInv'
  <2>1. PICK where \in {"count", "gate", "probe"} :
          /\ Proceed(k, where)
          /\ where = "probe" => runs' = [runs EXCEPT ![k] = @ + 1]
          /\ where # "probe" => UNCHANGED runs
    BY <1>7
  <2>2. /\ pc' \in [Job -> Step] /\ res' = res /\ asOf' = asOf /\ pc'[k] = where
        /\ \A l \in Guarded \ {k} : pc'[l] = pc[l]
    BY <2>1, ProceedType DEF Step
  <2>3. rec' \in [Guarded -> BreakerRecord]
    BY <1>7, <1>2, LocalTypes, ConstantTypes
  <2>4. /\ runs' \in [Guarded -> 0 .. MaxRuns]
        /\ \A l \in Guarded \ {k} : runs'[l] = runs[l]
        /\ where = "probe" => runs'[k] \in Run
        /\ where # "probe" => runs'[k] < MaxRuns
    BY <2>1, <1>5, LocalTypes, SchedulerAssumption DEF Run
  <2>5. TypeOK'
    BY <1>4, <2>2, <2>3, <2>4 DEF TypeInv, TypeOK, stored
  <2>6. StepOK'
    BY <2>2, <2>4, LocalTypes, StepFrame DEF Deciding, InRun, Answered
  <2> QED
    BY <2>5, <2>6 DEF TypeInv
<1> QED
  BY <1>3, <1>6, <1>7

\* The probe, the breaker's update and the record.
LEMMA RunType ==
  ASSUME TypeInv, NEW k \in Guarded,
         \/ Submit(k) \/ LoginAnswers(k)
         \/ UpdateBreaker(k) \/ SaveBreaker(k) \/ RecordLogin(k)
  PROVE  TypeInv'
<1>1. CASE Submit(k)
  <2>1. pc' \in [Job -> Step]
    BY <1>1, LocalTypes DEF Submit, Step
  <2>2. log' \in [Guarded -> [Run -> LoginRecord]]
    <3>1. log[k] \in [Run -> LoginRecord] /\ runs[k] \in Run /\ now \in Time
      BY <1>1, LocalTypes DEF Submit, StepOK, InRun, TypeInv, TypeOK
    <3>2. [log[k][runs[k]] EXCEPT !.sent = now] \in LoginRecord
      BY <3>1 DEF LoginRecord
    <3>3. log' = [log EXCEPT ![k] = [log[k] EXCEPT ![runs[k]] = [log[k][runs[k]] EXCEPT !.sent = now]]]
      BY <1>1 DEF Submit
    <3> QED
      BY <3>1, <3>2, <3>3 DEF TypeInv, TypeOK
  <2>3. TypeOK'
    BY <1>1, <2>1, <2>2 DEF Submit, TypeInv, TypeOK, stored
  <2>4. StepOK'
    BY <1>1, LocalTypes, StepFrame, SchedulerAssumption DEF Submit, StepOK, Deciding, InRun, Answered
  <2> QED
    BY <2>3, <2>4 DEF TypeInv
<1>2. CASE LoginAnswers(k)
  <2>1. /\ pc' \in [Job -> Step] /\ asOf' \in [Guarded -> Time] /\ res' \in [Job -> Result]
        /\ pc'[k] = "update" /\ res'[k] \in Answer
        /\ \A l \in Guarded \ {k} : pc'[l] = pc[l] /\ res'[l] = res[l]
    BY <1>2, LocalTypes, ConstantTypes, SchedulerAssumption DEF LoginAnswers, Step
  <2>2. TypeOK'
    BY <1>2, <2>1 DEF LoginAnswers, TypeInv, TypeOK, stored, history
  <2>3. StepOK'
    BY <1>2, <2>1, LocalTypes, StepFrame DEF LoginAnswers, StepOK, Deciding, InRun, history
  <2> QED
    BY <2>2, <2>3 DEF TypeInv
<1>3. CASE UpdateBreaker(k)
  <2>1. /\ pc' \in [Job -> Step] /\ asOf' \in [Guarded -> Time] /\ clean' \in [Guarded -> BOOLEAN]
        /\ pc'[k] \in {"save", "record"}
        /\ \A l \in Guarded \ {k} : pc'[l] = pc[l]
    <3>1. \/ pc' = [pc EXCEPT ![k] = "record"]
          \/ pc' = [pc EXCEPT ![k] = "save"]
      BY <1>3 DEF UpdateBreaker
    <3>2. /\ asOf' = asOf \/ asOf' = [asOf EXCEPT ![k] = now]
          /\ clean' = clean \/ clean' = [clean EXCEPT ![k] = FALSE]
      BY <1>3 DEF UpdateBreaker, Lost
    <3>3. asOf' \in [Guarded -> Time] /\ clean' \in [Guarded -> BOOLEAN]
      BY <3>2, LocalTypes
    <3>4. /\ pc' \in [Job -> Step] /\ pc'[k] \in {"save", "record"}
          /\ \A l \in Guarded \ {k} : pc'[l] = pc[l]
      BY <3>1, LocalTypes, SchedulerAssumption DEF Step
    <3> QED
      BY <3>3, <3>4
  <2>2. rec' \in [Guarded -> BreakerRecord]
    <3>1. breaker[k] \in BreakerRecord /\ res[k] \in Answer /\ asOf[k] \in Nat
      BY <1>3, SchedulerAssumption DEF UpdateBreaker, StepOK, Answered, TypeInv, TypeOK, Time
    <3>2. AfterResult(breaker[k], res[k], asOf[k]) \in BreakerRecord
      BY <3>1, AfterResultType
    <3> QED
      BY <1>3, <3>2, LocalTypes DEF UpdateBreaker
  <2>3. faults' \in 0 .. MaxFaults
    BY <1>3, FaultsType DEF UpdateBreaker
  <2>4. TypeOK'
    BY <1>3, <2>1, <2>2, <2>3 DEF UpdateBreaker, TypeInv, TypeOK, stored
  <2>5. StepOK'
    BY <1>3, <2>1, LocalTypes, StepFrame
       DEF UpdateBreaker, StepOK, Deciding, InRun, Answered
  <2> QED
    BY <2>4, <2>5 DEF TypeInv
<1>4. CASE SaveBreaker(k)
  <2>1. /\ pc' \in [Job -> Step] /\ asOf' \in [Guarded -> Time] /\ clean' \in [Guarded -> BOOLEAN]
        /\ rec' \in [Guarded -> BreakerRecord] /\ pc'[k] = "record"
        /\ \A l \in Guarded \ {k} : pc'[l] = pc[l]
    BY <1>4, LocalTypes, ConstantTypes, SchedulerAssumption DEF SaveBreaker, Lost, Step
  <2>2. faults' \in 0 .. MaxFaults
    BY <1>4, FaultsType DEF SaveBreaker
  <2>3. breaker' \in [Guarded -> BreakerRecord]
    BY <1>4, LocalTypes DEF SaveBreaker, TypeInv, TypeOK
  <2>4. log' \in [Guarded -> [Run -> LoginRecord]]
    <3>1. log[k] \in [Run -> LoginRecord] /\ runs[k] \in Run
      BY <1>4 DEF SaveBreaker, StepOK, InRun, TypeInv, TypeOK
    <3>2. res[k].state \in {"up", "down"} /\ rec[k].until \in Nat /\ rec[k].backoff \in Nat
      BY <1>4, LocalTypes, ConstantTypes, BreakerAssumption
         DEF SaveBreaker, StepOK, Answered, BreakerRecord
    <3>3. Verdict(k) \in LoginRecord
      BY <3>1, <3>2 DEF Verdict, LoginRecord
    <3>4. \/ log' = log
          \/ log' = [log EXCEPT ![k] = [log[k] EXCEPT ![runs[k]] = Verdict(k)]]
      BY <1>4 DEF SaveBreaker
    <3>5. log \in [Guarded -> [Run -> LoginRecord]]
      BY DEF TypeInv, TypeOK
    <3>6. [log[k] EXCEPT ![runs[k]] = Verdict(k)] \in [Run -> LoginRecord]
      BY <3>1, <3>3
    <3> QED
      BY <3>4, <3>5, <3>6
  <2>5. TypeOK'
    BY <1>4, <2>1, <2>2, <2>3, <2>4 DEF SaveBreaker, TypeInv, TypeOK
  <2>6. StepOK'
    BY <1>4, <2>1, LocalTypes, StepFrame DEF SaveBreaker, StepOK, Deciding, InRun, Answered
  <2> QED
    BY <2>5, <2>6 DEF TypeInv
<1>5. CASE RecordLogin(k)
  <2>1. /\ pc' \in [Job -> Step] /\ asOf' \in [Guarded -> Time] /\ clean' \in [Guarded -> BOOLEAN]
        /\ res' \in [Job -> Result] /\ pc'[k] \in {"off", "idle"}
        /\ \A l \in Guarded \ {k} : pc'[l] = pc[l] /\ res'[l] = res[l]
    BY <1>5, LocalTypes, ConstantTypes, SchedulerAssumption DEF RecordLogin, Resting, Lost, Step
  <2>2. faults' \in 0 .. MaxFaults
    BY <1>5, FaultsType DEF RecordLogin
  <2>3. /\ current' \in [Job -> Result] /\ checkedAt' \in [Guarded -> Time]
        /\ reported' \subseteq Job
    <3>1. \/ UNCHANGED <<current, checkedAt, reported>>
          \/ /\ current' = [current EXCEPT ![k] = res[k]]
             /\ checkedAt' = [checkedAt EXCEPT ![k] = asOf[k]]
             /\ reported' = reported \cup {k}
      BY <1>5 DEF RecordLogin
    <3>2. /\ current \in [Job -> Result] /\ checkedAt \in [Guarded -> Time]
          /\ reported \subseteq Job
      BY DEF TypeInv, TypeOK
    <3> QED
      BY <3>1, <3>2, LocalTypes, SchedulerAssumption
  <2>4. booked' \in [Guarded -> SUBSET Run] /\ rows' \in [Guarded -> [Run -> Time \cup {None}]]
    <3>1. pc[k] = "record" => runs[k] \in Run
      BY LocalTypes DEF StepOK, InRun
    <3>2. \/ UNCHANGED <<rows, booked>>
          \/ /\ pc[k] = "record"
             /\ rows' = [rows EXCEPT ![k] = [rows[k] EXCEPT ![runs[k]] = asOf[k]]]
             /\ booked' = [booked EXCEPT ![k] = booked[k] \cup {runs[k]}]
      BY <1>5 DEF RecordLogin
    <3>3. /\ rows \in [Guarded -> [Run -> Time \cup {None}]]
          /\ booked \in [Guarded -> SUBSET Run]
          /\ asOf[k] \in Time
      BY DEF TypeInv, TypeOK
    <3>4. [rows[k] EXCEPT ![runs[k]] = asOf[k]] \in [Run -> Time \cup {None}]
      BY <3>3
    <3> QED
      BY <3>1, <3>2, <3>3, <3>4
  <2>5. TypeOK'
    BY <1>5, <2>1, <2>2, <2>3, <2>4 DEF RecordLogin, TypeInv, TypeOK
  <2>6. StepOK'
    BY <1>5, <2>1, LocalTypes, StepFrame DEF RecordLogin, Deciding, InRun, Answered
  <2> QED
    BY <2>5, <2>6 DEF TypeInv
<1> QED
  BY <1>1, <1>2, <1>3, <1>4, <1>5

\* TypeOK, with what it takes to keep it, holds in every reachable state: in
\* particular no stored backoff exceeds the longest suspension, whatever the
\* configuration.
THEOREM TypeCorrect == Spec => []TypeInv
<1>1. TypeInv /\ [Next]_vars => TypeInv'
  <2> SUFFICES ASSUME TypeInv, [Next]_vars PROVE TypeInv'
    OBVIOUS
  <2>1. CASE UNCHANGED vars
    BY <2>1 DEF TypeInv, TypeOK, StepOK, vars, stored, locals, history
  <2>2. CASE Next
    BY <2>2, ProcessType, SweepType, TickerType, GuardType, RunType DEF Next, LoginStep
  <2> QED
    BY <2>1, <2>2
<1> QED
  BY InitType, <1>1, PTL DEF Spec

\* The type invariant of the runs.
COROLLARY TypeSafe == Spec => []TypeOK
<1>1. TypeInv => TypeOK
  BY DEF TypeInv
<1> QED
  BY TypeCorrect, <1>1, PTL

-----------------------------------------------------------------------------
(* Counting runs.                                                          *)

\* Sets of runs are finite, and a smaller set of runs has no more elements.
LEMMA RunsFinite ==
  ASSUME NEW T \in SUBSET Run
  PROVE  /\ IsFiniteSet(T) /\ Cardinality(T) \in Nat
         /\ \A S \in SUBSET T : Cardinality(S) <= Cardinality(T)
<1>1. IsFiniteSet(Run)
  BY FS_Interval, SchedulerAssumption DEF Run
<1>2. IsFiniteSet(T)
  BY <1>1, FS_Subset
<1> QED
  BY <1>2, FS_Subset, FS_CardinalityType

\* One more run adds at most one element.
LEMMA OneMoreRun ==
  ASSUME NEW T \in SUBSET Run, NEW r \in Run, NEW S \in SUBSET (T \cup {r})
  PROVE  Cardinality(S) <= Cardinality(T) + 1
<1>1. IsFiniteSet(T) /\ Cardinality(T) \in Nat
  BY RunsFinite
<1>2. Cardinality(T \cup {r}) <= Cardinality(T) + 1
  <2>1. CASE r \in T
    <3>1. T \cup {r} = T
      BY <2>1
    <3> QED
      BY <1>1, <3>1
  <2>2. CASE r \notin T
    <3>1. Cardinality(T \cup {r}) = Cardinality(T) + 1
      BY <1>1, <2>2, FS_AddElement
    <3> QED
      BY <1>1, <3>1
  <2> QED
    BY <2>1, <2>2
<1>3. T \cup {r} \in SUBSET Run
  OBVIOUS
<1>4. Cardinality(S) <= Cardinality(T \cup {r}) /\ Cardinality(S) \in Nat /\ Cardinality(T \cup {r}) \in Nat
  BY <1>3, RunsFinite
<1> QED
  BY <1>1, <1>2, <1>4

-----------------------------------------------------------------------------
(* The order of the initial sweep: no login presents credentials before    *)
(* the check that gates it has stored a result in the same process.  The   *)
(* invariant follows the phases: in the first only the unguarded checks    *)
(* run, and one that has come to rest has stored its result, unless the    *)
(* call failed; the second starts when all of them are at rest.  A         *)
(* shutdown excuses a failed call too, but then nothing is submitted any   *)
(* more: what has been submitted already was so before it.                 *)

\* A call to the store may have failed.
Excused == cancelled \/ faults # 0

\* No process, no run.
DownIsQuiet == phase = "down" => \A j \in Job : pc[j] = "off"
\* The first phase belongs to the unguarded checks.
ProbesFirst ==
  phase = "probes" => /\ \A k \in Guarded : pc[k] = "off"
                      /\ \A j \in Unguarded : AtRest(j) => j \in reported \/ Excused
\* From the second phase on, all of them have.
GatesReported ==
  phase \in {"logins", "running"} => Unguarded \subseteq reported \/ Excused

SweepInv == DownIsQuiet /\ ProbesFirst /\ GatesReported /\ LoginFollowsGate

\* Failures are counted up, and one without a shutdown counts.
LEMMA FailureExcuses ==
  ASSUME TypeInv, StoreFails \/ StoreWorks
  PROVE  /\ faults # 0 => faults' # 0
         /\ StoreFails => cancelled \/ faults' # 0
<1>1. faults \in Nat
  BY SchedulerAssumption DEF TypeInv, TypeOK
<1> QED
  BY <1>1 DEF StoreFails, StoreWorks

LEMMA InitSweep == Init => SweepInv
BY SchedulerAssumption DEF Init, SweepInv, DownIsQuiet, ProbesFirst, GatesReported, LoginFollowsGate

\* The process, the clock and the maintenance loop.
LEMMA ProcessSweep ==
  ASSUME TypeInv, SweepInv, Boot \/ Cancel \/ Exit \/ Tick \/ Prune
  PROVE  SweepInv'
<1>1. CASE Boot
  <2>1. phase' = "probes"
    BY <1>1 DEF Boot
  <2>2. \A k \in Guarded : pc'[k] = "off"
    BY <1>1, SchedulerAssumption DEF Boot, Unguarded
  <2>3. \A j \in Unguarded : pc'[j] = "probe"
    BY <1>1 DEF Boot, Unguarded
  <2> QED
    BY <2>1, <2>2, <2>3 DEF SweepInv, DownIsQuiet, ProbesFirst, GatesReported, AtRest,
                            LoginFollowsGate
<1>2. CASE Exit
  <2>1. phase' = "down" /\ \A j \in Job : pc'[j] = "off"
    BY <1>2 DEF Exit
  <2> QED
    BY <2>1, SchedulerAssumption DEF SweepInv, DownIsQuiet, ProbesFirst, GatesReported,
                                     LoginFollowsGate
<1>3. CASE Cancel \/ Tick \/ Prune
  BY <1>3 DEF Cancel, Tick, Prune, SweepInv, DownIsQuiet, ProbesFirst, GatesReported,
              AtRest, LoginFollowsGate, Excused, locals, history
<1> QED
  BY <1>1, <1>2, <1>3

\* The two steps between the phases.
LEMMA PhaseSweep ==
  ASSUME TypeInv, SweepInv, ProbesDone \/ StartTickers
  PROVE  SweepInv'
<1>1. CASE ProbesDone
  <2>1. Unguarded \subseteq reported \/ Excused
    BY <1>1 DEF ProbesDone, ProbesFinished, SweepInv, ProbesFirst
  <2> QED
    BY <1>1, <2>1 DEF ProbesDone, SweepInv, DownIsQuiet, ProbesFirst, GatesReported,
                      LoginFollowsGate, Excused, locals, history
<1>2. CASE StartTickers
  BY <1>2, SchedulerAssumption DEF StartTickers, SweepInv, DownIsQuiet, ProbesFirst, GatesReported,
                                   LoginFollowsGate, Excused, history
<1> QED
  BY <1>1, <1>2

\* A run of a check leaves the phase as it is, and starts no other.
CheckStep(j) ==
  /\ UNCHANGED <<phase, cancelled>> /\ reported \subseteq reported'
  /\ faults # 0 => faults' # 0
  /\ \A i \in Job \ {j} : pc'[i] = pc[i]
  /\ phase # "down"
  /\ j \in Guarded => phase # "probes"
  /\ j \in Unguarded /\ pc'[j] \in {"off", "idle"} => j \in reported' \/ Excused'
  /\ j \in Guarded /\ pc'[j] = "submitted" => pc[j] = "submitted" \/ ~cancelled

LEMMA CheckSweep ==
  ASSUME TypeInv, SweepInv, NEW j \in Job, CheckStep(j)
  PROVE  SweepInv'
<1>0. Excused => Excused'
  BY DEF Excused, CheckStep
<1>1. DownIsQuiet' /\ GatesReported'
  BY <1>0 DEF SweepInv, DownIsQuiet, GatesReported, CheckStep
<1>2. ProbesFirst'
  BY <1>0, SchedulerAssumption DEF SweepInv, ProbesFirst, CheckStep, AtRest, Unguarded
<1>3. LoginFollowsGate'
  <2> SUFFICES ASSUME NEW k \in Guarded, faults' = 0, pc'[k] = "submitted"
               PROVE  GateOf[k] \in reported'
    BY DEF LoginFollowsGate
  <2>1. faults = 0 /\ (pc[k] = "submitted" \/ (k = j /\ ~cancelled)) /\ k \in Job
    BY SchedulerAssumption DEF CheckStep
  <2>2. CASE pc[k] = "submitted"
    BY <2>1, <2>2 DEF SweepInv, LoginFollowsGate, CheckStep
  <2>3. CASE k = j /\ ~cancelled
    <3>1. phase \in {"logins", "running"}
      BY <2>3 DEF CheckStep, TypeInv, TypeOK
    <3>2. Unguarded \subseteq reported
      BY <2>1, <2>3, <3>1 DEF SweepInv, GatesReported, Excused
    <3> QED
      BY <3>2, SchedulerAssumption DEF Unguarded, CheckStep
  <2> QED
    BY <2>1, <2>2, <2>3
<1> QED
  BY <1>1, <1>2, <1>3 DEF SweepInv

\* Every step of a run is such a step: a login check that is at work is in the
\* second phase or later, and an unguarded check has come to record when it rests.
LEMMA ProbeStepSweep ==
  ASSUME TypeInv, SweepInv, NEW j \in Job, TickFires(j) \/ ProbeStep(j)
  PROVE  CheckStep(j)
<1>1. pc \in [Job -> Step]
  BY LocalTypes
<1>2. CASE TickFires(j)
  <2>1. \/ pc' = [pc EXCEPT ![j] = "load"] /\ j \in Guarded
        \/ pc' = [pc EXCEPT ![j] = "probe"]
    BY <1>2 DEF TickFires, StartLogin
  <2> QED
    BY <1>1, <1>2, <2>1 DEF TickFires, CheckStep
<1>3. CASE ProbeAnswers(j)
  BY <1>1, <1>3 DEF ProbeAnswers, CheckStep, SweepInv, DownIsQuiet, history, Unguarded
<1>4. CASE RecordProbe(j)
  <2>1. faults # 0 => faults' # 0
    BY <1>4, FailureExcuses DEF RecordProbe
  <2>2. j \in reported' \/ Excused'
    BY <1>4, FailureExcuses DEF RecordProbe, Excused
  <2> QED
    BY <1>1, <1>4, <2>1, <2>2 DEF RecordProbe, CheckStep, SweepInv, DownIsQuiet, Unguarded
<1> QED
  BY <1>2, <1>3, <1>4 DEF ProbeStep

LEMMA LoginStepSweep ==
  ASSUME TypeInv, SweepInv, NEW k \in Guarded, SweepLogin(k) \/ LoginStep(k)
  PROVE  k \in Job /\ CheckStep(k)
<1>1. pc \in [Job -> Step] /\ k \in Job /\ k \notin Unguarded
  BY LocalTypes, SchedulerAssumption DEF Unguarded
<1> SUFFICES /\ UNCHANGED <<phase, cancelled>> /\ reported \subseteq reported'
             /\ faults # 0 => faults' # 0
             /\ \A i \in Job \ {k} : pc'[i] = pc[i]
             /\ phase # "down" /\ phase # "probes"
             /\ pc'[k] = "submitted" => ~cancelled
  BY <1>1 DEF CheckStep
<1>2. CASE SweepLogin(k)
  <2>1. faults # 0 => faults' # 0
    BY <1>2, FailureExcuses DEF SweepLogin, SkipLogin, RunLogin
  <2>2. pc'[k] # "submitted"
    BY <1>1, <1>2 DEF SweepLogin, SkipLogin, RunLogin, StartLogin, AtRest
  <2> QED
    BY <1>1, <1>2, <2>1, <2>2 DEF SweepLogin, SkipLogin, RunLogin, StartLogin
<1>3. CASE LoginStep(k)
  <2>1. pc[k] # "off"
    BY <1>3 DEF LoginStep, LoadBreaker, CountAttempts, CheckGate, Submit, LoginAnswers,
                UpdateBreaker, SaveBreaker, RecordLogin
  <2>2. phase # "down" /\ phase # "probes"
    BY <1>1, <2>1 DEF SweepInv, DownIsQuiet, ProbesFirst
  <2>3. CASE LoadBreaker(k) \/ CountAttempts(k) \/ CheckGate(k)
    <3>1. faults # 0 => faults' # 0
      BY <2>3, FailureExcuses DEF LoadBreaker, CountAttempts, CheckGate
    <3>2. pc'[k] # "submitted"
      BY <1>1, <2>3 DEF LoadBreaker, CountAttempts, CheckGate, Decline, Proceed
    <3> QED
      BY <1>1, <2>2, <2>3, <3>1, <3>2 DEF LoadBreaker, CountAttempts, CheckGate, Decline, Proceed
  <2>4. CASE Submit(k) \/ LoginAnswers(k)
    BY <1>1, <2>2, <2>4 DEF Submit, LoginAnswers, history
  <2>5. CASE UpdateBreaker(k) \/ SaveBreaker(k) \/ RecordLogin(k)
    <3>1. faults # 0 => faults' # 0
      BY <2>5, FailureExcuses DEF UpdateBreaker, SaveBreaker, RecordLogin
    <3>2. pc'[k] # "submitted"
      BY <1>1, <2>5 DEF UpdateBreaker, SaveBreaker, RecordLogin, Resting
    <3>3. reported \subseteq reported'
      BY <2>5 DEF UpdateBreaker, SaveBreaker, RecordLogin
    <3> QED
      BY <1>1, <2>2, <2>5, <3>1, <3>2, <3>3 DEF UpdateBreaker, SaveBreaker, RecordLogin
  <2> QED
    BY <1>3, <2>3, <2>4, <2>5 DEF LoginStep
<1> QED
  BY <1>2, <1>3

LEMMA StepSweep ==
  ASSUME TypeInv, SweepInv, [Next]_vars
  PROVE  SweepInv'
<1>1. CASE UNCHANGED vars
  BY <1>1 DEF vars, SweepInv, DownIsQuiet, ProbesFirst, GatesReported, AtRest, LoginFollowsGate,
              Excused, locals, history
<1>2. CASE Boot \/ Cancel \/ Exit \/ Tick \/ Prune
  BY <1>2, ProcessSweep
<1>3. CASE ProbesDone \/ StartTickers
  BY <1>3, PhaseSweep
<1>4. ASSUME NEW k \in Guarded, SweepLogin(k) \/ LoginStep(k) PROVE SweepInv'
  BY <1>4, LoginStepSweep, CheckSweep
<1>5. ASSUME NEW j \in Job, TickFires(j) \/ ProbeStep(j) PROVE SweepInv'
  BY <1>5, ProbeStepSweep, CheckSweep
<1> QED
  BY <1>1, <1>2, <1>3, <1>4, <1>5 DEF Next

\* What the phases guarantee holds in every reachable state.
THEOREM SweepCorrect == Spec => []SweepInv
<1>1. TypeInv /\ SweepInv /\ [Next]_vars => SweepInv'
  BY StepSweep
<1> QED
  BY TypeCorrect, InitSweep, <1>1, PTL DEF Spec

\* RunInitialSweep's first phase precedes its second, for any number of checks
\* and restarts and whenever a shutdown comes: as long as no call to the store
\* was refused, a login never presents credentials on the word of a gate state
\* an earlier process left.
COROLLARY GateFirst == Spec => []LoginFollowsGate
<1>1. SweepInv => LoginFollowsGate
  BY DEF SweepInv
<1> QED
  BY SweepCorrect, <1>1, PTL
=============================================================================
