---------------------------- MODULE BreakerProofs -----------------------------
(***************************************************************************)
(* What the breaker remembers of a login's runs.  Its record is the memory *)
(* of every failure since the last success that could be saved: how many   *)
(* there were, and how long the last suspension was.  From this follow the *)
(* doubling of suspensions and the threshold, over any number of restarts  *)
(* and lost calls; and that the live state agrees with the breaker.        *)
(***************************************************************************)
EXTENDS SuspensionProofs

\* The run under way has not saved its verdict yet.
Unsaved == {"probe", "submitted", "update", "save"}

NoSuccessSince(k, i) == \A m \in Run : i < m => log[k][m].saw # "up"
FailuresSince(k) == {i \in Run : log[k][i].saw = "down" /\ NoSuccessSince(k, i)}
FailuresUpTo(k, j) == {i \in Run : /\ i <= j /\ log[k][i].saw = "down"
                                   /\ NoSuccessBetween(k, i, j)}

VerdictPending ==
  \A k \in Guarded :
    pc[k] \in Unsaved => log[k][runs[k]].saw = "none" /\ log[k][runs[k]].wait = None
\* What is saved is worked out from the record it replaces, at a moment when no
\* suspension was in force.
SavesNextRecord ==
  \A k \in Guarded :
    /\ pc[k] \in {"update", "save"} => breaker[k].until <= asOf[k]
    /\ pc[k] = "save" => rec[k] = AfterResult(breaker[k], res[k], asOf[k])
\* The backoff is as long as any suspension since the last success.
BackoffKnown ==
  \A k \in Guarded : \A i \in Run :
    log[k][i].wait # None /\ NoSuccessSince(k, i) => breaker[k].backoff >= log[k][i].wait
\* The count of failures misses none.
FailuresKnown == \A k \in Guarded : Cardinality(FailuresSince(k)) <= breaker[k].fails

MemoryInv ==
  /\ VerdictPending /\ SavesNextRecord /\ BackoffKnown /\ FailuresKnown
  /\ SuspensionEscalates /\ ThresholdTrips

-----------------------------------------------------------------------------
(* Facts about the operators.                                              *)

LEMMA MemoryTypes ==
  ASSUME TypeInv, NEW k \in Guarded
  PROVE  /\ breaker[k] \in BreakerRecord /\ rec[k] \in BreakerRecord
         /\ breaker[k].fails \in Nat /\ breaker[k].backoff \in 0 .. BackoffMax
         /\ \A i \in Run : log[k][i].wait \in Int /\ (log[k][i].wait # None => log[k][i].wait \in Nat)
         /\ \A i \in Run : log[k][i].saw \in {"none", "up", "down"}
         /\ Run \subseteq Int /\ runs[k] \in Nat
         /\ IsFiniteSet(Run)
<1>1. breaker[k] \in BreakerRecord /\ rec[k] \in BreakerRecord /\ runs[k] \in 0 .. MaxRuns
  BY DEF TypeInv, TypeOK
<1>2. log \in [Guarded -> [Run -> LoginRecord]]
  BY SuspensionTypes
<1>3. \A i \in Run : log[k][i] \in LoginRecord
  BY <1>2
<1>4. \A r \in LoginRecord : /\ r.wait \in Int /\ (r.wait # None => r.wait \in Nat)
                             /\ r.saw \in {"none", "up", "down"}
  BY DEF LoginRecord, None
<1>5. IsFiniteSet(Run) /\ Run \subseteq Int
  BY FS_Interval, SchedulerAssumption DEF Run
<1> QED
  BY <1>1, <1>3, <1>4, <1>5, SchedulerAssumption DEF BreakerRecord

\* nextBackoff: at least double, up to the maximum; never shorter; a suspension
\* of whole units never is 0.
LEMMA NextBackoffGrows ==
  ASSUME NEW b \in 0 .. BackoffMax
  PROVE  /\ NextBackoff(b) >= b
         /\ \A w \in Nat : w <= b => NextBackoff(b) >= Lesser(2 * w, BackoffMax)
         /\ BackoffInitial > 0 /\ BackoffMax > 0 => NextBackoff(b) > 0
BY BreakerAssumption DEF NextBackoff, Lesser

\* What one result does to the record.
LEMMA AfterResultFacts ==
  ASSUME NEW r \in BreakerRecord, NEW s \in Answer, NEW t \in Nat
  PROVE  /\ s.state = "up" => AfterResult(r, s, t) = ClosedBreaker
         /\ s.state = "down" =>
              /\ AfterResult(r, s, t).fails = r.fails + 1
              /\ AfterResult(r, s, t).backoff \in {r.backoff, NextBackoff(r.backoff)}
              /\ AfterResult(r, s, t).until # r.until =>
                   AfterResult(r, s, t).backoff = NextBackoff(r.backoff)
              /\ r.fails + 1 >= FailureThreshold =>
                   AfterResult(r, s, t).until = t + NextBackoff(r.backoff)
<1> DEFINE b == NextBackoff(r.backoff)
           a == [r EXCEPT !.fails = @ + 1]
<1>1. a.fails = r.fails + 1 /\ a.until = r.until /\ a.backoff = r.backoff
  BY DEF BreakerRecord
<1>2. CASE s.state = "up"
  BY <1>2 DEF AfterResult
<1>3. CASE s.state = "down" /\ Trips(r, s)
  <2>1. AfterResult(r, s, t) = [fails |-> r.fails + 1, until |-> t + b, backoff |-> b]
    BY <1>3 DEF AfterResult
  <2> HIDE DEF b
  <2>2. /\ AfterResult(r, s, t).fails = r.fails + 1 /\ AfterResult(r, s, t).until = t + b
        /\ AfterResult(r, s, t).backoff = b
    BY <2>1
  <2> QED
    BY <1>3, <2>2 DEF b
<1>4. CASE s.state = "down" /\ ~Trips(r, s)
  <2>1. AfterResult(r, s, t) = a
    BY <1>4 DEF AfterResult
  <2>2. ~(r.fails + 1 >= FailureThreshold)
    BY <1>4 DEF Trips
  <2> HIDE DEF a
  <2> QED
    BY <1>1, <1>4, <2>1, <2>2
<1>5. s.state \in {"up", "down"}
  BY ConstantTypes
<1> QED
  BY <1>2, <1>3, <1>4, <1>5

LEMMA InitMemory == Init => MemoryInv
<1> SUFFICES ASSUME Init PROVE MemoryInv
  OBVIOUS
<1>1. \A k \in Guarded : \A i \in Run : log[k][i].saw = "none" /\ log[k][i].wait = None
  BY DEF Init, NotRun
<1>2. \A k \in Guarded : pc[k] = "off" /\ breaker[k].fails = 0
  BY SchedulerAssumption DEF Init, ClosedBreaker
<1>3. VerdictPending /\ SavesNextRecord /\ BackoffKnown
  BY <1>1, <1>2 DEF VerdictPending, SavesNextRecord, BackoffKnown, Unsaved
<1>4. FailuresKnown
  <2>1. \A k \in Guarded : FailuresSince(k) = {}
    BY <1>1 DEF FailuresSince
  <2> QED
    BY <1>2, <2>1, FS_EmptySet DEF FailuresKnown
<1>5. SuspensionEscalates /\ ThresholdTrips
  BY <1>1 DEF SuspensionEscalates, ThresholdTrips
<1> QED
  BY <1>3, <1>4, <1>5 DEF MemoryInv

-----------------------------------------------------------------------------
\* A step that writes no verdict and leaves the breaker as it is.
NoVerdictStep ==
  /\ UNCHANGED breaker
  /\ \A k \in Guarded :
       /\ \A i \in Run : log'[k][i].saw = log[k][i].saw /\ log'[k][i].wait = log[k][i].wait
       /\ pc'[k] \in Unsaved => \/ pc[k] \in Unsaved /\ runs'[k] = runs[k]
                                \/ runs'[k] = runs[k] + 1 /\ runs'[k] \in Run
       /\ pc'[k] \in {"update", "save"} =>
            \/ pc[k] \in {"update", "save"} /\ asOf'[k] = asOf[k]
            \/ pc[k] \in PastGuard /\ asOf'[k] = now
       /\ pc'[k] = "save" =>
            \/ /\ pc[k] = "save"
               /\ rec'[k] = rec[k] /\ res'[k] = res[k] /\ asOf'[k] = asOf[k]
            \/ rec'[k] = AfterResult(breaker[k], res'[k], asOf'[k])

LEMMA NoVerdictMemory ==
  ASSUME TypeInv, SuspensionInv, MemoryInv, NoVerdictStep
  PROVE  MemoryInv'
<1>1. VerdictPending'
  <2> SUFFICES ASSUME NEW k \in Guarded, pc'[k] \in Unsaved
               PROVE  log'[k][runs'[k]].saw = "none" /\ log'[k][runs'[k]].wait = None
    BY DEF VerdictPending
  <2>1. CASE pc[k] \in Unsaved /\ runs'[k] = runs[k]
    <3>1. runs[k] \in Run
      BY <2>1, SuspensionTypes DEF Unsaved, InRun
    <3> QED
      BY <2>1, <3>1 DEF NoVerdictStep, MemoryInv, VerdictPending
  <2>2. CASE runs'[k] = runs[k] + 1 /\ runs'[k] \in Run
    <3>1. runs'[k] > runs[k]
      BY <2>2, MemoryTypes
    <3>2. log[k][runs'[k]] = NotRun
      BY <2>2, <3>1 DEF SuspensionInv, LogEnds
    <3> QED
      BY <2>2, <3>2 DEF NoVerdictStep, NotRun
  <2> QED
    BY <2>1, <2>2 DEF NoVerdictStep
<1>2. SavesNextRecord'
  <2> SUFFICES ASSUME NEW k \in Guarded
               PROVE  /\ pc'[k] \in {"update", "save"} => breaker[k].until <= asOf'[k]
                      /\ pc'[k] = "save" => rec'[k] = AfterResult(breaker[k], res'[k], asOf'[k])
    BY DEF SavesNextRecord, NoVerdictStep
  <2>1. pc[k] \in PastGuard => breaker[k].until <= now
    BY DEF SuspensionInv, GuardPassed
  <2>2. pc'[k] \in {"update", "save"} => breaker[k].until <= asOf'[k]
    BY <2>1 DEF NoVerdictStep, MemoryInv, SavesNextRecord
  <2>3. pc'[k] = "save" => rec'[k] = AfterResult(breaker[k], res'[k], asOf'[k])
    BY DEF NoVerdictStep, MemoryInv, SavesNextRecord
  <2> QED
    BY <2>2, <2>3
<1>3. \A k \in Guarded : \A i \in Run : NoSuccessSince(k, i)' <=> NoSuccessSince(k, i)
  BY DEF NoVerdictStep, NoSuccessSince
<1>4. BackoffKnown'
  BY <1>3 DEF NoVerdictStep, MemoryInv, BackoffKnown
<1>5. FailuresKnown'
  <2>1. \A k \in Guarded : FailuresSince(k)' = FailuresSince(k)
    BY <1>3 DEF NoVerdictStep, FailuresSince
  <2> QED
    BY <2>1 DEF NoVerdictStep, MemoryInv, FailuresKnown
<1>6. \A k \in Guarded : \A i, j \in Run : NoSuccessBetween(k, i, j)' <=> NoSuccessBetween(k, i, j)
  BY DEF NoVerdictStep, NoSuccessBetween
<1>7. SuspensionEscalates'
  BY <1>6 DEF NoVerdictStep, MemoryInv, SuspensionEscalates
<1>8. ThresholdTrips'
  <2>1. \A k \in Guarded : \A j \in Run :
          {i \in Run : /\ i <= j /\ log'[k][i].saw = "down" /\ NoSuccessBetween(k, i, j)'}
            = {i \in Run : /\ i <= j /\ log[k][i].saw = "down" /\ NoSuccessBetween(k, i, j)}
    BY <1>6 DEF NoVerdictStep
  <2> QED
    BY <2>1 DEF NoVerdictStep, MemoryInv, ThresholdTrips
<1> QED
  BY <1>1, <1>2, <1>4, <1>5, <1>7, <1>8 DEF MemoryInv

-----------------------------------------------------------------------------
\* Which steps those are: all but the save that succeeds.
LEMMA ProcessNoVerdict ==
  ASSUME TypeInv,
         Boot \/ Cancel \/ Exit \/ Tick \/ Prune \/ ProbesDone \/ StartTickers \/ UNCHANGED vars
  PROVE  NoVerdictStep
<1>1. UNCHANGED <<breaker, log, runs>>
  BY DEF Boot, Cancel, Exit, Tick, Prune, ProbesDone, StartTickers, vars, stored, locals, history
<1>2. \A k \in Guarded : \/ pc'[k] \in {"off", "idle"}
                         \/ /\ pc'[k] = pc[k] /\ asOf'[k] = asOf[k]
                            /\ rec'[k] = rec[k] /\ res'[k] = res[k]
  BY SchedulerAssumption
     DEF Boot, Cancel, Exit, Tick, Prune, ProbesDone, StartTickers, vars, stored, locals, history,
         Unguarded
<1> QED
  BY <1>1, <1>2 DEF NoVerdictStep, Unsaved

LEMMA CheckNoVerdict ==
  ASSUME TypeInv, NEW j \in Job, TickFires(j) \/ ProbeStep(j)
  PROVE  NoVerdictStep
<1>1. UNCHANGED <<breaker, log, runs, rec>>
  BY DEF TickFires, ProbeStep, ProbeAnswers, RecordProbe, stored, history
<1>2. \A k \in Guarded : \/ pc'[k] = "load"
                         \/ pc'[k] = pc[k] /\ asOf'[k] = asOf[k] /\ res'[k] = res[k]
  <2>0. pc \in [Job -> Step] /\ asOf \in [Guarded -> Time] /\ res \in [Job -> Result]
    BY LocalTypes
  <2>1. CASE TickFires(j)
    <3>1. /\ res' = res
          /\ \/ /\ j \in Guarded /\ pc' = [pc EXCEPT ![j] = "load"]
                /\ asOf' = [asOf EXCEPT ![j] = now]
             \/ /\ j \notin Guarded /\ pc' = [pc EXCEPT ![j] = "probe"]
                /\ asOf' = asOf
      BY <2>1 DEF TickFires, StartLogin
    <3> QED
      BY <2>0, <3>1, SchedulerAssumption
  <2>2. CASE ProbeStep(j)
    <3>1. /\ j \notin Guarded /\ asOf' = asOf
          /\ \E s \in Step : pc' = [pc EXCEPT ![j] = s]
          /\ \E r : res' = [res EXCEPT ![j] = r]
      BY <2>2 DEF ProbeStep, ProbeAnswers, RecordProbe, Resting, Unguarded, Step
    <3> QED
      BY <2>0, <3>1, SchedulerAssumption
  <2> QED
    BY <2>1, <2>2
<1> QED
  BY <1>1, <1>2 DEF NoVerdictStep, Unsaved

\* A step of login k leaves the other logins where they are.
LEMMA OthersKept ==
  ASSUME TypeInv, NEW k \in Guarded, SweepLogin(k) \/ LoginStep(k), NEW l \in Guarded \ {k}
  PROVE  /\ pc'[l] = pc[l] /\ asOf'[l] = asOf[l] /\ rec'[l] = rec[l] /\ res'[l] = res[l]
         /\ clean'[l] = clean[l] /\ current'[l] = current[l]
         /\ breaker'[l] = breaker[l] /\ log'[l] = log[l] /\ runs'[l] = runs[l]
<1>0. /\ pc \in [Job -> Step] /\ asOf \in [Guarded -> Time] /\ res \in [Job -> Result]
      /\ rec \in [Guarded -> BreakerRecord] /\ clean \in [Guarded -> BOOLEAN]
      /\ runs \in [Guarded -> 0 .. MaxRuns] /\ current \in [Job -> Result]
      /\ breaker \in [Guarded -> BreakerRecord]
      /\ log \in [Guarded -> [Run -> LoginRecord]]
      /\ l \in Job /\ k \in Job /\ l # k
  BY LocalTypes, SuspensionTypes, SchedulerAssumption DEF TypeInv, TypeOK
<1>1. CASE SweepLogin(k)
  BY <1>0, <1>1 DEF SweepLogin, SkipLogin, RunLogin, StartLogin, stored
<1>2. CASE LoadBreaker(k) \/ CountAttempts(k) \/ CheckGate(k)
  BY <1>0, <1>2 DEF LoadBreaker, CountAttempts, CheckGate, Decline, Proceed, Lost, stored
<1>3. CASE Submit(k) \/ LoginAnswers(k)
  BY <1>0, <1>3 DEF Submit, LoginAnswers, stored, history
<1>4. CASE UpdateBreaker(k)
  BY <1>0, <1>4 DEF UpdateBreaker, Lost, stored
<1>5. CASE SaveBreaker(k)
  BY <1>0, <1>5 DEF SaveBreaker, Lost
<1>6. CASE RecordLogin(k)
  BY <1>0, <1>6 DEF RecordLogin, Lost
<1> QED
  BY <1>1, <1>2, <1>3, <1>4, <1>5, <1>6 DEF LoginStep

LEMMA LoginNoVerdict ==
  ASSUME TypeInv, TypeInv', NEW k \in Guarded, SweepLogin(k) \/ LoginStep(k),
         ~(SaveBreaker(k) /\ ~UNCHANGED <<breaker, log>>)
  PROVE  NoVerdictStep
<1>0. pc \in [Job -> Step] /\ asOf \in [Guarded -> Time] /\ k \in Job
      /\ rec \in [Guarded -> BreakerRecord] /\ runs \in [Guarded -> 0 .. MaxRuns]
  BY LocalTypes, SchedulerAssumption
<1>1. UNCHANGED breaker
  BY DEF SweepLogin, LoginStep, LoadBreaker, CountAttempts, CheckGate, Submit, LoginAnswers,
         UpdateBreaker, SaveBreaker, RecordLogin, stored
<1>2. \A i \in Run : log'[k][i].saw = log[k][i].saw /\ log'[k][i].wait = log[k][i].wait
  <2>1. CASE Submit(k)
    <3>1. log \in [Guarded -> [Run -> LoginRecord]] /\ runs[k] \in Run
      BY <2>1, SuspensionTypes DEF Submit, InRun
    <3>2. log' = [log EXCEPT ![k] = [log[k] EXCEPT ![runs[k]] = [log[k][runs[k]] EXCEPT !.sent = now]]]
      BY <2>1 DEF Submit
    <3> QED
      BY <3>1, <3>2 DEF LoginRecord
  <2>2. CASE ~Submit(k)
    BY <2>2 DEF SweepLogin, LoginStep, LoadBreaker, CountAttempts, CheckGate, LoginAnswers,
                UpdateBreaker, SaveBreaker, RecordLogin, history
  <2> QED
    BY <2>1, <2>2
<1>3. pc'[k] \in Unsaved => \/ pc[k] \in Unsaved /\ runs'[k] = runs[k]
                            \/ runs'[k] = runs[k] + 1 /\ runs'[k] \in Run
  <2>1. pc'[k] = "probe" => runs'[k] \in Run
    BY DEF TypeInv, StepOK, InRun
  <2>2. CASE CheckGate(k)
    BY <1>0, <2>1, <2>2 DEF CheckGate, Decline, Proceed, Unsaved
  <2>3. CASE SweepLogin(k) \/ LoadBreaker(k) \/ CountAttempts(k) \/ RecordLogin(k)
    BY <1>0, <2>3 DEF SweepLogin, SkipLogin, RunLogin, StartLogin, LoadBreaker, CountAttempts,
                      RecordLogin, Resting, Decline, Proceed, AtRest, Unsaved
  <2>4. CASE Submit(k) \/ LoginAnswers(k) \/ UpdateBreaker(k) \/ SaveBreaker(k)
    BY <1>0, <2>4 DEF Submit, LoginAnswers, UpdateBreaker, SaveBreaker, Unsaved, history
  <2> QED
    BY <2>2, <2>3, <2>4 DEF LoginStep
<1>4. pc'[k] \in {"update", "save"} =>
        \/ LoginAnswers(k)
        \/ UpdateBreaker(k) /\ pc'[k] = "save"
  BY <1>0 DEF SweepLogin, LoginStep, SkipLogin, RunLogin, StartLogin, LoadBreaker, CountAttempts,
              CheckGate, Submit, UpdateBreaker, SaveBreaker, RecordLogin, Resting, Decline, Proceed,
              AtRest
<1>5. LoginAnswers(k) => pc[k] \in PastGuard /\ asOf'[k] = now /\ pc'[k] = "update"
  BY <1>0 DEF LoginAnswers, PastGuard
<1>6. UpdateBreaker(k) /\ pc'[k] = "save" =>
        /\ pc[k] = "update" /\ asOf'[k] = asOf[k]
        /\ rec'[k] = AfterResult(breaker[k], res'[k], asOf'[k])
  BY <1>0 DEF UpdateBreaker
<1>7. \A l \in Guarded \ {k} :
        /\ pc'[l] = pc[l] /\ asOf'[l] = asOf[l] /\ rec'[l] = rec[l] /\ res'[l] = res[l]
        /\ log'[l] = log[l] /\ runs'[l] = runs[l]
  BY OthersKept
<1> QED
  BY <1>1, <1>2, <1>3, <1>4, <1>5, <1>6, <1>7 DEF NoVerdictStep

-----------------------------------------------------------------------------
\* A save that succeeds: what is stored and what it leaves in the history.
Saves(k) == SaveBreaker(k) /\ ~UNCHANGED <<breaker, log>>
Tripped(k) == rec[k].until # breaker[k].until /\ res[k].state = "down"

LEMMA SavedFacts ==
  ASSUME TypeInv, SuspensionInv, MemoryInv, NEW k \in Guarded, Saves(k)
  PROVE  /\ runs' = runs /\ runs[k] \in Run
         /\ res[k] \in Answer /\ asOf[k] \in Nat
         /\ pc' = [pc EXCEPT ![k] = "record"] /\ asOf' = [asOf EXCEPT ![k] = now]
         /\ rec[k] = AfterResult(breaker[k], res[k], asOf[k])
         /\ breaker[k].until <= asOf[k]
         /\ breaker'[k] = rec[k]
         /\ log'[k][runs[k]].saw = res[k].state
         /\ log'[k][runs[k]].wait = IF Tripped(k) THEN rec[k].backoff ELSE None
         /\ \A i \in Run : i # runs[k] => log'[k][i] = log[k][i]
         /\ log[k][runs[k]].saw = "none" /\ log[k][runs[k]].wait = None
<1>1. /\ pc[k] = "save" /\ runs' = runs
      /\ breaker' = [breaker EXCEPT ![k] = rec[k]]
      /\ log' = [log EXCEPT ![k] = [log[k] EXCEPT ![runs[k]] = Verdict(k)]]
      /\ pc' = [pc EXCEPT ![k] = "record"] /\ asOf' = [asOf EXCEPT ![k] = now]
  BY DEF Saves, SaveBreaker
<1>2. /\ runs[k] \in Run /\ res[k] \in Answer /\ asOf[k] \in Nat
      /\ log \in [Guarded -> [Run -> LoginRecord]] /\ log[k][runs[k]] \in LoginRecord
      /\ breaker \in [Guarded -> BreakerRecord]
  BY <1>1, SuspensionTypes, LocalTypes DEF StepOK, InRun, Answered, TypeInv, TypeOK
<1>3. /\ Verdict(k).saw = res[k].state
      /\ Verdict(k).wait = IF Tripped(k) THEN rec[k].backoff ELSE None
  BY <1>2 DEF Verdict, LoginRecord, Tripped
<1>4. /\ log'[k][runs[k]] = Verdict(k)
      /\ \A i \in Run : i # runs[k] => log'[k][i] = log[k][i]
      /\ breaker'[k] = rec[k]
  BY <1>1, <1>2
<1>5. /\ rec[k] = AfterResult(breaker[k], res[k], asOf[k])
      /\ breaker[k].until <= asOf[k]
      /\ log[k][runs[k]].saw = "none" /\ log[k][runs[k]].wait = None
  BY <1>1 DEF MemoryInv, SavesNextRecord, VerdictPending, Unsaved
<1> QED
  BY <1>1, <1>2, <1>3, <1>4, <1>5

\* What MemoryInv says of one login's history and breaker.
MemoryOf(k) ==
  /\ \A i \in Run :
       log[k][i].wait # None /\ NoSuccessSince(k, i) => breaker[k].backoff >= log[k][i].wait
  /\ Cardinality(FailuresSince(k)) <= breaker[k].fails
  /\ \A i, j \in Run :
       /\ i < j /\ log[k][i].wait # None /\ log[k][j].wait # None
       /\ NoSuccessBetween(k, i, j)
       => log[k][j].wait >= Lesser(2 * log[k][i].wait, BackoffMax)
  /\ BackoffInitial > 0 /\ BackoffMax > 0 =>
       \A j \in Run :
         log[k][j].saw = "down" /\ Cardinality(FailuresUpTo(k, j)) >= FailureThreshold
           => log[k][j].wait # None

LEMMA MemorySplit ==
  MemoryInv <=> VerdictPending /\ SavesNextRecord /\ \A k \in Guarded : MemoryOf(k)
BY DEF MemoryInv, MemoryOf, BackoffKnown, FailuresKnown, SuspensionEscalates, ThresholdTrips,
       FailuresUpTo

\* Runs to come have left no verdict.
LEMMA NothingAfter ==
  ASSUME TypeInv, SuspensionInv, NEW k \in Guarded, NEW i \in Run, i > runs[k]
  PROVE  log[k][i].saw = "none" /\ log[k][i].wait = None
BY DEF SuspensionInv, LogEnds, NotRun

\* A success closes the breaker, and nothing that was before it counts any more.
LEMMA SuccessMemory ==
  ASSUME TypeInv, SuspensionInv, MemoryInv, NEW k \in Guarded, Saves(k), res[k].state = "up"
  PROVE  MemoryOf(k)'
<1> DEFINE r == runs[k]
<1>1. /\ r \in Run /\ r \in Int /\ \A i \in Run : i \in Int
      /\ log'[k][r].saw = "up" /\ log'[k][r].wait = None
      /\ \A i \in Run : i # r => log'[k][i] = log[k][i]
      /\ breaker'[k] = ClosedBreaker
  BY SavedFacts, AfterResultFacts, MemoryTypes DEF Tripped
<1>2. \A i \in Run : i > r => log'[k][i].saw = "none" /\ log'[k][i].wait = None
  BY <1>1, NothingAfter
<1> HIDE DEF r
<1>3. \A i \in Run : NoSuccessSince(k, i)' => ~(i < r)
  BY <1>1 DEF NoSuccessSince
<1>4. \A i \in Run : NoSuccessSince(k, i)' => i = r \/ i > r
  <2> SUFFICES ASSUME NEW i \in Run, ~(i < r) PROVE i = r \/ i > r
    BY <1>3
  <2>1. i \in Int /\ r \in Int
    BY <1>1
  <2> QED
    BY <2>1
<1>5. FailuresSince(k)' = {}
  <2>1. \A i \in Run : NoSuccessSince(k, i)' => log'[k][i].saw # "down"
    BY <1>1, <1>2, <1>4
  <2> QED
    BY <2>1 DEF FailuresSince
<1>6. Cardinality(FailuresSince(k)') <= breaker'[k].fails
  BY <1>1, <1>5, FS_EmptySet DEF ClosedBreaker
<1>7. \A i, j \in Run : j < r => (NoSuccessBetween(k, i, j)' <=> NoSuccessBetween(k, i, j))
  <2> SUFFICES ASSUME NEW j \in Run, j < r, NEW m \in Run, m < j
               PROVE  log'[k][m] = log[k][m]
    BY DEF NoSuccessBetween
  <2>1. m # r
    BY <1>1
  <2> QED
    BY <1>1, <2>1
<1>8. ASSUME NEW i \in Run, NEW j \in Run, i < j, log'[k][i].wait # None, log'[k][j].wait # None,
             NoSuccessBetween(k, i, j)'
      PROVE  log'[k][j].wait >= Lesser(2 * log'[k][i].wait, BackoffMax)
  <2>1. j # r /\ ~(j > r) /\ j \in Int /\ r \in Int
    BY <1>1, <1>2, <1>8
  <2>2. j < r
    BY <2>1
  <2>3. i # r
    BY <1>1, <1>8
  <2> QED
    BY <1>1, <1>7, <1>8, <2>1, <2>2, <2>3 DEF MemoryInv, SuspensionEscalates
<1>9. ASSUME BackoffInitial > 0, BackoffMax > 0, NEW j \in Run, log'[k][j].saw = "down",
             Cardinality(FailuresUpTo(k, j)') >= FailureThreshold
      PROVE  log'[k][j].wait # None
  <2>0. j # r /\ ~(j > r) /\ j \in Int /\ r \in Int
    BY <1>1, <1>2, <1>9
  <2>1. j < r
    BY <2>0
  <2>2. FailuresUpTo(k, j)' = FailuresUpTo(k, j)
    <3>1. \A i \in Run : NoSuccessBetween(k, i, j)' <=> NoSuccessBetween(k, i, j)
      BY <1>7, <2>1
    <3>2. ASSUME NEW i \in Run, i <= j PROVE log'[k][i] = log[k][i]
      <4>1. i \in Int /\ i # r
        BY <1>1, <2>0, <2>1, <3>2
      <4> QED
        BY <1>1, <4>1
    <3> QED
      BY <3>1, <3>2 DEF FailuresUpTo
  <2>3. MemoryOf(k)
    BY MemorySplit
  <2> QED
    BY <1>1, <1>9, <2>1, <2>2, <2>3 DEF MemoryOf
<1> QED
  BY <1>1, <1>2, <1>4, <1>6, <1>8, <1>9 DEF MemoryOf

\* A failure adds one to the count, lengthens the backoff if it suspends, and
\* suspends if the count has come to the threshold.
LEMMA FailureMemory ==
  ASSUME TypeInv, SuspensionInv, MemoryInv, NEW k \in Guarded, Saves(k), res[k].state = "down"
  PROVE  MemoryOf(k)'
<1> DEFINE r == runs[k]
           b == breaker[k]
           a == rec[k]
           n == NextBackoff(b.backoff)
<1>1. /\ r \in Run /\ r \in Int /\ \A i \in Run : i \in Int
      /\ log'[k][r].saw = "down"
      /\ log'[k][r].wait = IF Tripped(k) THEN a.backoff ELSE None
      /\ log[k][r].saw = "none" /\ log[k][r].wait = None
      /\ \A i \in Run : i # r => log'[k][i] = log[k][i]
      /\ breaker'[k] = a
  BY SavedFacts, MemoryTypes
<1>2. /\ b.fails \in Nat /\ b.backoff \in 0 .. BackoffMax /\ b.until \in Nat /\ asOf[k] \in Nat
      /\ n \in 0 .. BackoffMax /\ BackoffMax \in Nat /\ FailureThreshold \in Int
  BY SavedFacts, MemoryTypes, SuspensionTypes, NextBackoffType, BreakerAssumption
<1>3. /\ a.fails = b.fails + 1
      /\ a.backoff \in {b.backoff, n}
      /\ Tripped(k) => a.backoff = n
      /\ b.fails + 1 >= FailureThreshold => a.until = asOf[k] + n
      /\ b.until <= asOf[k]
  BY SavedFacts, MemoryTypes, AfterResultFacts DEF Tripped
<1>4. /\ n >= b.backoff
      /\ \A w \in Nat : w <= b.backoff => n >= Lesser(2 * w, BackoffMax)
      /\ BackoffInitial > 0 /\ BackoffMax > 0 => n > 0
  BY <1>2, NextBackoffGrows
<1>5. b.fails + 1 >= FailureThreshold /\ BackoffInitial > 0 /\ BackoffMax > 0 => Tripped(k)
  <2> SUFFICES ASSUME b.fails + 1 >= FailureThreshold, n > 0 PROVE a.until # b.until
    BY <1>4 DEF Tripped
  <2>1. a.until = asOf[k] + n
    BY <1>3
  <2> QED
    BY <1>2, <1>3, <2>1
<1>6. \A i \in Run : i > r => log[k][i].saw = "none" /\ log[k][i].wait = None
  BY NothingAfter
<1>7. \A i \in Run : /\ log[k][i].wait \in Int
                     /\ log[k][i].wait # None => log[k][i].wait \in Nat
  BY MemoryTypes
<1>8. MemoryOf(k)
  BY MemorySplit
<1>9. FailuresSince(k) \in SUBSET Run
  BY DEF FailuresSince
<1> HIDE DEF r, b, a, n
<1>10. \A i \in Run : log'[k][i].saw = "up" <=> log[k][i].saw = "up"
  BY <1>1
<1>11. \A i \in Run : NoSuccessSince(k, i)' <=> NoSuccessSince(k, i)
  BY <1>10 DEF NoSuccessSince
<1>12. \A i, j \in Run : NoSuccessBetween(k, i, j)' <=> NoSuccessBetween(k, i, j)
  BY <1>10 DEF NoSuccessBetween
<1>13. \A i \in Run : NoSuccessBetween(k, i, r) => NoSuccessSince(k, i)
  <2> SUFFICES ASSUME NEW i \in Run, NoSuccessBetween(k, i, r), NEW m \in Run, i < m
               PROVE  log[k][m].saw # "up"
    BY DEF NoSuccessSince
  <2>1. m \in Int /\ r \in Int
    BY <1>1
  <2>2. m < r \/ m = r \/ m > r
    BY <2>1
  <2> QED
    BY <1>1, <1>6, <2>2 DEF NoSuccessBetween
\* the backoff
<1>14. ASSUME NEW i \in Run, log'[k][i].wait # None, NoSuccessSince(k, i)'
       PROVE  breaker'[k].backoff >= log'[k][i].wait
  <2>1. CASE i = r
    BY <1>1, <1>2, <1>3, <1>14, <2>1 DEF Tripped
  <2>2. CASE i # r
    <3>1. log'[k][i].wait = log[k][i].wait /\ log[k][i].wait \in Int
      BY <1>1, <1>7, <2>2
    <3>2. breaker[k].backoff >= log[k][i].wait
      BY <1>8, <1>11, <1>14, <3>1 DEF MemoryOf
    <3>3. b.backoff >= log[k][i].wait
      BY <3>2 DEF b
    <3> QED
      BY <1>1, <1>2, <1>3, <1>4, <3>1, <3>3
  <2> QED
    BY <2>1, <2>2
\* the count
<1>15. Cardinality(FailuresSince(k)') <= breaker'[k].fails
  <2>1. FailuresSince(k)' \in SUBSET (FailuresSince(k) \cup {r})
    BY <1>1, <1>11 DEF FailuresSince
  <2>2. Cardinality(FailuresSince(k)') <= Cardinality(FailuresSince(k)) + 1
    BY <1>1, <1>9, <2>1, OneMoreRun
  <2>3. Cardinality(FailuresSince(k)) <= b.fails
    BY <1>8 DEF MemoryOf, b
  <2>4. Cardinality(FailuresSince(k)) \in Nat /\ Cardinality(FailuresSince(k)') \in Nat
    <3>1. FailuresSince(k)' \in SUBSET Run
      BY <1>1, <1>9, <2>1
    <3> QED
      BY <1>9, <3>1, RunsFinite
  <2> QED
    BY <1>1, <1>2, <1>3, <2>2, <2>3, <2>4
\* the doubling
<1>16. ASSUME NEW i \in Run, NEW j \in Run, i < j, log'[k][i].wait # None, log'[k][j].wait # None,
              NoSuccessBetween(k, i, j)'
       PROVE  log'[k][j].wait >= Lesser(2 * log'[k][i].wait, BackoffMax)
  <2>0. i \in Int /\ j \in Int /\ r \in Int
    BY <1>1
  <2>1. CASE j = r
    <3>1. i # r
      BY <1>16, <2>0, <2>1
    <3>2. log'[k][i].wait = log[k][i].wait /\ log[k][i].wait \in Nat
      BY <1>1, <1>7, <1>16, <3>1
    <3>3. NoSuccessSince(k, i)
      BY <1>12, <1>13, <1>16, <2>1
    <3>4. log[k][i].wait <= b.backoff
      BY <1>2, <1>8, <1>16, <3>2, <3>3 DEF MemoryOf, b
    <3>5. log'[k][j].wait = n
      BY <1>1, <1>3, <1>16, <2>1
    <3> QED
      BY <1>4, <3>2, <3>4, <3>5
  <2>2. CASE j # r
    <3>1. ~(j > r) /\ log'[k][j] = log[k][j]
      BY <1>1, <1>6, <1>16, <2>2
    <3>2. i # r
      BY <1>16, <2>0, <2>2, <3>1
    <3>3. log'[k][i] = log[k][i]
      BY <1>1, <3>2
    <3> QED
      BY <1>8, <1>12, <1>16, <3>1, <3>3 DEF MemoryOf
  <2> QED
    BY <2>1, <2>2
\* the threshold
<1>17. ASSUME BackoffInitial > 0, BackoffMax > 0, NEW j \in Run, log'[k][j].saw = "down",
              Cardinality(FailuresUpTo(k, j)') >= FailureThreshold
       PROVE  log'[k][j].wait # None
  <2>0. j \in Int /\ r \in Int
    BY <1>1
  <2>1. CASE j = r
    <3>1. FailuresUpTo(k, j)' \in SUBSET (FailuresSince(k) \cup {r})
      BY <1>1, <1>12, <1>13, <2>1 DEF FailuresUpTo, FailuresSince
    <3>2. Cardinality(FailuresUpTo(k, j)') <= Cardinality(FailuresSince(k)) + 1
      BY <1>1, <1>9, <3>1, OneMoreRun
    <3>3. Cardinality(FailuresSince(k)) <= b.fails
      BY <1>8 DEF MemoryOf, b
    <3>4. Cardinality(FailuresSince(k)) \in Nat /\ Cardinality(FailuresUpTo(k, j)') \in Nat
      <4>1. FailuresUpTo(k, j)' \in SUBSET Run
        BY <1>1, <1>9, <3>1
      <4> QED
        BY <1>9, <4>1, RunsFinite
    <3>5. Cardinality(FailuresUpTo(k, j)') >= FailureThreshold
      BY <1>17
    <3>6. b.fails + 1 >= FailureThreshold
      BY <1>2, <3>2, <3>3, <3>4, <3>5
    <3>7. log'[k][j].wait = a.backoff
      BY <1>1, <1>5, <1>17, <2>1, <3>6
    <3> QED
      BY <1>2, <1>3, <3>7 DEF None
  <2>2. CASE j # r
    <3>1. ~(j > r) /\ log'[k][j] = log[k][j]
      BY <1>1, <1>6, <1>17, <2>2
    <3>2. j < r
      BY <2>0, <2>2, <3>1
    <3>3. FailuresUpTo(k, j)' = FailuresUpTo(k, j)
      <4>1. ASSUME NEW i \in Run, i <= j PROVE log'[k][i] = log[k][i]
        <5>1. i \in Int /\ i # r
          BY <1>1, <2>0, <3>2, <4>1
        <5> QED
          BY <1>1, <5>1
      <4> QED
        BY <1>12, <4>1 DEF FailuresUpTo
    <3> QED
      BY <1>8, <1>17, <3>1, <3>3 DEF MemoryOf
  <2> QED
    BY <2>1, <2>2
<1> QED
  BY <1>14, <1>15, <1>16, <1>17 DEF MemoryOf

LEMMA SaveMemory ==
  ASSUME TypeInv, SuspensionInv, MemoryInv, NEW k \in Guarded, Saves(k)
  PROVE  MemoryInv'
<1>1. MemoryOf(k)'
  <2>1. res[k].state \in {"up", "down"}
    BY SavedFacts, ConstantTypes
  <2> QED
    BY <2>1, SuccessMemory, FailureMemory
<1>2. \A l \in Guarded \ {k} :
        /\ pc'[l] = pc[l] /\ asOf'[l] = asOf[l] /\ rec'[l] = rec[l] /\ res'[l] = res[l]
        /\ breaker'[l] = breaker[l] /\ log'[l] = log[l] /\ runs'[l] = runs[l]
  BY OthersKept DEF Saves, LoginStep
<1>3. \A l \in Guarded \ {k} : MemoryOf(l)'
  <2> SUFFICES ASSUME NEW l \in Guarded \ {k} PROVE MemoryOf(l)'
    OBVIOUS
  <2>1. MemoryOf(l) /\ log'[l] = log[l] /\ breaker'[l] = breaker[l]
    BY <1>2, MemorySplit
  <2>2. \A i, j \in Run : /\ NoSuccessBetween(l, i, j)' <=> NoSuccessBetween(l, i, j)
                          /\ NoSuccessSince(l, i)' <=> NoSuccessSince(l, i)
    BY <2>1 DEF NoSuccessBetween, NoSuccessSince
  <2>3. /\ FailuresSince(l)' = FailuresSince(l)
        /\ \A j \in Run : FailuresUpTo(l, j)' = FailuresUpTo(l, j)
    BY <2>1, <2>2 DEF FailuresSince, FailuresUpTo
  <2> QED
    BY <2>1, <2>2, <2>3 DEF MemoryOf
<1>4. pc'[k] = "record"
  BY SavedFacts, LocalTypes, SchedulerAssumption
<1>5. VerdictPending' /\ SavesNextRecord'
  BY <1>2, <1>4 DEF MemoryInv, VerdictPending, SavesNextRecord, Unsaved
<1> QED
  BY <1>1, <1>3, <1>5
     DEF MemoryInv, MemoryOf, BackoffKnown, FailuresKnown, SuspensionEscalates, ThresholdTrips,
         FailuresUpTo

LEMMA StepMemory ==
  TypeInv /\ TypeInv' /\ SuspensionInv /\ MemoryInv /\ [Next]_vars => MemoryInv'
<1> SUFFICES ASSUME TypeInv, TypeInv', SuspensionInv, MemoryInv, [Next]_vars PROVE MemoryInv'
  OBVIOUS
<1>1. \/ NoVerdictStep
      \/ \E k \in Guarded : Saves(k)
  BY ProcessNoVerdict, CheckNoVerdict, LoginNoVerdict DEF Next, Saves
<1> QED
  BY <1>1, NoVerdictMemory, SaveMemory

\* The breaker remembers what it should in every reachable state.
THEOREM MemoryCorrect == Spec => []MemoryInv
BY TypeCorrect, SuspensionCorrect, InitMemory, StepMemory, PTL DEF Spec

\* Suspensions double up to the maximum as long as no login succeeds, whatever
\* restarts, crashes and failed calls come between them.
COROLLARY EscalationSafe == Spec => []SuspensionEscalates
<1>1. MemoryInv => SuspensionEscalates
  BY DEF MemoryInv
<1> QED
  BY MemoryCorrect, <1>1, PTL

\* The threshold counts over restarts: no failure that is at least the
\* FailureThreshold-th since the last success goes without a suspension.
COROLLARY ThresholdSafe == Spec => []ThresholdTrips
<1>1. MemoryInv => ThresholdTrips
  BY DEF MemoryInv
<1> QED
  BY MemoryCorrect, <1>1, PTL

-----------------------------------------------------------------------------
(* The live state and the breaker.  They are written by different calls;   *)
(* the invariant follows a run that loses none of them.                    *)

AgreesWith(k, r) ==
  r.reason # "gate_closed" => (RollupState(r.state, r.reason) = "down" <=> breaker[k].fails > 0)

\* What the run of k holds is what it is about to record or to decide by.
AgreementOf(k) ==
  /\ pc[k] = "count" => rec[k] = breaker[k]
  /\ clean[k] /\ AtRest(k) => AgreesWith(k, current[k])
  /\ clean[k] /\ pc[k] \in {"decline", "record"} => AgreesWith(k, res[k])

AgreementInv == \A k \in Guarded : AgreementOf(k)

LEMMA InitAgreement == Init => AgreementInv
BY SchedulerAssumption DEF Init, AgreementInv, AgreementOf

\* The two kinds of results a run records that met the breaker.
LEMMA PauseAgrees ==
  ASSUME NEW b \in BreakerRecord
  PROVE  RollupState("unknown", PauseReason(b)) = "down" <=> b.fails > 0
BY DEF RollupState, PauseReason

LEMMA AnswerAgrees ==
  ASSUME NEW b \in BreakerRecord, NEW r \in Answer, NEW t \in Nat
  PROVE  RollupState(r.state, r.reason) = "down" <=> AfterResult(b, r, t).fails > 0
<1>1. r.state \in {"up", "down"} /\ RollupState(r.state, r.reason) = r.state
  BY ConstantTypes DEF RollupState
<1>2. CASE r.state = "up"
  BY <1>1, <1>2, AfterResultFacts DEF ClosedBreaker
<1>3. CASE r.state = "down"
  <2>1. AfterResult(b, r, t).fails = b.fails + 1 /\ b.fails \in Nat
    BY <1>3, AfterResultFacts DEF BreakerRecord
  <2> QED
    BY <1>1, <1>3, <2>1
<1> QED
  BY <1>1, <1>2, <1>3

\* A step that leaves a login's agreement alone.
LeavesAlone(k) ==
  /\ breaker'[k] = breaker[k] /\ current'[k] = current[k]
  /\ clean'[k] => clean[k]
  /\ \/ pc'[k] = pc[k] /\ rec'[k] = rec[k] /\ res'[k] = res[k]
     \/ AtRest(k)' /\ (clean'[k] => AtRest(k))

LEMMA LeftAlone ==
  ASSUME NEW k \in Guarded, AgreementOf(k), LeavesAlone(k) \/ pc'[k] = "load"
  PROVE  AgreementOf(k)'
BY DEF AgreementOf, LeavesAlone, AgreesWith, AtRest

LEMMA ProcessAgreement ==
  ASSUME TypeInv, SweepInv, AgreementInv,
         Boot \/ Cancel \/ Exit \/ Tick \/ Prune \/ ProbesDone \/ StartTickers \/ UNCHANGED vars
  PROVE  AgreementInv'
<1> SUFFICES ASSUME NEW k \in Guarded PROVE LeavesAlone(k)
  BY LeftAlone DEF AgreementInv
<1>0. k \in Job /\ k \notin Unguarded
  BY SchedulerAssumption DEF Unguarded
<1>1. CASE Boot
  <2>1. pc[k] = "off" /\ pc'[k] = "off"
    BY <1>0, <1>1 DEF Boot, SweepInv, DownIsQuiet
  <2> QED
    BY <1>1, <2>1 DEF Boot, LeavesAlone, AtRest, stored, history
<1>2. CASE Exit
  BY <1>0, <1>2 DEF Exit, LeavesAlone, AtRest, stored
<1>3. CASE StartTickers
  BY <1>0, <1>3 DEF StartTickers, LeavesAlone, AtRest, stored, history
<1>4. CASE Cancel \/ Tick \/ Prune \/ ProbesDone \/ UNCHANGED vars
  BY <1>4 DEF Cancel, Tick, Prune, ProbesDone, LeavesAlone, vars, stored, locals, history
<1> QED
  BY <1>1, <1>2, <1>3, <1>4

LEMMA CheckAgreement ==
  ASSUME TypeInv, AgreementInv, NEW j \in Job, TickFires(j) \/ ProbeStep(j)
  PROVE  AgreementInv'
<1> SUFFICES ASSUME NEW k \in Guarded PROVE LeavesAlone(k) \/ pc'[k] = "load"
  BY LeftAlone DEF AgreementInv
<1>0. /\ pc \in [Job -> Step] /\ res \in [Job -> Result] /\ current \in [Job -> Result]
      /\ clean \in [Guarded -> BOOLEAN] /\ k \in Job
  BY LocalTypes, SchedulerAssumption DEF TypeInv, TypeOK
<1>1. CASE TickFires(j)
  <2>1. UNCHANGED <<current, breaker, rec, res>>
    BY <1>1 DEF TickFires, stored
  <2>2. \/ j \in Guarded /\ pc' = [pc EXCEPT ![j] = "load"] /\ clean' = [clean EXCEPT ![j] = TRUE]
        \/ j \notin Guarded /\ pc' = [pc EXCEPT ![j] = "probe"] /\ clean' = clean
    BY <1>1 DEF TickFires, StartLogin
  <2> QED
    BY <1>0, <2>1, <2>2 DEF LeavesAlone
<1>2. CASE ProbeStep(j)
  <2>1. /\ j \notin Guarded /\ UNCHANGED <<breaker, rec, clean>>
        /\ \E s \in Step : pc' = [pc EXCEPT ![j] = s]
        /\ \E r : res' = [res EXCEPT ![j] = r]
        /\ current' = current \/ current' = [current EXCEPT ![j] = res[j]]
    BY <1>2 DEF ProbeStep, ProbeAnswers, RecordProbe, Resting, Unguarded, Step, stored, history
  <2> QED
    BY <1>0, <2>1 DEF LeavesAlone
<1> QED
  BY <1>1, <1>2

\* A step of login k: it gives up an agreement only with the word clean.
LEMMA LoginAgreement ==
  ASSUME TypeInv, MemoryInv, AgreementInv, NEW k \in Guarded, SweepLogin(k) \/ LoginStep(k)
  PROVE  AgreementOf(k)'
<1>0. /\ pc \in [Job -> Step] /\ res \in [Job -> Result] /\ current \in [Job -> Result]
      /\ rec \in [Guarded -> BreakerRecord] /\ breaker \in [Guarded -> BreakerRecord]
      /\ clean \in [Guarded -> BOOLEAN] /\ k \in Job /\ AgreementOf(k)
  BY LocalTypes, SchedulerAssumption DEF TypeInv, TypeOK, AgreementInv
<1>1. CASE SweepLogin(k)
  <2>1. UNCHANGED <<current, breaker, rec, res>>
    BY <1>1 DEF SweepLogin, stored
  <2>2. (pc' = pc /\ clean' = clean) \/ pc' = [pc EXCEPT ![k] = "load"]
    BY <1>1 DEF SweepLogin, SkipLogin, RunLogin, StartLogin
  <2> QED
    BY <1>0, <2>1, <2>2, LeftAlone DEF LeavesAlone
<1>2. CASE LoadBreaker(k)
  <2>1. breaker' = breaker
    BY <1>2 DEF LoadBreaker, stored
  <2>2. CASE Lost(k) /\ Decline(k, "breaker_open")
    BY <1>0, <2>2 DEF Lost, Decline, AgreementOf, AtRest
  <2>3. CASE Decline(k, PauseReason(breaker[k]))
    <3>1. pc'[k] = "decline" /\ res'[k] = Declined(PauseReason(breaker[k]))
      BY <1>0, <2>3 DEF Decline
    <3>2. AgreesWith(k, res[k])'
      BY <1>0, <2>1, <3>1, PauseAgrees DEF AgreesWith, Declined
    <3> QED
      BY <3>1, <3>2 DEF AgreementOf, AtRest
  <2>4. CASE Proceed(k, "count") /\ rec' = [rec EXCEPT ![k] = breaker[k]]
    BY <1>0, <2>1, <2>4 DEF Proceed, AgreementOf, AtRest
  <2> QED
    BY <1>2, <2>2, <2>3, <2>4 DEF LoadBreaker
<1>3. CASE CountAttempts(k)
  <2>1. breaker' = breaker /\ rec[k] = breaker[k]
    BY <1>0, <1>3 DEF CountAttempts, AgreementOf, stored
  <2>2. CASE Lost(k) /\ Decline(k, "breaker_open")
    BY <1>0, <2>2 DEF Lost, Decline, AgreementOf, AtRest
  <2>3. CASE Decline(k, PauseReason(rec[k]))
    <3>1. pc'[k] = "decline" /\ res'[k] = Declined(PauseReason(breaker[k]))
      BY <1>0, <2>1, <2>3 DEF Decline
    <3>2. AgreesWith(k, res[k])'
      BY <1>0, <2>1, <3>1, PauseAgrees DEF AgreesWith, Declined
    <3> QED
      BY <3>1, <3>2 DEF AgreementOf, AtRest
  <2>4. CASE Proceed(k, "gate")
    BY <1>0, <2>4 DEF Proceed, AgreementOf, AtRest
  <2> QED
    BY <1>3, <2>2, <2>3, <2>4 DEF CountAttempts
<1>4. CASE CheckGate(k)
  <2>1. CASE Decline(k, "gate_closed")
    BY <1>0, <2>1 DEF Decline, Declined, AgreementOf, AgreesWith, AtRest
  <2>2. CASE Proceed(k, "probe")
    BY <1>0, <2>2 DEF Proceed, AgreementOf, AtRest
  <2> QED
    BY <1>4, <2>1, <2>2 DEF CheckGate
<1>5. CASE Submit(k) \/ LoginAnswers(k)
  <2>1. pc'[k] \in {"submitted", "update"}
    BY <1>0, <1>5 DEF Submit, LoginAnswers
  <2> QED
    BY <2>1 DEF AgreementOf, AtRest
<1>6. CASE UpdateBreaker(k)
  <2>1. pc'[k] = "save" \/ (pc'[k] = "record" /\ clean'[k] = FALSE)
    BY <1>0, <1>6 DEF UpdateBreaker, Lost
  <2> QED
    BY <2>1 DEF AgreementOf, AtRest
<1>7. CASE SaveBreaker(k)
  <2>1. /\ pc[k] = "save" /\ pc'[k] = "record" /\ res' = res
        /\ clean'[k] = FALSE \/ breaker'[k] = rec[k]
    BY <1>0, <1>7 DEF SaveBreaker, Lost
  <2>2. /\ rec[k] = AfterResult(breaker[k], res[k], asOf[k])
        /\ breaker[k] \in BreakerRecord /\ res[k] \in Answer /\ asOf[k] \in Nat
    BY <1>0, <2>1, SuspensionTypes, LocalTypes DEF MemoryInv, SavesNextRecord, StepOK, Answered
  <2>3. breaker'[k] = rec[k] => AgreesWith(k, res[k])'
    BY <2>1, <2>2, AnswerAgrees DEF AgreesWith
  <2> QED
    BY <2>1, <2>3 DEF AgreementOf, AtRest
<1>8. CASE RecordLogin(k)
  <2>1. /\ pc'[k] \in {"off", "idle"} /\ breaker' = breaker
        /\ pc[k] \in {"decline", "record"}
        /\ \/ clean'[k] = FALSE
           \/ clean' = clean /\ current'[k] = res[k]
    BY <1>0, <1>8 DEF RecordLogin, Resting, Lost
  <2> QED
    BY <1>0, <2>1 DEF AgreementOf, AgreesWith, AtRest
<1> QED
  BY <1>1, <1>2, <1>3, <1>4, <1>5, <1>6, <1>7, <1>8 DEF LoginStep

LEMMA StepAgreement ==
  TypeInv /\ SweepInv /\ MemoryInv /\ AgreementInv /\ [Next]_vars => AgreementInv'
<1> SUFFICES ASSUME TypeInv, SweepInv, MemoryInv, AgreementInv, [Next]_vars PROVE AgreementInv'
  OBVIOUS
<1>1. ASSUME NEW k \in Guarded, SweepLogin(k) \/ LoginStep(k) PROVE AgreementInv'
  <2>1. \A l \in Guarded \ {k} : LeavesAlone(l)
    BY <1>1, OthersKept DEF LeavesAlone
  <2>2. \A l \in Guarded \ {k} : AgreementOf(l)'
    BY <2>1, LeftAlone DEF AgreementInv
  <2> QED
    BY <1>1, <2>2, LoginAgreement DEF AgreementInv
<1>2. ASSUME NEW j \in Job, TickFires(j) \/ ProbeStep(j) PROVE AgreementInv'
  BY <1>2, CheckAgreement
<1> QED
  BY <1>1, <1>2, ProcessAgreement DEF Next

\* The page and the guard are of one mind: a login whose last run lost no call
\* and was not stopped by its gate is shown down exactly when its breaker
\* remembers a failure, over any number of runs, pauses and restarts.
THEOREM PageFollowsGuard == Spec => []PageMatchesGuard
<1>1. AgreementInv => PageMatchesGuard
  BY DEF AgreementInv, AgreementOf, AgreesWith, PageMatchesGuard
<1> QED
  BY TypeCorrect, SweepCorrect, MemoryCorrect, InitAgreement, StepAgreement, <1>1, PTL DEF Spec
=============================================================================
