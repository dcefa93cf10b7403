-------------------------- MODULE SuspensionProofs ---------------------------
(***************************************************************************)
(* A suspension saved to the breaker is honoured by every later run, over  *)
(* any number of restarts.  The inductive invariant says what a run that   *)
(* passed the guard may rely on: the breaker it read is the one that is    *)
(* stored, and every earlier suspension is over or is the stored one.      *)
(* From it follows that the scheduler implements LoginGuard.               *)
(***************************************************************************)
EXTENDS SchedulerProofs

PastGuard == {"count", "gate", "probe", "submitted", "update", "save"}

\* No clock reading lies ahead of the clock.
ClockRead == \A k \in Guarded : asOf[k] <= now
\* Runs to come have left nothing.
LogEnds == \A k \in Guarded : \A i \in Run : i > runs[k] => log[k][i] = NotRun
\* A suspension not over yet is the one the breaker remembers, or a shorter one.
SuspensionsKnown ==
  \A k \in Guarded : \A i \in Run :
    log[k][i].until <= breaker[k].until \/ log[k][i].until <= now
\* Whoever is past the guard found no suspension in force, and none has begun.
GuardPassed == \A k \in Guarded : pc[k] \in PastGuard => breaker[k].until <= now

SuspensionInv ==
  /\ ClockRead /\ LogEnds /\ SuspensionsKnown /\ GuardPassed
  /\ SuspensionHonoured

\* The types this module argues with.
LEMMA SuspensionTypes ==
  ASSUME TypeInv, NEW k \in Guarded
  PROVE  /\ asOf[k] \in Nat /\ now \in Nat /\ runs[k] \in Nat
         /\ breaker[k].until \in Nat /\ rec[k].until \in Nat
         /\ \A i \in Run : log[k][i] \in LoginRecord
         /\ \A i \in Run : log[k][i].until \in Nat /\ log[k][i].sent \in Int /\ i \in Int
         /\ log[k] \in [Run -> LoginRecord]
         /\ log \in [Guarded -> [Run -> LoginRecord]]
         /\ pc[k] \in InRun => runs[k] \in Run
<1>1. /\ asOf[k] \in Time /\ now \in Time /\ runs[k] \in 0 .. MaxRuns
      /\ breaker[k] \in BreakerRecord /\ rec[k] \in BreakerRecord
      /\ log \in [Guarded -> [Run -> LoginRecord]]
      /\ pc[k] \in InRun => runs[k] \in Run
  BY DEF TypeInv, TypeOK, StepOK
<1>2. asOf[k] \in Nat /\ now \in Nat /\ runs[k] \in Nat
  BY <1>1, SchedulerAssumption DEF Time
<1>3. breaker[k].until \in Nat /\ rec[k].until \in Nat
  BY <1>1 DEF BreakerRecord
<1>4. \A i \in Run : log[k][i] \in LoginRecord
  BY <1>1
<1>5. \A r \in LoginRecord : r.until \in Nat /\ r.sent \in Int
  BY SchedulerAssumption DEF LoginRecord, Time, None
<1>6. Run \subseteq Int
  BY SchedulerAssumption DEF Run
<1> QED
  BY <1>1, <1>2, <1>3, <1>4, <1>5, <1>6

LEMMA InitSuspension == Init => SuspensionInv
BY SchedulerAssumption
   DEF Init, SuspensionInv, ClockRead, LogEnds, SuspensionsKnown, GuardPassed,
       SuspensionHonoured, PastGuard, NotRun, None, ClosedBreaker

\* A step that writes neither breaker nor history, and past the guard lets only
\* a login whose suspension is over.
QuietStep ==
  /\ UNCHANGED <<breaker, log>>
  /\ now' = now \/ now' = now + 1
  /\ \A k \in Guarded :
       /\ runs'[k] = runs[k] \/ runs'[k] = runs[k] + 1
       /\ asOf'[k] \in {asOf[k], now, 0}
       /\ pc'[k] \in PastGuard => pc[k] \in PastGuard \/ breaker[k].until <= now

LEMMA QuietSuspension ==
  ASSUME TypeInv, SuspensionInv, QuietStep
  PROVE  SuspensionInv'
<1> SUFFICES ASSUME NEW k \in Guarded
             PROVE  /\ asOf'[k] <= now'
                    /\ \A i \in Run : i > runs'[k] => log'[k][i] = NotRun
                    /\ \A i \in Run : log'[k][i].until <= breaker'[k].until
                                        \/ log'[k][i].until <= now'
                    /\ pc'[k] \in PastGuard => breaker'[k].until <= now'
                    /\ \A i, j \in Run : i < j /\ log'[k][j].sent # None
                                           => log'[k][j].sent >= log'[k][i].until
  BY DEF SuspensionInv, ClockRead, LogEnds, SuspensionsKnown, GuardPassed, SuspensionHonoured
<1>1. asOf'[k] <= now'
  BY SuspensionTypes DEF QuietStep, SuspensionInv, ClockRead
<1>2. \A i \in Run : i > runs'[k] => log'[k][i] = NotRun
  BY SuspensionTypes DEF QuietStep, SuspensionInv, LogEnds
<1>3. \A i \in Run : log'[k][i].until <= breaker'[k].until \/ log'[k][i].until <= now'
  BY SuspensionTypes DEF QuietStep, SuspensionInv, SuspensionsKnown
<1>4. pc'[k] \in PastGuard => breaker'[k].until <= now'
  BY SuspensionTypes DEF QuietStep, SuspensionInv, GuardPassed
<1>5. \A i, j \in Run : i < j /\ log'[k][j].sent # None => log'[k][j].sent >= log'[k][i].until
  BY DEF QuietStep, SuspensionInv, SuspensionHonoured
<1> QED
  BY <1>1, <1>2, <1>3, <1>4, <1>5

\* Every step is quiet but the submission and the breaker's save.
LEMMA ProcessQuiet ==
  ASSUME TypeInv,
         Boot \/ Cancel \/ Exit \/ Tick \/ Prune \/ ProbesDone \/ StartTickers \/ UNCHANGED vars
  PROVE  QuietStep
<1>1. UNCHANGED <<breaker, log, runs>>
  BY DEF Boot, Cancel, Exit, Tick, Prune, ProbesDone, StartTickers, vars, stored, locals, history
<1>2. now' = now \/ now' = now + 1
  BY DEF Boot, Cancel, Exit, Tick, Prune, ProbesDone, StartTickers, vars, stored, locals, history
<1>3. \A k \in Guarded : asOf'[k] \in {asOf[k], 0}
  BY DEF Boot, Cancel, Exit, Tick, Prune, ProbesDone, StartTickers, vars, stored, locals, history
<1>4. \A k \in Guarded : pc'[k] = pc[k] \/ pc'[k] \in {"off", "idle"}
  BY SchedulerAssumption
     DEF Boot, Cancel, Exit, Tick, Prune, ProbesDone, StartTickers, vars, stored, locals, history,
         Unguarded
<1> QED
  BY <1>1, <1>2, <1>3, <1>4 DEF QuietStep, PastGuard

LEMMA CheckQuiet ==
  ASSUME TypeInv, NEW j \in Job, TickFires(j) \/ ProbeStep(j)
  PROVE  QuietStep
<1>1. UNCHANGED <<breaker, log, runs, now>>
  BY DEF TickFires, ProbeStep, ProbeAnswers, RecordProbe, stored, history
<1>2. \A k \in Guarded : asOf'[k] \in {asOf[k], now}
  BY LocalTypes DEF TickFires, StartLogin, ProbeStep, ProbeAnswers, RecordProbe
<1>3. \A k \in Guarded : pc'[k] = pc[k] \/ pc'[k] = "load"
  <2>0. pc \in [Job -> Step]
    BY LocalTypes
  <2>1. CASE TickFires(j)
    <3>1. pc' = [pc EXCEPT ![j] = "load"] \/ (j \notin Guarded /\ pc' = [pc EXCEPT ![j] = "probe"])
      BY <2>1 DEF TickFires, StartLogin
    <3> QED
      BY <2>0, <3>1, SchedulerAssumption
  <2>2. CASE ProbeStep(j)
    <3>1. j \notin Guarded /\ \E s \in Step : pc' = [pc EXCEPT ![j] = s]
      BY <2>2 DEF ProbeStep, ProbeAnswers, RecordProbe, Resting, Unguarded, Step
    <3> QED
      BY <2>0, <3>1, SchedulerAssumption
  <2> QED
    BY <2>1, <2>2
<1> QED
  BY <1>1, <1>2, <1>3 DEF QuietStep, PastGuard

LEMMA LoginQuiet ==
  ASSUME TypeInv, SuspensionInv, NEW k \in Guarded,
         \/ SweepLogin(k) \/ LoadBreaker(k) \/ CountAttempts(k) \/ CheckGate(k)
         \/ LoginAnswers(k) \/ UpdateBreaker(k) \/ RecordLogin(k)
  PROVE  QuietStep
<1>1. UNCHANGED <<breaker, log, now>>
  BY DEF SweepLogin, LoadBreaker, CountAttempts, CheckGate, LoginAnswers, UpdateBreaker,
         RecordLogin, stored, history
<1>2. runs' = runs \/ runs' = [runs EXCEPT ![k] = @ + 1]
  BY DEF SweepLogin, LoadBreaker, CountAttempts, CheckGate, LoginAnswers, UpdateBreaker,
         RecordLogin, history
<1>3. asOf' = asOf \/ asOf' = [asOf EXCEPT ![k] = now] \/ asOf' = [asOf EXCEPT ![k] = 0]
  BY DEF SweepLogin, SkipLogin, RunLogin, StartLogin, LoadBreaker, CountAttempts, CheckGate,
         LoginAnswers, UpdateBreaker, RecordLogin, Decline, Proceed
<1>4. pc' = pc \/ \E s \in Step : pc' = [pc EXCEPT ![k] = s]
  BY DEF Step, SweepLogin, SkipLogin, RunLogin, StartLogin, LoadBreaker, CountAttempts, CheckGate,
         LoginAnswers, UpdateBreaker, RecordLogin, Resting, Decline, Proceed
<1>5. pc'[k] \in PastGuard => pc[k] \in PastGuard \/ breaker[k].until <= now
  <2>1. CASE LoadBreaker(k)
    <3>1. CASE BreakerIsOpen(breaker[k], asOf[k])
      BY <2>1, <3>1, LocalTypes, SchedulerAssumption
         DEF LoadBreaker, Decline, PastGuard
    <3>2. CASE ~BreakerIsOpen(breaker[k], asOf[k])
      BY <3>2, SuspensionTypes DEF BreakerIsOpen, SuspensionInv, ClockRead
    <3> QED
      BY <3>1, <3>2
  <2>2. CASE SweepLogin(k) \/ RecordLogin(k)
    BY <2>2, LocalTypes, SchedulerAssumption
       DEF SweepLogin, SkipLogin, RunLogin, StartLogin, RecordLogin, Resting, PastGuard
  <2>3. CASE \/ CountAttempts(k) \/ CheckGate(k) \/ LoginAnswers(k) \/ UpdateBreaker(k)
    BY <2>3 DEF CountAttempts, CheckGate, LoginAnswers, UpdateBreaker, PastGuard
  <2> QED
    BY <2>1, <2>2, <2>3
<1>6. \A l \in Guarded \ {k} : pc'[l] = pc[l]
  <2>1. pc \in [Job -> Step]
    BY LocalTypes
  <2> QED
    BY <1>4, <2>1, SchedulerAssumption
<1>7. \A l \in Guarded : asOf'[l] \in {asOf[l], now, 0}
  BY <1>3, LocalTypes
<1>8. \A l \in Guarded : runs'[l] = runs[l] \/ runs'[l] = runs[l] + 1
  BY <1>2, LocalTypes
<1> QED
  BY <1>1, <1>5, <1>6, <1>7, <1>8 DEF QuietStep

\* Submitting: every suspension an earlier run left is over.
LEMMA SubmitSuspension ==
  ASSUME TypeInv, SuspensionInv, NEW k \in Guarded, Submit(k)
  PROVE  SuspensionInv'
<1>1. /\ UNCHANGED <<breaker, asOf, now, runs>>
      /\ runs[k] \in Run /\ pc[k] = "probe"
      /\ log' = [log EXCEPT ![k] = [log[k] EXCEPT ![runs[k]] = [log[k][runs[k]] EXCEPT !.sent = now]]]
      /\ pc' = [pc EXCEPT ![k] = "submitted"]
  BY SuspensionTypes DEF Submit, InRun, stored
<1>2. log \in [Guarded -> [Run -> LoginRecord]] /\ log[k][runs[k]] \in LoginRecord
  BY <1>1, SuspensionTypes
<1>3. /\ \A l \in Guarded \ {k} : log'[l] = log[l]
      /\ \A i \in Run : /\ log'[k][i].until = log[k][i].until
                        /\ i # runs[k] => log'[k][i] = log[k][i]
      /\ log'[k][runs[k]].sent = now
  BY <1>1, <1>2 DEF LoginRecord
<1>4. \A l \in Guarded : pc'[l] \in PastGuard => pc[l] \in PastGuard
  BY <1>1, LocalTypes DEF PastGuard
<1>5. ClockRead' /\ GuardPassed'
  BY <1>1, <1>4 DEF SuspensionInv, ClockRead, GuardPassed
<1>6. LogEnds'
  BY <1>1, <1>3, SuspensionTypes DEF SuspensionInv, LogEnds
<1>7. SuspensionsKnown'
  BY <1>1, <1>3 DEF SuspensionInv, SuspensionsKnown
<1>8. \A i \in Run : log[k][i].until <= now
  BY <1>1, SuspensionTypes DEF SuspensionInv, SuspensionsKnown, GuardPassed, PastGuard
<1>9. SuspensionHonoured'
  <2> SUFFICES ASSUME NEW l \in Guarded, NEW i \in Run, NEW j \in Run,
                      i < j, log'[l][j].sent # None
               PROVE  log'[l][j].sent >= log'[l][i].until
    BY DEF SuspensionHonoured
  <2>1. CASE l = k /\ j = runs[k]
    BY <2>1, <1>3, <1>8, SuspensionTypes
  <2>2. CASE l = k /\ j # runs[k]
    BY <2>2, <1>3 DEF SuspensionInv, SuspensionHonoured
  <2>3. CASE l # k
    BY <2>3, <1>3 DEF SuspensionInv, SuspensionHonoured
  <2> QED
    BY <2>1, <2>2, <2>3
<1> QED
  BY <1>5, <1>6, <1>7, <1>9 DEF SuspensionInv

\* Saving: what is replaced was over, and no later run has happened yet.
LEMMA SaveSuspension ==
  ASSUME TypeInv, SuspensionInv, NEW k \in Guarded, SaveBreaker(k)
  PROVE  SuspensionInv'
<1>1. /\ UNCHANGED <<now, runs>> /\ pc[k] = "save" /\ runs[k] \in Run
      /\ asOf' = [asOf EXCEPT ![k] = now]
      /\ pc' = [pc EXCEPT ![k] = "record"]
      /\ \/ UNCHANGED <<breaker, log>>
         \/ /\ breaker' = [breaker EXCEPT ![k] = rec[k]]
            /\ log' = [log EXCEPT ![k] = [log[k] EXCEPT ![runs[k]] = Verdict(k)]]
  BY SuspensionTypes DEF SaveBreaker, InRun
<1>2. \A i \in Run : log[k][i].until <= now
  BY <1>1, SuspensionTypes DEF SuspensionInv, SuspensionsKnown, GuardPassed, PastGuard
<1>3. /\ \A l \in Guarded \ {k} : breaker'[l] = breaker[l] /\ log'[l] = log[l]
      /\ \A i \in Run : i # runs[k] => log'[k][i] = log[k][i]
      /\ \/ UNCHANGED <<breaker, log>>
         \/ breaker'[k] = rec[k] /\ log'[k][runs[k]] = Verdict(k)
  BY <1>1, SuspensionTypes DEF TypeInv, TypeOK
<1>4. /\ Verdict(k).sent = log[k][runs[k]].sent
      /\ Verdict(k).until = 0 \/ Verdict(k).until = rec[k].until
  <2>1. log[k][runs[k]] \in LoginRecord
    BY <1>1, SuspensionTypes
  <2> QED
    BY <2>1 DEF Verdict, LoginRecord
<1>5. ClockRead' /\ GuardPassed'
  <2>1. ClockRead'
    BY <1>1, SuspensionTypes, LocalTypes DEF SuspensionInv, ClockRead
  <2>2. \A l \in Guarded : pc'[l] \in PastGuard => l # k /\ pc[l] \in PastGuard
    BY <1>1, LocalTypes, SchedulerAssumption DEF PastGuard
  <2> QED
    BY <2>1, <2>2, <1>1, <1>3 DEF SuspensionInv, GuardPassed
<1>6. LogEnds'
  BY <1>1, <1>3, SuspensionTypes DEF SuspensionInv, LogEnds
<1>7. SuspensionsKnown'
  <2> SUFFICES ASSUME NEW l \in Guarded, NEW i \in Run
               PROVE  log'[l][i].until <= breaker'[l].until \/ log'[l][i].until <= now'
    BY DEF SuspensionsKnown
  <2>1. CASE l = k /\ i = runs[k]
    BY <2>1, <1>1, <1>2, <1>3, <1>4, SuspensionTypes
  <2>2. CASE l = k /\ i # runs[k]
    BY <2>2, <1>1, <1>2, <1>3
  <2>3. CASE l # k
    BY <2>3, <1>1, <1>3 DEF SuspensionInv, SuspensionsKnown
  <2> QED
    BY <2>1, <2>2, <2>3
<1>8. SuspensionHonoured'
  <2> SUFFICES ASSUME NEW l \in Guarded, NEW i \in Run, NEW j \in Run,
                      i < j, log'[l][j].sent # None
               PROVE  log'[l][j].sent >= log'[l][i].until
    BY DEF SuspensionHonoured
  <2>1. log'[l][j].sent = log[l][j].sent
    BY <1>3, <1>4
  <2>2. ~(l = k /\ i = runs[k])
    BY <2>1, SuspensionTypes DEF SuspensionInv, LogEnds, NotRun
  <2>3. log'[l][i].until = log[l][i].until
    BY <2>2, <1>3
  <2> QED
    BY <2>1, <2>3 DEF SuspensionInv, SuspensionHonoured
<1> QED
  BY <1>5, <1>6, <1>7, <1>8 DEF SuspensionInv

LEMMA StepSuspension == TypeInv /\ SuspensionInv /\ [Next]_vars => SuspensionInv'
<1> SUFFICES ASSUME TypeInv, SuspensionInv, [Next]_vars PROVE SuspensionInv'
  OBVIOUS
<1>1. \/ QuietStep
      \/ \E k \in Guarded : Submit(k) \/ SaveBreaker(k)
  BY ProcessQuiet, CheckQuiet, LoginQuiet DEF Next, LoginStep
<1> QED
  BY <1>1, QuietSuspension, SubmitSuspension, SaveSuspension

\* What guard and breaker agree on holds in every reachable state.
THEOREM SuspensionCorrect == Spec => []SuspensionInv
BY TypeCorrect, InitSuspension, StepSuspension, PTL DEF Spec

\* Once a suspension is saved, no later run presents credentials before its
\* end, for every configuration, any number of logins, crashes and failed calls.
COROLLARY SuspensionSafe == Spec => []SuspensionHonoured
<1>1. SuspensionInv => SuspensionHonoured
  BY DEF SuspensionInv
<1> QED
  BY SuspensionCorrect, <1>1, PTL

\* No step shortens or lifts a suspension before its end.
THEOREM SuspensionRunsItsCourse == Spec => SuspensionStands
<1> DEFINE Stands == \A k \in Guarded : breaker[k].until > now => breaker'[k].until >= breaker[k].until
<1>1. TypeInv /\ SuspensionInv /\ [Next]_vars => Stands
  <2> SUFFICES ASSUME TypeInv, SuspensionInv, [Next]_vars, NEW k \in Guarded, breaker[k].until > now
               PROVE  breaker'[k].until >= breaker[k].until
    OBVIOUS
  <2>1. \/ QuietStep
        \/ \E l \in Guarded : Submit(l) \/ SaveBreaker(l)
    BY ProcessQuiet, CheckQuiet, LoginQuiet DEF Next, LoginStep
  <2>2. breaker'[k] = breaker[k] \/ SaveBreaker(k)
    BY <2>1 DEF QuietStep, Submit, SaveBreaker, stored, TypeInv, TypeOK
  <2>3. ~SaveBreaker(k)
    BY SuspensionTypes DEF SuspensionInv, GuardPassed, PastGuard, SaveBreaker
  <2> QED
    BY <2>2, <2>3, SuspensionTypes
<1> QED
  BY <1>1, TypeCorrect, SuspensionCorrect, PTL DEF Spec, SuspensionStands

-----------------------------------------------------------------------------
(* The scheduler implements LoginGuard.                                    *)

\* No suspension, stored or about to be, reaches beyond the longest; a run that
\* has not come to the form yet has left nothing.
ReachInv ==
  \A k \in Guarded :
    /\ breaker[k].until <= now + BackoffMax
    /\ pc[k] = "save" => rec[k].until <= now + BackoffMax
    /\ pc[k] = "probe" => log[k][runs[k]] = NotRun

LEMMA InitReach == Init => ReachInv
<1> SUFFICES ASSUME Init PROVE ReachInv
  OBVIOUS
<1>1. \A k \in Guarded : pc[k] = "off" /\ breaker[k].until = 0 /\ now = 0
  BY SchedulerAssumption DEF Init, ClosedBreaker
<1> QED
  BY <1>1, BreakerAssumption DEF ReachInv

\* What a step does to the parts ReachInv speaks of.
ReachStep ==
  /\ now' = now \/ now' = now + 1
  /\ \A k \in Guarded :
       /\ breaker'[k] = breaker[k] \/ (pc[k] = "save" /\ breaker'[k] = rec[k])
       /\ pc'[k] = "save" => \/ (pc[k] = "save" /\ rec'[k] = rec[k])
                             \/ rec'[k].until <= now + BackoffMax
       /\ pc'[k] = "probe" => /\ log'[k] = log[k]
                              /\ \/ (pc[k] = "probe" /\ runs'[k] = runs[k])
                                 \/ (runs'[k] = runs[k] + 1 /\ runs'[k] \in Run)

LEMMA ReachKept ==
  ASSUME TypeInv, SuspensionInv, ReachInv, ReachStep, TypeInv'
  PROVE  ReachInv'
<1> SUFFICES ASSUME NEW k \in Guarded
             PROVE  /\ breaker'[k].until <= now' + BackoffMax
                    /\ pc'[k] = "save" => rec'[k].until <= now' + BackoffMax
                    /\ pc'[k] = "probe" => log'[k][runs'[k]] = NotRun
  BY DEF ReachInv
<1>0. now \in Nat /\ now' \in Nat /\ BackoffMax \in Nat /\ rec[k].until \in Nat
      /\ breaker[k].until \in Nat /\ runs[k] \in Nat
      /\ rec'[k].until \in Nat
  <2>1. rec'[k].until \in Nat
    BY DEF TypeInv, TypeOK, BreakerRecord
  <2> QED
    BY <2>1, SuspensionTypes, BreakerAssumption DEF ReachStep
<1>1. breaker'[k].until <= now' + BackoffMax
  BY <1>0 DEF ReachStep, ReachInv
<1>2. pc'[k] = "save" => rec'[k].until <= now' + BackoffMax
  BY <1>0 DEF ReachStep, ReachInv
<1>3. pc'[k] = "probe" => log'[k][runs'[k]] = NotRun
  <2>1. CASE pc[k] = "probe" /\ runs'[k] = runs[k]
    BY <2>1 DEF ReachStep, ReachInv
  <2>2. CASE runs'[k] = runs[k] + 1 /\ runs'[k] \in Run
    <3>1. runs'[k] > runs[k]
      BY <2>2, <1>0
    <3> QED
      BY <2>2, <3>1 DEF ReachStep, SuspensionInv, LogEnds
  <2> QED
    BY <2>1, <2>2 DEF ReachStep
<1> QED
  BY <1>1, <1>2, <1>3

LEMMA ProcessReach ==
  ASSUME TypeInv,
         Boot \/ Cancel \/ Exit \/ Tick \/ Prune \/ ProbesDone \/ StartTickers \/ UNCHANGED vars
  PROVE  ReachStep
<1>1. UNCHANGED <<breaker, log, runs>>
  BY DEF Boot, Cancel, Exit, Tick, Prune, ProbesDone, StartTickers, vars, stored, locals, history
<1>2. now' = now \/ now' = now + 1
  BY DEF Boot, Cancel, Exit, Tick, Prune, ProbesDone, StartTickers, vars, stored, locals, history
<1>3. \A k \in Guarded : (pc'[k] = pc[k] /\ rec'[k] = rec[k]) \/ pc'[k] \in {"off", "idle"}
  BY SchedulerAssumption
     DEF Boot, Cancel, Exit, Tick, Prune, ProbesDone, StartTickers, vars, stored, locals, history,
         Unguarded
<1> QED
  BY <1>1, <1>2, <1>3 DEF ReachStep

LEMMA CheckReach ==
  ASSUME TypeInv, NEW j \in Job, TickFires(j) \/ ProbeStep(j)
  PROVE  ReachStep
<1>1. UNCHANGED <<breaker, log, runs, now, rec>>
  BY DEF TickFires, ProbeStep, ProbeAnswers, RecordProbe, stored, history
<1>2. \A k \in Guarded : pc'[k] = pc[k] \/ pc'[k] = "load"
  <2>0. pc \in [Job -> Step]
    BY LocalTypes
  <2>1. CASE TickFires(j)
    <3>1. pc' = [pc EXCEPT ![j] = "load"] \/ (j \notin Guarded /\ pc' = [pc EXCEPT ![j] = "probe"])
      BY <2>1 DEF TickFires, StartLogin
    <3> QED
      BY <2>0, <3>1, SchedulerAssumption
  <2>2. CASE ProbeStep(j)
    <3>1. j \notin Guarded /\ \E s \in Step : pc' = [pc EXCEPT ![j] = s]
      BY <2>2 DEF ProbeStep, ProbeAnswers, RecordProbe, Resting, Unguarded, Step
    <3> QED
      BY <2>0, <3>1, SchedulerAssumption
  <2> QED
    BY <2>1, <2>2
<1> QED
  BY <1>1, <1>2 DEF ReachStep

\* One result suspends for the longest backoff at most.
LEMMA AfterResultReach ==
  ASSUME NEW r \in BreakerRecord, NEW s, NEW t \in Nat, NEW clock \in Nat,
         t <= clock, r.until <= clock + BackoffMax
  PROVE  AfterResult(r, s, t).until <= clock + BackoffMax
<1>1. NextBackoff(r.backoff) \in 0 .. BackoffMax /\ BackoffMax \in Nat
  BY NextBackoffType, BreakerAssumption DEF BreakerRecord
<1>2. ClosedBreaker.until = 0
  BY DEF ClosedBreaker
<1>3. [r EXCEPT !.fails = @ + 1].until = r.until
  BY DEF BreakerRecord
<1>4. t + NextBackoff(r.backoff) <= clock + BackoffMax
  BY <1>1
<1> QED
  BY <1>1, <1>2, <1>3, <1>4 DEF AfterResult

LEMMA LoginReach ==
  ASSUME TypeInv, SuspensionInv, ReachInv, TypeInv', NEW k \in Guarded,
         SweepLogin(k) \/ LoginStep(k)
  PROVE  ReachStep
<1>0. pc \in [Job -> Step] /\ rec \in [Guarded -> BreakerRecord] /\ k \in Job
  BY LocalTypes, SchedulerAssumption
<1>1. now' = now
  BY DEF SweepLogin, LoginStep, LoadBreaker, CountAttempts, CheckGate, Submit, LoginAnswers,
         UpdateBreaker, SaveBreaker, RecordLogin
<1>2. \A l \in Guarded \ {k} : /\ breaker'[l] = breaker[l] /\ log'[l] = log[l]
                               /\ runs'[l] = runs[l]
  <2>1. CASE SweepLogin(k) \/ LoadBreaker(k) \/ CountAttempts(k) \/ LoginAnswers(k)
             \/ UpdateBreaker(k) \/ RecordLogin(k)
    BY <2>1 DEF SweepLogin, LoadBreaker, CountAttempts, LoginAnswers, UpdateBreaker, RecordLogin,
                stored, history
  <2>2. CASE CheckGate(k)
    BY <2>2, LocalTypes DEF CheckGate, stored
  <2>3. CASE Submit(k) \/ SaveBreaker(k)
    BY <2>3 DEF Submit, SaveBreaker, stored, TypeInv, TypeOK
  <2> QED
    BY <2>1, <2>2, <2>3 DEF LoginStep
<1>3. \A l \in Guarded \ {k} : pc'[l] = pc[l] /\ rec'[l] = rec[l]
  <2>1. pc' = pc \/ \E s \in Step : pc' = [pc EXCEPT ![k] = s]
    BY DEF Step, SweepLogin, LoginStep, SkipLogin, RunLogin, StartLogin, LoadBreaker, CountAttempts,
           CheckGate, Submit, LoginAnswers, UpdateBreaker, SaveBreaker, RecordLogin, Resting,
           Decline, Proceed
  <2>2. rec' = rec \/ \E r : rec' = [rec EXCEPT ![k] = r]
    BY DEF SweepLogin, LoginStep, LoadBreaker, CountAttempts, CheckGate, Submit, LoginAnswers,
           UpdateBreaker, SaveBreaker, RecordLogin, Decline
  <2> QED
    BY <1>0, <2>1, <2>2, SchedulerAssumption
<1>4. breaker'[k] = breaker[k] \/ (pc[k] = "save" /\ breaker'[k] = rec[k])
  <2>1. CASE SaveBreaker(k)
    BY <2>1 DEF SaveBreaker, TypeInv, TypeOK
  <2>2. CASE ~SaveBreaker(k)
    BY <2>2 DEF SweepLogin, LoginStep, LoadBreaker, CountAttempts, CheckGate, Submit, LoginAnswers,
                UpdateBreaker, RecordLogin, stored
  <2> QED
    BY <2>1, <2>2
<1>5. pc'[k] = "save" => rec'[k].until <= now + BackoffMax
  <2> SUFFICES ASSUME pc'[k] = "save" PROVE rec'[k].until <= now + BackoffMax
    OBVIOUS
  <2>1. UpdateBreaker(k)
    BY <1>0 DEF SweepLogin, LoginStep, SkipLogin, RunLogin, StartLogin, LoadBreaker, CountAttempts,
                CheckGate, Submit, LoginAnswers, SaveBreaker, RecordLogin, Resting,
                Decline, Proceed, AtRest
  <2>2. rec' = [rec EXCEPT ![k] = AfterResult(breaker[k], res[k], asOf[k])]
    BY <1>0, <2>1 DEF UpdateBreaker
  <2>3. breaker[k] \in BreakerRecord /\ asOf[k] \in Nat /\ now \in Nat /\ asOf[k] <= now
        /\ breaker[k].until <= now + BackoffMax
    BY SuspensionTypes DEF TypeInv, TypeOK, SuspensionInv, ClockRead, ReachInv
  <2> QED
    BY <1>0, <2>2, <2>3, AfterResultReach
<1>6. pc'[k] = "probe" => log' = log /\ ((pc[k] = "probe" /\ runs' = runs)
                                           \/ runs' = [runs EXCEPT ![k] = @ + 1])
  BY <1>0 DEF SweepLogin, LoginStep, SkipLogin, RunLogin, StartLogin, LoadBreaker, CountAttempts,
              CheckGate, Submit, LoginAnswers, UpdateBreaker, SaveBreaker, RecordLogin, Resting,
              Decline, Proceed, history
<1>7. pc'[k] = "probe" => /\ log'[k] = log[k]
                          /\ \/ (pc[k] = "probe" /\ runs'[k] = runs[k])
                             \/ (runs'[k] = runs[k] + 1 /\ runs'[k] \in Run)
  BY <1>6, LocalTypes DEF TypeInv, StepOK, InRun
<1>8. \A l \in Guarded \ {k} :
        pc'[l] = "probe" => log'[l] = log[l] /\ pc[l] = "probe" /\ runs'[l] = runs[l]
  BY <1>2, <1>3
<1> QED
  BY <1>1, <1>2, <1>3, <1>4, <1>5, <1>7, <1>8 DEF ReachStep

LEMMA StepReach == TypeInv /\ SuspensionInv /\ ReachInv /\ [Next]_vars /\ TypeInv' => ReachInv'
<1> SUFFICES ASSUME TypeInv, SuspensionInv, ReachInv, [Next]_vars, TypeInv' PROVE ReachInv'
  OBVIOUS
<1>1. ReachStep
  BY ProcessReach, CheckReach, LoginReach DEF Next
<1> QED
  BY <1>1, ReachKept

THEOREM ReachCorrect == Spec => []ReachInv
BY TypeCorrect, SuspensionCorrect, InitReach, StepReach, PTL DEF Spec

\* The scheduler starts as the guard does.
LEMMA GuardInit == Init => Guard!Init
<1> SUFFICES ASSUME Init PROVE Guard!Init
  OBVIOUS
<1>1. [k \in Guarded |-> breaker[k].until] = [k \in Guarded |-> 0]
  BY DEF Init, ClosedBreaker
<1>2. [k \in Guarded |-> [i \in Run |-> log[k][i].sent]] = [k \in Guarded |-> [i \in Run |-> None]]
  BY DEF Init, NotRun
<1> QED
  BY <1>1, <1>2 DEF Init, Guard!Init

\* A submission is the guard's presentation of a run that had made none.
LEMMA SubmitPresents ==
  ASSUME TypeInv, SuspensionInv, ReachInv, NEW k \in Guarded, Submit(k)
  PROVE  \E run \in Run : Guard!Present(k, run)
<1>1. /\ UNCHANGED <<breaker, now>>
      /\ runs[k] \in Run /\ pc[k] = "probe"
      /\ log' = [log EXCEPT ![k] = [log[k] EXCEPT ![runs[k]] = [log[k][runs[k]] EXCEPT !.sent = now]]]
  BY SuspensionTypes DEF Submit, InRun, stored
<1>2. log \in [Guarded -> [Run -> LoginRecord]]
  BY SuspensionTypes
<1>3. log[k][runs[k]].sent = None
  BY <1>1 DEF ReachInv, NotRun
<1>4. breaker[k].until <= now /\ breaker[k].until \in Nat /\ now \in Nat
  BY <1>1, SuspensionTypes DEF SuspensionInv, GuardPassed, PastGuard
<1> DEFINE P == [l \in Guarded |-> [i \in Run |-> log[l][i].sent]]
           Q == [l \in Guarded |-> [i \in Run |-> log'[l][i].sent]]
<1>5. \A l \in Guarded, i \in Run : log'[l][i].sent = IF l = k /\ i = runs[k] THEN now ELSE log[l][i].sent
  <2>1. \A r \in LoginRecord : [r EXCEPT !.sent = now].sent = now
    BY DEF LoginRecord
  <2> QED
    BY <1>1, <1>2, <2>1
<1>6. Q = [P EXCEPT ![k][runs[k]] = now]
  <2>1. ASSUME NEW l \in Guarded PROVE Q[l] = [P EXCEPT ![k][runs[k]] = now][l]
    <3>1. CASE l = k
      <4>1. [P EXCEPT ![k][runs[k]] = now][k] = [P[k] EXCEPT ![runs[k]] = now]
        OBVIOUS
      <4>2. Q[k] = [P[k] EXCEPT ![runs[k]] = now]
        BY <1>5
      <4> QED
        BY <3>1, <4>1, <4>2
    <3>2. CASE l # k
      BY <1>5, <3>2
    <3> QED
      BY <3>1, <3>2
  <2> QED
    BY <2>1
<1>7. ~(now < breaker[k].until)
  BY <1>4
<1>8. PICK run \in Run : run = runs[k]
  BY <1>1
<1>9. Guard!Present(k, run)
  BY <1>1, <1>3, <1>6, <1>7, <1>8 DEF Guard!Present, Guard!Suspended
<1> QED
  BY <1>9

\* A saved verdict is the guard's conclusion.
LEMMA SaveConcludes ==
  ASSUME TypeInv, SuspensionInv, ReachInv, NEW k \in Guarded, SaveBreaker(k)
  PROVE  Guard!Conclude(k) \/ UNCHANGED Guard!vars
<1>1. /\ UNCHANGED now /\ pc[k] = "save" /\ runs[k] \in Run
      /\ \/ UNCHANGED <<breaker, log>>
         \/ /\ breaker' = [breaker EXCEPT ![k] = rec[k]]
            /\ log' = [log EXCEPT ![k] = [log[k] EXCEPT ![runs[k]] = Verdict(k)]]
  BY SuspensionTypes DEF SaveBreaker, InRun
<1>2. log \in [Guarded -> [Run -> LoginRecord]] /\ breaker \in [Guarded -> BreakerRecord]
  BY SuspensionTypes DEF TypeInv, TypeOK
<1>3. CASE UNCHANGED <<breaker, log>>
  BY <1>1, <1>3 DEF Guard!vars
<1>4. CASE /\ breaker' = [breaker EXCEPT ![k] = rec[k]]
           /\ log' = [log EXCEPT ![k] = [log[k] EXCEPT ![runs[k]] = Verdict(k)]]
  <2>1. Verdict(k).sent = log[k][runs[k]].sent
    <3>1. log[k][runs[k]] \in LoginRecord
      BY <1>1, <1>2
    <3> QED
      BY <3>1 DEF Verdict, LoginRecord
  <2>2. \A l \in Guarded, i \in Run : log'[l][i].sent = log[l][i].sent
    BY <1>1, <1>2, <1>4, <2>1
  <2>3. [l \in Guarded |-> [i \in Run |-> log'[l][i].sent]]
          = [l \in Guarded |-> [i \in Run |-> log[l][i].sent]]
    BY <2>2
  <2>4. [l \in Guarded |-> breaker'[l].until]
          = [[l \in Guarded |-> breaker[l].until] EXCEPT ![k] = rec[k].until]
    BY <1>2, <1>4
  <2>5. breaker[k].until \in Nat /\ rec[k].until \in Nat /\ now \in Nat /\ BackoffMax \in Nat
    BY SuspensionTypes, BreakerAssumption
  <2>6. rec[k].until \in 0 .. now + BackoffMax
    BY <1>1, <2>5 DEF ReachInv
  <2>7. ~(now < breaker[k].until)
    BY <1>1, <2>5 DEF SuspensionInv, GuardPassed, PastGuard
  <2>8. Guard!Conclude(k)
    BY <1>1, <2>3, <2>4, <2>6, <2>7 DEF Guard!Conclude, Guard!Suspended
  <2> QED
    BY <2>8
<1> QED
  BY <1>1, <1>3, <1>4

\* Every step of the scheduler is a step of the guard or none of its business.
LEMMA GuardStep ==
  TypeInv /\ SuspensionInv /\ ReachInv /\ [Next]_vars => [Guard!Next]_Guard!vars
<1> SUFFICES ASSUME TypeInv, SuspensionInv, ReachInv, [Next]_vars
             PROVE  Guard!Next \/ UNCHANGED Guard!vars
  OBVIOUS
<1>1. CASE QuietStep
  BY <1>1 DEF QuietStep, Guard!Next, Guard!Tick, Guard!vars
<1>2. ASSUME NEW k \in Guarded, Submit(k) PROVE Guard!Next
  BY <1>2, SubmitPresents DEF Guard!Next
<1>3. ASSUME NEW k \in Guarded, SaveBreaker(k) PROVE Guard!Next \/ UNCHANGED Guard!vars
  BY <1>3, SaveConcludes DEF Guard!Next
<1>4. \/ QuietStep
      \/ \E k \in Guarded : Submit(k) \/ SaveBreaker(k)
  BY ProcessQuiet, CheckQuiet, LoginQuiet DEF Next, LoginStep
<1> QED
  BY <1>1, <1>2, <1>3, <1>4

\* The scheduler implements LoginGuard, for every configuration and over any
\* crash, restart and failed call: every run presents credentials once at most
\* and outside suspensions, and every suspension stands until its end.
THEOREM GuardImplemented == Spec => GuardSpec
BY TypeCorrect, SuspensionCorrect, ReachCorrect, GuardInit, GuardStep, PTL
   DEF Spec, GuardSpec, Guard!Spec
=============================================================================
