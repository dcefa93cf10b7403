------------------------------ MODULE Scheduler ------------------------------
(***************************************************************************)
(* The scheduler of one process and what it keeps in Postgres: the initial *)
(* sweep, the tickers, and a login check's run from its guard to its       *)
(* stored result.  Every call to the store and to the probed service is a  *)
(* step of its own, so that another check, the clock, a failed call, a     *)
(* shutdown or a crash can come in between.                                *)
(*                                                                         *)
(* A check's run moves through pc:                                         *)
(*                                                                         *)
(*   off, idle -> load -> count -> gate -> probe -> submitted              *)
(*                  |       |        |       |         |                   *)
(*                  +-------+--------+       +---------+-> update -> save  *)
(*                          v                                 |       |    *)
(*                       decline -> (at rest)         record <+-------+    *)
(*                                                                         *)
(* An unguarded check only knows probe and record.                         *)
(***************************************************************************)
EXTENDS Breaker, Health, FiniteSets

CONSTANTS
  Job,                \* every scheduled check
  Guarded,            \* the login checks among them
  GateOf,             \* the check that must be up before a login runs
  Interval,           \* each check's cadence
  MaxStartJitter,     \* longest stagger of a ticker's start
  MaxAttemptsPerDay,  \* ceiling on credentialed attempts (0: no ceiling)
  Day,                \* the ceiling's window
  RawRetention,       \* age at which raw results are pruned
  MaxTime, MaxRuns, MaxBoots, MaxFaults   \* bounds of the model

ASSUME SchedulerAssumption ==
  /\ Guarded \subseteq Job
  /\ GateOf \in [Guarded -> Job \ Guarded]  \* buildJobs gates on the pages
  /\ Interval \in [Job -> Nat \ {0}]
  /\ MaxStartJitter \in Nat
  /\ MaxAttemptsPerDay \in Int
  /\ Day \in Nat \ {0}
  /\ RawRetention \in Int
  /\ MaxTime \in Nat /\ MaxRuns \in Nat /\ MaxBoots \in Nat /\ MaxFaults \in Nat

VARIABLES
  \* Postgres
  current,    \* check_current: the live state and reason of every check
  checkedAt,  \* check_current.last_checked_at of the login checks
  breaker,    \* breaker_state
  rows,       \* check_results: observed_at of the conclusive row of each run
  \* the process
  phase,      \* where Run is: down, probes, logins (the sweep), running
  cancelled,  \* the root context has been cancelled (SIGTERM)
  unswept,    \* login checks the sweep has not come to
  pc, due,    \* per check: the step it is at, its ticker's next tick
  asOf,       \* per login: the clock as the current function read it
  rec,        \* per login: the breaker record the run holds
  res,        \* per check: the result the run holds
  \* the environment
  now, boots, faults,
  \* history, for the properties only
  runs,       \* runs of each login that passed the guard
  log,        \* what became of each of them
  booked,     \* those whose result was stored
  clean,      \* the login's last run lost no call to the store
  reported    \* checks that stored a result in this process

stored == <<current, checkedAt, breaker, rows>>
locals == <<pc, due, asOf, rec, res>>
history == <<runs, log, booked, clean, reported>>
vars == <<stored, phase, cancelled, unswept, locals, now, boots, faults, history>>

-----------------------------------------------------------------------------
None == -1
Time == 0 .. MaxTime
Run == 1 .. MaxRuns
Unguarded == Job \ Guarded

Up == [state |-> "up", reason |-> "none"]
\* A login probe fails for a reason the breaker treats as terminal or not.
Answer == {Up} \cup [state : {"down"}, reason : {"timeout"} \cup HardAuthFailures]
Declined(why) == [state |-> "unknown", reason |-> why]
\* Also how the readers of check_current treat a row that is not there.
NoResult == Declined("none")
PauseReasons == {"breaker_open", "paused_after_failure", "gate_closed"}
Result == Answer \cup {NoResult} \cup {Declined(why) : why \in PauseReasons}

\* What a run that passed the guard left: when it presented credentials, the
\* verdict it wrote to the breaker, and the suspension that verdict brought.
NotRun == [sent |-> None, saw |-> "none", until |-> 0, wait |-> None]

Step == {"off", "idle", "load", "count", "gate", "decline", "probe", "submitted",
         "update", "save", "record"}
InFlight(k) == pc[k] \in {"submitted", "update", "save", "record"}
AtRest(j) == pc[j] \in {"off", "idle"}
\* RunOnce returns to the sweep or to the check's own ticker loop.
Resting == IF phase = "running" THEN "idle" ELSE "off"

\* A call to Postgres.  Under a cancelled context it fails at once.
StoreWorks == ~cancelled /\ UNCHANGED faults
StoreFails ==
  \/ cancelled /\ UNCHANGED faults
  \/ ~cancelled /\ faults < MaxFaults /\ faults' = faults + 1

Init ==
  /\ current = [j \in Job |-> NoResult]
  /\ checkedAt = [k \in Guarded |-> 0]
  /\ breaker = [k \in Guarded |-> ClosedBreaker]
  /\ rows = [k \in Guarded |-> [i \in Run |-> None]]
  /\ phase = "down" /\ cancelled = FALSE /\ unswept = {}
  /\ pc = [j \in Job |-> "off"]
  /\ due = [j \in Job |-> 0]
  /\ asOf = [k \in Guarded |-> 0]
  /\ rec = [k \in Guarded |-> ClosedBreaker]
  /\ res = [j \in Job |-> NoResult]
  /\ now = 0 /\ boots = 0 /\ faults = 0
  /\ runs = [k \in Guarded |-> 0]
  /\ log = [k \in Guarded |-> [i \in Run |-> NotRun]]
  /\ booked = [k \in Guarded |-> {}]
  /\ clean = [k \in Guarded |-> FALSE]
  /\ reported = {}

-----------------------------------------------------------------------------
(* The process comes and goes.                                             *)

\* Run enters RunInitialSweep: the unguarded probes all start at once.
Boot ==
  /\ phase = "down" /\ boots < MaxBoots
  /\ boots' = boots + 1
  /\ phase' = "probes"
  /\ unswept' = Guarded
  /\ pc' = [j \in Job |-> IF j \in Unguarded THEN "probe" ELSE "off"]
  /\ UNCHANGED <<stored, cancelled, due, asOf, rec, res, now, faults, history>>

\* SIGTERM.  Nothing waits for the scheduler's goroutines.
Cancel ==
  /\ phase # "down" /\ ~cancelled
  /\ cancelled' = TRUE
  /\ UNCHANGED <<stored, phase, unswept, locals, now, boots, faults, history>>

\* The process ends, by a crash or after the shutdown, at whatever step each
\* check is.  Only Postgres remains.
Exit ==
  /\ phase # "down"
  /\ phase' = "down" /\ cancelled' = FALSE /\ unswept' = {}
  /\ pc' = [j \in Job |-> "off"]
  /\ due' = [j \in Job |-> 0]
  /\ asOf' = [k \in Guarded |-> 0]
  /\ rec' = [k \in Guarded |-> ClosedBreaker]
  /\ res' = [j \in Job |-> NoResult]
  /\ clean' = [k \in Guarded |-> clean[k] /\ AtRest(k)]
  /\ reported' = {}
  /\ UNCHANGED <<stored, now, boots, faults, runs, log, booked>>

Tick ==
  /\ now < MaxTime
  /\ now' = now + 1
  /\ UNCHANGED <<stored, phase, cancelled, unswept, locals, boots, faults, history>>

-----------------------------------------------------------------------------
(* The sweep and the tickers.                                              *)

\* (mutants)
NoBarrier == phase = "probes"
ForgetsToMoveOn(k) == unswept' = unswept

\* wg.Wait: the first phase is over when every unguarded check is.
ProbesFinished == phase = "probes" /\ \A j \in Unguarded : AtRest(j)

ProbesDone ==
  /\ ProbesFinished
  /\ phase' = "logins"
  /\ UNCHANGED <<stored, cancelled, unswept, locals, now, boots, faults, history>>

\* The run of a login check starts: guardBlocks reads the clock.
StartLogin(k) ==
  /\ runs[k] < MaxRuns
  /\ pc' = [pc EXCEPT ![k] = "load"]
  /\ asOf' = [asOf EXCEPT ![k] = now]
  /\ clean' = [clean EXCEPT ![k] = TRUE]

\* hasFreshResult, once the live states have been read.
HasFreshResult(k) ==
  current[k].state # "unknown" /\ now - checkedAt[k] < Interval[k]

SweptOver(k) == unswept' = unswept \ {k}

SkipLogin(k) ==
  /\ \/ cancelled
     \/ ~cancelled /\ HasFreshResult(k)
  /\ UNCHANGED <<pc, asOf, clean, faults>>

RunLogin(k) ==
  /\ \/ StoreWorks /\ ~HasFreshResult(k)
     \/ ~cancelled /\ StoreFails
  /\ StartLogin(k)

\* The login checks follow one at a time; which comes first is the job list's
\* choice, so any order is.
SweepLogin(k) ==
  /\ phase = "logins" /\ k \in unswept
  /\ \A l \in Guarded : AtRest(l)
  /\ SweptOver(k)
  /\ SkipLogin(k) \/ RunLogin(k)
  /\ UNCHANGED <<stored, phase, cancelled, due, rec, res, now, boots,
                 runs, log, booked, reported>>

\* The sweep is over; every check's own loop starts with its stagger.
StartTickers ==
  /\ phase = "logins" /\ unswept = {}
  /\ \A k \in Guarded : AtRest(k)
  /\ phase' = "running"
  /\ pc' = [j \in Job |-> "idle"]
  /\ \E jitter \in [Job -> 0 .. MaxStartJitter] :
       /\ \A j \in Job : jitter[j] <= Interval[j] \div 4
       /\ due' = [j \in Job |-> now + jitter[j] + Interval[j]]
  /\ UNCHANGED <<stored, cancelled, unswept, asOf, rec, res, now, boots, faults, history>>

\* A ticker keeps one tick for a check that is still busy and drops the rest.
\* The select may take it even though the context is cancelled.
NextTick(j) ==
  \E d \in now + 1 .. now + Interval[j] :
    /\ (d - due[j]) % Interval[j] = 0
    /\ due' = [due EXCEPT ![j] = d]

TickFires(j) ==
  /\ phase = "running" /\ pc[j] = "idle" /\ now >= due[j]
  /\ NextTick(j)
  /\ IF j \in Guarded THEN StartLogin(j)
     ELSE pc' = [pc EXCEPT ![j] = "probe"] /\ UNCHANGED <<asOf, clean>>
  /\ UNCHANGED <<stored, phase, cancelled, unswept, rec, res, now, boots, faults,
                 runs, log, booked, reported>>

-----------------------------------------------------------------------------
(* A run: the guard.                                                       *)

\* (mutant)
OneTooMany(k) ==
  MaxAttemptsPerDay > 0
    /\ Cardinality({i \in Run : rows[k][i] # None /\ rows[k][i] >= asOf[k] - Day})
         > MaxAttemptsPerDay

\* CountAttemptsSince: rows whose state is not unknown, in the last 24 hours.
CountedAttempts(k) == {i \in Run : rows[k][i] # None /\ rows[k][i] >= asOf[k] - Day}

CeilingReached(k) ==
  MaxAttemptsPerDay > 0 /\ Cardinality(CountedAttempts(k)) >= MaxAttemptsPerDay

\* The guard declines: the run only has a reason left to record.
Decline(k, why) ==
  /\ pc' = [pc EXCEPT ![k] = "decline"]
  /\ res' = [res EXCEPT ![k] = Declined(why)]
  /\ rec' = [rec EXCEPT ![k] = ClosedBreaker]
  /\ asOf' = [asOf EXCEPT ![k] = now]

Proceed(k, where) ==
  /\ pc' = [pc EXCEPT ![k] = where]
  /\ UNCHANGED <<res, asOf>>

Lost(k) == clean' = [clean EXCEPT ![k] = FALSE]

LoadBreaker(k) ==
  /\ pc[k] = "load"
  /\ \/ /\ StoreFails /\ Lost(k)
        /\ Decline(k, "breaker_open")
     \/ /\ StoreWorks /\ UNCHANGED clean
        /\ IF BreakerIsOpen(breaker[k], asOf[k])
           THEN Decline(k, PauseReason(breaker[k]))
           ELSE Proceed(k, "count") /\ rec' = [rec EXCEPT ![k] = breaker[k]]
  /\ UNCHANGED <<stored, phase, cancelled, unswept, due, now, boots,
                 runs, log, booked, reported>>

CountAttempts(k) ==
  /\ pc[k] = "count"
  /\ \/ /\ MaxAttemptsPerDay > 0 /\ StoreFails /\ Lost(k)
        /\ Decline(k, "breaker_open")
     \/ /\ (MaxAttemptsPerDay > 0 => ~cancelled) /\ UNCHANGED <<clean, faults>>
        /\ IF CeilingReached(k)
           THEN Decline(k, PauseReason(rec[k]))
           ELSE Proceed(k, "gate") /\ rec' = [rec EXCEPT ![k] = ClosedBreaker]
  /\ UNCHANGED <<stored, phase, cancelled, unswept, due, now, boots,
                 runs, log, booked, reported>>

CheckGate(k) ==
  /\ pc[k] = "gate"
  /\ \/ /\ StoreFails /\ Lost(k)
        /\ Decline(k, "gate_closed") /\ UNCHANGED runs
     \/ /\ StoreWorks /\ UNCHANGED clean
        /\ IF current[GateOf[k]].state # "up"
           THEN Decline(k, "gate_closed") /\ UNCHANGED runs
           ELSE /\ Proceed(k, "probe")
                /\ UNCHANGED rec
                /\ runs' = [runs EXCEPT ![k] = @ + 1]
  /\ UNCHANGED <<stored, phase, cancelled, unswept, due, now, boots,
                 log, booked, reported>>

-----------------------------------------------------------------------------
(* A run: the probe, the breaker and the record.                           *)

\* The login form is found and the credentials are posted, once.
Submit(k) ==
  /\ pc[k] = "probe" /\ ~cancelled
  /\ pc' = [pc EXCEPT ![k] = "submitted"]
  /\ log' = [log EXCEPT ![k][runs[k]].sent = now]
  /\ UNCHANGED <<stored, phase, cancelled, unswept, due, asOf, rec, res, now,
                 boots, faults, runs, booked, clean, reported>>

\* The probe returns, with or without having come to the form; a cancelled
\* context only leaves it a transport error.  updateBreaker reads the clock.
LoginAnswers(k) ==
  /\ pc[k] \in {"probe", "submitted"}
  /\ pc' = [pc EXCEPT ![k] = "update"]
  /\ asOf' = [asOf EXCEPT ![k] = now]
  /\ \E r \in Answer :
       /\ cancelled => r = [state |-> "down", reason |-> "timeout"]
       /\ res' = [res EXCEPT ![k] = r]
  /\ UNCHANGED <<stored, phase, cancelled, unswept, due, rec, now, boots, faults, history>>

\* updateBreaker reads the record again and works out the next one.
UpdateBreaker(k) ==
  /\ pc[k] = "update"
  /\ \/ /\ StoreFails /\ Lost(k)
        /\ pc' = [pc EXCEPT ![k] = "record"]
        /\ asOf' = [asOf EXCEPT ![k] = now]
        /\ UNCHANGED rec
     \/ /\ StoreWorks
        /\ pc' = [pc EXCEPT ![k] = "save"]
        /\ rec' = [rec EXCEPT ![k] = AfterResult(breaker[k], res[k], asOf[k])]
        /\ UNCHANGED <<asOf, clean>>
  /\ UNCHANGED <<stored, phase, cancelled, unswept, due, res, now, boots,
                 runs, log, booked, reported>>

\* The verdict as the history keeps it; a suspension has moved open_until.
Verdict(k) ==
  LET tripped == rec[k].until # breaker[k].until /\ res[k].state = "down"
  IN  [log[k][runs[k]] EXCEPT
         !.saw = res[k].state,
         !.until = IF tripped THEN rec[k].until ELSE 0,
         !.wait = IF tripped THEN rec[k].backoff ELSE None]

SaveBreaker(k) ==
  /\ pc[k] = "save"
  /\ \/ /\ StoreFails /\ Lost(k)
        /\ UNCHANGED <<breaker, log>>
     \/ /\ StoreWorks /\ UNCHANGED clean
        /\ breaker' = [breaker EXCEPT ![k] = rec[k]]
        /\ log' = [log EXCEPT ![k][runs[k]] = Verdict(k)]
  /\ pc' = [pc EXCEPT ![k] = "record"]
  /\ asOf' = [asOf EXCEPT ![k] = now]
  /\ rec' = [rec EXCEPT ![k] = ClosedBreaker]
  /\ UNCHANGED <<current, checkedAt, rows, phase, cancelled, unswept, due, res,
                 now, boots, runs, booked, reported>>

\* RecordResult is one transaction: the row and the live state, or neither.
RecordLogin(k) ==
  /\ pc[k] \in {"decline", "record"}
  /\ \/ /\ StoreFails /\ Lost(k)
        /\ UNCHANGED <<current, checkedAt, rows, booked, reported>>
     \/ /\ StoreWorks /\ UNCHANGED clean
        /\ reported' = reported \cup {k}
        /\ current' = [current EXCEPT ![k] = res[k]]
        /\ checkedAt' = [checkedAt EXCEPT ![k] = asOf[k]]
        /\ IF pc[k] = "record"
           THEN /\ rows' = [rows EXCEPT ![k][runs[k]] = asOf[k]]
                /\ booked' = [booked EXCEPT ![k] = @ \cup {runs[k]}]
           ELSE UNCHANGED <<rows, booked>>
  /\ pc' = [pc EXCEPT ![k] = Resting]
  /\ asOf' = [asOf EXCEPT ![k] = 0]
  /\ res' = [res EXCEPT ![k] = NoResult]
  /\ UNCHANGED <<breaker, phase, cancelled, unswept, due, rec, now, boots, runs, log>>

\* An unguarded check: its probe's answer, and the same record.
ProbeAnswers(j) ==
  /\ j \in Unguarded /\ pc[j] = "probe"
  /\ pc' = [pc EXCEPT ![j] = "record"]
  /\ \E r \in {Up, [state |-> "down", reason |-> "timeout"]} :
       /\ cancelled => r # Up
       /\ res' = [res EXCEPT ![j] = r]
  /\ UNCHANGED <<stored, phase, cancelled, unswept, due, asOf, rec, now, boots, faults, history>>

RecordProbe(j) ==
  /\ j \in Unguarded /\ pc[j] = "record"
  /\ \/ /\ StoreFails
        /\ UNCHANGED <<current, reported>>
     \/ /\ StoreWorks
        /\ current' = [current EXCEPT ![j] = res[j]]
        /\ reported' = reported \cup {j}
  /\ pc' = [pc EXCEPT ![j] = Resting]
  /\ res' = [res EXCEPT ![j] = NoResult]
  /\ UNCHANGED <<checkedAt, breaker, rows, phase, cancelled, unswept, due, asOf, rec,
                 now, boots, runs, log, booked, clean>>

\* The maintenance loop deletes raw results older than the retention.
Expired(t) == t # None /\ t < now - RawRetention

Prune ==
  /\ phase # "down" /\ ~cancelled
  /\ rows' = [k \in Guarded |->
               [i \in Run |-> IF Expired(rows[k][i]) THEN None ELSE rows[k][i]]]
  /\ UNCHANGED <<current, checkedAt, breaker, phase, cancelled, unswept, locals,
                 now, boots, faults, history>>

-----------------------------------------------------------------------------
LoginStep(k) ==
  \/ LoadBreaker(k) \/ CountAttempts(k) \/ CheckGate(k)
  \/ Submit(k) \/ LoginAnswers(k)
  \/ UpdateBreaker(k) \/ SaveBreaker(k) \/ RecordLogin(k)

ProbeStep(j) == ProbeAnswers(j) \/ RecordProbe(j)

Next ==
  \/ Boot \/ Cancel \/ Exit \/ Tick \/ Prune
  \/ ProbesDone \/ StartTickers
  \/ \E k \in Guarded : SweepLogin(k) \/ LoginStep(k)
  \/ \E j \in Job : TickFires(j) \/ ProbeStep(j)

Spec == Init /\ [][Next]_vars

-----------------------------------------------------------------------------
(* Properties.                                                             *)

LoginRecord == [sent : Time \cup {None}, saw : {"none", "up", "down"},
                until : Nat, wait : Nat \cup {None}]

\* Every variable keeps its type; in particular the stored backoff of a login
\* never exceeds the longest suspension.
TypeOK ==
  /\ current \in [Job -> Result]
  /\ checkedAt \in [Guarded -> Time]
  /\ breaker \in [Guarded -> BreakerRecord]
  /\ rows \in [Guarded -> [Run -> Time \cup {None}]]
  /\ phase \in {"down", "probes", "logins", "running"}
  /\ cancelled \in BOOLEAN
  /\ unswept \subseteq Guarded
  /\ pc \in [Job -> Step]
  /\ due \in [Job -> Nat]
  /\ asOf \in [Guarded -> Time]
  /\ rec \in [Guarded -> BreakerRecord]
  /\ res \in [Job -> Result]
  /\ now \in Time /\ boots \in 0 .. MaxBoots /\ faults \in 0 .. MaxFaults
  /\ runs \in [Guarded -> 0 .. MaxRuns]
  /\ log \in [Guarded -> [Run -> LoginRecord]]
  /\ booked \in [Guarded -> SUBSET Run]
  /\ clean \in [Guarded -> BOOLEAN]
  /\ reported \subseteq Job

\* Runs of k that presented credentials in the window that ends now.
PresentedInWindow(k) == {i \in Run : log[k][i].sent # None /\ log[k][i].sent >= now - Day}

\* The daily ceiling (guardBlocks, CountAttemptsSince): as long as raw results
\* outlive the window, no window holds more presentations than the ceiling,
\* counting the runs whose result was stored and the one under way.
CeilingHolds ==
  MaxAttemptsPerDay > 0 /\ RawRetention >= Day =>
    \A k \in Guarded :
      Cardinality({i \in PresentedInWindow(k) :
                     i \in booked[k] \/ (i = runs[k] /\ InFlight(k))})
        <= MaxAttemptsPerDay

\* Once a suspension is saved, no later run presents credentials before its
\* end, whatever restarts, crashes and failed calls come in between
\* (guardBlocks against updateBreaker).
SuspensionHonoured ==
  \A k \in Guarded : \A i, j \in Run :
    i < j /\ log[k][j].sent # None => log[k][j].sent >= log[k][i].until

\* A suspension runs its course: until it ends no step shortens or lifts it.
\* Only a login's own run writes its breaker, and none is under way while it is
\* suspended (guardBlocks; runJob and the sweep never run a check twice at once).
SuspensionStands ==
  [][\A k \in Guarded :
       breaker[k].until > now => breaker'[k].until >= breaker[k].until]_vars

NoSuccessBetween(k, i, j) == \A m \in Run : i < m /\ m < j => log[k][m].saw # "up"

\* Two suspensions with no success between them: the later lasts at least
\* twice the earlier one, up to the maximum (nextBackoff over restarts).
SuspensionEscalates ==
  \A k \in Guarded : \A i, j \in Run :
    /\ i < j /\ log[k][i].wait # None /\ log[k][j].wait # None
    /\ NoSuccessBetween(k, i, j)
    => log[k][j].wait >= Lesser(2 * log[k][i].wait, BackoffMax)

\* A failure that is at least the FailureThreshold-th since the last success,
\* counting the failures the breaker could save, brings a suspension
\* (updateBreaker; the count survives restarts and lost updates).
ThresholdTrips ==
  BackoffInitial > 0 /\ BackoffMax > 0 =>
    \A k \in Guarded : \A j \in Run :
      /\ log[k][j].saw = "down"
      /\ Cardinality({i \in Run : /\ i <= j /\ log[k][i].saw = "down"
                                  /\ NoSuccessBetween(k, i, j)})
           >= FailureThreshold
      => log[k][j].wait # None

\* Unless Postgres refused a call, no login presents credentials on the word of
\* a gate state an earlier process stored: its gate has stored one in this
\* process before it asks (RunInitialSweep's phases, under shutdowns and crashes).
LoginFollowsGate ==
  faults = 0 =>
    \A k \in Guarded : pc[k] = "submitted" => GateOf[k] \in reported

\* After a run that lost no call to the store and was not stopped by its gate,
\* the row shows the login as down exactly when the breaker remembers a
\* failure: the live state and the breaker are written by different calls.
PageMatchesGuard ==
  \A k \in Guarded :
    AtRest(k) /\ clean[k] /\ current[k].reason # "gate_closed" =>
      (RollupState(current[k].state, current[k].reason) = "down"
         <=> breaker[k].fails > 0)

\* The scheduler keeps the guard's promise to the account, over any crash and
\* any lost call: a run presents credentials once at most and outside suspensions
\* only, every suspension is served in full, none is longer than the longest.
Guard == INSTANCE LoginGuard WITH
  Login <- Guarded,
  LongestSuspension <- BackoffMax,
  Never <- None,
  clock <- now,
  until <- [k \in Guarded |-> breaker[k].until],
  presented <- [k \in Guarded |-> [i \in Run |-> log[k][i].sent]]
GuardSpec == Guard!Spec

\* What the comment in RunInitialSweep says: the daily ceiling bounds the
\* presentations, those of a crash-looping container included.
CeilingAsDocumented ==
  MaxAttemptsPerDay > 0 =>
    \A k \in Guarded : Cardinality(PresentedInWindow(k)) <= MaxAttemptsPerDay

\* The row a service shows: its login and the structural check that gates it.
ServiceRow(k) ==
  DeriveServiceState({RollupState(current[j].state, current[j].reason) :
                        j \in {k, GateOf[k]}})

\* What the comment of RollupState says: a login the scheduler stopped retrying
\* after a failure keeps its row degraded until a login succeeds.
FailureKeepsRow ==
  \A k \in Guarded :
    AtRest(k) /\ clean[k] /\ breaker[k].fails > 0 => ServiceRow(k) # "up"

\* The sweep runs out of checks: every step of a run either moves on or gives
\* up, whatever calls to the store fail.
SweepEnds == phase \in {"probes", "logins"} ~> phase \in {"running", "down"}

\* The goroutines of a live process run; a probe answers within its timeout.
\* That Postgres answers, an error included, is an assumption: the scheduler
\* sets no deadline on its queries.
FairSpec ==
  /\ Spec
  /\ WF_vars(ProbesDone) /\ WF_vars(StartTickers)
  /\ \A k \in Guarded : WF_vars(SweepLogin(k)) /\ WF_vars(LoginStep(k))
  /\ \A j \in Job : WF_vars(ProbeStep(j))
=============================================================================
