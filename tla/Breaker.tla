------------------------------- MODULE Breaker -------------------------------
(***************************************************************************)
(* The circuit breaker of a credentialed check: the record that Postgres   *)
(* keeps per check, how one result changes it, and the reason a suspended  *)
(* check is recorded with.  Pure operators; the scheduler decides when     *)
(* they are applied and what survives a failed write or a crash.           *)
(*                                                                         *)
(* Times and durations are counted in one abstract unit.  A moment of 0    *)
(* stands for a NULL open_until: neither lies in the future of any clock.  *)
(***************************************************************************)
EXTENDS Integers

CONSTANTS
  FailureThreshold,  \* consecutive failures that suspend the check
  BackoffInitial,    \* first suspension, whole units (0: a sub-second setting)
  BackoffMax         \* longest suspension

\* config.Load checks only that durations are positive; the threshold is any
\* integer.  Truncation to whole units can leave either duration at 0.
ASSUME BreakerAssumption ==
  /\ FailureThreshold \in Int
  /\ BackoffInitial \in Nat
  /\ BackoffMax \in Nat

Lesser(a, b) == IF a <= b THEN a ELSE b

BreakerRecord == [fails : Nat, until : Nat, backoff : 0 .. BackoffMax]

ClosedBreaker == [fails |-> 0, until |-> 0, backoff |-> 0]

\* "token_invalid" stands for the three reasons that mean the credential or
\* the account is wrong; "timeout" for every other reason of a failed login.
HardAuthFailures == {"token_invalid"}

\* (mutants)
OpenToTheLastUnit(rec, t) == t < rec.until - 1
TripsLate(rec, res) ==
  res.reason \in HardAuthFailures \/ rec.fails + 1 > FailureThreshold
FlatBackoff(b) == Lesser(BackoffInitial, BackoffMax)
UncappedBackoff(b) == IF b <= 0 THEN Lesser(BackoffInitial, BackoffMax) ELSE 2 * b
NeutralPause(rec) == "breaker_open"

\* The guard compares the clock with open_until.
BreakerIsOpen(rec, t) == t < rec.until

\* Whether this failure suspends the check.
Trips(rec, res) ==
  \/ res.reason \in HardAuthFailures
  \/ rec.fails + 1 >= FailureThreshold

NextBackoff(b) ==
  IF b <= 0 THEN Lesser(BackoffInitial, BackoffMax) ELSE Lesser(2 * b, BackoffMax)

PauseReason(rec) ==
  IF rec.fails > 0 THEN "paused_after_failure" ELSE "breaker_open"

\* The record one conclusive result leaves behind.
AfterResult(rec, res, t) ==
  IF res.state = "up" THEN ClosedBreaker
  ELSE IF Trips(rec, res)
       THEN [fails   |-> rec.fails + 1,
             until   |-> t + NextBackoff(rec.backoff),
             backoff |-> NextBackoff(rec.backoff)]
       ELSE [rec EXCEPT !.fails = @ + 1]
=============================================================================
