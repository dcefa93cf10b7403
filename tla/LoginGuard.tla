----------------------------- MODULE LoginGuard ------------------------------
(***************************************************************************)
(* What the scheduler's guard promises the account: a run of a login       *)
(* presents credentials once at most and only while the login is not       *)
(* suspended, a suspension stands until it ends, and none reaches further  *)
(* ahead than the longest suspension.                                      *)
(***************************************************************************)
EXTENDS Integers

CONSTANTS Login, Run, LongestSuspension, Never

VARIABLES
  clock,
  until,     \* per login: the end of its last suspension, 0 before the first
  presented  \* per login and run: when it presented credentials

vars == <<clock, until, presented>>

Init ==
  /\ clock = 0
  /\ until = [k \in Login |-> 0]
  /\ presented = [k \in Login |-> [run \in Run |-> Never]]

Suspended(k) == clock < until[k]

Tick == clock' = clock + 1 /\ UNCHANGED <<until, presented>>

Present(k, run) ==
  /\ ~Suspended(k)
  /\ presented[k][run] = Never
  /\ presented' = [presented EXCEPT ![k][run] = clock]
  /\ UNCHANGED <<clock, until>>

\* A run's verdict suspends the login, or frees it, or leaves it as it is.
Conclude(k) ==
  /\ ~Suspended(k)
  /\ \E end \in 0 .. clock + LongestSuspension : until' = [until EXCEPT ![k] = end]
  /\ UNCHANGED <<clock, presented>>

Next ==
  \/ Tick
  \/ \E k \in Login : Conclude(k) \/ \E run \in Run : Present(k, run)

Spec == Init /\ [][Next]_vars
=============================================================================
