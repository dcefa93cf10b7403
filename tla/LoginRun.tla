------------------------------ MODULE LoginRun -------------------------------
(***************************************************************************)
(* What the scheduler relies on when it lets one probe of a sign-in chain  *)
(* run: credentials are handed over at most once and only by a login       *)
(* probe, a login is up only after they were, and a verdict comes.         *)
(***************************************************************************)
EXTENDS Naturals

VARIABLES
  login,      \* whether this is a login probe or the probe of its page
  stage,      \* probe -> submitted -> answered
  presented,  \* times the login form was submitted
  verdict     \* the state the run is recorded with

vars == <<login, stage, presented, verdict>>

Init == login \in BOOLEAN /\ stage = "probe" /\ presented = 0 /\ verdict = "none"

Submit ==
  /\ login /\ stage = "probe"
  /\ stage' = "submitted" /\ presented' = presented + 1
  /\ UNCHANGED <<login, verdict>>

Conclude ==
  /\ stage # "answered"
  /\ stage' = "answered"
  /\ verdict' \in {"up", "down", "unknown"}
  /\ verdict' = "up" /\ login => stage = "submitted"
  /\ verdict' = "unknown" => stage = "probe"
  /\ UNCHANGED <<login, presented>>

Next == Submit \/ Conclude

SafeSpec == Init /\ [][Next]_vars
Spec == SafeSpec /\ WF_vars(Conclude)
=============================================================================
