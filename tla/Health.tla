------------------------------- MODULE Health --------------------------------
(***************************************************************************)
(* The health vocabulary and how the states of a service's checks collapse *)
(* into the one state of its row.                                          *)
(***************************************************************************)
EXTENDS Integers

State == {"up", "degraded", "down", "unknown", "retired"}

\* (mutant)
PauseIsNeutral(s, r) == s

\* What a check contributes to its row: a sign-in check suspended after a
\* failure still counts as that failure.
RollupState(s, r) ==
  IF s = "unknown" /\ r = "paused_after_failure" THEN "down" ELSE s

\* The code counts ups and downs among the checks that are neither retired
\* nor unknown; only whether all of them agree matters, so the set is enough.
DeriveServiceState(states) ==
  LET live  == states \ {"retired"}
      known == live \ {"unknown"}
  IN  IF states = {}        THEN "unknown"
      ELSE IF live = {}     THEN "retired"
      ELSE IF known = {}    THEN "unknown"
      ELSE IF known \in {{"up"}, {"down"}} THEN CHOOSE s \in known : TRUE
      ELSE "degraded"
=============================================================================
