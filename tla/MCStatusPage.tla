----------------------------- MODULE MCStatusPage ----------------------------
(* One service of two checks; an hour of two units, a day of two hours.    *)
EXTENDS StatusPage, TLC

CONSTANTS site, login, service

TwoChecks == {site, login}
EitherCheck == Permutations(TwoChecks)
OneRow == [s \in Service |-> TwoChecks]
Samples == {[state |-> "up", reason |-> "none"], [state |-> "down", reason |-> "none"],
            [state |-> "unknown", reason |-> "paused_after_failure"]}
=============================================================================
