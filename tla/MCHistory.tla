------------------------------ MODULE MCHistory ------------------------------
(* A small calendar: an hour of two units, a day of two hours.             *)
EXTENDS History

CONSTANTS check

UpOnly == {[state |-> "up", reason |-> "none"]}
UpOrDown == [state : {"up", "down"}, reason : {"none"}]
=============================================================================
