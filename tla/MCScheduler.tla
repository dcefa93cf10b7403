---------------------------- MODULE MCScheduler -----------------------------
(* Small instances of Scheduler: one login behind its page, or two.        *)
EXTENDS Scheduler, TLC

CONSTANTS page, login, coursesPage, coursesLogin

OneService == {page, login}
TwoServices == {page, login, coursesPage, coursesLogin}
MCGateOf == [k \in Guarded |-> IF k = login THEN page ELSE coursesPage]
EveryUnit == [j \in Job |-> 1]
QuietPage == [j \in Job |-> IF j \in Guarded THEN 1 ELSE 9]
EveryFourth == [j \in Job |-> IF j \in Guarded THEN 4 ELSE 9]
EveryOther == [j \in Job |-> 2]
=============================================================================
