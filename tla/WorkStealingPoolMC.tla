------------------------ MODULE WorkStealingPoolMC ------------------------
(***************************************************************************)
(* Instances of WorkStealingPool for TLC.  Workers are 1..NThreads, so the *)
(* clients are given as model values.                                      *)
(***************************************************************************)
EXTENDS WorkStealingPool, TLC

CONSTANTS t1, t2, t3, c1, c2

\* No task sends a task.
Flat == [x \in Tasks |-> {}]

\* t1 sends t2 (and t3, where there is one).
Nested == [x \in Tasks |-> IF x = t1 THEN Tasks \ {t1} ELSE {}]

\* t1 sends t2, which sends t3.
Chain == (t1 :> {t2}) @@ (t2 :> {t3}) @@ (t3 :> {})
=============================================================================
