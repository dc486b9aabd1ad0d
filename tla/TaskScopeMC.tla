---------------------------- MODULE TaskScopeMC ----------------------------
(* Instances of TaskScope for TLC. *)
EXTENDS TaskScope, TLC

CONSTANTS f1, f2, f3, f4

\* f1 starts f3, which starts f4.
Nested == (f1 :> {f3}) @@ (f3 :> {f4}) @@ [f \in Fns |-> {}]
=============================================================================
