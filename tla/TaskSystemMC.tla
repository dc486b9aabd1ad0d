--------------------------- MODULE TaskSystemMC ---------------------------
(* Instances of TaskSystem for TLC. *)
EXTENDS TaskSystem, TLC

CONSTANTS c1, w1, w2, a, b, j, k, n

Call(f, t) == [op |-> f, task |-> t]

\* A client submits a and b, k after a, and j after all three; it drops a
\* and k, waits for j and then, twice, for b.  The body of k submits n and
\* waits for it inside the pool.
ForkJoin ==
    (c1 :> << Call("submit", a), Call("submit", b), Call("submit_after", k),
              Call("submit_after", j), Call("drop", a), Call("wait", j),
              Call("drop", k), Call("wait", b), Call("wait", b), Call("drop", b) >>)
    @@ (k :> << Call("submit", n), Call("wait", n) >>)
    @@ [t \in {a, b, j, n} |-> <<>>]

ForkJoinAfter ==
    (k :> <<a>>) @@ (j :> <<a, b, k>>) @@ [t \in {a, b, n} |-> <<>>]

\* The client passes its own handles and lets go of them all: what the
\* refinement and the absence of leaks are proved from.
ASSUME ForkJoinHandles == OwnHandles /\ HandlesReleased
=============================================================================
