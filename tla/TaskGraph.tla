----------------------------- MODULE TaskGraph -----------------------------
(***************************************************************************)
(* What stk::thread::task_system promises of a graph of tasks, without the *)
(* counters, locks and queues it keeps the promise with: a task starts     *)
(* after the tasks that it was submitted after have finished, it runs      *)
(* once, and its memory goes back to the pool after it has finished.       *)
(***************************************************************************)
EXTENDS Sequences

CONSTANTS
    Tasks,     \* the tasks
    After      \* After[t]: the tasks whose handles submit_after was given for t

VARIABLE status   \* how far each task has come

Statuses == {"unmade", "submitted", "running", "finished", "reclaimed"}

Finished(t) == status[t] \in {"finished", "reclaimed"}

Step(t, from, to) ==
    /\ status[t] = from
    /\ status' = [status EXCEPT ![t] = to]

Init == status = [t \in Tasks |-> "unmade"]

\* A task is submitted after tasks that exist.
Submit(t) ==
    /\ \A i \in DOMAIN After[t] : status[After[t][i]] # "unmade"
    /\ Step(t, "unmade", "submitted")

Start(t) ==
    /\ \A i \in DOMAIN After[t] : Finished(After[t][i])
    /\ Step(t, "submitted", "running")

Finish(t) == Step(t, "running", "finished")

Reclaim(t) == Step(t, "finished", "reclaimed")

Next == \E t \in Tasks : Submit(t) \/ Start(t) \/ Finish(t) \/ Reclaim(t)

Spec == Init /\ [][Next]_status
=============================================================================
