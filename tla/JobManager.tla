----------------------------- MODULE JobManager -----------------------------
(***************************************************************************)
(* job_manager and the job_tracker it is built on: jobs have names, and    *)
(* one that is found started is not invoked again; a job that is invoked   *)
(* after others waits until they are finished.  One thread takes the tasks *)
(* from a queue and hands the ready ones to their executor; the executor   *)
(* (external) runs what it was given at any time, several at once and in   *)
(* any order.                                                              *)
(***************************************************************************)
EXTENDS Integers, Sequences, FiniteSets, SequencesExt

CONSTANTS
    Keys,          \* the names of jobs
    Deps,          \* the dependencies with which a job is invoked
    Callers,
    MaxInvokes,    \* bound: the calls of invoke and invoke_after
    Nobody         \* no job

VARIABLES
    state,         \* the state of each job; "none" when it is not in the map
    queue,         \* m_tasks: the jobs of the tasks
    internalQ,     \* m_internalQ
    at,            \* i, while the manager goes through m_internalQ
    manager,       \* where the manager's thread is
    task,          \* the task it has popped
    done,          \* m_done
    caller,        \* where each caller is
    wants,         \* the job that each caller invokes
    submitted,     \* how many tasks of a job the executor has not begun
    running,       \* how many it runs
    completed,     \* history: how often a job's function returned
    invokes        \* how many jobs were invoked

vars == <<state, queue, internalQ, at, manager, task, done, caller, wants, submitted,
          running, completed, invokes>>

Init ==
    /\ state = [k \in Keys |-> "none"]
    /\ queue = <<>> /\ internalQ = <<>> /\ at = 1
    /\ manager = "pop"
    /\ task = Nobody
    /\ done = FALSE
    /\ caller = [c \in Callers |-> "ready"]
    /\ wants = [c \in Callers |-> Nobody]
    /\ submitted = [k \in Keys |-> 0] /\ running = [k \in Keys |-> 0]
    /\ completed = [k \in Keys |-> 0]
    /\ invokes = 0

Goto(c, l) == caller' = [caller EXCEPT ![c] = l]

Is(k, s) == state[k] = s

-----------------------------------------------------------------------------
(* invoke and invoke_after *)

\* get_job puts a job into the map if there is none; one that has started is
\* returned as it is.
Invoke(c, k) ==
    /\ caller[c] = "ready" /\ ~done /\ invokes < MaxInvokes
    /\ invokes' = invokes + 1
    /\ state' = [state EXCEPT ![k] = IF @ = "none" THEN "NotStarted" ELSE @]
    /\ IF state[k] \in {"none", "NotStarted"}
         THEN Goto(c, "push") /\ wants' = [wants EXCEPT ![c] = k]
         ELSE UNCHANGED <<caller, wants>>
    /\ UNCHANGED <<queue, internalQ, at, manager, task, done, submitted, running, completed>>

Push(c) ==
    /\ caller[c] = "push"
    /\ queue' = Append(queue, wants[c])
    /\ wants' = [wants EXCEPT ![c] = Nobody]
    /\ Goto(c, "notify")
    /\ UNCHANGED <<state, internalQ, at, manager, task, done, submitted, running, completed, invokes>>

\* notify_one, without the mutex: it wakes the manager only if it sleeps.
Notify(c) ==
    /\ caller[c] \in {"notify", "shutdown"}
    /\ Goto(c, IF caller[c] = "notify" THEN "ready" ELSE "join")
    /\ manager' = IF manager = "asleep" THEN "wait" ELSE manager
    /\ UNCHANGED <<state, queue, internalQ, at, task, done, wants, submitted, running, completed, invokes>>

\* erase_job of a job that is over and that no task refers to.
EraseJob(k) ==
    /\ state[k] \in {"Finished", "Aborted"}
    /\ submitted[k] + running[k] = 0 /\ task # k
    /\ ~Contains(queue \o internalQ, k)
    /\ \A c \in Callers : wants[c] # k
    /\ state' = [state EXCEPT ![k] = "none"]
    /\ UNCHANGED <<queue, internalQ, at, manager, task, done, caller, wants, submitted,
                   running, completed, invokes>>

-----------------------------------------------------------------------------
(* run, the manager's thread *)

\* Faulty: a dependency that has started is enough.
ReadyFaulty(k) == \A d \in Deps[k] : state[d] \in {"Running", "Finished"}

\* The predicate of invoke_after: is_finished of every dependency.
Ready(k) == \A d \in Deps[k] : Is(d, "Finished")

\* invoke_job gives the job's function to the executor.
Submit(k) == submitted' = [submitted EXCEPT ![k] = @ + 1]

TryPop ==
    /\ manager = "pop"
    /\ manager' = IF queue = <<>> THEN "scan" ELSE "popped"
    /\ IF queue = <<>> THEN UNCHANGED <<queue, task>>
                       ELSE queue' = Tail(queue) /\ task' = Head(queue)
    /\ at' = 1
    /\ UNCHANGED <<state, internalQ, done, caller, wants, submitted, running, completed, invokes>>

\* Faulty: a task that is not ready is forgotten.
PutAsideFaulty(k) == internalQ

PutAside(k) == Append(internalQ, k)

\* The task that was popped is executed or put aside.
Dispatch ==
    /\ manager = "popped"
    /\ IF Ready(task) THEN Submit(task) /\ UNCHANGED internalQ
                      ELSE internalQ' = PutAside(task) /\ UNCHANGED submitted
    /\ manager' = "scan"
    /\ task' = Nobody
    /\ UNCHANGED <<state, queue, at, done, caller, wants, running, completed, invokes>>

\* The loop over the tasks that wait.
Scan ==
    /\ manager = "scan" /\ at <= Len(internalQ)
    /\ IF Ready(internalQ[at])
         THEN /\ Submit(internalQ[at])
              /\ internalQ' = RemoveAt(internalQ, at)
              /\ UNCHANGED at
         ELSE at' = at + 1 /\ UNCHANGED <<internalQ, submitted>>
    /\ UNCHANGED <<state, queue, manager, task, done, caller, wants, running, completed, invokes>>

\* The manager sleeps only when no task waits for another job.
EndScan ==
    /\ manager = "scan" /\ at > Len(internalQ)
    /\ manager' = IF internalQ = <<>> THEN "wait" ELSE "end"
    /\ UNCHANGED <<state, queue, internalQ, at, task, done, caller, wants, submitted, running,
                   completed, invokes>>

\* The predicate of the wait; nobody else takes the mutex.
CheckWait ==
    /\ manager = "wait"
    /\ manager' = IF queue # <<>> \/ done THEN "end" ELSE "sleep"
    /\ UNCHANGED <<state, queue, internalQ, at, task, done, caller, wants, submitted, running,
                   completed, invokes>>

Sleep ==
    /\ manager = "sleep"
    /\ manager' = "asleep"
    /\ UNCHANGED <<state, queue, internalQ, at, task, done, caller, wants, submitted, running,
                   completed, invokes>>

\* Faulty: the wait has no time limit.
ExpiresFaulty == FALSE

\* wait_for gives up after m_waitTime.
Expires == manager = "asleep"

Timeout ==
    /\ Expires
    /\ manager' = "end"
    /\ UNCHANGED <<state, queue, internalQ, at, task, done, caller, wants, submitted, running,
                   completed, invokes>>

CheckDone ==
    /\ manager = "end"
    /\ manager' = IF done THEN "gone" ELSE "pop"
    /\ UNCHANGED <<state, queue, internalQ, at, task, done, caller, wants, submitted, running,
                   completed, invokes>>

-----------------------------------------------------------------------------
(* The executor, and the destructor. *)

\* set<Running> has an effect only on a job that has not started.
Begin(k) ==
    /\ submitted[k] > 0
    /\ submitted' = [submitted EXCEPT ![k] = @ - 1]
    /\ running' = [running EXCEPT ![k] = @ + 1]
    /\ state' = [state EXCEPT ![k] = IF @ = "NotStarted" THEN "Running" ELSE @]
    /\ UNCHANGED <<queue, internalQ, at, manager, task, done, caller, wants, completed, invokes>>

\* The function returns or throws; a job that is over stays as it is.
End(k, how) ==
    /\ running[k] > 0
    /\ running' = [running EXCEPT ![k] = @ - 1]
    /\ completed' = [completed EXCEPT ![k] = IF how = "Finished" THEN @ + 1 ELSE @]
    /\ state' = [state EXCEPT ![k] = IF @ = "Running" THEN how ELSE @]
    /\ UNCHANGED <<queue, internalQ, at, manager, task, done, caller, wants, submitted, invokes>>

\* The destructor, while no call is under way.
Shutdown(c) ==
    /\ \A d \in Callers : caller[d] = "ready"
    /\ ~done
    /\ done' = TRUE
    /\ Goto(c, "shutdown")
    /\ UNCHANGED <<state, queue, internalQ, at, manager, task, wants, submitted, running,
                   completed, invokes>>

Join(c) ==
    /\ caller[c] = "join" /\ manager = "gone"
    /\ Goto(c, "destroyed")
    /\ UNCHANGED <<state, queue, internalQ, at, manager, task, done, wants, submitted, running,
                   completed, invokes>>

-----------------------------------------------------------------------------
Manage ==
    TryPop \/ Dispatch \/ Scan \/ EndScan \/ CheckWait \/ Sleep \/ Timeout \/ CheckDone

Finish(c) == Push(c) \/ Notify(c) \/ Join(c)

Execute(k) == Begin(k) \/ \E how \in {"Finished", "Aborted"} : End(k, how)

Next ==
    \/ Manage
    \/ \E c \in Callers : (\E k \in Keys : Invoke(c, k)) \/ Finish(c) \/ Shutdown(c)
    \/ \E k \in Keys : EraseJob(k) \/ Execute(k)

Spec == Init /\ [][Next]_vars

-----------------------------------------------------------------------------
(* Properties. *)

\* The type of every variable.
TypeOK ==
    /\ state \in [Keys -> {"none", "NotStarted", "Running", "Finished", "Aborted"}]
    /\ {queue, internalQ} \subseteq Seq(Keys)
    /\ at \in 1 .. Len(internalQ) + 1
    /\ task \in Keys \cup {Nobody}
    /\ {submitted, running, completed} \subseteq [Keys -> Nat]

\* A job that is in the map as finished has run to its end, and a job's
\* function is only called when the function of each of its dependencies has.
DependenciesFirst ==
    \A k \in Keys :
       /\ Is(k, "Finished") => completed[k] > 0
       /\ submitted[k] + running[k] > 0 => \A d \in Deps[k] : completed[d] > 0

\* Is job k in a task that the manager has not yet given to the executor?
Waits(k) == Contains(queue \o internalQ, k) \/ task = k

\* A job whose dependencies are finished is given to its executor, although a
\* notification may come just before the manager goes to sleep.
ReadyJobsRun ==
    \A k \in Keys : Waits(k) /\ Ready(k) ~> ~Waits(k) \/ ~Ready(k) \/ done

\* A task stays until its job is given to the executor: none is dropped while
\* the manager erases others.
TasksKept ==
    [][\A k \in Keys : Waits(k) /\ ~Waits(k)' => submitted'[k] > submitted[k]]_vars

\* The destructor returns also when tasks wait for jobs that never finish.
ManagerEnds == done ~> \E c \in Callers : caller[c] = "destroyed"

\* invoke_job asserts that the job it is about to start has not started.
AssertNotStarted ==
    [][\A k \in Keys : submitted'[k] > submitted[k] => state[k] = "NotStarted"]_vars
=============================================================================
