---------------------------- MODULE ActiveObject ----------------------------
(***************************************************************************)
(* active_object: one thread that runs the tasks callers send to it, one   *)
(* after the other.  The queue is bounded and first-in first-out; send     *)
(* tries until it takes the task.  A task that is in the queue when the    *)
(* object is shut down is dropped.                                         *)
(***************************************************************************)
EXTENDS Integers, Sequences, FiniteSets, SequencesExt

CONSTANTS
    Callers,
    Tasks,
    QueueLimit,
    Nobody       \* no task, no thread

VARIABLES
    queue,       \* m_tasks
    done,        \* m_done
    locked,      \* whether the object's thread holds m_mutex
    worker,      \* where the object's thread is
    task,        \* the task it runs
    caller,      \* where each caller is
    sends,       \* the task that each caller tries to send
    pushed,      \* history: the tasks, in the order of their pushes
    ran          \* history: the tasks, in the order in which they were run

vars == <<queue, done, locked, worker, task, caller, sends, pushed, ran>>

Init ==
    /\ queue = <<>> /\ pushed = <<>> /\ ran = <<>>
    /\ done = FALSE
    /\ locked = FALSE
    /\ worker = "pop"
    /\ task = Nobody
    /\ caller = [c \in Callers |-> "ready"]
    /\ sends = [c \in Callers |-> Nobody]

Goto(c, l) == caller' = [caller EXCEPT ![c] = l]

Pop == queue' = Tail(queue) /\ task' = Head(queue) /\ worker' = "run"

-----------------------------------------------------------------------------
(* run *)

TryPop ==
    /\ worker = "pop"
    /\ \/ queue # <<>> /\ Pop
       \/ queue = <<>> /\ worker' = "lock" /\ UNCHANGED <<queue, task>>
    /\ UNCHANGED <<done, locked, caller, sends, pushed, ran>>

RunTask ==
    /\ worker = "run"
    /\ ran' = Append(ran, task)
    /\ task' = Nobody
    /\ worker' = "after"
    /\ UNCHANGED <<queue, done, locked, caller, sends, pushed>>

AfterTask ==
    /\ worker = "after"
    /\ worker' = IF done THEN "gone" ELSE "pop"
    /\ UNCHANGED <<queue, done, locked, task, caller, sends, pushed, ran>>

Lock ==
    /\ worker = "lock"
    /\ locked' = TRUE
    /\ worker' = "check"
    /\ UNCHANGED <<queue, done, task, caller, sends, pushed, ran>>

\* The predicate of the wait, which takes a task when there is one.
CheckWait ==
    /\ worker = "check"
    /\ \/ queue # <<>> /\ Pop /\ locked' = FALSE
       \/ /\ queue = <<>>
          /\ worker' = IF done THEN "gone" ELSE "sleep"
          /\ locked' = ~done
          /\ UNCHANGED <<queue, task>>
    /\ UNCHANGED <<done, caller, sends, pushed, ran>>

Sleep ==
    /\ worker = "sleep"
    /\ locked' = FALSE
    /\ worker' = "asleep"
    /\ UNCHANGED <<queue, done, task, caller, sends, pushed, ran>>

-----------------------------------------------------------------------------
(* send and shutdown *)

Send(c, x) ==
    /\ caller[c] = "ready" /\ ~done
    /\ \A d \in Callers : sends[d] # x
    /\ ~Contains(pushed, x)
    /\ sends' = [sends EXCEPT ![c] = x]
    /\ Goto(c, "push")
    /\ UNCHANGED <<queue, done, locked, worker, task, pushed, ran>>

\* Faulty: the task is pushed at the end from which tasks are popped.
EnqueueFaulty(x) == <<x>> \o queue

Enqueue(x) == Append(queue, x)

\* The try_push that succeeds.
Push(c) ==
    /\ caller[c] = "push" /\ Len(queue) < QueueLimit
    /\ queue' = Enqueue(sends[c])
    /\ pushed' = Append(pushed, sends[c])
    /\ sends' = [sends EXCEPT ![c] = Nobody]
    /\ Goto(c, "notify")
    /\ UNCHANGED <<done, locked, worker, task, ran>>

\* Faulty: the notification does not wait for the mutex.
MayNotifyFaulty(c) == caller[c] \in {"notify", "shutdown"}

MayNotify(c) == caller[c] \in {"notify", "shutdown"} /\ ~locked

\* notify_one under the mutex, by send and by shutdown.
Notify(c) ==
    /\ MayNotify(c)
    /\ Goto(c, IF caller[c] = "notify" THEN "ready" ELSE "join")
    /\ worker' = IF worker = "asleep" THEN "lock" ELSE worker
    /\ UNCHANGED <<queue, done, locked, task, sends, pushed, ran>>

\* The destructor, while no other call is under way.
Shutdown(c) ==
    /\ \A d \in Callers : caller[d] = "ready"
    /\ ~done
    /\ done' = TRUE
    /\ Goto(c, "shutdown")
    /\ UNCHANGED <<queue, locked, worker, task, sends, pushed, ran>>

Join(c) ==
    /\ caller[c] = "join" /\ worker = "gone"
    /\ Goto(c, "destroyed")
    /\ UNCHANGED <<queue, done, locked, worker, task, sends, pushed, ran>>

-----------------------------------------------------------------------------
Work == TryPop \/ RunTask \/ AfterTask \/ Lock \/ CheckWait \/ Sleep

Finish(c) == Push(c) \/ Notify(c) \/ Join(c)

Next ==
    \/ Work
    \/ \E c \in Callers : (\E x \in Tasks : Send(c, x)) \/ Finish(c) \/ Shutdown(c)

Spec == Init /\ [][Next]_vars

-----------------------------------------------------------------------------
(* Properties. *)

\* The type of every variable.
TypeOK ==
    /\ {queue, pushed, ran} \subseteq Seq(Tasks)
    /\ Len(queue) <= QueueLimit
    /\ done \in BOOLEAN /\ locked \in BOOLEAN
    /\ worker \in {"pop", "run", "after", "lock", "check", "sleep", "asleep", "gone"}
    /\ task \in Tasks \cup {Nobody}
    /\ caller \in [Callers -> {"ready", "push", "notify", "shutdown", "join", "destroyed"}]
    /\ sends \in [Callers -> Tasks \cup {Nobody}]

\* The tasks are run in the order in which they were pushed, without gaps,
\* and those that were not run are the last ones.
ActiveRunsInOrder ==
    LET held == IF task = Nobody THEN <<>> ELSE <<task>>
    IN  pushed = ran \o held \o queue

\* A task in the queue is run unless the object is shut down, although its
\* thread decides to sleep and callers push without the mutex.
ActiveRunsAll == \A x \in Tasks : Contains(pushed, x) ~> Contains(ran, x) \/ done

\* shutdown returns, whatever the thread was doing when it began.
ShutdownEnds == done ~> \E c \in Callers : caller[c] = "destroyed"
=============================================================================
