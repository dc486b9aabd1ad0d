----------------------------- MODULE ThreadPool -----------------------------
(***************************************************************************)
(* thread_pool: worker threads that take tasks from one queue, spin for a  *)
(* while when it is empty and then sleep on a condition variable; callers  *)
(* that send tasks and help to run them while they wait (wait_for, which   *)
(* ends parallel_for and parallel_apply); the destructor.                  *)
(*                                                                         *)
(* A task is sent once.  The queue may hand out its tasks in any order     *)
(* (its type is a parameter of the class).  The worker's count of spins is *)
(* left out: it gives up spinning at any time.                             *)
(***************************************************************************)
EXTENDS Integers, FiniteSets

CONSTANTS
    Workers,
    Callers,
    Owner,       \* the caller that destroys the pool
    Tasks,
    QueueLimit,  \* how many tasks a bounded queue holds
    Nobody       \* no task, no thread

VARIABLES
    queue,       \* m_tasks
    done,        \* m_done
    stop,        \* m_stopThread
    nThreads,    \* m_nThreads
    mutex,       \* the thread that holds m_mutex
    pc,          \* where each thread is
    task,        \* the task that each thread runs
    sent,        \* the tasks that each caller has sent
    runs         \* history: how often each task was run

vars == <<queue, done, stop, nThreads, mutex, pc, task, sent, runs>>

Threads == Workers \cup Callers

\* The state after the constructor, which waits for all workers to start.
Init ==
    /\ queue = {}
    /\ done = FALSE
    /\ stop = [w \in Workers |-> FALSE]
    /\ nThreads = Cardinality(Workers)
    /\ mutex = Nobody
    /\ pc = [t \in Threads |-> IF t \in Workers THEN "pop" ELSE "ready"]
    /\ task = [t \in Threads |-> Nobody]
    /\ sent = [c \in Callers |-> {}]
    /\ runs = [x \in Tasks |-> 0]

Goto(t, l) == pc' = [pc EXCEPT ![t] = l]

\* Faulty: the task is copied out and stays in the queue.
PopFaulty(t) ==
    \E x \in queue : task' = [task EXCEPT ![t] = x] /\ Goto(t, "run") /\ UNCHANGED queue

\* try_pop takes a task, and the thread goes on to run it.
Pop(t) ==
    \E x \in queue :
       /\ queue' = queue \ {x}
       /\ task' = [task EXCEPT ![t] = x]
       /\ Goto(t, "run")

Run(t, x) == runs' = [runs EXCEPT ![x] = @ + 1]

-----------------------------------------------------------------------------
(* worker_thread *)

TryPop(w) ==
    /\ pc[w] = "pop"
    /\ IF queue # {} THEN Pop(w) ELSE Goto(w, "idle") /\ UNCHANGED <<queue, task>>
    /\ UNCHANGED <<done, stop, nThreads, mutex, sent, runs>>

RunTask(w) ==
    /\ pc[w] = "run"
    /\ Run(w, task[w])
    /\ task' = [task EXCEPT ![w] = Nobody]
    /\ Goto(w, IF w \in Workers THEN "after" ELSE "wait_for")
    /\ UNCHANGED <<queue, done, stop, nThreads, mutex, sent>>

\* After a task, and after each spin, the worker looks at its stop flag.
CheckStop(w) ==
    /\ pc[w] \in {"after", "idle"}
    /\ Goto(w, IF stop[w] THEN "exit" ELSE "pop")
    /\ UNCHANGED <<queue, done, stop, nThreads, mutex, task, sent, runs>>

\* Faulty: the worker sleeps once before it evaluates the predicate.
BeginWaitFaulty(w) == IF pc[w] = "idle" THEN "sleep" ELSE "check"

BeginWait(w) == "check"

\* The last spin, or a notification: the worker takes the mutex.
LockWait(w) ==
    /\ pc[w] \in {"idle", "woken"} /\ mutex = Nobody
    /\ mutex' = w
    /\ Goto(w, BeginWait(w))
    /\ UNCHANGED <<queue, done, stop, nThreads, task, sent, runs>>

\* Faulty: the predicate of the wait leaves out the end of the pool.
EndsFaulty(w) == FALSE

Ends(w) == stop[w] \/ done

\* The predicate of the wait, which takes a task when there is one.
CheckWait(w) ==
    /\ pc[w] = "check"
    /\ \/ queue # {} /\ Pop(w) /\ mutex' = Nobody
       \/ /\ queue = {}
          /\ Goto(w, IF Ends(w) THEN "exit" ELSE "sleep")
          /\ mutex' = IF Ends(w) THEN Nobody ELSE w
          /\ UNCHANGED <<queue, task>>
    /\ UNCHANGED <<done, stop, nThreads, sent, runs>>

Sleep(w) ==
    /\ pc[w] = "sleep"
    /\ mutex' = Nobody
    /\ Goto(w, "asleep")
    /\ UNCHANGED <<queue, done, stop, nThreads, task, sent, runs>>

\* The guard of the worker's scope counts it out before it is done with the pool.
Exit(w) ==
    /\ pc[w] = "exit"
    /\ nThreads' = nThreads - 1
    /\ Goto(w, "leaving")
    /\ UNCHANGED <<queue, done, stop, mutex, task, sent, runs>>

\* m_active and m_onThreadStop
Leave(w) ==
    /\ pc[w] = "leaving"
    /\ Goto(w, "gone")
    /\ UNCHANGED <<queue, done, stop, nThreads, mutex, task, sent, runs>>

-----------------------------------------------------------------------------
(* Callers: send, send_no_future and wait_for. *)

\* A task that the queue does not take is run by the caller.
Send(c, x) ==
    /\ pc[c] = "ready" /\ ~done
    /\ \A d \in Callers : x \notin sent[d]
    /\ sent' = [sent EXCEPT ![c] = @ \cup {x}]
    /\ IF Cardinality(queue) < QueueLimit
         THEN queue' = queue \cup {x} /\ Goto(c, "notify") /\ UNCHANGED runs
         ELSE Run(c, x) /\ UNCHANGED <<queue, pc>>
    /\ UNCHANGED <<done, stop, nThreads, mutex, task>>

Asleep == {w \in Workers : pc[w] = "asleep"}

\* notify_one under the mutex.
Notify(c) ==
    /\ pc[c] = "notify" /\ mutex = Nobody
    /\ \/ /\ Asleep = {}
          /\ Goto(c, "ready")
       \/ \E w \in Asleep : pc' = [pc EXCEPT ![c] = "ready", ![w] = "woken"]
    /\ UNCHANGED <<queue, done, stop, nThreads, mutex, task, sent, runs>>

\* parallel_for and parallel_apply wait for the tasks that they have sent.
WaitFor(c) ==
    /\ pc[c] = "ready" /\ ~done /\ sent[c] # {}
    /\ Goto(c, "wait_for")
    /\ UNCHANGED <<queue, done, stop, nThreads, mutex, task, sent, runs>>

\* Faulty: the count is compared before all jobs are counted.
ConsumedFaulty(c) == \E x \in sent[c] : runs[x] > 0

Consumed(c) == \A x \in sent[c] : runs[x] > 0

\* The loop of wait_for: the caller helps until the predicate holds.
HelpOrReturn(c) ==
    /\ pc[c] = "wait_for"
    /\ \/ Consumed(c) /\ Goto(c, "ready") /\ UNCHANGED <<queue, task>>
       \/ ~Consumed(c) /\ Pop(c)
    /\ UNCHANGED <<done, stop, nThreads, mutex, sent, runs>>

-----------------------------------------------------------------------------
(* The destructor.  No other call is under way. *)

SetDone ==
    /\ \A c \in Callers : pc[c] = "ready"
    /\ ~done
    /\ done' = TRUE
    /\ Goto(Owner, "stop")
    /\ UNCHANGED <<queue, stop, nThreads, mutex, task, sent, runs>>

SetStop(w) ==
    /\ pc[Owner] = "stop" /\ ~stop[w]
    /\ stop' = [stop EXCEPT ![w] = TRUE]
    /\ UNCHANGED <<queue, done, nThreads, mutex, pc, task, sent, runs>>

\* while (number_threads()): notify_all under the mutex.
Drain ==
    /\ pc[Owner] = "stop" /\ (\A w \in Workers : stop[w])
    /\ \/ nThreads = 0 /\ Goto(Owner, "join")
       \/ /\ nThreads # 0 /\ mutex = Nobody
          /\ pc' = [t \in Threads |-> IF t \in Asleep THEN "woken" ELSE pc[t]]
    /\ UNCHANGED <<queue, done, stop, nThreads, mutex, task, sent, runs>>

\* Faulty: the threads are detached.
MayJoinFaulty == pc[Owner] = "join"

\* Every thread is joined (detached only in builds with MSVC).
MayJoin == pc[Owner] = "join" /\ \A w \in Workers : pc[w] = "gone"

Join ==
    /\ MayJoin
    /\ Goto(Owner, "destroyed")
    /\ UNCHANGED <<queue, done, stop, nThreads, mutex, task, sent, runs>>

-----------------------------------------------------------------------------
Work(w) ==
    \/ TryPop(w) \/ RunTask(w) \/ CheckStop(w) \/ LockWait(w) \/ CheckWait(w)
    \/ Sleep(w) \/ Exit(w) \/ Leave(w)

Call(c) == (\E x \in Tasks : Send(c, x)) \/ WaitFor(c)

\* What a call that has begun goes on to do.
Finish(c) == Notify(c) \/ HelpOrReturn(c) \/ RunTask(c)

Destroy == (\E w \in Workers : SetStop(w)) \/ Drain \/ Join

Next ==
    \/ \E w \in Workers : Work(w)
    \/ \E c \in Callers : Call(c) \/ Finish(c)
    \/ SetDone \/ Destroy

Spec == Init /\ [][Next]_vars

-----------------------------------------------------------------------------
(* Properties. *)

\* The type of every variable.
TypeOK ==
    /\ queue \subseteq Tasks
    /\ done \in BOOLEAN /\ stop \in [Workers -> BOOLEAN]
    /\ nThreads \in 0 .. Cardinality(Workers)
    /\ mutex \in Workers \cup {Nobody}
    /\ task \in [Threads -> Tasks \cup {Nobody}]
    /\ sent \in [Callers -> SUBSET Tasks]
    /\ runs \in [Tasks -> 0 .. 1]

\* A task that was sent is in the queue, with one thread, or has been run, and
\* only one of these: none is lost or run twice until the pool is gone.
PoolConserves ==
    \A x \in Tasks :
       Cardinality({t \in Threads : task[t] = x}) + runs[x] + (IF x \in queue THEN 1 ELSE 0)
         = IF \E c \in Callers : x \in sent[c] THEN 1 ELSE 0

\* When the destructor returns, no worker uses the pool any more.
NoUseAfterDestroy == pc[Owner] = "destroyed" => \A w \in Workers : pc[w] = "gone"

\* wait_for returns only after every task of its caller has been run to its end.
WaitForCovers ==
    [][\A c \in Callers : pc[c] = "wait_for" /\ pc'[c] = "ready" =>
         \A x \in sent[c] : runs[x] = 1]_vars

\* A task in the queue is taken and run, however the workers fall asleep,
\* unless the pool is destroyed.
SentTasksRun == \A x \in Tasks : x \in queue ~> runs[x] = 1 \/ done

\* The destructor returns, whatever the workers were doing when it began.
DestructorEnds == done ~> pc[Owner] = "destroyed"
=============================================================================
