------------------------- MODULE WorkStealingPool -------------------------
(***************************************************************************)
(* stk::thread::work_stealing_thread_pool: NThreads workers, one queue per *)
(* worker and one shared queue (index 0), a striped counter of outstanding *)
(* tasks, and two policies for parking an idle worker: a mutex with a      *)
(* condition variable ("cv", the default) and an epoch word on which the   *)
(* worker sleeps with WaitOnAddress ("epoch").                             *)
(*                                                                         *)
(* Every step is one atomic access of shared state.  A queue operation     *)
(* (try_push, try_pop, try_steal) is one step: locked_queue runs it under  *)
(* its own mutex.  Memory is sequentially consistent.  The round robin of  *)
(* try_steal, which starts at lastStolenIndex, is abstracted to any order  *)
(* that visits every local queue once.  Local variables of the code go     *)
(* back to a fixed value when they go out of scope.                        *)
(***************************************************************************)
EXTENDS Integers, Sequences, FiniteSets

CONSTANTS
    NThreads,    \* number of worker threads, m_threads.size()
    Clients,     \* threads outside the pool; they all have thread id 0
    Uses,        \* the calls that the clients make
    Tasks,       \* the tasks; each is sent at most once
    NoTask,      \* not a task
    Spawns,      \* Spawns[x]: the tasks that the body of x sends
    Joins,       \* tasks whose body waits for the tasks it sent (wait_or_work)
    QCap,        \* capacity of a queue (1024 in the code)
    SpinLimit,   \* idle iterations before a worker parks (100 in the code)
    WaitPolicy   \* "cv" or "epoch"

Workers == 1 .. NThreads
Queues  == 0 .. NThreads
Threads == Workers \cup Clients

ASSUME PoolAssumption ==
    /\ NThreads \in Nat \ {0}
    /\ Clients \cap Workers = {}
    /\ Uses \subseteq {"send", "parallel_for", "wait_or_work",
                       "wait_for_all_tasks", "do_work", "destroy"}
    /\ NoTask \notin Tasks
    /\ Spawns \in [Tasks -> SUBSET Tasks]
    /\ Joins \subseteq Tasks
    /\ QCap \in Nat \ {0}
    /\ SpinLimit \in Nat \ {0}
    /\ WaitPolicy \in {"cv", "epoch"}

\* A task object is sent from one place: no two bodies send the same task.
ASSUME TaskAssumption ==
    /\ IsFiniteSet(Tasks)
    /\ \A x, y \in Tasks : x # y => Spawns[x] \cap Spawns[y] = {}

\* Tasks that only clients send.
Roots == {x \in Tasks : \A y \in Tasks : x \notin Spawns[y]}

VARIABLES
    queue,     \* queue[0] is m_poolQ, queue[i] is m_localQs[i-1]
    count,     \* m_nTasksOutstanding.m_counts, one slot per thread id
    done,      \* m_done
    stop,      \* m_stopThread, as the set of the workers told to stop
    nThreads,  \* m_nThreads
    mtx,       \* holder of wait_context::mtx, 0 when free ("cv")
    epoch,     \* wait_context::epoch ("epoch")
    pc,        \* where each thread is
    scan,      \* which part of poll() a scanning thread is in
    tried,     \* queues that the steals of the scan in progress found empty
    spin,      \* spincount of each worker
    expected,  \* the epoch captured by each worker before it sleeps
    stack,     \* tasks being executed by each thread, innermost last
    todo,      \* tasks that the body of a task has not sent yet
    cur,       \* the task that a thread is sending
    dst,       \* the queue it is sending to
    ret,       \* the call a client is in
    batch,     \* tasks that parallel_for has not sent yet
    njobs,     \* tasks that parallel_for has sent
    fut,       \* futures that wait_or_work has not seen ready
    slot,      \* loop index of count() and set_done()
    acc,       \* partial sum of count()
    sent,      \* history: tasks whose send has counted them
    executed   \* history: how often each task has run

sharedVars == <<queue, count, done, stop, nThreads, mtx, epoch>>
scanVars   == <<scan, tried>>
workerVars == <<spin, expected>>
taskVars   == <<stack, todo, cur, dst>>
clientVars == <<ret, batch, njobs, fut, slot, acc>>
histVars   == <<sent, executed>>
vars == <<sharedVars, pc, scanVars, workerVars, taskVars, clientVars, histVars>>

WorkerPcs == {"start", "poll", "check", "idle", "wait", "pred", "chk", "block",
              "asleep", "pred1", "chk1", "capture", "pred2", "chk2", "waitaddr",
              "exit", "exited"}
RunPcs    == {"body", "sendto", "push", "notify", "wake", "dec", "help"}
Calls     == {"ready", "sum", "future", "batch"}
ClientPcs == Calls \cup {"setstop", "notifyall", "wakeall", "join", "destroyed"}

SharedTypeOK ==
    /\ queue \in [Queues -> Seq(Tasks)]
    /\ count \in [Queues -> Int]
    /\ done \in BOOLEAN
    /\ stop \in SUBSET Workers
    /\ nThreads \in Int
    /\ mtx \in Queues
    /\ epoch \in Nat

ThreadTypeOK ==
    /\ pc \in [Threads -> WorkerPcs \cup RunPcs \cup ClientPcs]
    /\ scan \in [Threads -> {"local", "pool", "steal"}]
    /\ tried \in [Threads -> SUBSET Queues]
    /\ spin \in [Workers -> Nat]
    /\ expected \in [Workers -> Nat]

TaskTypeOK ==
    /\ stack \in [Threads -> Seq(Tasks)]
    /\ todo \in [Tasks -> SUBSET Tasks]
    /\ cur \in [Threads -> Tasks \cup {NoTask}]
    /\ dst \in [Threads -> Queues]
    /\ sent \in SUBSET Tasks
    /\ executed \in [Tasks -> Nat]

ClientTypeOK ==
    /\ ret \in [Clients -> Calls]
    /\ batch \in [Clients -> SUBSET Tasks]
    /\ njobs \in [Clients -> Nat]
    /\ fut \in [Clients -> SUBSET Tasks]
    /\ slot \in [Clients -> Queues]
    /\ acc \in [Clients -> Int]

\* Type correctness of every variable.
TypeOK == SharedTypeOK /\ ThreadTypeOK /\ TaskTypeOK /\ ClientTypeOK

\* The constructor has created the threads; init() waits until all run.
Init ==
    /\ queue = [q \in Queues |-> <<>>]
    /\ count = [q \in Queues |-> 0]
    /\ done = FALSE
    /\ stop = {}
    /\ nThreads = 0
    /\ mtx = 0
    /\ epoch = 0
    /\ pc = [t \in Threads |-> IF t \in Workers THEN "start" ELSE "ready"]
    /\ scan = [t \in Threads |-> "pool"]
    /\ tried = [t \in Threads |-> {}]
    /\ spin = [w \in Workers |-> 0]
    /\ expected = [w \in Workers |-> 0]
    /\ stack = [t \in Threads |-> <<>>]
    /\ todo = Spawns
    /\ cur = [t \in Threads |-> NoTask]
    /\ dst = [t \in Threads |-> 0]
    /\ ret = [c \in Clients |-> "ready"]
    /\ batch = [c \in Clients |-> {}]
    /\ njobs = [c \in Clients |-> 0]
    /\ fut = [c \in Clients |-> {}]
    /\ slot = [c \in Clients |-> 0]
    /\ acc = [c \in Clients |-> 0]
    /\ sent = {}
    /\ executed = [x \in Tasks |-> 0]

-----------------------------------------------------------------------------
(* Looking for a task *)

\* get_thread_id(): 1..N in the pool, 0 elsewhere.
Tid(t) == IF t \in Workers THEN t ELSE 0

GoTo(t, where) == pc' = [pc EXCEPT ![t] = where]

\* Where a thread continues after a send, a finished task or a fruitless help.
Resume(t, st) ==
    IF st # <<>> THEN "body" ELSE IF t \in Workers THEN "check" ELSE ret[t]

ScanPcs == {"poll", "pred", "pred1", "pred2", "help"}

\* Enter poll(), or the part of it without the local queue that helpers run.
BeginScan(t, where) ==
    /\ GoTo(t, where)
    /\ scan' = [scan EXCEPT ![t] = IF where = "help" THEN "pool" ELSE "local"]
    /\ tried' = [tried EXCEPT ![t] = {}]

EndScan(t) ==
    /\ scan' = [scan EXCEPT ![t] = "pool"]
    /\ tried' = [tried EXCEPT ![t] = {}]

\* Faulty: a helper that found nothing does not look at its condition again.
AfterMissFaulty(t) ==
    CASE pc[t] = "poll"  -> "idle"
      [] pc[t] = "pred"  -> "chk"
      [] pc[t] = "pred1" -> "chk1"
      [] pc[t] = "pred2" -> "chk2"
      [] OTHER           -> "help"

\* Where a thread continues when the scan found nothing.
AfterMiss(t) ==
    CASE pc[t] = "poll"  -> "idle"
      [] pc[t] = "pred"  -> "chk"
      [] pc[t] = "pred1" -> "chk1"
      [] pc[t] = "pred2" -> "chk2"
      [] OTHER           -> Resume(t, stack[t])

\* The scan returned task x: run it.  The wait predicate's mutex is released.
Found(t, x) ==
    /\ GoTo(t, "body")
    /\ stack' = [stack EXCEPT ![t] = Append(@, x)]
    /\ mtx' = IF pc[t] = "pred" THEN 0 ELSE mtx
    /\ EndScan(t)
    /\ UNCHANGED <<count, done, stop, nThreads, epoch, workerVars,
                   todo, cur, dst, clientVars, histVars>>

\* pop_local_queue_task: take the oldest task of the worker's own queue.
PopLocal(t) ==
    /\ pc[t] \in ScanPcs
    /\ scan[t] = "local"
    /\ \/ /\ queue[t] # <<>>
          /\ queue' = [queue EXCEPT ![t] = Tail(@)]
          /\ Found(t, Head(queue[t]))
       \/ /\ queue[t] = <<>>
          /\ scan' = [scan EXCEPT ![t] = "pool"]
          /\ UNCHANGED <<sharedVars, pc, tried, workerVars, taskVars,
                         clientVars, histVars>>

\* Faulty: the task is read and stays in the queue.
WithoutNewestFaulty(s) == s

\* What is left when the newest task is taken.
WithoutNewest(s) == SubSeq(s, 1, Len(s) - 1)

\* One queue of pop_task_from_pool_queue and try_steal: take its newest task.
StealFrom(t, q) ==
    \/ /\ queue[q] # <<>>
       /\ queue' = [queue EXCEPT ![q] = WithoutNewest(@)]
       /\ Found(t, queue[q][Len(queue[q])])
    \/ /\ queue[q] = <<>>
       /\ IF tried[t] \cup {q} = Queues
             THEN EndScan(t) /\ GoTo(t, AfterMiss(t))
             ELSE /\ tried' = [tried EXCEPT ![t] = @ \cup {q}]
                  /\ scan' = [scan EXCEPT ![t] = "steal"]
                  /\ UNCHANGED pc
       /\ UNCHANGED <<sharedVars, workerVars, taskVars, clientVars, histVars>>

PopPool(t) ==
    /\ pc[t] \in ScanPcs
    /\ scan[t] = "pool"
    /\ StealFrom(t, 0)

TrySteal(t) ==
    /\ pc[t] \in ScanPcs
    /\ scan[t] = "steal"
    /\ \E q \in Workers \ tried[t] : StealFrom(t, q)

-----------------------------------------------------------------------------
(* Running tasks and sending tasks: any thread *)

\* Faulty: the task is not counted.
StartSendFaulty(t, x, q) ==
    /\ sent' = sent \cup {x}
    /\ cur' = [cur EXCEPT ![t] = x]
    /\ dst' = [dst EXCEPT ![t] = q]
    /\ GoTo(t, "push")
    /\ UNCHANGED count

\* The first step of send_impl: count the task in the sender's slot.
StartSend(t, x, q) ==
    /\ count' = [count EXCEPT ![Tid(t)] = @ + 1]
    /\ sent' = sent \cup {x}
    /\ cur' = [cur EXCEPT ![t] = x]
    /\ dst' = [dst EXCEPT ![t] = q]
    /\ GoTo(t, "push")

Top(t) == stack[t][Len(stack[t])]

\* The body of the innermost task sends its next task, to the queue of its
\* own thread ...
BodySend(t) ==
    /\ pc[t] = "body"
    /\ \E x \in todo[Top(t)] :
          /\ StartSend(t, x, Tid(t))
          /\ todo' = [todo EXCEPT ![Top(t)] = @ \ {x}]
    /\ UNCHANGED <<queue, done, stop, nThreads, mtx, epoch, scanVars, workerVars,
                   stack, clientVars, executed>>

\* ... or to a queue that it names, whose index send() then compares with
\* number_threads().
BodySendTo(t) ==
    /\ pc[t] = "body"
    /\ \E x \in todo[Top(t)], q \in Queues \ {Tid(t)} :
          /\ cur' = [cur EXCEPT ![t] = x]
          /\ dst' = [dst EXCEPT ![t] = q]
          /\ todo' = [todo EXCEPT ![Top(t)] = @ \ {x}]
    /\ GoTo(t, "sendto")
    /\ UNCHANGED <<sharedVars, scanVars, workerVars, stack, clientVars, histVars>>

SendTo(t) ==
    /\ pc[t] = "sendto"
    /\ StartSend(t, cur[t], dst[t])
    /\ UNCHANGED <<queue, done, stop, nThreads, mtx, epoch, scanVars, workerVars,
                   stack, todo, clientVars, executed>>

\* try_push.  When the queue is full, the sender runs the task itself.
Push(t) ==
    /\ pc[t] = "push"
    /\ \/ /\ Len(queue[dst[t]]) < QCap
          /\ queue' = [queue EXCEPT ![dst[t]] = Append(@, cur[t])]
          /\ GoTo(t, "notify")
          /\ UNCHANGED <<stack, dst>>
       \/ /\ Len(queue[dst[t]]) >= QCap
          /\ stack' = [stack EXCEPT ![t] = Append(@, cur[t])]
          /\ dst' = [dst EXCEPT ![t] = 0]
          /\ GoTo(t, "body")
          /\ UNCHANGED queue
    /\ cur' = [cur EXCEPT ![t] = NoTask]
    /\ UNCHANGED <<count, done, stop, nThreads, mtx, epoch, scanVars, workerVars,
                   todo, clientVars, histVars>>

Asleep == {w \in Workers : pc[w] = "asleep"}

\* Faulty: the sleeper is not woken.
WakeOneFaulty(t) == GoTo(t, Resume(t, stack[t]))

\* Wake one sleeping worker, if there is one; t goes on.
WakeOne(t) ==
    \/ /\ Asleep = {}
       /\ GoTo(t, Resume(t, stack[t]))
    \/ \E w \in Asleep :
          pc' = [pc EXCEPT ![t] = Resume(t, stack[t]), ![w] = "wait"]

\* wait_policy::notify_one.
NotifyOne(t) ==
    /\ pc[t] = "notify"
    /\ \/ /\ WaitPolicy = "cv"
          /\ WakeOne(t)
          /\ UNCHANGED epoch
       \/ /\ WaitPolicy = "epoch"
          /\ epoch' = epoch + 1
          /\ GoTo(t, "wake")
    /\ dst' = [dst EXCEPT ![t] = 0]
    /\ UNCHANGED <<queue, count, done, stop, nThreads, mtx, scanVars, workerVars,
                   stack, todo, cur, clientVars, histVars>>

WakeByAddressSingle(t) ==
    /\ pc[t] = "wake"
    /\ WakeOne(t)
    /\ UNCHANGED <<sharedVars, scanVars, workerVars, taskVars, clientVars, histVars>>

\* The body waits for the tasks it sent and looks for work meanwhile.
BodyHelp(t) ==
    /\ pc[t] = "body"
    /\ todo[Top(t)] = {}
    /\ Top(t) \in Joins
    /\ \E x \in Spawns[Top(t)] : executed[x] = 0
    /\ BeginScan(t, "help")
    /\ UNCHANGED <<sharedVars, workerVars, taskVars, clientVars, histVars>>

\* The body returns: its future is ready.
BodyReturn(t) ==
    /\ pc[t] = "body"
    /\ todo[Top(t)] = {}
    /\ Top(t) \in Joins => \A x \in Spawns[Top(t)] : executed[x] > 0
    /\ executed' = [executed EXCEPT ![Top(t)] = @ + 1]
    /\ GoTo(t, "dec")
    /\ UNCHANGED <<sharedVars, scanVars, workerVars, taskVars, clientVars, sent>>

\* m_nTasksOutstanding.decrement, after the task.
Decrement(t) ==
    /\ pc[t] = "dec"
    /\ count' = [count EXCEPT ![Tid(t)] = @ - 1]
    /\ stack' = [stack EXCEPT ![t] = WithoutNewest(@)]
    /\ GoTo(t, Resume(t, stack'[t]))
    /\ UNCHANGED <<queue, done, stop, nThreads, mtx, epoch, scanVars, workerVars,
                   todo, cur, dst, clientVars, histVars>>

RunStep(t) ==
    \/ PopLocal(t) \/ PopPool(t) \/ TrySteal(t)
    \/ BodySend(t) \/ BodySendTo(t) \/ SendTo(t) \/ Push(t)
    \/ NotifyOne(t) \/ WakeByAddressSingle(t)
    \/ BodyHelp(t) \/ BodyReturn(t) \/ Decrement(t)

-----------------------------------------------------------------------------
(* worker_thread *)

Start(w) ==
    /\ pc[w] = "start"
    /\ nThreads' = nThreads + 1
    /\ BeginScan(w, "poll")
    /\ UNCHANGED <<queue, count, done, stop, mtx, epoch, workerVars, taskVars,
                   clientVars, histVars>>

\* After a task: stop, or poll again with the spin count reset.
CheckStop(w) ==
    /\ pc[w] = "check"
    /\ spin' = [spin EXCEPT ![w] = 0]
    /\ \/ w \in stop /\ GoTo(w, "exit") /\ UNCHANGED scanVars
       \/ w \notin stop /\ BeginScan(w, "poll")
    /\ UNCHANGED <<sharedVars, expected, taskVars, clientVars, histVars>>

\* poll() found nothing: on_idle_iteration decides between spin and park.
Idle(w) ==
    /\ pc[w] = "idle"
    /\ \/ /\ spin[w] + 1 < SpinLimit
          /\ spin' = [spin EXCEPT ![w] = @ + 1]
          /\ \/ w \in stop /\ GoTo(w, "exit") /\ UNCHANGED scanVars
             \/ w \notin stop /\ BeginScan(w, "poll")
       \/ /\ spin[w] + 1 >= SpinLimit
          /\ spin' = [spin EXCEPT ![w] = 0]
          /\ GoTo(w, "wait")
          /\ UNCHANGED scanVars
    /\ UNCHANGED <<sharedVars, expected, taskVars, clientVars, histVars>>

\* Enter wait_policy::wait, or wake up in it, and evaluate the predicate:
\* its first half is poll().  The condition variable's mutex is held.
Wait(w) ==
    /\ pc[w] = "wait"
    /\ \/ WaitPolicy = "cv" /\ mtx = 0 /\ mtx' = w /\ BeginScan(w, "pred")
       \/ WaitPolicy = "epoch" /\ UNCHANGED mtx /\ BeginScan(w, "pred1")
    /\ UNCHANGED <<queue, count, done, stop, nThreads, epoch, workerVars, taskVars,
                   clientVars, histVars>>

AfterPred(p) ==
    CASE p = "chk" -> "block" [] p = "chk1" -> "capture" [] OTHER -> "waitaddr"

\* Faulty: the predicate is only poll().
StopRequestedFaulty(w) == FALSE

StopRequested(w) == w \in stop \/ done

\* The second half of the predicate: m_stopThread or m_done.  A worker that
\* is told to stop leaves wait() without a task and returns.
PredStop(w) ==
    /\ pc[w] \in {"chk", "chk1", "chk2"}
    /\ IF StopRequested(w)
          THEN GoTo(w, "exit") /\ mtx' = IF pc[w] = "chk" THEN 0 ELSE mtx
          ELSE GoTo(w, AfterPred(pc[w])) /\ UNCHANGED mtx
    /\ UNCHANGED <<queue, count, done, stop, nThreads, epoch, scanVars, workerVars,
                   taskVars, clientVars, histVars>>

\* cv.wait releases the mutex and blocks, in one step.
Block(w) ==
    /\ pc[w] = "block"
    /\ mtx' = 0
    /\ GoTo(w, "asleep")
    /\ UNCHANGED <<queue, count, done, stop, nThreads, epoch, scanVars, workerVars,
                   taskVars, clientVars, histVars>>

\* Faulty: the predicate is not evaluated again after the capture.
CaptureFaulty(w) ==
    /\ pc[w] = "capture"
    /\ expected' = [expected EXCEPT ![w] = epoch]
    /\ GoTo(w, "waitaddr")
    /\ UNCHANGED <<sharedVars, scanVars, spin, taskVars, clientVars, histVars>>

Capture(w) ==
    /\ pc[w] = "capture"
    /\ expected' = [expected EXCEPT ![w] = epoch]
    /\ BeginScan(w, "pred2")
    /\ UNCHANGED <<sharedVars, spin, taskVars, clientVars, histVars>>

\* WaitOnAddress compares and blocks in one step, or returns at once.
WaitOnAddress(w) ==
    /\ pc[w] = "waitaddr"
    /\ GoTo(w, IF epoch = expected[w] THEN "asleep" ELSE "wait")
    /\ expected' = [expected EXCEPT ![w] = 0]
    /\ UNCHANGED <<sharedVars, scanVars, spin, taskVars, clientVars, histVars>>

\* Both policies' sleeps may end without a notification.
SpuriousWake(w) ==
    /\ pc[w] = "asleep"
    /\ GoTo(w, "wait")
    /\ UNCHANGED <<sharedVars, scanVars, workerVars, taskVars, clientVars, histVars>>

\* The scope guard of worker_thread.
Exit(w) ==
    /\ pc[w] = "exit"
    /\ nThreads' = nThreads - 1
    /\ GoTo(w, "exited")
    /\ UNCHANGED <<queue, count, done, stop, mtx, epoch, scanVars, workerVars,
                   taskVars, clientVars, histVars>>

WorkerStep(w) ==
    \/ Start(w) \/ CheckStop(w) \/ Idle(w) \/ Wait(w) \/ PredStop(w)
    \/ Block(w) \/ Capture(w) \/ WaitOnAddress(w) \/ Exit(w)

-----------------------------------------------------------------------------
(* Calls from threads outside the pool *)

\* The constructor returned (init() has seen every thread) and the pool lives.
CanCall(c) == pc[c] = "ready" /\ nThreads = NThreads /\ ~done

Enter(c, call) == ret' = [ret EXCEPT ![c] = call] /\ GoTo(c, call)

\* A root task nobody has sent or is about to send.
Unsent == Roots \ (sent \cup UNION {batch[c] : c \in Clients})

\* send and send_no_future, with and without a queue index.
Send(c) ==
    /\ CanCall(c)
    /\ \E x \in Unsent, q \in Queues : StartSend(c, x, q)
    /\ UNCHANGED <<queue, done, stop, nThreads, mtx, epoch, scanVars, workerVars,
                   stack, todo, clientVars, executed>>

\* Faulty: off by one.
RoundRobinFaulty(n) == (n % NThreads) + 2

\* threadID of the n-th part of a parallel_for.
RoundRobin(n) == (n % NThreads) + 1

\* parallel_for and parallel_apply: send the parts round robin, then wait.
ParallelFor(c) ==
    /\ CanCall(c)
    /\ \E S \in SUBSET Unsent \ {{}} :
          /\ batch' = [batch EXCEPT ![c] = S]
          /\ fut' = [fut EXCEPT ![c] = S]
    /\ Enter(c, "batch")
    /\ UNCHANGED <<sharedVars, scanVars, workerVars, taskVars, njobs, slot, acc,
                   histVars>>

ParallelSend(c) ==
    /\ pc[c] = "batch"
    /\ \/ /\ batch[c] = {}
          /\ Enter(c, "future")
          /\ njobs' = [njobs EXCEPT ![c] = 0]
          /\ UNCHANGED <<count, cur, dst, batch, sent>>
       \/ \E x \in batch[c] :
             /\ njobs' = [njobs EXCEPT ![c] = @ + 1]
             /\ StartSend(c, x, RoundRobin(njobs'[c]))
             /\ batch' = [batch EXCEPT ![c] = @ \ {x}]
             /\ UNCHANGED ret
    /\ UNCHANGED <<queue, done, stop, nThreads, mtx, epoch, scanVars, workerVars,
                   stack, todo, fut, slot, acc, executed>>

\* wait_or_work: skip the futures that are ready, else do_work_impl.
WaitOrWork(c) ==
    /\ CanCall(c)
    /\ \E S \in SUBSET sent \ {{}} : fut' = [fut EXCEPT ![c] = S]
    /\ Enter(c, "future")
    /\ UNCHANGED <<sharedVars, scanVars, workerVars, taskVars, batch, njobs, slot,
                   acc, histVars>>

IsReady(c) ==
    /\ pc[c] = "future"
    /\ \/ fut[c] = {} /\ Enter(c, "ready") /\ UNCHANGED <<fut, scanVars>>
       \/ \E x \in fut[c] :
             \/ /\ executed[x] > 0
                /\ fut' = [fut EXCEPT ![c] = @ \ {x}]
                /\ UNCHANGED <<pc, ret, scanVars>>
             \/ /\ executed[x] = 0
                /\ BeginScan(c, "help")
                /\ UNCHANGED <<fut, ret>>
    /\ UNCHANGED <<sharedVars, workerVars, taskVars, batch, njobs, slot, acc, histVars>>

\* wait_for_all_tasks: count() reads the slots one by one; help until it is 0.
WaitForAll(c) ==
    /\ CanCall(c)
    /\ Enter(c, "sum")
    /\ UNCHANGED <<sharedVars, scanVars, workerVars, taskVars, batch, njobs, fut,
                   slot, acc, histVars>>

Count(c) ==
    /\ pc[c] = "sum"
    /\ LET sum == acc[c] + count[slot[c]] IN
          IF slot[c] < NThreads
             THEN /\ slot' = [slot EXCEPT ![c] = @ + 1]
                  /\ acc' = [acc EXCEPT ![c] = sum]
                  /\ UNCHANGED <<pc, ret, scanVars>>
             ELSE /\ slot' = [slot EXCEPT ![c] = 0]
                  /\ acc' = [acc EXCEPT ![c] = 0]
                  /\ IF sum = 0 THEN Enter(c, "ready") /\ UNCHANGED scanVars
                                ELSE BeginScan(c, "help") /\ UNCHANGED ret
    /\ UNCHANGED <<sharedVars, workerVars, taskVars, batch, njobs, fut, histVars>>

\* do_work: one attempt to run a task.
DoWork(c) ==
    /\ CanCall(c)
    /\ BeginScan(c, "help")
    /\ UNCHANGED <<sharedVars, workerVars, taskVars, clientVars, histVars>>

\* The destructor, when no other client uses the pool: set_done, notify_all,
\* join.
SetDone(c) ==
    /\ CanCall(c)
    /\ \A d \in Clients : pc[d] = "ready"
    /\ done' = TRUE
    /\ slot' = [slot EXCEPT ![c] = 1]
    /\ GoTo(c, "setstop")
    /\ UNCHANGED <<queue, count, stop, nThreads, mtx, epoch, scanVars, workerVars,
                   taskVars, ret, batch, njobs, fut, acc, histVars>>

SetStop(c) ==
    /\ pc[c] = "setstop"
    /\ stop' = stop \cup {slot[c]}
    /\ IF slot[c] < NThreads
          THEN slot' = [slot EXCEPT ![c] = @ + 1] /\ UNCHANGED pc
          ELSE GoTo(c, "notifyall") /\ UNCHANGED slot
    /\ UNCHANGED <<queue, count, done, nThreads, mtx, epoch, scanVars, workerVars,
                   taskVars, ret, batch, njobs, fut, acc, histVars>>

\* Faulty: the sleepers are not woken.
WakeAllFaulty(c) == GoTo(c, "join")

WakeAll(c) ==
    pc' = [t \in Threads |-> IF t = c THEN "join"
                             ELSE IF t \in Asleep THEN "wait" ELSE pc[t]]

NotifyAll(c) ==
    /\ pc[c] = "notifyall"
    /\ \/ WaitPolicy = "cv" /\ WakeAll(c) /\ UNCHANGED epoch
       \/ WaitPolicy = "epoch" /\ epoch' = epoch + 1 /\ GoTo(c, "wakeall")
    /\ UNCHANGED <<queue, count, done, stop, nThreads, mtx, scanVars, workerVars,
                   taskVars, clientVars, histVars>>

WakeByAddressAll(c) ==
    /\ pc[c] = "wakeall"
    /\ WakeAll(c)
    /\ UNCHANGED <<sharedVars, scanVars, workerVars, taskVars, clientVars, histVars>>

Join(c) ==
    /\ pc[c] = "join"
    /\ \A w \in Workers : pc[w] = "exited"
    /\ GoTo(c, "destroyed")
    /\ UNCHANGED <<sharedVars, scanVars, workerVars, taskVars, clientVars, histVars>>

\* What a client does once it is in a call ...
ClientStep(c) ==
    \/ ParallelSend(c) \/ IsReady(c) \/ Count(c)
    \/ SetStop(c) \/ NotifyAll(c) \/ WakeByAddressAll(c) \/ Join(c)

\* ... and the calls it may make.
ClientCall(c) ==
    \/ "send" \in Uses /\ Send(c)
    \/ "parallel_for" \in Uses /\ ParallelFor(c)
    \/ "wait_or_work" \in Uses /\ WaitOrWork(c)
    \/ "wait_for_all_tasks" \in Uses /\ WaitForAll(c)
    \/ "do_work" \in Uses /\ DoWork(c)
    \/ "destroy" \in Uses /\ SetDone(c)

Next ==
    \/ \E t \in Threads : RunStep(t)
    \/ \E w \in Workers : WorkerStep(w) \/ SpuriousWake(w)
    \/ \E c \in Clients : ClientStep(c) \/ ClientCall(c)

Spec == Init /\ [][Next]_vars

\* The operating system runs every thread that can run.  Nothing makes a
\* client call the pool, and nothing makes a sleep end without a notification.
Fairness ==
    /\ \A w \in Workers : WF_vars(RunStep(w) \/ WorkerStep(w))
    /\ \A c \in Clients : WF_vars(RunStep(c) \/ ClientStep(c))

FairSpec == Spec /\ Fairness

-----------------------------------------------------------------------------
(* Properties *)

Running(x) == {p \in Threads \X (1 .. Cardinality(Tasks)) :
                  p[2] <= Len(stack[p[1]]) /\ stack[p[1]][p[2]] = x}
Sending(x) == {t \in Threads : pc[t] = "push" /\ cur[t] = x}
Queued(x)  == {p \in Queues \X (1 .. QCap) :
                  p[2] <= Len(queue[p[1]]) /\ queue[p[1]][p[2]] = x}
InDec(x)   == {t \in Threads : pc[t] = "dec" /\ Top(t) = x}

\* A task that was sent is in exactly one place until it has run, and it runs
\* at most once: no pop, steal, push or inline run of send_impl, in whatever
\* order they interleave, loses a task or runs it twice.
TaskConservation ==
    \A x \in Tasks :
       LET places == Cardinality(Running(x)) + Cardinality(Sending(x))
                     + Cardinality(Queued(x)) - Cardinality(InDec(x))
       IN  places + executed[x] = IF x \in sent THEN 1 ELSE 0

\* What the slots below n add up to: count() in one step.
SlotSum(slots) ==
    LET sum[n \in 0 .. NThreads + 1] ==
           IF n = 0 THEN 0 ELSE sum[n - 1] + slots[n - 1]
    IN  sum

\* The tasks that are sent and whose thread has not decremented the count.
Outstanding == {x \in sent : executed[x] = 0 \/ InDec(x) # {}}

\* The slots of m_nTasksOutstanding, each of which may be negative, add up to
\* the number of tasks sent and not yet finished.
CounterBalance == SlotSum(count)[NThreads + 1] = Cardinality(Outstanding)

\* When wait_for_all_tasks returns, every task sent so far has run: count()
\* cannot add up to 0 while a task is outstanding.
WaitForAllTasks ==
    [][\A c \in Clients : pc[c] = "sum" /\ pc'[c] = "ready"
          => \A x \in sent : executed[x] > 0]_vars

Awake(w) == pc[w] \notin {"asleep", "exit", "exited"}

\* While a queue holds a task and the pool is not being destroyed, a worker is
\* awake or a thread is about to notify: no send's notification falls between
\* the last look of a worker at the queues and its sleep.
NoLostWakeup ==
    (\E q \in Queues : queue[q] # <<>>) /\ ~done
       => \/ \E w \in Workers : Awake(w)
          \/ \E t \in Threads : pc[t] \in {"notify", "wake"}

\* Once the destructor joins the threads, no worker sleeps: none missed the
\* notify_all, so none sleeps for ever.
JoinFindsAwake ==
    \A c \in Clients : pc[c] \in {"join", "destroyed"} => Asleep = {}

\* A task that is sent runs, unless the pool is destroyed.
SentTaskRuns ==
    \A x \in Tasks : x \in sent ~> (executed[x] > 0 \/ done)

\* A call of the pool returns: a thread that waits for tasks, in a client or
\* inside a task, helps until they have run, whoever is asleep.
CallsReturn ==
    \A c \in Clients : pc[c] \in {"sum", "future", "batch"} ~> pc[c] = "ready"

\* The destructor ends.
DestructorEnds ==
    \A c \in Clients : pc[c] = "setstop" ~> pc[c] = "destroyed"
=============================================================================
