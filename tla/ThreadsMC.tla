----------------------------- MODULE ThreadsMC -----------------------------
(***************************************************************************)
(* The components with threads of their own, or for threads to meet at,    *)
(* side by side: thread_pool, active_object, job_manager, memory_pool and  *)
(* barrier.  They share nothing; a behaviour is one of the component that  *)
(* subject names, and the variables of the others keep their initial       *)
(* values.                                                                 *)
(***************************************************************************)
EXTENDS Integers, FiniteSets

CONSTANTS
    Workers,     \* the threads of the pool; threads are numbers
    Only,        \* the thread of the object, and of the manager
    Callers,     \* the threads that call the pool, the object and the manager
    Owner,       \* the caller that destroys the pool
    JobCallers,  \* the callers that use the manager
    Parties,     \* the threads that use the memory pool and the barrier
    Tasks,
    Nobody,      \* no thread, no task
    QueueLimit,  \* how many tasks the queue of the pool holds
    ObjectLimit, \* how many tasks the queue of the object holds
    JobKeys,     \* the names of jobs
    JobDeps,     \* the jobs that each job is invoked after
    MaxInvokes,  \* bound: the calls of invoke and invoke_after
    InitialSize, \* the first block of the memory pool
    Growth(_),   \* growth_policy
    MaxCalls,    \* bound: the calls of allocate and deallocate
    Rounds       \* bound: how often each party calls wait

ASSUME PoolAssumption ==
    /\ Workers \cap Callers = {} /\ Owner \in Callers /\ IsFiniteSet(Workers)
    /\ Nobody \notin Tasks \cup JobKeys \cup Parties
    /\ JobDeps \in [JobKeys -> SUBSET JobKeys]
    /\ {InitialSize, ObjectLimit} \subseteq Nat
ASSUME BarrierAssumption == IsFiniteSet(Parties) /\ Parties # {} /\ Rounds \in Nat

VARIABLES
    subject,
    pQueue, pDone, pStop, pNThreads, pMutex, pPc, pTask, pSent, pRuns,
    oQueue, oDone, oLocked, oWorker, oTask, oCaller, oSends, oPushed, oRan,
    jState, jQueue, jInternalQ, jAt, jManager, jTask, jDone, jCaller, jWants,
    jSubmitted, jRunning, jCompleted, jInvokes,
    mFree, mLastBlock, mTotal, mNodes, mIsExpanding, mMutex, mPc, mHolder, mCalls,
    bCurrent, bCycle, bPc, bMine, bEntered, bLeft

\* Job 2 is invoked after job 1.
Chain == [k \in JobKeys |-> 1 .. k - 1]

\* geometric_growth_policy
Double(n) == 2 * n

Pool == INSTANCE ThreadPool WITH
    queue <- pQueue, done <- pDone, stop <- pStop, nThreads <- pNThreads,
    mutex <- pMutex, pc <- pPc, task <- pTask, sent <- pSent, runs <- pRuns

Object == INSTANCE ActiveObject WITH
    queue <- oQueue, done <- oDone, locked <- oLocked, worker <- oWorker, task <- oTask,
    caller <- oCaller, sends <- oSends, pushed <- oPushed, ran <- oRan, QueueLimit <- ObjectLimit

Jobs == INSTANCE JobManager WITH
    state <- jState, queue <- jQueue, internalQ <- jInternalQ, at <- jAt,
    manager <- jManager, task <- jTask, done <- jDone, caller <- jCaller,
    wants <- jWants, submitted <- jSubmitted, running <- jRunning,
    completed <- jCompleted, invokes <- jInvokes, Keys <- JobKeys, Deps <- JobDeps,
    Callers <- JobCallers

Memory == INSTANCE MemoryPool WITH
    free <- mFree, lastBlock <- mLastBlock, total <- mTotal, nodes <- mNodes,
    isExpanding <- mIsExpanding, mutex <- mMutex, pc <- mPc, holder <- mHolder,
    calls <- mCalls, Threads <- Parties

TheBarrier == INSTANCE Barrier WITH
    current <- bCurrent, cycle <- bCycle, pc <- bPc, mine <- bMine, entered <- bEntered,
    left <- bLeft, Threads <- Parties

poolVars == <<pQueue, pDone, pStop, pNThreads, pMutex, pPc, pTask, pSent, pRuns>>
objectVars == <<oQueue, oDone, oLocked, oWorker, oTask, oCaller, oSends, oPushed, oRan>>
jobsVars == <<jState, jQueue, jInternalQ, jAt, jManager, jTask, jDone, jCaller, jWants,
               jSubmitted, jRunning, jCompleted, jInvokes>>
memoryVars == <<mFree, mLastBlock, mTotal, mNodes, mIsExpanding, mMutex, mPc, mHolder,
               mCalls>>
barrierVars == <<bCurrent, bCycle, bPc, bMine, bEntered, bLeft>>

Others(c) ==
    /\ UNCHANGED subject
    /\ IF c = "pool" THEN TRUE ELSE UNCHANGED poolVars
    /\ IF c = "object" THEN TRUE ELSE UNCHANGED objectVars
    /\ IF c = "jobs" THEN TRUE ELSE UNCHANGED jobsVars
    /\ IF c = "memory" THEN TRUE ELSE UNCHANGED memoryVars
    /\ IF c = "barrier" THEN TRUE ELSE UNCHANGED barrierVars

\* A step of component c.
Of(c, Step) == subject = c /\ Step /\ Others(c)

Init ==
    /\ subject \in {"pool", "object", "jobs", "memory", "barrier"}
    /\ Pool!Init
    /\ Object!Init
    /\ Jobs!Init
    /\ Memory!Init
    /\ TheBarrier!Init

Next ==
    \/ Of("pool", Pool!Next)
    \/ Of("object", Object!Next)
    \/ Of("jobs", Jobs!Next)
    \/ Of("memory", Memory!Next)
    \/ Of("barrier", TheBarrier!Next)

vars == <<subject, poolVars, objectVars, jobsVars, memoryVars, barrierVars>>

\* What thread i does in a loop of its own or in a call that it has begun.
Step(i) ==
    \/ i \in Workers /\ Of("pool", Pool!Work(i))
    \/ i \in Callers /\ Of("pool", Pool!Finish(i))
    \/ i = Owner /\ Of("pool", Pool!Destroy)
    \/ i = Only /\ (Of("object", Object!Work) \/ Of("jobs", Jobs!Manage))
    \/ i \in Callers /\ Of("object", Object!Finish(i))
    \/ i \in JobCallers /\ Of("jobs", Jobs!Finish(i))
    \/ i \in Parties /\ (Of("memory", Memory!Go(i)) \/ Of("barrier", TheBarrier!Go(i)))

\* Every thread runs on.  Nobody has to make a call, except that the parties of
\* a barrier call wait as often as each other.
Fairness == \A i \in Workers \cup Callers \cup Parties : WF_vars(Step(i))

Spec == Init /\ [][Next]_vars /\ Fairness

-----------------------------------------------------------------------------
(* What each component promises: the conjunction of the properties that its *)
(* own module states.                                                       *)

\* Every variable has its type, in each component.
TypeOK ==
    /\ Pool!TypeOK
    /\ Object!TypeOK
    /\ Jobs!TypeOK
    /\ Memory!TypeOK
    /\ TheBarrier!TypeOK

\* thread_pool loses no task and runs none twice, when its destructor returns
\* no worker uses it any more, and wait_for returns only after all tasks of its
\* caller.
PoolSafe ==
    /\ [](Pool!PoolConserves /\ Pool!NoUseAfterDestroy)
    /\ Pool!WaitForCovers

\* active_object runs its tasks in the order in which they were pushed, without
\* gaps, although callers push and its thread pops without a common lock.
ObjectInOrder == Object!ActiveRunsInOrder

\* job_manager starts a job only after its dependencies have run to their end,
\* and keeps every task until then while it erases others from its queue.
JobsSafe ==
    /\ []Jobs!DependenciesFirst
    /\ Jobs!TasksKept

\* memory_pool keeps every node either free or somebody's, is expanded by one
\* thread at a time, and counts its elements.
MemorySafe ==
    /\ Memory!NodesConserved
    /\ Memory!OneExpander
    /\ Memory!ElementsCounted

\* Nobody leaves its n-th wait at a barrier before everybody has entered its
\* n-th, also when a fast thread is already in the next cycle.
BarrierSafe == TheBarrier!NobodyLeavesEarly

\* What is waited for happens, although notifications can be lost or reach
\* another thread: thread_pool runs every task that is sent unless it is
\* destroyed, and its destructor returns; active_object runs every task in its
\* queue unless it is shut down, and shutdown returns; job_manager gives a task
\* to the executor when its dependencies have run, and its destructor returns;
\* the end of an expansion of memory_pool wakes the threads that sleep until
\* then; and every wait at a barrier returns when all threads keep calling it.
WaitersServed ==
    /\ Pool!SentTasksRun /\ Pool!DestructorEnds
    /\ Object!ActiveRunsAll /\ Object!ShutdownEnds
    /\ Jobs!ReadyJobsRun /\ Jobs!ManagerEnds
    /\ Memory!SleepersWake
    /\ TheBarrier!BarrierPasses
=============================================================================
