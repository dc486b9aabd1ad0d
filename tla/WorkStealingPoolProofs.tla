----------------------- MODULE WorkStealingPoolProofs -----------------------
(***************************************************************************)
(* Proofs about WorkStealingPool, for every number of workers, clients and *)
(* tasks: type correctness; that the epoch policy loses no wakeup; that no *)
(* task is lost or runs twice; that the striped counter is exact; and when *)
(* wait_for_all_tasks may rely on it.                                      *)
(***************************************************************************)
EXTENDS WorkStealingPool, SequenceTheorems, FiniteSetTheorems, WellFoundedInduction,
        TLAPS

\* What a steal or a pop leaves behind is a sequence, and what it takes is an
\* element of it.
LEMMA TakeType ==
    ASSUME NEW S, NEW s \in Seq(S), s # <<>>
    PROVE  /\ WithoutNewest(s) \in Seq(S)
           /\ s[Len(s)] \in S
           /\ Tail(s) \in Seq(S)
           /\ Head(s) \in S
<1>1. Len(s) \in Nat /\ Len(s) > 0
  BY LenProperties, EmptySeq
<1>2. s[Len(s)] \in S
  BY <1>1, ElementOfSeq
<1>3. WithoutNewest(s) \in Seq(S)
  BY <1>1, SubSeqProperties, ElementOfSeq DEF WithoutNewest
<1>4. Tail(s) \in Seq(S) /\ Head(s) \in S
  BY HeadTailProperties
<1> QED
  BY <1>2, <1>3, <1>4

\* Appending keeps a sequence one, and makes it non-empty.
LEMMA AppendType ==
    ASSUME NEW S, NEW s \in Seq(S), NEW x \in S
    PROVE  /\ Append(s, x) \in Seq(S)
           /\ Append(s, x) # <<>>
  BY AppendProperties

-----------------------------------------------------------------------------
\* The names of threads and queues.
LEMMA Names ==
    /\ 0 \in Queues
    /\ Workers \subseteq Queues
    /\ Workers \subseteq Threads
    /\ Clients \subseteq Threads
    /\ \A t : t \in Workers => t \notin Clients
  BY PoolAssumption DEF Queues, Workers, Threads

\* The queue of a thread, the next slot and the round robin stay in range.
LEMMA TidType == \A t : Tid(t) \in Queues
  BY Names DEF Tid

LEMMA SlotType ==
    /\ 1 \in Workers
    /\ \A q \in Queues : q < NThreads => q + 1 \in Workers
  BY PoolAssumption DEF Queues, Workers

LEMMA RoundRobinType == \A n \in Nat : RoundRobin(n) \in Workers
  BY PoolAssumption DEF Workers, RoundRobin

\* What TypeOK needs to be inductive: which program counters a kind of thread
\* has, and that a thread that runs or sends a task has one.
ThreadOK(t) ==
    /\ t \in Workers => pc[t] \in WorkerPcs \cup RunPcs
    /\ t \in Clients => pc[t] \in ClientPcs \cup RunPcs
    /\ pc[t] \in {"body", "dec"} => stack[t] # <<>>
    /\ pc[t] \in {"sendto", "push"} => cur[t] \in Tasks
    /\ scan[t] = "local" => t \in Workers
    /\ pc[t] = "setstop" => slot[t] \in Workers

TypeInv == TypeOK /\ \A t \in Threads : ThreadOK(t)

LEMMA InitTypeInv == Init => TypeInv
<1> SUFFICES ASSUME Init PROVE TypeInv
  OBVIOUS
<1> USE PoolAssumption
<1>1. 0 \in Queues /\ Workers \subseteq Queues
  BY DEF Queues, Workers
<1>2. <<>> \in Seq(Tasks)
  BY EmptySeq
<1> USE <1>1, <1>2 DEF Init
<1>3. SharedTypeOK
  <2>1. done \in BOOLEAN
    OBVIOUS
  <2> QED
    BY <2>1 DEF SharedTypeOK
<1>4. ThreadTypeOK
  BY DEF ThreadTypeOK, Threads, WorkerPcs, ClientPcs, Calls
<1>5. TaskTypeOK
  BY DEF TaskTypeOK
<1>6. ClientTypeOK
  BY DEF ClientTypeOK, Calls
<1>7. \A t \in Threads : ThreadOK(t)
  BY DEF ThreadOK, Threads, WorkerPcs, RunPcs, ClientPcs, Calls
<1> QED
  BY <1>3, <1>4, <1>5, <1>6, <1>7 DEF TypeInv, TypeOK

USE DEF sharedVars, scanVars, workerVars, taskVars, clientVars, histVars,
        WorkerPcs, RunPcs, ClientPcs, Calls

\* A scan that finds a task.
LEMMA FoundTypeInv ==
    ASSUME TypeInv, NEW t \in Threads, NEW x \in Tasks, Found(t, x),
           queue' \in [Queues -> Seq(Tasks)]
    PROVE  TypeInv'
<1>1. stack[t] \in Seq(Tasks)
  BY DEF TypeInv, TypeOK, TaskTypeOK
<1>2. Append(stack[t], x) \in Seq(Tasks) /\ Append(stack[t], x) # <<>>
  BY <1>1, AppendType
<1>3. stack' = [stack EXCEPT ![t] = Append(stack[t], x)]
  BY DEF Found
<1>4. TypeOK'
  <2>1. SharedTypeOK'
    BY PoolAssumption DEF TypeInv, TypeOK, SharedTypeOK, Found, Queues
  <2>2. ThreadTypeOK'
    BY DEF TypeInv, TypeOK, ThreadTypeOK, Found, GoTo, EndScan
  <2>3. TaskTypeOK'
    BY <1>2, <1>3 DEF TypeInv, TypeOK, TaskTypeOK, Found
  <2>4. ClientTypeOK'
    BY DEF TypeInv, TypeOK, ClientTypeOK, Found
  <2> QED
    BY <2>1, <2>2, <2>3, <2>4 DEF TypeOK
<1>5. ASSUME NEW u \in Threads PROVE ThreadOK(u)'
  BY <1>2, <1>3, <1>5 DEF TypeInv, TypeOK, ThreadTypeOK, TaskTypeOK, ThreadOK,
     Found, GoTo, EndScan
<1> QED
  BY <1>4, <1>5 DEF TypeInv

\* Where a thread resumes.
LEMMA ResumeType ==
    ASSUME TypeInv, NEW t \in Threads, NEW st
    PROVE  /\ t \in Workers => Resume(t, st) \in {"body", "check"}
           /\ t \in Clients => Resume(t, st) \in {"body"} \cup Calls
           /\ Resume(t, st) = "body" => st # <<>>
  BY Names DEF Resume, TypeInv, TypeOK, ClientTypeOK, Threads

\* A step of a scan: the pools of a thread's own worker, and of the others.
LEMMA ScanTypeInv ==
    ASSUME TypeInv, NEW t \in Threads, PopLocal(t) \/ PopPool(t) \/ TrySteal(t)
    PROVE  TypeInv'
<1> USE Names
<1>1. CASE PopLocal(t)
  <2>1. CASE queue[t] # <<>>
    <3>1. t \in Queues /\ queue[t] \in Seq(Tasks)
      BY <1>1 DEF PopLocal, TypeInv, TypeOK, SharedTypeOK, ThreadOK
    <3>2. Head(queue[t]) \in Tasks /\ Tail(queue[t]) \in Seq(Tasks)
      BY <2>1, <3>1, TakeType
    <3>3. Found(t, Head(queue[t])) /\ queue' = [queue EXCEPT ![t] = Tail(queue[t])]
      BY <1>1, <2>1 DEF PopLocal
    <3> QED
      BY <3>1, <3>2, <3>3, FoundTypeInv DEF TypeInv, TypeOK, SharedTypeOK
  <2>2. CASE queue[t] = <<>>
    <3>1. TypeOK'
      BY <1>1, <2>2 DEF PopLocal, TypeInv, TypeOK, SharedTypeOK, ThreadTypeOK,
         TaskTypeOK, ClientTypeOK
    <3>2. ASSUME NEW u \in Threads PROVE ThreadOK(u)'
      BY <1>1, <2>2, <3>2 DEF PopLocal, TypeInv, TypeOK, ThreadTypeOK, ThreadOK
    <3> QED
      BY <3>1, <3>2 DEF TypeInv
  <2> QED
    BY <2>1, <2>2
<1>2. ASSUME NEW q \in Queues, StealFrom(t, q), pc[t] \in ScanPcs
      PROVE  TypeInv'
  <2>1. CASE queue[q] # <<>>
    <3>1. queue[q] \in Seq(Tasks)
      BY DEF TypeInv, TypeOK, SharedTypeOK
    <3>2. WithoutNewest(queue[q]) \in Seq(Tasks) /\ queue[q][Len(queue[q])] \in Tasks
      BY <2>1, <3>1, TakeType
    <3>3. /\ Found(t, queue[q][Len(queue[q])])
          /\ queue' = [queue EXCEPT ![q] = WithoutNewest(queue[q])]
      BY <1>2, <2>1 DEF StealFrom
    <3> QED
      BY <3>2, <3>3, FoundTypeInv DEF TypeInv, TypeOK, SharedTypeOK
  <2>2. CASE queue[q] = <<>>
    <3>1. /\ t \in Workers => AfterMiss(t) \in WorkerPcs \cup {"body"}
          /\ t \in Clients => AfterMiss(t) \in Calls \cup {"body"}
          /\ AfterMiss(t) = "body" => stack[t] # <<>>
          /\ AfterMiss(t) \notin {"dec", "sendto", "push", "setstop"}
      BY <1>2, ResumeType DEF AfterMiss, TypeInv, TypeOK, ThreadOK, ScanPcs, Threads
    <3>2. TypeOK'
      <4>1. ThreadTypeOK'
        BY <1>2, <2>2, <3>1 DEF StealFrom, EndScan, GoTo, TypeInv, TypeOK,
           ThreadTypeOK, Threads
      <4> QED
        BY <1>2, <2>2, <4>1 DEF StealFrom, TypeInv, TypeOK, SharedTypeOK,
           TaskTypeOK, ClientTypeOK
    <3>3. ASSUME NEW u \in Threads PROVE ThreadOK(u)'
      BY <1>2, <2>2, <3>1, <3>3 DEF StealFrom, EndScan, GoTo, TypeInv, TypeOK,
         ThreadTypeOK, ThreadOK
    <3> QED
      BY <3>2, <3>3 DEF TypeInv
  <2> QED
    BY <2>1, <2>2
<1> QED
  BY <1>1, <1>2 DEF PopPool, TrySteal

-----------------------------------------------------------------------------
\* The steps of a thread that runs or sends a task.
LEMMA TypeBodySend ==
    ASSUME TypeInv, NEW t \in Threads, BodySend(t) PROVE TypeInv'
<1> USE Names DEF BodySend, GoTo, StartSend, Top, TypeInv, TypeOK
<1>1. SharedTypeOK'
  BY TidType DEF SharedTypeOK
<1>2. ThreadTypeOK'
  BY DEF ThreadTypeOK
<1>3. TaskTypeOK'
  BY TidType DEF TaskTypeOK, ThreadOK
<1>4. ClientTypeOK'
  BY DEF ClientTypeOK
<1>5. ASSUME NEW u \in Threads PROVE ThreadOK(u)'
  BY <1>5 DEF ThreadTypeOK, TaskTypeOK, ClientTypeOK, ThreadOK
<1> QED
  BY <1>1, <1>2, <1>3, <1>4, <1>5

LEMMA TypeBodySendTo ==
    ASSUME TypeInv, NEW t \in Threads, BodySendTo(t) PROVE TypeInv'
<1> USE Names DEF BodySendTo, GoTo, Top, TypeInv, TypeOK
<1>1. SharedTypeOK'
  BY TidType DEF SharedTypeOK
<1>2. ThreadTypeOK'
  BY DEF ThreadTypeOK
<1>3. TaskTypeOK'
  BY TidType DEF TaskTypeOK, ThreadOK
<1>4. ClientTypeOK'
  BY DEF ClientTypeOK
<1>5. ASSUME NEW u \in Threads PROVE ThreadOK(u)'
  BY <1>5 DEF ThreadTypeOK, TaskTypeOK, ClientTypeOK, ThreadOK
<1> QED
  BY <1>1, <1>2, <1>3, <1>4, <1>5

LEMMA TypeSendTo ==
    ASSUME TypeInv, NEW t \in Threads, SendTo(t) PROVE TypeInv'
<1> USE Names DEF SendTo, GoTo, StartSend, TypeInv, TypeOK
<1>1. SharedTypeOK'
  BY TidType DEF SharedTypeOK
<1>2. ThreadTypeOK'
  BY DEF ThreadTypeOK
<1>3. TaskTypeOK'
  BY TidType DEF TaskTypeOK, ThreadOK
<1>4. ClientTypeOK'
  BY DEF ClientTypeOK
<1>5. ASSUME NEW u \in Threads PROVE ThreadOK(u)'
  BY <1>5 DEF ThreadTypeOK, TaskTypeOK, ClientTypeOK, ThreadOK
<1> QED
  BY <1>1, <1>2, <1>3, <1>4, <1>5

LEMMA TypePush ==
    ASSUME TypeInv, NEW t \in Threads, Push(t) PROVE TypeInv'
<1> USE Names DEF GoTo, TypeInv, TypeOK
<1>1. stack[t] \in Seq(Tasks) /\ queue[dst[t]] \in Seq(Tasks) /\ cur[t] \in Tasks
  BY DEF Push, SharedTypeOK, TaskTypeOK, ThreadOK
<1>2. /\ Append(stack[t], cur[t]) \in Seq(Tasks) /\ Append(stack[t], cur[t]) # <<>>
      /\ Append(queue[dst[t]], cur[t]) \in Seq(Tasks)
  BY <1>1, AppendType
<1>3. queue' \in [Queues -> Seq(Tasks)]
  <2>1. queue' = [queue EXCEPT ![dst[t]] = Append(queue[dst[t]], cur[t])] \/ queue' = queue
    BY DEF Push
  <2> QED
    BY <1>2, <2>1 DEF SharedTypeOK
<1>3a. stack' \in [Threads -> Seq(Tasks)]
  <2>1. stack' = [stack EXCEPT ![t] = Append(stack[t], cur[t])] \/ stack' = stack
    BY DEF Push
  <2> QED
    BY <1>2, <2>1 DEF TaskTypeOK
<1>4. SharedTypeOK' /\ ThreadTypeOK' /\ ClientTypeOK'
  BY <1>3 DEF Push, SharedTypeOK, ThreadTypeOK, ClientTypeOK
<1>5. TaskTypeOK'
  BY <1>3a DEF Push, TaskTypeOK
<1>6. ASSUME NEW u \in Threads PROVE ThreadOK(u)'
  BY <1>1, <1>2, <1>6 DEF Push, ThreadTypeOK, TaskTypeOK, ClientTypeOK, ThreadOK
<1> QED
  BY <1>4, <1>5, <1>6

LEMMA WakeOneType ==
    ASSUME TypeInv, NEW t \in Threads, WakeOne(t), pc[t] # "asleep"
    PROVE  /\ pc' \in [Threads -> WorkerPcs \cup RunPcs \cup ClientPcs]
           /\ pc'[t] = Resume(t, stack[t])
           /\ \A u \in Threads \ {t} : \/ pc'[u] = pc[u]
                                       \/ u \in Workers /\ pc'[u] = "wait"
<1>1. Resume(t, stack[t]) \in WorkerPcs \cup RunPcs \cup ClientPcs
  BY ResumeType DEF Threads
<1>2. pc \in [Threads -> WorkerPcs \cup RunPcs \cup ClientPcs]
  BY DEF TypeInv, TypeOK, ThreadTypeOK
<1>3. CASE GoTo(t, Resume(t, stack[t]))
  BY <1>1, <1>2, <1>3 DEF GoTo
<1>4. ASSUME NEW w \in Workers, pc[w] = "asleep",
             pc' = [pc EXCEPT ![t] = Resume(t, stack[t]), ![w] = "wait"]
      PROVE  /\ pc' \in [Threads -> WorkerPcs \cup RunPcs \cup ClientPcs]
             /\ pc'[t] = Resume(t, stack[t])
             /\ \A u \in Threads \ {t} : \/ pc'[u] = pc[u]
                                         \/ u \in Workers /\ pc'[u] = "wait"
  <2>1. w # t /\ w \in Threads
    BY <1>4, Names
  <2> QED
    BY <1>1, <1>2, <1>4, <2>1
<1> QED
  BY <1>3, <1>4 DEF WakeOne, Asleep

LEMMA TypeNotifyOne ==
    ASSUME TypeInv, NEW t \in Threads, NotifyOne(t) PROVE TypeInv'
<1> USE Names DEF NotifyOne, TypeInv, TypeOK
<1>1. SharedTypeOK' /\ TaskTypeOK' /\ ClientTypeOK'
  BY DEF SharedTypeOK, TaskTypeOK, ClientTypeOK
<1>2. UNCHANGED <<scan, tried, spin, expected, stack, cur, slot>>
  OBVIOUS
<1>3. CASE WakeOne(t)
  <2>1. ThreadTypeOK'
    BY <1>2, <1>3, WakeOneType DEF ThreadTypeOK
  <2>2. ASSUME NEW u \in Threads PROVE ThreadOK(u)'
    <3>1. CASE u = t
      <4>1. pc'[t] = Resume(t, stack[t])
        BY <1>3, WakeOneType
      <4>2. /\ t \in Workers => Resume(t, stack[t]) \in {"body", "check"}
            /\ t \in Clients => Resume(t, stack[t]) \in {"body"} \cup Calls
            /\ Resume(t, stack[t]) = "body" => stack[t] # <<>>
        BY ResumeType
      <4> QED
        BY <1>2, <3>1, <4>1, <4>2 DEF ThreadOK, Threads
    <3>2. CASE u # t
      BY <1>2, <1>3, <3>2, WakeOneType DEF ThreadOK
    <3> QED
      BY <3>1, <3>2
  <2> QED
    BY <1>1, <2>1, <2>2
<1>4. CASE GoTo(t, "wake")
  <2>1. ThreadTypeOK'
    BY <1>2, <1>4 DEF ThreadTypeOK, GoTo
  <2>2. ASSUME NEW u \in Threads PROVE ThreadOK(u)'
    BY <1>2, <1>4, <2>2 DEF ThreadOK, ThreadTypeOK, GoTo
  <2> QED
    BY <1>1, <2>1, <2>2
<1> QED
  BY <1>3, <1>4

LEMMA TypeWakeByAddressSingle ==
    ASSUME TypeInv, NEW t \in Threads, WakeByAddressSingle(t) PROVE TypeInv'
<1> USE Names DEF WakeByAddressSingle, TypeInv, TypeOK
<1>1. SharedTypeOK' /\ TaskTypeOK' /\ ClientTypeOK'
  BY DEF SharedTypeOK, TaskTypeOK, ClientTypeOK
<1>2. UNCHANGED <<scan, tried, spin, expected, stack, cur, slot>>
  OBVIOUS
<1>3. CASE WakeOne(t)
  <2>1. ThreadTypeOK'
    BY <1>2, <1>3, WakeOneType DEF ThreadTypeOK
  <2>2. ASSUME NEW u \in Threads PROVE ThreadOK(u)'
    <3>1. CASE u = t
      <4>1. pc'[t] = Resume(t, stack[t])
        BY <1>3, WakeOneType
      <4>2. /\ t \in Workers => Resume(t, stack[t]) \in {"body", "check"}
            /\ t \in Clients => Resume(t, stack[t]) \in {"body"} \cup Calls
            /\ Resume(t, stack[t]) = "body" => stack[t] # <<>>
        BY ResumeType
      <4> QED
        BY <1>2, <3>1, <4>1, <4>2 DEF ThreadOK, Threads
    <3>2. CASE u # t
      BY <1>2, <1>3, <3>2, WakeOneType DEF ThreadOK
    <3> QED
      BY <3>1, <3>2
  <2> QED
    BY <1>1, <2>1, <2>2
<1> QED
  BY <1>3

LEMMA TypeBodyHelp ==
    ASSUME TypeInv, NEW t \in Threads, BodyHelp(t) PROVE TypeInv'
<1> USE Names DEF BodyHelp, GoTo, BeginScan, Top, TypeInv, TypeOK
<1>1. SharedTypeOK'
  BY DEF SharedTypeOK
<1>2. ThreadTypeOK'
  BY DEF ThreadTypeOK
<1>3. TaskTypeOK'
  BY DEF TaskTypeOK, ThreadOK
<1>4. ClientTypeOK'
  BY DEF ClientTypeOK
<1>5. ASSUME NEW u \in Threads PROVE ThreadOK(u)'
  BY <1>5 DEF ThreadTypeOK, TaskTypeOK, ClientTypeOK, ThreadOK
<1> QED
  BY <1>1, <1>2, <1>3, <1>4, <1>5

LEMMA TypeBodyReturn ==
    ASSUME TypeInv, NEW t \in Threads, BodyReturn(t) PROVE TypeInv'
<1> USE Names DEF BodyReturn, GoTo, Top, TypeInv, TypeOK
<1>1. SharedTypeOK'
  BY DEF SharedTypeOK
<1>2. ThreadTypeOK'
  BY DEF ThreadTypeOK
<1>3. TaskTypeOK'
  BY DEF TaskTypeOK, ThreadOK
<1>4. ClientTypeOK'
  BY DEF ClientTypeOK
<1>5. ASSUME NEW u \in Threads PROVE ThreadOK(u)'
  BY <1>5 DEF ThreadTypeOK, TaskTypeOK, ClientTypeOK, ThreadOK
<1> QED
  BY <1>1, <1>2, <1>3, <1>4, <1>5

LEMMA TypeDecrement ==
    ASSUME TypeInv, NEW t \in Threads, Decrement(t) PROVE TypeInv'
<1> USE Names DEF Decrement, GoTo, TypeInv, TypeOK
<1>a. stack[t] \in Seq(Tasks) /\ stack[t] # <<>>
  BY DEF TaskTypeOK, ThreadOK
<1>b. WithoutNewest(stack[t]) \in Seq(Tasks)
  BY <1>a, TakeType
<1>c. /\ t \in Workers => Resume(t, WithoutNewest(stack[t])) \in {"body", "check"}
      /\ t \in Clients => Resume(t, WithoutNewest(stack[t])) \in {"body"} \cup Calls
      /\ Resume(t, WithoutNewest(stack[t])) = "body" => WithoutNewest(stack[t]) # <<>>
  BY ResumeType
<1>d. stack' = [stack EXCEPT ![t] = WithoutNewest(stack[t])]
      /\ pc' = [pc EXCEPT ![t] = Resume(t, WithoutNewest(stack[t]))]
  BY DEF TaskTypeOK
<1>1. SharedTypeOK'
  BY <1>a, <1>b, TidType DEF SharedTypeOK
<1>2. ThreadTypeOK'
  BY <1>a, <1>b, <1>c, <1>d DEF ThreadTypeOK, Threads
<1>3. TaskTypeOK'
  BY <1>a, <1>b, TidType DEF TaskTypeOK, ThreadOK
<1>4. ClientTypeOK'
  BY <1>a, <1>b DEF ClientTypeOK
<1>5. ASSUME NEW u \in Threads PROVE ThreadOK(u)'
  <2>1. CASE u = t
    <3>1. pc'[t] = Resume(t, WithoutNewest(stack[t])) /\ stack'[t] = WithoutNewest(stack[t])
      BY <1>d DEF ThreadTypeOK, TaskTypeOK
    <3> QED
      BY <1>c, <2>1, <3>1 DEF ThreadOK, Threads
  <2>2. CASE u # t
    BY <1>d, <2>2 DEF ThreadTypeOK, TaskTypeOK, ThreadOK
  <2> QED
    BY <2>1, <2>2
<1> QED
  BY <1>1, <1>2, <1>3, <1>4, <1>5

-----------------------------------------------------------------------------
\* The steps of a worker between tasks.
LEMMA TypeStart ==
    ASSUME TypeInv, NEW t \in Workers, Start(t) PROVE TypeInv'
<1> USE Names DEF Start, GoTo, BeginScan, TypeInv, TypeOK
<1>1. SharedTypeOK'
  BY DEF SharedTypeOK
<1>2. ThreadTypeOK'
  BY DEF ThreadTypeOK
<1>3. TaskTypeOK'
  BY DEF TaskTypeOK, ThreadOK
<1>4. ClientTypeOK'
  BY DEF ClientTypeOK
<1>5. ASSUME NEW u \in Threads PROVE ThreadOK(u)'
  BY <1>5 DEF ThreadTypeOK, TaskTypeOK, ClientTypeOK, ThreadOK
<1> QED
  BY <1>1, <1>2, <1>3, <1>4, <1>5

LEMMA TypeCheckStop ==
    ASSUME TypeInv, NEW t \in Workers, CheckStop(t) PROVE TypeInv'
<1> USE Names DEF CheckStop, GoTo, BeginScan, TypeInv, TypeOK
<1>1. SharedTypeOK'
  BY DEF SharedTypeOK
<1>2. ThreadTypeOK'
  BY DEF ThreadTypeOK
<1>3. TaskTypeOK'
  BY DEF TaskTypeOK, ThreadOK
<1>4. ClientTypeOK'
  BY DEF ClientTypeOK
<1>5. ASSUME NEW u \in Threads PROVE ThreadOK(u)'
  BY <1>5 DEF ThreadTypeOK, TaskTypeOK, ClientTypeOK, ThreadOK
<1> QED
  BY <1>1, <1>2, <1>3, <1>4, <1>5

LEMMA TypeIdle ==
    ASSUME TypeInv, NEW t \in Workers, Idle(t) PROVE TypeInv'
<1> USE Names DEF Idle, GoTo, BeginScan, TypeInv, TypeOK
<1>1. SharedTypeOK'
  BY DEF SharedTypeOK
<1>2. ThreadTypeOK'
  BY DEF ThreadTypeOK
<1>3. TaskTypeOK'
  BY DEF TaskTypeOK, ThreadOK
<1>4. ClientTypeOK'
  BY DEF ClientTypeOK
<1>5. ASSUME NEW u \in Threads PROVE ThreadOK(u)'
  BY <1>5 DEF ThreadTypeOK, TaskTypeOK, ClientTypeOK, ThreadOK
<1> QED
  BY <1>1, <1>2, <1>3, <1>4, <1>5

LEMMA TypeWait ==
    ASSUME TypeInv, NEW t \in Workers, Wait(t) PROVE TypeInv'
<1> USE Names DEF Wait, GoTo, BeginScan, TypeInv, TypeOK
<1>1. SharedTypeOK'
  BY DEF SharedTypeOK
<1>2. ThreadTypeOK'
  BY DEF ThreadTypeOK
<1>3. TaskTypeOK'
  BY DEF TaskTypeOK, ThreadOK
<1>4. ClientTypeOK'
  BY DEF ClientTypeOK
<1>5. ASSUME NEW u \in Threads PROVE ThreadOK(u)'
  BY <1>5 DEF ThreadTypeOK, TaskTypeOK, ClientTypeOK, ThreadOK
<1> QED
  BY <1>1, <1>2, <1>3, <1>4, <1>5

LEMMA TypePredStop ==
    ASSUME TypeInv, NEW t \in Workers, PredStop(t) PROVE TypeInv'
<1> USE Names DEF PredStop, GoTo, AfterPred, TypeInv, TypeOK
<1>1. SharedTypeOK'
  BY DEF SharedTypeOK
<1>2. ThreadTypeOK'
  BY DEF ThreadTypeOK
<1>3. TaskTypeOK'
  BY DEF TaskTypeOK, ThreadOK
<1>4. ClientTypeOK'
  BY DEF ClientTypeOK
<1>5. ASSUME NEW u \in Threads PROVE ThreadOK(u)'
  BY <1>5 DEF ThreadTypeOK, TaskTypeOK, ClientTypeOK, ThreadOK
<1> QED
  BY <1>1, <1>2, <1>3, <1>4, <1>5

LEMMA TypeBlock ==
    ASSUME TypeInv, NEW t \in Workers, Block(t) PROVE TypeInv'
<1> USE Names DEF Block, GoTo, TypeInv, TypeOK
<1>1. SharedTypeOK'
  BY DEF SharedTypeOK
<1>2. ThreadTypeOK'
  BY DEF ThreadTypeOK
<1>3. TaskTypeOK'
  BY DEF TaskTypeOK, ThreadOK
<1>4. ClientTypeOK'
  BY DEF ClientTypeOK
<1>5. ASSUME NEW u \in Threads PROVE ThreadOK(u)'
  BY <1>5 DEF ThreadTypeOK, TaskTypeOK, ClientTypeOK, ThreadOK
<1> QED
  BY <1>1, <1>2, <1>3, <1>4, <1>5

LEMMA TypeCapture ==
    ASSUME TypeInv, NEW t \in Workers, Capture(t) PROVE TypeInv'
<1> USE Names DEF Capture, GoTo, BeginScan, TypeInv, TypeOK
<1>1. SharedTypeOK'
  BY DEF SharedTypeOK
<1>2. ThreadTypeOK'
  BY DEF SharedTypeOK, ThreadTypeOK
<1>3. TaskTypeOK'
  BY DEF TaskTypeOK, ThreadOK
<1>4. ClientTypeOK'
  BY DEF ClientTypeOK
<1>5. ASSUME NEW u \in Threads PROVE ThreadOK(u)'
  BY <1>5 DEF ThreadTypeOK, TaskTypeOK, ClientTypeOK, ThreadOK
<1> QED
  BY <1>1, <1>2, <1>3, <1>4, <1>5

LEMMA TypeWaitOnAddress ==
    ASSUME TypeInv, NEW t \in Workers, WaitOnAddress(t) PROVE TypeInv'
<1> USE Names DEF WaitOnAddress, GoTo, TypeInv, TypeOK
<1>1. SharedTypeOK'
  BY DEF SharedTypeOK
<1>2. ThreadTypeOK'
  BY DEF ThreadTypeOK
<1>3. TaskTypeOK'
  BY DEF TaskTypeOK, ThreadOK
<1>4. ClientTypeOK'
  BY DEF ClientTypeOK
<1>5. ASSUME NEW u \in Threads PROVE ThreadOK(u)'
  BY <1>5 DEF ThreadTypeOK, TaskTypeOK, ClientTypeOK, ThreadOK
<1> QED
  BY <1>1, <1>2, <1>3, <1>4, <1>5

LEMMA TypeSpuriousWake ==
    ASSUME TypeInv, NEW t \in Workers, SpuriousWake(t) PROVE TypeInv'
<1> USE Names DEF SpuriousWake, GoTo, TypeInv, TypeOK
<1>1. SharedTypeOK'
  BY DEF SharedTypeOK
<1>2. ThreadTypeOK'
  BY DEF ThreadTypeOK
<1>3. TaskTypeOK'
  BY DEF TaskTypeOK, ThreadOK
<1>4. ClientTypeOK'
  BY DEF ClientTypeOK
<1>5. ASSUME NEW u \in Threads PROVE ThreadOK(u)'
  BY <1>5 DEF ThreadTypeOK, TaskTypeOK, ClientTypeOK, ThreadOK
<1> QED
  BY <1>1, <1>2, <1>3, <1>4, <1>5

LEMMA TypeExit ==
    ASSUME TypeInv, NEW t \in Workers, Exit(t) PROVE TypeInv'
<1> USE Names DEF Exit, GoTo, TypeInv, TypeOK
<1>1. SharedTypeOK'
  BY DEF SharedTypeOK
<1>2. ThreadTypeOK'
  BY DEF ThreadTypeOK
<1>3. TaskTypeOK'
  BY DEF TaskTypeOK, ThreadOK
<1>4. ClientTypeOK'
  BY DEF ClientTypeOK
<1>5. ASSUME NEW u \in Threads PROVE ThreadOK(u)'
  BY <1>5 DEF ThreadTypeOK, TaskTypeOK, ClientTypeOK, ThreadOK
<1> QED
  BY <1>1, <1>2, <1>3, <1>4, <1>5

-----------------------------------------------------------------------------
\* The steps of a client's call.
LEMMA TypeParallelSend ==
    ASSUME TypeInv, NEW t \in Clients, ParallelSend(t) PROVE TypeInv'
<1> USE Names DEF ParallelSend, GoTo, StartSend, Enter, TypeInv, TypeOK
<1>1. SharedTypeOK'
  BY TidType DEF SharedTypeOK
<1>2. ThreadTypeOK'
  BY DEF ThreadTypeOK
<1>3. TaskTypeOK'
  <2>1. CASE batch[t] = {}
    BY <2>1 DEF TaskTypeOK
  <2>2. ASSUME NEW x \in batch[t], StartSend(t, x, RoundRobin(njobs'[t])),
               njobs' = [njobs EXCEPT ![t] = @ + 1]
        PROVE  TaskTypeOK'
    <3>1. x \in Tasks /\ njobs'[t] \in Nat
      BY <2>2 DEF ClientTypeOK
    <3>2. RoundRobin(njobs'[t]) \in Queues
      BY <3>1, RoundRobinType
    <3> QED
      BY <2>2, <3>1, <3>2 DEF TaskTypeOK
  <2> QED
    BY <2>1, <2>2
<1>4. ClientTypeOK'
  BY DEF ClientTypeOK
<1>5. ASSUME NEW u \in Threads PROVE ThreadOK(u)'
  BY <1>5 DEF ThreadTypeOK, TaskTypeOK, ClientTypeOK, ThreadOK
<1> QED
  BY <1>1, <1>2, <1>3, <1>4, <1>5

LEMMA TypeIsReady ==
    ASSUME TypeInv, NEW t \in Clients, IsReady(t) PROVE TypeInv'
<1> USE Names DEF IsReady, GoTo, BeginScan, Enter, TypeInv, TypeOK
<1>1. SharedTypeOK'
  BY DEF SharedTypeOK
<1>2. ThreadTypeOK'
  BY DEF ThreadTypeOK
<1>3. TaskTypeOK'
  BY DEF TaskTypeOK, ThreadOK
<1>4. ClientTypeOK'
  BY DEF ClientTypeOK
<1>5. ASSUME NEW u \in Threads PROVE ThreadOK(u)'
  BY <1>5 DEF ThreadTypeOK, TaskTypeOK, ClientTypeOK, ThreadOK
<1> QED
  BY <1>1, <1>2, <1>3, <1>4, <1>5

LEMMA TypeCount ==
    ASSUME TypeInv, NEW t \in Clients, Count(t) PROVE TypeInv'
<1> USE Names DEF Count, GoTo, BeginScan, Enter, TypeInv, TypeOK
<1>1. SharedTypeOK'
  BY DEF SharedTypeOK
<1>2. ThreadTypeOK'
  BY DEF ThreadTypeOK
<1>3. TaskTypeOK'
  BY DEF TaskTypeOK, ThreadOK
<1>4. ClientTypeOK'
  <2>1. acc[t] + count[slot[t]] \in Int
    BY DEF ClientTypeOK, SharedTypeOK
  <2>2. CASE slot[t] < NThreads
    <3>1. slot[t] + 1 \in Queues
      BY <2>2, SlotType DEF ClientTypeOK
    <3> QED
      BY <2>1, <2>2, <3>1 DEF ClientTypeOK
  <2>3. CASE ~(slot[t] < NThreads)
    BY <2>3 DEF ClientTypeOK
  <2> QED
    BY <2>2, <2>3
<1>5. ASSUME NEW u \in Threads PROVE ThreadOK(u)'
  <2>1. CASE u = t
    BY <2>1 DEF ThreadTypeOK, TaskTypeOK, ClientTypeOK, ThreadOK
  <2>2. CASE u # t
    <3>1. u \in Clients => slot'[u] = slot[u]
      BY <2>2 DEF ClientTypeOK
    <3> QED
      BY <2>2, <3>1 DEF ThreadTypeOK, ThreadOK, Threads
  <2> QED
    BY <2>1, <2>2
<1> QED
  BY <1>1, <1>2, <1>3, <1>4, <1>5

LEMMA TypeSetStop ==
    ASSUME TypeInv, NEW t \in Clients, SetStop(t) PROVE TypeInv'
<1> USE Names DEF SetStop, GoTo, TypeInv, TypeOK
<1>1. SharedTypeOK'
  BY DEF SharedTypeOK, ThreadOK
<1>2. ThreadTypeOK'
  BY DEF ThreadTypeOK
<1>3. TaskTypeOK'
  BY DEF TaskTypeOK, ThreadOK
<1>4. ClientTypeOK'
  <2>1. slot' \in [Clients -> Queues]
    <3>1. slot \in [Clients -> Queues] /\ (slot[t] < NThreads => slot[t] + 1 \in Queues)
      BY SlotType DEF ClientTypeOK
    <3>2. slot' = slot \/ (slot[t] < NThreads /\ slot' = [slot EXCEPT ![t] = @ + 1])
      OBVIOUS
    <3> QED
      BY <3>1, <3>2
  <2> QED
    BY <2>1 DEF ClientTypeOK
<1>5. ASSUME NEW u \in Threads PROVE ThreadOK(u)'
  <2>1. CASE u = t
    <3>1. pc'[t] = "setstop" => slot'[t] = slot[t] + 1 /\ slot[t] < NThreads
      BY DEF ThreadTypeOK, ClientTypeOK
    <3>2. pc'[t] = "setstop" => slot'[t] \in Workers
      BY <3>1, SlotType DEF ClientTypeOK
    <3> QED
      BY <2>1, <3>2 DEF ThreadTypeOK, ThreadOK
  <2>2. CASE u # t
    <3>1. u \in Clients => slot'[u] = slot[u]
      BY <2>2 DEF ClientTypeOK
    <3> QED
      BY <2>2, <3>1 DEF ThreadTypeOK, ThreadOK, Threads
  <2> QED
    BY <2>1, <2>2
<1> QED
  BY <1>1, <1>2, <1>3, <1>4, <1>5

LEMMA TypeNotifyAll ==
    ASSUME TypeInv, NEW t \in Clients, NotifyAll(t) PROVE TypeInv'
<1> USE Names DEF NotifyAll, GoTo, WakeAll, Asleep, TypeInv, TypeOK
<1>1. SharedTypeOK'
  BY DEF SharedTypeOK
<1>2. ThreadTypeOK'
  BY DEF ThreadTypeOK
<1>3. TaskTypeOK'
  BY DEF TaskTypeOK, ThreadOK
<1>4. ClientTypeOK'
  BY DEF ClientTypeOK
<1>5. ASSUME NEW u \in Threads PROVE ThreadOK(u)'
  BY <1>5 DEF ThreadTypeOK, TaskTypeOK, ClientTypeOK, ThreadOK
<1> QED
  BY <1>1, <1>2, <1>3, <1>4, <1>5

LEMMA TypeWakeByAddressAll ==
    ASSUME TypeInv, NEW t \in Clients, WakeByAddressAll(t) PROVE TypeInv'
<1> USE Names DEF WakeByAddressAll, WakeAll, Asleep, TypeInv, TypeOK
<1>1. SharedTypeOK'
  BY DEF SharedTypeOK
<1>2. ThreadTypeOK'
  BY DEF ThreadTypeOK
<1>3. TaskTypeOK'
  BY DEF TaskTypeOK, ThreadOK
<1>4. ClientTypeOK'
  BY DEF ClientTypeOK
<1>5. ASSUME NEW u \in Threads PROVE ThreadOK(u)'
  BY <1>5 DEF ThreadTypeOK, TaskTypeOK, ClientTypeOK, ThreadOK
<1> QED
  BY <1>1, <1>2, <1>3, <1>4, <1>5

LEMMA TypeJoin ==
    ASSUME TypeInv, NEW t \in Clients, Join(t) PROVE TypeInv'
<1> USE Names DEF Join, GoTo, TypeInv, TypeOK
<1>1. SharedTypeOK'
  BY DEF SharedTypeOK
<1>2. ThreadTypeOK'
  BY DEF ThreadTypeOK
<1>3. TaskTypeOK'
  BY DEF TaskTypeOK, ThreadOK
<1>4. ClientTypeOK'
  BY DEF ClientTypeOK
<1>5. ASSUME NEW u \in Threads PROVE ThreadOK(u)'
  BY <1>5 DEF ThreadTypeOK, TaskTypeOK, ClientTypeOK, ThreadOK
<1> QED
  BY <1>1, <1>2, <1>3, <1>4, <1>5

LEMMA TypeSend ==
    ASSUME TypeInv, NEW t \in Clients, Send(t) PROVE TypeInv'
<1> USE Names DEF Send, GoTo, StartSend, CanCall, TypeInv, TypeOK
<1>1. SharedTypeOK'
  BY TidType DEF SharedTypeOK
<1>2. ThreadTypeOK'
  BY DEF ThreadTypeOK
<1>3. TaskTypeOK'
  BY TidType DEF TaskTypeOK, ThreadOK, Unsent, Roots
<1>4. ClientTypeOK'
  BY DEF ClientTypeOK, Unsent, Roots
<1>5. ASSUME NEW u \in Threads PROVE ThreadOK(u)'
  BY <1>5 DEF Unsent, Roots, ThreadTypeOK, TaskTypeOK, ClientTypeOK, ThreadOK
<1> QED
  BY <1>1, <1>2, <1>3, <1>4, <1>5

LEMMA TypeParallelFor ==
    ASSUME TypeInv, NEW t \in Clients, ParallelFor(t) PROVE TypeInv'
<1> USE Names DEF ParallelFor, GoTo, Enter, CanCall, TypeInv, TypeOK
<1>1. SharedTypeOK'
  BY DEF SharedTypeOK
<1>2. ThreadTypeOK'
  BY DEF ThreadTypeOK
<1>3. TaskTypeOK'
  BY DEF TaskTypeOK, ThreadOK, Unsent, Roots
<1>4. ClientTypeOK'
  BY DEF ClientTypeOK, Unsent, Roots
<1>5. ASSUME NEW u \in Threads PROVE ThreadOK(u)'
  BY <1>5 DEF ThreadTypeOK, TaskTypeOK, ClientTypeOK, ThreadOK
<1> QED
  BY <1>1, <1>2, <1>3, <1>4, <1>5

LEMMA TypeWaitOrWork ==
    ASSUME TypeInv, NEW t \in Clients, WaitOrWork(t) PROVE TypeInv'
<1> USE Names DEF WaitOrWork, GoTo, Enter, CanCall, TypeInv, TypeOK
<1>1. SharedTypeOK'
  BY DEF SharedTypeOK
<1>2. ThreadTypeOK'
  BY DEF ThreadTypeOK
<1>3. TaskTypeOK'
  BY DEF TaskTypeOK, ThreadOK
<1>4. ClientTypeOK'
  BY DEF ClientTypeOK, TaskTypeOK
<1>5. ASSUME NEW u \in Threads PROVE ThreadOK(u)'
  BY <1>5 DEF ThreadTypeOK, TaskTypeOK, ClientTypeOK, ThreadOK
<1> QED
  BY <1>1, <1>2, <1>3, <1>4, <1>5

LEMMA TypeWaitForAll ==
    ASSUME TypeInv, NEW t \in Clients, WaitForAll(t) PROVE TypeInv'
<1> USE Names DEF WaitForAll, GoTo, Enter, CanCall, TypeInv, TypeOK
<1>1. SharedTypeOK'
  BY DEF SharedTypeOK
<1>2. ThreadTypeOK'
  BY DEF ThreadTypeOK
<1>3. TaskTypeOK'
  BY DEF TaskTypeOK, ThreadOK
<1>4. ClientTypeOK'
  BY DEF ClientTypeOK
<1>5. ASSUME NEW u \in Threads PROVE ThreadOK(u)'
  BY <1>5 DEF ThreadTypeOK, TaskTypeOK, ClientTypeOK, ThreadOK
<1> QED
  BY <1>1, <1>2, <1>3, <1>4, <1>5

LEMMA TypeDoWork ==
    ASSUME TypeInv, NEW t \in Clients, DoWork(t) PROVE TypeInv'
<1> USE Names DEF DoWork, GoTo, BeginScan, CanCall, TypeInv, TypeOK
<1>1. SharedTypeOK'
  BY DEF SharedTypeOK
<1>2. ThreadTypeOK'
  BY DEF ThreadTypeOK
<1>3. TaskTypeOK'
  BY DEF TaskTypeOK, ThreadOK
<1>4. ClientTypeOK'
  BY DEF ClientTypeOK
<1>5. ASSUME NEW u \in Threads PROVE ThreadOK(u)'
  BY <1>5 DEF ThreadTypeOK, TaskTypeOK, ClientTypeOK, ThreadOK
<1> QED
  BY <1>1, <1>2, <1>3, <1>4, <1>5

LEMMA TypeSetDone ==
    ASSUME TypeInv, NEW t \in Clients, SetDone(t) PROVE TypeInv'
<1> USE Names DEF SetDone, GoTo, CanCall, TypeInv, TypeOK
<1>1. SharedTypeOK'
  BY DEF SharedTypeOK
<1>2. ThreadTypeOK'
  BY DEF ThreadTypeOK
<1>3. TaskTypeOK'
  BY DEF TaskTypeOK, ThreadOK
<1>4. ClientTypeOK'
  BY SlotType DEF ClientTypeOK
<1>5. ASSUME NEW u \in Threads PROVE ThreadOK(u)'
  BY <1>5, SlotType DEF ThreadTypeOK, TaskTypeOK, ClientTypeOK, ThreadOK
<1> QED
  BY <1>1, <1>2, <1>3, <1>4, <1>5

-----------------------------------------------------------------------------
(* Type correctness *)

LEMMA NextTypeInv == TypeInv /\ [Next]_vars => TypeInv'
<1> SUFFICES ASSUME TypeInv, [Next]_vars PROVE TypeInv'
  OBVIOUS
<1>1. ASSUME NEW t \in Threads, RunStep(t) PROVE TypeInv'
  BY <1>1, ScanTypeInv, TypeBodySend, TypeBodySendTo, TypeSendTo, TypePush,
     TypeNotifyOne, TypeWakeByAddressSingle, TypeBodyHelp, TypeBodyReturn,
     TypeDecrement DEF RunStep
<1>2. ASSUME NEW w \in Workers, WorkerStep(w) \/ SpuriousWake(w) PROVE TypeInv'
  BY <1>2, TypeStart, TypeCheckStop, TypeIdle, TypeWait, TypePredStop, TypeBlock,
     TypeCapture, TypeWaitOnAddress, TypeSpuriousWake, TypeExit DEF WorkerStep
<1>3. ASSUME NEW c \in Clients, ClientStep(c) \/ ClientCall(c) PROVE TypeInv'
  BY <1>3, TypeParallelSend, TypeIsReady, TypeCount, TypeSetStop, TypeNotifyAll,
     TypeWakeByAddressAll, TypeJoin, TypeSend, TypeParallelFor, TypeWaitOrWork,
     TypeWaitForAll, TypeDoWork, TypeSetDone DEF ClientStep, ClientCall
<1>4. CASE UNCHANGED vars
  BY <1>4 DEF vars, TypeInv, TypeOK, SharedTypeOK, ThreadTypeOK, TaskTypeOK,
     ClientTypeOK, ThreadOK
<1> QED
  BY <1>1, <1>2, <1>3, <1>4 DEF Next

\* TypeOK holds in every reachable state, and with it what makes the accesses
\* of the code defined: a thread that runs a task has one, an index into the
\* queues, slots or stop flags is in range.
THEOREM TypeCorrect == Spec => []TypeOK
<1>1. TypeInv => TypeOK
  BY DEF TypeInv
<1> QED
  BY <1>1, InitTypeInv, NextTypeInv, PTL DEF Spec

-----------------------------------------------------------------------------
(* The epoch policy loses no wakeup *)

\* What worker w knows of queue q when it has found q empty after capturing
\* the epoch: a task that is there now has changed the epoch or its sender is
\* about to.
Seen(w, q) ==
    queue[q] # <<>> => \/ epoch # expected[w]
                       \/ \E t \in Threads : pc[t] = "notify" /\ dst[t] = q

StopInv ==
    /\ \A w \in Workers : pc[w] \in {"exit", "exited"} => done
    /\ stop # {} => done
    /\ \A c \in Clients : pc[c] = "setstop" => done

SeenInv ==
    \A w \in Workers :
       /\ pc[w] \notin {"pred", "chk", "block"}
       /\ expected[w] <= epoch
       /\ pc[w] = "pred2" => \A q \in tried[w] : Seen(w, q)
       /\ pc[w] \in {"chk2", "waitaddr"} => \A q \in Queues : Seen(w, q)

WakeInv == StopInv /\ SeenInv /\ NoLostWakeup

LEMMA InitWakeInv == Init => WakeInv
  BY Names DEF Init, WakeInv, StopInv, SeenInv, Seen, NoLostWakeup, Threads

\* What the invariant is about does not change.
LEMMA SameWakeInv ==
    ASSUME WakeInv, UNCHANGED <<queue, epoch, expected, pc, dst, tried, done, stop>>
    PROVE  WakeInv'
  BY DEF WakeInv, StopInv, SeenInv, Seen, NoLostWakeup, Awake

\* A step of t that sends nothing, notifies nobody and does not go towards
\* sleep or exit; it may take a task.
LEMMA QuietStep ==
    ASSUME TypeInv, WakeInv, NEW t \in Threads, NEW v,
           pc' = [pc EXCEPT ![t] = v],
           pc[t] \notin {"notify", "wake"},
           v \notin {"pred", "chk", "block", "pred2", "chk2", "waitaddr", "asleep",
                     "exit", "exited", "setstop"},
           UNCHANGED <<epoch, expected, done, stop>>,
           \A q \in Queues : queue'[q] # <<>> => queue[q] # <<>>,
           \A u \in Threads \ {t} : tried'[u] = tried[u] /\ dst'[u] = dst[u]
    PROVE  WakeInv'
<1> USE Names
<1>1. pc \in [Threads -> WorkerPcs \cup RunPcs \cup ClientPcs]
  BY DEF TypeInv, TypeOK, ThreadTypeOK
<1>2. pc'[t] = v /\ \A u \in Threads \ {t} : pc'[u] = pc[u]
  BY <1>1
<1>3. StopInv'
  BY <1>2 DEF WakeInv, StopInv
<1>4. ASSUME NEW w \in Workers, NEW q \in Queues, Seen(w, q) PROVE Seen(w, q)'
  BY <1>2, <1>4 DEF Seen
<1>5. SeenInv'
  <2>1. tried \in [Threads -> SUBSET Queues]
    BY DEF TypeInv, TypeOK, ThreadTypeOK
  <2> QED
    BY <1>2, <1>4, <2>1 DEF WakeInv, SeenInv
<1>6. NoLostWakeup'
  BY <1>2 DEF WakeInv, NoLostWakeup, Awake, Threads
<1> QED
  BY <1>3, <1>5, <1>6 DEF WakeInv

\* A step of a scan.
LEMMA ScanWakeInv ==
    ASSUME TypeInv, WakeInv, NEW t \in Threads,
           PopLocal(t) \/ PopPool(t) \/ TrySteal(t)
    PROVE  WakeInv'
<1> USE Names
<1>1. pc[t] \in ScanPcs
  BY DEF PopLocal, PopPool, TrySteal
<1>2. ASSUME NEW q \in Queues, NEW x, NEW rest, queue[q] # <<>>,
             queue' = [queue EXCEPT ![q] = rest], Found(t, x)
      PROVE  WakeInv'
  <2>1. \A r \in Queues : queue'[r] # <<>> => queue[r] # <<>>
    BY <1>2 DEF TypeInv, TypeOK, SharedTypeOK
  <2>2. \A u \in Threads \ {t} : tried'[u] = tried[u] /\ dst'[u] = dst[u]
    BY <1>2 DEF Found, EndScan, TypeInv, TypeOK, ThreadTypeOK
  <2> QED
    BY <1>1, <1>2, <2>1, <2>2, QuietStep DEF Found, GoTo, ScanPcs
<1>3. CASE PopLocal(t)
  <2>1. t \in Queues
    BY <1>3 DEF PopLocal, TypeInv, ThreadOK
  <2>2. CASE queue[t] # <<>>
    BY <1>2, <1>3, <2>1, <2>2 DEF PopLocal
  <2>3. CASE queue[t] = <<>>
    BY <1>3, <2>3, SameWakeInv DEF PopLocal
  <2> QED
    BY <2>2, <2>3
<1>4. ASSUME NEW q \in Queues, StealFrom(t, q) PROVE WakeInv'
  <2>1. CASE queue[q] # <<>>
    BY <1>2, <1>4, <2>1 DEF StealFrom
  <2>2. CASE queue[q] = <<>>
    <3>1. UNCHANGED <<queue, epoch, expected, done, stop, dst>>
      BY <1>4, <2>2 DEF StealFrom
    <3>2. \A u \in Threads \ {t} : tried'[u] = tried[u]
      BY <1>4, <2>2 DEF StealFrom, EndScan, TypeInv, TypeOK, ThreadTypeOK
    <3>3. PICK v : pc' = [pc EXCEPT ![t] = v] /\ v \in {pc[t], AfterMiss(t)}
      <4>1. pc = [pc EXCEPT ![t] = pc[t]]
        BY DEF TypeInv, TypeOK, ThreadTypeOK
      <4> QED
        BY <1>4, <2>2, <4>1 DEF StealFrom, GoTo
    <3>4. CASE pc[t] # "pred2"
      <4>1. pc[t] # "pred"
        BY <1>1 DEF WakeInv, SeenInv, TypeInv, ThreadOK, ScanPcs, Threads
      <4>2. AfterMiss(t) \in {"idle", "chk1", "body", "check"} \cup Calls
        BY <1>1, <3>4, <4>1, ResumeType DEF AfterMiss, ScanPcs, Threads
      <4>3. v \notin {"pred", "chk", "block", "pred2", "chk2", "waitaddr", "asleep",
                      "exit", "exited", "setstop"}
        BY <1>1, <3>3, <3>4, <4>1, <4>2 DEF ScanPcs
      <4> QED
        BY <1>1, <3>1, <3>2, <3>3, <4>3, QuietStep DEF ScanPcs
    <3>5. CASE pc[t] = "pred2"
      <4>1. t \in Workers
        BY <3>5 DEF TypeInv, ThreadOK, Threads
      <4>2. AfterMiss(t) = "chk2"
        BY <3>5 DEF AfterMiss
      <4>3. \A u \in Threads : u # t => pc'[u] = pc[u]
        BY <3>3 DEF TypeInv, TypeOK, ThreadTypeOK
      <4>4. pc'[t] = v /\ v \in {"pred2", "chk2"}
        BY <3>3, <3>5, <4>2 DEF TypeInv, TypeOK, ThreadTypeOK
      <4>5. \A w \in Workers, r \in Queues : Seen(w, r) => Seen(w, r)'
        BY <3>1, <3>5, <4>3 DEF Seen
      <4>6. \A r \in tried[t] \cup {q} : Seen(t, r)
        BY <2>2, <3>5, <4>1 DEF WakeInv, SeenInv, Seen
      <4>7. /\ v = "pred2" => tried'[t] \subseteq tried[t] \cup {q}
            /\ v = "chk2" => tried[t] \cup {q} = Queues
        BY <1>4, <2>2, <4>2, <4>4, <3>5 DEF StealFrom, EndScan, GoTo, TypeInv, TypeOK,
           ThreadTypeOK
      <4>8. StopInv'
        BY <3>1, <4>3, <4>4 DEF WakeInv, StopInv
      <4>9. SeenInv'
        <5>1. tried \in [Threads -> SUBSET Queues]
          BY DEF TypeInv, TypeOK, ThreadTypeOK
        <5>2. ASSUME NEW w \in Workers, w # t
              PROVE  /\ pc'[w] \notin {"pred", "chk", "block"}
                     /\ expected'[w] <= epoch'
                     /\ pc'[w] = "pred2" => \A r \in tried'[w] : Seen(w, r)'
                     /\ pc'[w] \in {"chk2", "waitaddr"} => \A r \in Queues : Seen(w, r)'
          BY <3>1, <3>2, <4>3, <4>5, <5>1, <5>2 DEF WakeInv, SeenInv
        <5>3. /\ pc'[t] \notin {"pred", "chk", "block"}
              /\ expected'[t] <= epoch'
              /\ pc'[t] = "pred2" => \A r \in tried'[t] : Seen(t, r)'
              /\ pc'[t] \in {"chk2", "waitaddr"} => \A r \in Queues : Seen(t, r)'
          BY <3>1, <4>1, <4>4, <4>5, <4>6, <4>7, <5>1 DEF WakeInv, SeenInv
        <5> QED
          BY <5>2, <5>3 DEF SeenInv
      <4>10. NoLostWakeup'
        BY <4>1, <4>4 DEF NoLostWakeup, Awake
      <4> QED
        BY <4>8, <4>9, <4>10 DEF WakeInv
    <3> QED
      BY <3>4, <3>5
  <2> QED
    BY <2>1, <2>2
<1> QED
  BY <1>3, <1>4 DEF PopPool, TrySteal

\* The steps of a thread that runs a task and do not send or notify.
LEMMA RunQuietWakeInv ==
    ASSUME TypeInv, WakeInv, NEW t \in Threads,
           \/ BodySend(t) \/ BodySendTo(t) \/ SendTo(t)
           \/ BodyHelp(t) \/ BodyReturn(t) \/ Decrement(t)
    PROVE  WakeInv'
<1>1. PICK v \in {"push", "sendto", "help", "dec", "body", "check"} \cup Calls :
         pc' = [pc EXCEPT ![t] = v]
  <2>1. CASE Decrement(t)
    <3>1. Resume(t, stack'[t]) \in {"body", "check"} \cup Calls
      BY ResumeType DEF Threads
    <3> QED
      BY <2>1, <3>1 DEF Decrement, GoTo
  <2>2. CASE ~Decrement(t)
    BY <2>2 DEF BodySend, BodySendTo, SendTo, StartSend, BodyHelp, BeginScan, BodyReturn,
       GoTo
  <2> QED
    BY <2>1, <2>2
<1>2. pc[t] \in {"body", "sendto", "dec"}
  BY DEF BodySend, BodySendTo, SendTo, BodyHelp, BodyReturn, Decrement
<1>3. UNCHANGED <<queue, epoch, expected, done, stop>>
  BY DEF BodySend, BodySendTo, SendTo, BodyHelp, BodyReturn, Decrement
<1>4. \A u \in Threads \ {t} : tried'[u] = tried[u] /\ dst'[u] = dst[u]
  BY DEF BodySend, BodySendTo, SendTo, StartSend, BodyHelp, BeginScan, BodyReturn,
     Decrement, TypeInv, TypeOK, ThreadTypeOK, TaskTypeOK
<1> QED
  BY <1>1, <1>2, <1>3, <1>4, QuietStep

\* The push makes its queue non-empty, and its thread is about to notify.
LEMMA PushWakeInv ==
    ASSUME TypeInv, WakeInv, NEW t \in Threads, Push(t) PROVE WakeInv'
<1> USE Names
<1>1. /\ pc[t] = "push" /\ UNCHANGED <<epoch, expected, done, stop, tried>>
      /\ dst[t] \in Queues
      /\ \A u \in Threads \ {t} : dst'[u] = dst[u]
  BY DEF Push, TypeInv, TypeOK, TaskTypeOK
<1>2. CASE Len(queue[dst[t]]) < QCap /\ pc' = [pc EXCEPT ![t] = "notify"]
           /\ UNCHANGED dst
           /\ queue' = [queue EXCEPT ![dst[t]] = Append(@, cur[t])]
  <2>1. pc'[t] = "notify" /\ \A u \in Threads \ {t} : pc'[u] = pc[u]
    BY <1>2 DEF TypeInv, TypeOK, ThreadTypeOK
  <2>2. \A q \in Queues \ {dst[t]} : queue'[q] = queue[q]
    BY <1>2 DEF TypeInv, TypeOK, SharedTypeOK
  <2>3. ASSUME NEW w \in Workers, NEW q \in Queues, Seen(w, q) PROVE Seen(w, q)'
    <3>1. CASE q = dst[t]
      BY <1>2, <2>1, <3>1 DEF Seen
    <3>2. CASE q # dst[t]
      BY <1>1, <1>2, <2>1, <2>2, <2>3, <3>2 DEF Seen
    <3> QED
      BY <3>1, <3>2
  <2>4. StopInv'
    BY <1>1, <2>1 DEF WakeInv, StopInv
  <2>5. SeenInv'
    BY <1>1, <2>1, <2>3 DEF WakeInv, SeenInv, TypeInv, TypeOK, ThreadTypeOK
  <2>6. NoLostWakeup'
    BY <2>1 DEF NoLostWakeup
  <2> QED
    BY <2>4, <2>5, <2>6 DEF WakeInv
<1>3. CASE pc' = [pc EXCEPT ![t] = "body"] /\ UNCHANGED queue
  BY <1>1, <1>3, QuietStep
<1> QED
  BY <1>2, <1>3 DEF Push, GoTo

\* The notification changes the epoch, which no worker has captured yet.
LEMMA NotifyWakeInv ==
    ASSUME TypeInv, WakeInv, WaitPolicy = "epoch", NEW t \in Threads, NotifyOne(t)
    PROVE  WakeInv'
<1> USE Names
<1>1. /\ pc[t] = "notify" /\ epoch' = epoch + 1 /\ pc' = [pc EXCEPT ![t] = "wake"]
      /\ UNCHANGED <<queue, expected, done, stop, tried>>
  BY DEF NotifyOne, GoTo
<1>2. pc'[t] = "wake" /\ \A u \in Threads \ {t} : pc'[u] = pc[u]
  BY <1>1 DEF TypeInv, TypeOK, ThreadTypeOK
<1>3. ASSUME NEW w \in Workers, NEW q \in Queues PROVE Seen(w, q)' /\ expected'[w] <= epoch'
  BY <1>1 DEF WakeInv, SeenInv, Seen, TypeInv, TypeOK, SharedTypeOK, ThreadTypeOK
<1>4. StopInv'
  BY <1>1, <1>2 DEF WakeInv, StopInv
<1>5. SeenInv'
  BY <1>1, <1>2, <1>3 DEF WakeInv, SeenInv, TypeInv, TypeOK, ThreadTypeOK
<1>6. NoLostWakeup'
  BY <1>2 DEF NoLostWakeup
<1> QED
  BY <1>4, <1>5, <1>6 DEF WakeInv

\* The wake leaves a worker awake: the one it woke, or any if none slept.
LEMMA WakeWakeInv ==
    ASSUME TypeInv, WakeInv, NEW t \in Threads, WakeByAddressSingle(t)
    PROVE  WakeInv'
<1> USE Names
<1>1. /\ pc[t] = "wake" /\ WakeOne(t)
      /\ UNCHANGED <<queue, epoch, expected, done, stop, tried, dst>>
  BY DEF WakeByAddressSingle
<1>2. /\ t \in Workers => pc'[t] \in {"body", "check"}
      /\ t \in Clients => pc'[t] \in {"body"} \cup Calls
      /\ \A u \in Threads \ {t} : pc'[u] = pc[u] \/ (u \in Workers /\ pc'[u] = "wait")
  BY <1>1, WakeOneType, ResumeType
<1>3. ASSUME NEW w \in Workers, NEW q \in Queues, Seen(w, q) PROVE Seen(w, q)'
  <2>2. \A u \in Threads : pc[u] = "notify" => pc'[u] = "notify"
    <3>1. \A u \in Threads : pc[u] # "asleep" /\ u # t => pc'[u] = pc[u]
      BY <1>1 DEF WakeOne, Asleep, GoTo, TypeInv, TypeOK, ThreadTypeOK
    <3> QED
      BY <1>1, <3>1
  <2> QED
    BY <1>1, <1>3, <2>2 DEF Seen
<1>4. StopInv'
  BY <1>1, <1>2 DEF WakeInv, StopInv, Threads
<1>5. SeenInv'
  BY <1>1, <1>2, <1>3 DEF WakeInv, SeenInv, TypeInv, TypeOK, ThreadTypeOK
<1>6. NoLostWakeup'
  <2> SUFFICES ASSUME ~done PROVE \E w \in Workers : Awake(w)'
    BY <1>1 DEF NoLostWakeup
  <2>1. \A w \in Workers : pc[w] \notin {"exit", "exited"}
    BY DEF WakeInv, StopInv
  <2>2. CASE Asleep = {}
    <3>1. 1 \in Workers /\ pc[1] # "asleep"
      BY <2>2, SlotType DEF Asleep
    <3>2. pc'[1] \notin {"asleep", "exit", "exited"}
      BY <1>2, <2>1, <3>1
    <3> QED
      BY <3>1, <3>2 DEF Awake
  <2>3. ASSUME NEW w \in Asleep,
               pc' = [pc EXCEPT ![t] = Resume(t, stack[t]), ![w] = "wait"]
        PROVE  \E x \in Workers : Awake(x)'
    <3>1. w \in Workers /\ pc'[w] = "wait"
      BY <2>3 DEF Asleep, TypeInv, TypeOK, ThreadTypeOK
    <3> QED
      BY <3>1 DEF Awake
  <2> QED
    BY <1>1, <2>2, <2>3 DEF WakeOne
<1> QED
  BY <1>4, <1>5, <1>6 DEF WakeInv

\* A worker's step that changes only its own program counter, its captured
\* epoch and its scan, and keeps what SeenInv says of it.
LEMMA OwnStep ==
    ASSUME TypeInv, WakeInv, NEW w \in Workers, NEW v,
           pc' = [pc EXCEPT ![w] = v],
           pc[w] \notin {"notify", "wake"},
           v \notin {"pred", "chk", "block"},
           v \in {"exit", "exited"} => done,
           UNCHANGED <<queue, epoch, done, stop, dst>>,
           \A u \in Workers \ {w} : expected'[u] = expected[u] /\ tried'[u] = tried[u],
           expected'[w] <= epoch,
           v = "pred2" => tried'[w] = {},
           v \in {"chk2", "waitaddr"} =>
              expected'[w] = expected[w] /\ \A q \in Queues : Seen(w, q),
           v = "asleep" => NoLostWakeup'
    PROVE  WakeInv'
<1> USE Names
<1>1. pc'[w] = v /\ \A u \in Threads \ {w} : pc'[u] = pc[u]
  BY DEF TypeInv, TypeOK, ThreadTypeOK
<1>2. ASSUME NEW u \in Workers, NEW q \in Queues, Seen(u, q), expected'[u] = expected[u]
      PROVE  Seen(u, q)'
  BY <1>1, <1>2 DEF Seen
<1>3. StopInv'
  BY <1>1 DEF WakeInv, StopInv
<1>4. SeenInv'
  <2>1. tried \in [Threads -> SUBSET Queues]
    BY DEF TypeInv, TypeOK, ThreadTypeOK
  <2>2. ASSUME NEW u \in Workers \ {w}
        PROVE  /\ pc'[u] \notin {"pred", "chk", "block"}
               /\ expected'[u] <= epoch'
               /\ pc'[u] = "pred2" => \A r \in tried'[u] : Seen(u, r)'
               /\ pc'[u] \in {"chk2", "waitaddr"} => \A r \in Queues : Seen(u, r)'
    BY <1>1, <1>2, <2>1 DEF WakeInv, SeenInv
  <2>3. /\ pc'[w] \notin {"pred", "chk", "block"}
        /\ expected'[w] <= epoch'
        /\ pc'[w] = "pred2" => \A r \in tried'[w] : Seen(w, r)'
        /\ pc'[w] \in {"chk2", "waitaddr"} => \A r \in Queues : Seen(w, r)'
    BY <1>1, <1>2
  <2> QED
    BY <2>2, <2>3 DEF SeenInv
<1>5. NoLostWakeup'
  <2>1. CASE v \in {"exit", "exited"}
    BY <2>1 DEF NoLostWakeup
  <2>2. CASE v \notin {"exit", "exited", "asleep"}
    BY <1>1, <2>2 DEF NoLostWakeup, Awake
  <2> QED
    BY <2>1, <2>2
<1> QED
  BY <1>3, <1>4, <1>5 DEF WakeInv

LEMMA WorkerWakeInv ==
    ASSUME TypeInv, WakeInv, WaitPolicy = "epoch", NEW w \in Workers,
           WorkerStep(w) \/ SpuriousWake(w)
    PROVE  WakeInv'
<1> USE Names
<1>1. w \in stop => done
  BY DEF WakeInv, StopInv
<1>2. expected[w] <= epoch /\ pc[w] \notin {"pred", "chk", "block"}
  BY DEF WakeInv, SeenInv
<1> DEFINE Frame(v) == /\ pc' = [pc EXCEPT ![w] = v]
                       /\ pc[w] \notin {"notify", "wake"}
                       /\ UNCHANGED <<queue, epoch, done, stop, dst>>
                       /\ \A u \in Workers \ {w} : tried'[u] = tried[u]
<1>3. CASE Start(w) \/ Wait(w)
  <2>1. PICK v \in {"poll", "pred1"} : Frame(v) /\ UNCHANGED expected
    BY <1>3 DEF Start, Wait, BeginScan, GoTo, TypeInv, TypeOK, ThreadTypeOK
  <2> QED
    BY <1>2, <2>1, OwnStep
<1>4. CASE CheckStop(w) \/ Idle(w)
  <2>1. PICK v \in {"poll", "exit", "wait"} :
           Frame(v) /\ UNCHANGED expected /\ (v = "exit" => w \in stop)
    BY <1>4 DEF CheckStop, Idle, BeginScan, GoTo, TypeInv, TypeOK, ThreadTypeOK
  <2> QED
    BY <1>1, <1>2, <2>1, OwnStep
<1>5. CASE PredStop(w)
  <2>1. PICK v \in {"exit", "capture", "waitaddr"} :
           /\ Frame(v) /\ UNCHANGED expected
           /\ v = "exit" => done
           /\ v = "waitaddr" => pc[w] = "chk2"
    BY <1>1, <1>2, <1>5 DEF PredStop, StopRequested, AfterPred, GoTo
  <2>2. v = "waitaddr" => \A q \in Queues : Seen(w, q)
    BY <2>1 DEF WakeInv, SeenInv
  <2> QED
    BY <1>2, <2>1, <2>2, OwnStep
<1>6. CASE Capture(w)
  <2>1. PICK v \in {"pred2"} :
        /\ Frame(v) /\ tried'[w] = {}
        /\ expected'[w] = epoch
        /\ \A u \in Workers \ {w} : expected'[u] = expected[u]
    BY <1>6 DEF Capture, BeginScan, GoTo, TypeInv, TypeOK, ThreadTypeOK
  <2>2. epoch <= epoch
    BY DEF TypeInv, TypeOK, SharedTypeOK
  <2> QED
    BY <2>1, <2>2, OwnStep
<1>7. CASE WaitOnAddress(w)
  <2>1. PICK v \in {"asleep", "wait"} :
           /\ Frame(v) /\ pc[w] = "waitaddr"
           /\ v = "asleep" => epoch = expected[w]
           /\ expected'[w] = 0
           /\ \A u \in Workers \ {w} : expected'[u] = expected[u]
    BY <1>7 DEF WaitOnAddress, GoTo, TypeInv, TypeOK, ThreadTypeOK
  <2>2. 0 <= epoch
    BY DEF TypeInv, TypeOK, SharedTypeOK
  <2>3. v = "asleep" => NoLostWakeup'
    <3>1. \A q \in Queues : Seen(w, q)
      BY <2>1 DEF WakeInv, SeenInv
    <3>2. \A u \in Threads : u # w => pc'[u] = pc[u]
      BY <2>1 DEF TypeInv, TypeOK, ThreadTypeOK
    <3> QED
      BY <2>1, <3>1, <3>2 DEF Seen, NoLostWakeup
  <2> QED
    BY <2>1, <2>2, <2>3, OwnStep
<1>8. CASE Block(w)
  BY <1>2, <1>8 DEF Block
<1>9. CASE SpuriousWake(w)
  <2>1. PICK v \in {"wait"} : Frame(v) /\ UNCHANGED expected
    BY <1>9 DEF SpuriousWake, GoTo
  <2> QED
    BY <1>2, <2>1, OwnStep
<1>10. CASE Exit(w)
  <2>1. PICK v \in {"exited"} : Frame(v) /\ UNCHANGED expected /\ done
    BY <1>10 DEF Exit, GoTo, WakeInv, StopInv
  <2> QED
    BY <1>2, <2>1, OwnStep
<1> QED
  BY <1>3, <1>4, <1>5, <1>6, <1>7, <1>8, <1>9, <1>10 DEF WorkerStep

\* A client's calls, up to the destructor.
LEMMA CallWakeInv ==
    ASSUME TypeInv, WakeInv, NEW c \in Clients,
           \/ ParallelSend(c) \/ IsReady(c) \/ Count(c) \/ Join(c) \/ Send(c)
           \/ ParallelFor(c) \/ WaitOrWork(c) \/ WaitForAll(c) \/ DoWork(c)
    PROVE  WakeInv'
<1> USE Names DEF GoTo, Enter, StartSend, BeginScan
<1>1. PICK v \in {"push", "help", "destroyed"} \cup Calls : pc' = [pc EXCEPT ![c] = v]
  <2>1. pc[c] \in Calls => pc = [pc EXCEPT ![c] = pc[c]]
    BY DEF TypeInv, TypeOK, ThreadTypeOK
  <2>2. CASE IsReady(c) \/ Count(c)
    <3>1. pc[c] \in Calls
      BY <2>2 DEF IsReady, Count
    <3> QED
      BY <2>1, <2>2, <3>1 DEF IsReady, Count
  <2>3. CASE ~(IsReady(c) \/ Count(c))
    BY <2>3 DEF ParallelSend, Join, Send, ParallelFor, WaitOrWork, WaitForAll, DoWork
  <2> QED
    BY <2>2, <2>3
<1>2. pc[c] \in {"join"} \cup Calls
  BY DEF ParallelSend, IsReady, Count, Join, Send, ParallelFor, WaitOrWork, WaitForAll,
     DoWork, CanCall
<1>3. UNCHANGED <<queue, epoch, expected, done, stop>>
  BY DEF ParallelSend, IsReady, Count, Join, Send, ParallelFor, WaitOrWork, WaitForAll,
     DoWork
<1>4. \A u \in Threads \ {c} : tried'[u] = tried[u]
  BY DEF ParallelSend, IsReady, Count, Join, Send, ParallelFor, WaitOrWork, WaitForAll,
     DoWork, TypeInv, TypeOK, ThreadTypeOK
<1>5. \A u \in Threads \ {c} : dst'[u] = dst[u]
  BY DEF ParallelSend, IsReady, Count, Join, Send, ParallelFor, WaitOrWork, WaitForAll,
     DoWork, TypeInv, TypeOK, TaskTypeOK
<1> QED
  BY <1>1, <1>2, <1>3, <1>4, <1>5, QuietStep

\* The destructor.
LEMMA DestroyWakeInv ==
    ASSUME TypeInv, WakeInv, WaitPolicy = "epoch", NEW c \in Clients,
           SetDone(c) \/ SetStop(c) \/ NotifyAll(c) \/ WakeByAddressAll(c)
    PROVE  WakeInv'
<1> USE Names
<1>1. UNCHANGED <<queue, expected, tried, dst>> /\ pc[c] \notin {"notify", "wake", "asleep"}
  BY DEF SetDone, SetStop, NotifyAll, WakeByAddressAll, CanCall
<1>2. epoch' \in {epoch, epoch + 1} /\ epoch \in Nat
  BY DEF SetDone, SetStop, NotifyAll, WakeByAddressAll, TypeInv, TypeOK, SharedTypeOK
<1>3. /\ pc'[c] \in {"setstop", "notifyall", "wakeall", "join"}
      /\ pc'[c] = "setstop" => done'
      /\ \A u \in Threads \ {c} : \/ pc'[u] = pc[u]
                                  \/ u \in Workers /\ pc[u] = "asleep" /\ pc'[u] = "wait"
  BY DEF SetDone, SetStop, NotifyAll, WakeByAddressAll, WakeAll, Asleep, GoTo, TypeInv,
     TypeOK, ThreadTypeOK, WakeInv, StopInv
<1>4. (done => done') /\ (stop' # {} => done')
  BY DEF SetDone, SetStop, NotifyAll, WakeByAddressAll, WakeInv, StopInv
<1>5. ASSUME NEW w \in Workers, NEW q \in Queues, Seen(w, q) PROVE Seen(w, q)'
  <2>1. expected[w] <= epoch /\ expected[w] \in Nat
    BY DEF WakeInv, SeenInv, TypeInv, TypeOK, ThreadTypeOK
  <2>2. epoch # expected[w] => epoch' # expected'[w]
    BY <1>1, <1>2, <2>1
  <2>3. \A u \in Threads : pc[u] = "notify" => pc'[u] = "notify"
    BY <1>1, <1>3
  <2> QED
    BY <1>1, <1>5, <2>2, <2>3 DEF Seen
<1>6. StopInv'
  BY <1>3, <1>4 DEF WakeInv, StopInv
<1>7. SeenInv'
  <2>1. ASSUME NEW w \in Workers
        PROVE  expected'[w] <= epoch' /\ (pc'[w] = pc[w] \/ pc'[w] = "wait")
    BY <1>1, <1>2, <1>3 DEF WakeInv, SeenInv, TypeInv, TypeOK, ThreadTypeOK
  <2> QED
    BY <1>1, <1>5, <2>1 DEF WakeInv, SeenInv, TypeInv, TypeOK, ThreadTypeOK
<1>8. NoLostWakeup'
  <2>1. \A w \in Workers : Awake(w) => Awake(w)'
    BY <1>3 DEF Awake
  <2>2. \A t \in Threads : pc[t] \in {"notify", "wake"} => pc'[t] = pc[t]
    BY <1>1, <1>3
  <2> QED
    BY <1>1, <1>4, <2>1, <2>2 DEF WakeInv, NoLostWakeup
<1> QED
  BY <1>6, <1>7, <1>8 DEF WakeInv

LEMMA NextWakeInv ==
    ASSUME WaitPolicy = "epoch"
    PROVE  TypeInv /\ WakeInv /\ [Next]_vars => WakeInv'
<1> SUFFICES ASSUME TypeInv, WakeInv, [Next]_vars PROVE WakeInv'
  OBVIOUS
<1>1. ASSUME NEW t \in Threads, RunStep(t) PROVE WakeInv'
  BY <1>1, ScanWakeInv, RunQuietWakeInv, PushWakeInv, NotifyWakeInv, WakeWakeInv
  DEF RunStep
<1>2. ASSUME NEW w \in Workers, WorkerStep(w) \/ SpuriousWake(w) PROVE WakeInv'
  BY <1>2, WorkerWakeInv
<1>3. ASSUME NEW c \in Clients, ClientStep(c) \/ ClientCall(c) PROVE WakeInv'
  BY <1>3, CallWakeInv, DestroyWakeInv DEF ClientStep, ClientCall
<1>4. CASE UNCHANGED vars
  BY <1>4, SameWakeInv DEF vars
<1> QED
  BY <1>1, <1>2, <1>3, <1>4 DEF Next

\* With the epoch policy no wakeup is lost, whatever the number of workers and
\* clients: the second evaluation of the predicate, after the epoch is
\* captured, closes the window between the last poll and the sleep.
THEOREM EpochNoLostWakeup ==
    ASSUME WaitPolicy = "epoch"
    PROVE  Spec => []NoLostWakeup
<1>1. WakeInv => NoLostWakeup
  BY DEF WakeInv
<1> QED
  BY <1>1, InitTypeInv, NextTypeInv, InitWakeInv, NextWakeInv, PTL DEF Spec
-----------------------------------------------------------------------------
(* With the epoch policy the destructor finds no worker asleep *)

\* Where the thread that destroys the pool is, and where it is once it has
\* changed the epoch for the last time.
Destroying == {"setstop", "notifyall", "wakeall", "join", "destroyed"}
Notified   == {"wakeall", "join", "destroyed"}

\* m_done is set before the epoch changes, so a worker that passed its second
\* predicate before captured an older epoch: WaitOnAddress returns at once.
JoinInv ==
    /\ \A c \in Clients : pc[c] \in Destroying => done
    /\ \A c \in Clients : pc[c] \in Notified =>
          \A w \in Workers : pc[w] = "waitaddr" => expected[w] < epoch
    /\ JoinFindsAwake

\* A step that wakes nobody for the destructor.
JoinFrame ==
    /\ done => done'
    /\ epoch' \in Nat /\ epoch' >= epoch
    /\ \A c \in Clients : pc'[c] \in Destroying => pc[c] \in Destroying \/ done'
    /\ \A c \in Clients : pc'[c] \in Notified => pc'[c] = pc[c] \/ pc[c] = "join"
    /\ \A w \in Workers : pc'[w] = "waitaddr" =>
          ~done \/ (pc[w] = "waitaddr" /\ expected'[w] = expected[w])
    /\ \A w \in Workers : pc'[w] = "asleep" =>
          pc[w] = "asleep" \/ (pc[w] = "waitaddr" /\ epoch = expected[w])

LEMMA JoinStep ==
    ASSUME TypeInv, JoinInv, JoinFrame
    PROVE  JoinInv'
<1> USE DEF Destroying, Notified
<1>1. epoch \in Nat /\ epoch' \in Nat /\ epoch' >= epoch /\ expected \in [Workers -> Nat]
  BY DEF TypeInv, TypeOK, SharedTypeOK, ThreadTypeOK, JoinFrame
<1>2. \A c \in Clients : pc'[c] \in Destroying => done'
  BY DEF JoinInv, JoinFrame
<1>3. ASSUME NEW c \in Clients, pc'[c] \in Notified, NEW w \in Workers,
             pc'[w] = "waitaddr"
      PROVE  expected'[w] < epoch'
  <2>1. pc[c] \in Notified
    BY <1>3 DEF JoinFrame
  <2>2. done
    BY <2>1 DEF JoinInv
  <2>3. pc[w] = "waitaddr" /\ expected'[w] = expected[w]
    BY <1>3, <2>2 DEF JoinFrame
  <2>4. expected[w] < epoch
    BY <2>1, <2>3 DEF JoinInv
  <2> QED
    BY <1>1, <2>3, <2>4
<1>4. JoinFindsAwake'
  <2> SUFFICES ASSUME NEW c \in Clients, pc'[c] \in {"join", "destroyed"},
                      NEW w \in Workers, pc'[w] = "asleep"
               PROVE  FALSE
    BY DEF JoinFindsAwake, Asleep
  <2>1. pc[c] \in {"join", "destroyed"}
    BY DEF JoinFrame
  <2>2. pc[w] = "waitaddr" /\ epoch = expected[w]
    BY <2>1 DEF JoinFrame, JoinInv, JoinFindsAwake, Asleep
  <2> QED
    BY <1>1, <2>1, <2>2 DEF JoinInv
<1> QED
  BY <1>2, <1>3, <1>4 DEF JoinInv

\* A step that leaves m_done alone and takes no thread towards sleep or to the
\* next step of the destructor.
LEMMA JoinQuiet ==
    ASSUME TypeInv, UNCHANGED <<done, expected>>, epoch' \in {epoch, epoch + 1},
           \A u \in Threads : \/ pc'[u] = pc[u]
                              \/ pc'[u] \notin Destroying \cup {"waitaddr", "asleep"}
    PROVE  JoinFrame
<1>1. epoch \in Nat
  BY DEF TypeInv, TypeOK, SharedTypeOK
<1>2. epoch' \in Nat /\ epoch' >= epoch
  BY <1>1
<1> QED
  BY <1>2, Names DEF JoinFrame, Destroying, Notified

LEMMA RunJoinFrame ==
    ASSUME TypeInv, NEW t \in Threads, RunStep(t)
    PROVE  JoinFrame
<1> USE Names
<1>1. UNCHANGED <<done, expected>>
  BY DEF RunStep, PopLocal, PopPool, TrySteal, StealFrom, Found, BodySend, BodySendTo,
     SendTo, Push, NotifyOne, WakeByAddressSingle, BodyHelp, BodyReturn, Decrement
<1>2. epoch' \in {epoch, epoch + 1}
  BY DEF RunStep, PopLocal, PopPool, TrySteal, StealFrom, Found, BodySend, BodySendTo,
     SendTo, Push, NotifyOne, WakeByAddressSingle, BodyHelp, BodyReturn, Decrement
<1>3. \A st : Resume(t, st) \in {"body", "check"} \cup Calls
  BY ResumeType DEF Threads
<1>4. pc \in [Threads -> WorkerPcs \cup RunPcs \cup ClientPcs]
  BY DEF TypeInv, TypeOK, ThreadTypeOK
<1>5. AfterMiss(t) \in {"idle", "chk", "chk1", "chk2", "body", "check"} \cup Calls
  BY <1>3 DEF AfterMiss
<1>6. CASE PopLocal(t) \/ PopPool(t) \/ TrySteal(t)
  <2>1. pc' = pc \/ \E v \in {"body", "idle", "chk", "chk1", "chk2", "check"} \cup Calls :
           pc' = [pc EXCEPT ![t] = v]
    BY <1>5, <1>6 DEF PopLocal, PopPool, TrySteal, StealFrom, Found, GoTo
  <2> QED
    BY <1>1, <1>2, <1>4, <2>1, JoinQuiet DEF Destroying
<1>7. CASE \/ BodySend(t) \/ BodySendTo(t) \/ SendTo(t) \/ Push(t)
           \/ BodyHelp(t) \/ BodyReturn(t)
  <2>1. \E v \in {"push", "sendto", "notify", "body", "help", "dec"} :
           pc' = [pc EXCEPT ![t] = v]
    BY <1>7 DEF BodySend, BodySendTo, SendTo, Push, BodyHelp, BodyReturn, StartSend,
       BeginScan, GoTo
  <2> QED
    BY <1>1, <1>2, <1>4, <2>1, JoinQuiet DEF Destroying
<1>8. CASE NotifyOne(t) \/ WakeByAddressSingle(t)
  <2>1. \/ \E v \in {"wake", "body", "check"} \cup Calls : pc' = [pc EXCEPT ![t] = v]
        \/ \E v \in {"body", "check"} \cup Calls, w \in Workers :
              pc' = [pc EXCEPT ![t] = v, ![w] = "wait"]
    BY <1>3, <1>8 DEF NotifyOne, WakeByAddressSingle, WakeOne, Asleep, GoTo
  <2>2. \A u \in Threads : pc'[u] = pc[u] \/ pc'[u] \in {"wake", "body", "check", "wait"} \cup Calls
    BY <1>4, <2>1
  <2> QED
    BY <1>1, <1>2, <2>2, JoinQuiet DEF Destroying
<1>9. CASE Decrement(t)
  <2>1. \E v \in {"body", "check"} \cup Calls : pc' = [pc EXCEPT ![t] = v]
    BY <1>3, <1>9 DEF Decrement, GoTo
  <2> QED
    BY <1>1, <1>2, <1>4, <2>1, JoinQuiet DEF Destroying
<1> QED
  BY <1>6, <1>7, <1>8, <1>9 DEF RunStep

LEMMA WorkerJoinFrame ==
    ASSUME TypeInv, WaitPolicy = "epoch", SeenInv, NEW w \in Workers,
           WorkerStep(w) \/ SpuriousWake(w)
    PROVE  JoinFrame
<1> USE Names
<1>1. pc \in [Threads -> WorkerPcs \cup RunPcs \cup ClientPcs] /\ epoch \in Nat
  BY DEF TypeInv, TypeOK, ThreadTypeOK, SharedTypeOK
<1>2. UNCHANGED <<done, epoch>>
  BY DEF WorkerStep, Start, CheckStop, Idle, Wait, PredStop, Block, Capture,
     WaitOnAddress, Exit, SpuriousWake
<1>3. CASE ~(PredStop(w) \/ Capture(w) \/ WaitOnAddress(w) \/ Block(w))
  <2>1. /\ UNCHANGED expected
        /\ \E v \in {"poll", "exit", "wait", "pred", "pred1", "exited"} :
              pc' = [pc EXCEPT ![w] = v]
    BY <1>3 DEF WorkerStep, Start, CheckStop, Idle, Wait, Exit, SpuriousWake, BeginScan,
       GoTo
  <2> QED
    BY <1>1, <1>2, <2>1, JoinQuiet DEF Destroying
<1>4. CASE PredStop(w)
  <2>1. /\ UNCHANGED expected
        /\ \E v \in {"exit", "block", "capture", "waitaddr"} :
              pc' = [pc EXCEPT ![w] = v] /\ (v = "waitaddr" => ~done)
    BY <1>4 DEF PredStop, StopRequested, AfterPred, GoTo
  <2> QED
    BY <1>1, <1>2, <2>1 DEF JoinFrame, Destroying, Notified
<1>5. CASE Capture(w)
  <2>1. /\ pc' = [pc EXCEPT ![w] = "pred2"]
        /\ \A u \in Workers \ {w} : expected'[u] = expected[u]
    BY <1>5 DEF Capture, BeginScan, GoTo, TypeInv, TypeOK, ThreadTypeOK
  <2> QED
    BY <1>1, <1>2, <2>1 DEF JoinFrame, Destroying, Notified
<1>6. CASE WaitOnAddress(w)
  <2>1. /\ pc[w] = "waitaddr"
        /\ \A u \in Workers \ {w} : expected'[u] = expected[u]
        /\ \E v \in {"asleep", "wait"} :
              pc' = [pc EXCEPT ![w] = v] /\ (v = "asleep" => epoch = expected[w])
    BY <1>6 DEF WaitOnAddress, GoTo, TypeInv, TypeOK, ThreadTypeOK
  <2> QED
    BY <1>1, <1>2, <2>1 DEF JoinFrame, Destroying, Notified
<1>7. ~Block(w)
  BY DEF Block, SeenInv
<1> QED
  BY <1>3, <1>4, <1>5, <1>6, <1>7

LEMMA ClientJoinInv ==
    ASSUME TypeInv, WaitPolicy = "epoch", SeenInv, JoinInv, NEW c \in Clients,
           ClientStep(c) \/ ClientCall(c)
    PROVE  JoinInv'
<1> USE Names
<1>1. /\ pc \in [Threads -> WorkerPcs \cup RunPcs \cup ClientPcs]
      /\ epoch \in Nat /\ expected \in [Workers -> Nat]
  BY DEF TypeInv, TypeOK, ThreadTypeOK, SharedTypeOK
<1>2. UNCHANGED expected
  BY DEF ClientStep, ClientCall, ParallelSend, IsReady, Count, SetStop, NotifyAll,
     WakeByAddressAll, Join, Send, ParallelFor, WaitOrWork, WaitForAll, DoWork, SetDone
<1>3. CASE \/ ParallelSend(c) \/ IsReady(c) \/ Count(c) \/ Send(c)
           \/ ParallelFor(c) \/ WaitOrWork(c) \/ WaitForAll(c) \/ DoWork(c)
  <2>1. pc' = pc \/ \E v \in {"push", "help"} \cup Calls : pc' = [pc EXCEPT ![c] = v]
    BY <1>3 DEF ParallelSend, IsReady, Count, Send, ParallelFor, WaitOrWork, WaitForAll,
       DoWork, StartSend, BeginScan, Enter, GoTo
  <2>2. UNCHANGED <<done, epoch>>
    BY <1>3 DEF ParallelSend, IsReady, Count, Send, ParallelFor, WaitOrWork, WaitForAll,
       DoWork
  <2> QED
    BY <1>1, <1>2, <2>1, <2>2, JoinQuiet, JoinStep DEF Destroying
<1>4. CASE SetDone(c)
  <2>1. pc' = [pc EXCEPT ![c] = "setstop"] /\ done' /\ UNCHANGED epoch
    BY <1>4 DEF SetDone, GoTo
  <2>2. JoinFrame
    BY <1>1, <1>2, <2>1 DEF JoinFrame, Destroying, Notified
  <2> QED
    BY <2>2, JoinStep
<1>5. CASE SetStop(c)
  <2>1. /\ pc[c] = "setstop" /\ UNCHANGED <<done, epoch>>
        /\ pc' = pc \/ pc' = [pc EXCEPT ![c] = "notifyall"]
    BY <1>5 DEF SetStop, GoTo
  <2>2. JoinFrame
    BY <1>1, <1>2, <2>1 DEF JoinFrame, Destroying, Notified
  <2> QED
    BY <2>2, JoinStep
<1>6. CASE Join(c)
  <2>1. pc[c] = "join" /\ pc' = [pc EXCEPT ![c] = "destroyed"] /\ UNCHANGED <<done, epoch>>
    BY <1>6 DEF Join, GoTo
  <2>2. JoinFrame
    BY <1>1, <1>2, <2>1 DEF JoinFrame, Destroying, Notified
  <2> QED
    BY <2>2, JoinStep
<1>7. CASE NotifyAll(c)
  <2>1. /\ pc[c] = "notifyall" /\ pc' = [pc EXCEPT ![c] = "wakeall"]
        /\ epoch' = epoch + 1 /\ UNCHANGED done
    BY <1>7 DEF NotifyAll, GoTo
  <2>2. \A w \in Workers : expected'[w] < epoch'
    BY <1>1, <1>2, <2>1 DEF SeenInv
  <2>3. \A d \in Clients : pc'[d] \in Destroying => done'
    BY <1>1, <2>1 DEF JoinInv, Destroying
  <2>4. JoinFindsAwake'
    BY <1>1, <2>1 DEF JoinInv, JoinFindsAwake, Asleep
  <2> QED
    BY <2>2, <2>3, <2>4 DEF JoinInv
<1>8. CASE WakeByAddressAll(c)
  <2>1. /\ pc[c] = "wakeall" /\ UNCHANGED <<done, epoch>>
        /\ pc' = [t \in Threads |-> IF t = c THEN "join"
                                    ELSE IF t \in Asleep THEN "wait" ELSE pc[t]]
    BY <1>8 DEF WakeByAddressAll, WakeAll
  <2>2. \A w \in Workers : w # c /\ pc'[w] # "asleep"
    BY <2>1 DEF Asleep
  <2>3. JoinFindsAwake'
    BY <2>2 DEF JoinFindsAwake, Asleep
  <2>4. \A d \in Clients : pc'[d] \in Notified => pc[d] \in Notified
    BY <2>1 DEF Notified
  <2>5. \A d \in Clients : pc'[d] \in Destroying => pc[d] \in Destroying
    BY <2>1 DEF Destroying
  <2>6. \A w \in Workers : pc'[w] = "waitaddr" => pc[w] = "waitaddr"
    BY <2>1
  <2> QED
    BY <1>2, <2>1, <2>3, <2>4, <2>5, <2>6 DEF JoinInv
<1> QED
  BY <1>3, <1>4, <1>5, <1>6, <1>7, <1>8 DEF ClientStep, ClientCall

LEMMA NextJoinInv ==
    ASSUME WaitPolicy = "epoch"
    PROVE  TypeInv /\ WakeInv /\ JoinInv /\ [Next]_vars => JoinInv'
<1> SUFFICES ASSUME TypeInv, WakeInv, JoinInv, [Next]_vars PROVE JoinInv'
  OBVIOUS
<1>1. SeenInv
  BY DEF WakeInv
<1>2. ASSUME NEW t \in Threads, RunStep(t) PROVE JoinInv'
  BY <1>2, RunJoinFrame, JoinStep
<1>3. ASSUME NEW w \in Workers, WorkerStep(w) \/ SpuriousWake(w) PROVE JoinInv'
  BY <1>1, <1>3, WorkerJoinFrame, JoinStep
<1>4. ASSUME NEW c \in Clients, ClientStep(c) \/ ClientCall(c) PROVE JoinInv'
  BY <1>1, <1>4, ClientJoinInv
<1>5. CASE UNCHANGED vars
  BY <1>5 DEF vars, JoinInv, JoinFindsAwake, Asleep
<1> QED
  BY <1>2, <1>3, <1>4, <1>5 DEF Next

\* With the epoch policy the destructor joins only workers that are awake: no
\* worker misses notify_all between its last look at m_done and its sleep.
THEOREM EpochJoinFindsAwake ==
    ASSUME WaitPolicy = "epoch"
    PROVE  Spec => []JoinFindsAwake
<1>1. Init => JoinInv
  BY Names DEF Init, JoinInv, JoinFindsAwake, Asleep, Destroying, Notified, Threads
<1>2. JoinInv => JoinFindsAwake
  BY DEF JoinInv
<1> QED
  BY <1>1, <1>2, InitTypeInv, NextTypeInv, InitWakeInv, NextWakeInv, NextJoinInv, PTL
  DEF Spec

-----------------------------------------------------------------------------
(* No task is lost and none runs twice *)

\* The elements of a sequence, and that none occurs twice.
Elems(s)    == {s[i] : i \in 1 .. Len(s)}
Distinct(s) == \A i, j \in 1 .. Len(s) : s[i] = s[j] => i = j

LEMMA AppendElems ==
    ASSUME NEW S, NEW s \in Seq(S), NEW x \in S
    PROVE  /\ Elems(Append(s, x)) = Elems(s) \cup {x}
           /\ Distinct(s) /\ x \notin Elems(s) => Distinct(Append(s, x))
           /\ Len(Append(s, x)) = Len(s) + 1
           /\ Append(s, x)[Len(Append(s, x))] = x
<1>1. Len(s) \in Nat
  BY LenProperties
<1>2. /\ Len(Append(s, x)) = Len(s) + 1
      /\ \A i \in 1 .. Len(s) : Append(s, x)[i] = s[i]
      /\ Append(s, x)[Len(s) + 1] = x
  BY AppendProperties
<1>3. 1 .. (Len(s) + 1) = (1 .. Len(s)) \cup {Len(s) + 1}
  BY <1>1
<1>4. Elems(Append(s, x)) = Elems(s) \cup {x}
  BY <1>1, <1>2, <1>3 DEF Elems
<1>5. ASSUME Distinct(s), x \notin Elems(s) PROVE Distinct(Append(s, x))
  BY <1>1, <1>2, <1>3, <1>5 DEF Distinct, Elems
<1> QED
  BY <1>2, <1>4, <1>5

\* A pop takes the oldest element away, a steal the newest.
LEMMA TailElems ==
    ASSUME NEW S, NEW s \in Seq(S), s # <<>>, Distinct(s)
    PROVE  /\ Head(s) \in Elems(s)
           /\ Elems(Tail(s)) = Elems(s) \ {Head(s)}
           /\ Distinct(Tail(s))
           /\ Len(Tail(s)) <= Len(s)
<1>1. Len(s) \in Nat /\ Len(s) > 0
  BY LenProperties, EmptySeq
<1>2. /\ Len(Tail(s)) = Len(s) - 1
      /\ \A i \in 1 .. Len(Tail(s)) : Tail(s)[i] = s[i + 1]
      /\ Head(s) = s[1]
  BY <1>1, HeadTailProperties
<1>3. \A i \in 1 .. Len(s) : i = 1 \/ (i - 1 \in 1 .. Len(Tail(s)) /\ s[i] = Tail(s)[i - 1])
  BY <1>1, <1>2
<1>4. \A i \in 1 .. Len(Tail(s)) : i + 1 \in 1 .. Len(s) /\ i + 1 # 1 /\ Tail(s)[i] = s[i + 1]
  BY <1>1, <1>2
<1>5. 1 \in 1 .. Len(s)
  BY <1>1
<1>6. Elems(Tail(s)) \subseteq Elems(s) \ {Head(s)}
  BY <1>2, <1>4, <1>5 DEF Elems, Distinct
<1>7. Elems(s) \ {Head(s)} \subseteq Elems(Tail(s))
  BY <1>2, <1>3 DEF Elems
<1>8. Distinct(Tail(s))
  BY <1>1, <1>2, <1>4 DEF Distinct
<1> QED
  BY <1>1, <1>2, <1>5, <1>6, <1>7, <1>8 DEF Elems

LEMMA NewestElems ==
    ASSUME NEW S, NEW s \in Seq(S), s # <<>>, Distinct(s)
    PROVE  /\ s[Len(s)] \in Elems(s)
           /\ Elems(WithoutNewest(s)) = Elems(s) \ {s[Len(s)]}
           /\ Distinct(WithoutNewest(s))
           /\ Len(WithoutNewest(s)) <= Len(s)
<1>1. Len(s) \in Nat /\ Len(s) > 0
  BY LenProperties, EmptySeq
<1>2. /\ Len(WithoutNewest(s)) = Len(s) - 1
      /\ \A i \in 1 .. Len(s) - 1 : WithoutNewest(s)[i] = s[i]
  <2>1. \A i \in 1 .. Len(s) - 1 : s[i] \in S
    BY <1>1, ElementOfSeq
  <2>2. 1 \in Int /\ Len(s) - 1 \in Int
    BY <1>1
  <2>3. /\ Len(WithoutNewest(s)) = IF 1 <= Len(s) - 1 THEN Len(s) - 1 - 1 + 1 ELSE 0
        /\ \A i \in 1 .. Len(s) - 1 - 1 + 1 : WithoutNewest(s)[i] = s[1 + i - 1]
    BY <2>1, <2>2, SubSeqProperties DEF WithoutNewest
  <2>4. /\ Len(s) - 1 - 1 + 1 = Len(s) - 1
        /\ 1 <= Len(s) - 1 \/ Len(s) - 1 = 0
    <3> DEFINE n == Len(s)
    <3> HIDE DEF n
    <3>1. n \in Nat /\ n > 0
      BY <1>1 DEF n
    <3>2. n - 1 - 1 + 1 = n - 1
      BY <3>1
    <3>3. 1 <= n - 1 \/ n - 1 = 0
      BY <3>1, SMTT(40)
    <3> QED
      BY <3>2, <3>3 DEF n
  <2>5. Len(WithoutNewest(s)) = Len(s) - 1
    BY <2>3, <2>4
  <2>6. \A i \in 1 .. Len(s) - 1 : WithoutNewest(s)[i] = s[1 + i - 1]
    BY <2>3, <2>4
  <2>7. ASSUME NEW i \in 1 .. Len(s) - 1 PROVE WithoutNewest(s)[i] = s[i]
    <3>1. 1 + i - 1 = i
      BY <1>1
    <3> QED
      BY <2>6, <3>1
  <2> QED
    BY <2>5, <2>7
<1>3. 1 .. Len(s) = (1 .. Len(s) - 1) \cup {Len(s)} /\ Len(s) \notin 1 .. Len(s) - 1
  BY <1>1
<1>4. Distinct(WithoutNewest(s))
  BY <1>2, <1>3 DEF Distinct
<1>5. Elems(WithoutNewest(s)) = Elems(s) \ {s[Len(s)]}
  BY <1>2, <1>3 DEF Elems, Distinct
<1> QED
  <2>1. s[Len(s)] \in Elems(s)
    BY <1>3 DEF Elems
  <2>2. Len(WithoutNewest(s)) <= Len(s)
    BY <1>1, <1>2
  <2> QED
    BY <1>4, <1>5, <2>1, <2>2

\* A sequence without repetitions is no longer than the set of its elements.
LEMMA DistinctBound ==
    ASSUME NEW S, IsFiniteSet(S), NEW s \in Seq(S), Distinct(s)
    PROVE  Len(s) <= Cardinality(S)
<1>1. Len(s) \in Nat /\ s \in [1 .. Len(s) -> S]
  BY LenProperties
<1>2. s \in Injection(1 .. Len(s), S)
  BY <1>1 DEF Distinct, Injection, IsInjective
<1>3. Cardinality(1 .. Len(s)) <= Cardinality(S)
  BY <1>2, FS_Injection
<1>4. Cardinality(1 .. Len(s)) = Len(s)
  BY <1>1, FS_Interval
<1> QED
  BY <1>3, <1>4

\* No place holds a task twice and no task is in two places: on a stack, in a
\* queue, or with a thread that is about to push it.
Unique ==
    /\ \A t \in Threads : Distinct(stack[t])
    /\ \A q \in Queues : Distinct(queue[q])
    /\ \A t, u \in Threads : \A x : x \in Elems(stack[t]) /\ x \in Elems(stack[u]) => t = u
    /\ \A q, r \in Queues : \A x : x \in Elems(queue[q]) /\ x \in Elems(queue[r]) => q = r
    /\ \A t, u \in Threads :
          pc[t] = "push" /\ pc[u] = "push" /\ cur[t] = cur[u] => t = u

Apart ==
    /\ \A t \in Threads, q \in Queues : \A x :
          ~(x \in Elems(stack[t]) /\ x \in Elems(queue[q]))
    /\ \A t, u \in Threads : pc[u] = "push" => cur[u] \notin Elems(stack[t])
    /\ \A u \in Threads, q \in Queues : pc[u] = "push" => cur[u] \notin Elems(queue[q])

Placed(x) ==
    \/ \E t \in Threads : x \in Elems(stack[t])
    \/ \E q \in Queues : x \in Elems(queue[q])
    \/ \E t \in Threads : pc[t] = "push" /\ cur[t] = x

\* A task is in some place from the moment it is counted until it has run; one
\* that has run is on a stack only until its thread has decremented the count.
Life(x) ==
    /\ executed[x] \in {0, 1}
    /\ x \notin sent => executed[x] = 0 /\ ~Placed(x)
    /\ x \in sent /\ executed[x] = 0 => Placed(x)
    /\ executed[x] = 1 =>
          /\ \A q \in Queues : x \notin Elems(queue[q])
          /\ \A t \in Threads : pc[t] = "push" => cur[t] # x
          /\ \A t \in Threads : x \in Elems(stack[t]) => pc[t] = "dec" /\ x = Top(t)

PlaceInv ==
    /\ Unique
    /\ Apart
    /\ \A x \in Tasks : Life(x)
    /\ \A t \in Threads : pc[t] = "dec" => executed[Top(t)] = 1
    /\ \A q \in Queues : Len(queue[q]) <= QCap

\* Who may still send a task: one body, one sender that has chosen its queue,
\* or one client; and then it has not been sent.
FutureInv ==
    /\ \A y \in Tasks : todo[y] \subseteq Spawns[y] /\ todo[y] \cap sent = {}
    /\ \A t \in Threads : pc[t] = "sendto" =>
          /\ cur[t] \notin sent /\ cur[t] \notin Roots
          /\ \A y \in Tasks : cur[t] \notin todo[y]
    /\ \A t, u \in Threads :
          pc[t] = "sendto" /\ pc[u] = "sendto" /\ cur[t] = cur[u] => t = u
    /\ \A c \in Clients : batch[c] \subseteq Roots /\ batch[c] \cap sent = {}
    /\ \A c, d \in Clients : \A x : x \in batch[c] /\ x \in batch[d] => c = d

\* A thread neither begins nor ends a push, a choice of a queue or a decrement.
Aside(p) == p \notin {"push", "dec", "sendto"}

Quiet(u) == cur'[u] = cur[u] /\ (pc'[u] = pc[u] \/ (Aside(pc[u]) /\ Aside(pc'[u])))

LEMMA QuietPlaces ==
    ASSUME PlaceInv, UNCHANGED <<queue, stack, sent, executed>>,
           \A u \in Threads : Quiet(u)
    PROVE  PlaceInv'
<1>1. \A u \in Threads : /\ pc'[u] = "push" <=> pc[u] = "push"
                         /\ pc'[u] = "dec" <=> pc[u] = "dec"
                         /\ cur'[u] = cur[u]
                         /\ Top(u)' = Top(u)
  BY DEF Quiet, Aside, Top
<1>2. Unique'
  BY <1>1 DEF PlaceInv, Unique
<1>3. Apart'
  BY <1>1 DEF PlaceInv, Apart
<1>4. ASSUME NEW x \in Tasks PROVE Life(x)'
  BY <1>1 DEF PlaceInv, Life, Placed
<1> QED
  BY <1>1, <1>2, <1>3, <1>4 DEF PlaceInv

LEMMA QuietFuture ==
    ASSUME FutureInv, UNCHANGED <<todo, batch, sent>>, \A u \in Threads : Quiet(u)
    PROVE  FutureInv'
<1>1. \A u \in Threads : pc'[u] = "sendto" => pc[u] = "sendto" /\ cur'[u] = cur[u]
  BY DEF Quiet, Aside
<1> QED
  BY <1>1 DEF FutureInv

\* Thread t puts x on its stack.
Stacks(t, x) ==
    /\ pc[t] \notin {"dec", "sendto"}
    /\ pc' = [pc EXCEPT ![t] = "body"]
    /\ stack' = [stack EXCEPT ![t] = Append(stack[t], x)]
    /\ \A u \in Threads \ {t} : cur'[u] = cur[u]
    /\ UNCHANGED <<sent, executed>>

LEMMA StacksFacts ==
    ASSUME TypeInv, PlaceInv, NEW t \in Threads, NEW x \in Tasks, Stacks(t, x),
           \A u \in Threads : x \notin Elems(stack[u])
    PROVE  /\ pc'[t] = "body"
           /\ \A u \in Threads \ {t} : pc'[u] = pc[u] /\ cur'[u] = cur[u]
           /\ \A u \in Threads \ {t} : stack'[u] = stack[u] /\ Top(u)' = Top(u)
           /\ Distinct(stack'[t])
           /\ Elems(stack'[t]) = Elems(stack[t]) \cup {x}
<1>1. pc \in [Threads -> WorkerPcs \cup RunPcs \cup ClientPcs] /\ stack \in [Threads -> Seq(Tasks)]
  BY DEF TypeInv, TypeOK, ThreadTypeOK, TaskTypeOK
<1>2. stack[t] \in Seq(Tasks) /\ stack'[t] = Append(stack[t], x)
  BY <1>1 DEF Stacks
<1>3. Distinct(stack[t])
  BY DEF PlaceInv, Unique
<1>4. \A u \in Threads \ {t} : stack'[u] = stack[u]
  BY <1>1 DEF Stacks
<1>5. pc'[t] = "body" /\ \A u \in Threads \ {t} : pc'[u] = pc[u] /\ cur'[u] = cur[u]
  BY <1>1 DEF Stacks
<1>6. Elems(stack'[t]) = Elems(stack[t]) \cup {x} /\ Distinct(stack'[t])
  BY <1>2, <1>3, AppendElems
<1> QED
  BY <1>4, <1>5, <1>6 DEF Top

\* Thread t takes x out of queue q.
Takes(t, q, x) ==
    /\ Stacks(t, x)
    /\ pc[t] # "push"
    /\ x \in Elems(queue[q])
    /\ \A r \in Queues \ {q} : queue'[r] = queue[r]
    /\ Elems(queue'[q]) = Elems(queue[q]) \ {x}
    /\ Distinct(queue'[q])
    /\ Len(queue'[q]) <= QCap

LEMMA TakesPlaceInv ==
    ASSUME TypeInv, PlaceInv, NEW t \in Threads, NEW q \in Queues, NEW x \in Tasks,
           Takes(t, q, x)
    PROVE  PlaceInv'
<1>1. Unique /\ Apart /\ (\A y \in Tasks : Life(y))
  BY DEF PlaceInv
<1>2. /\ x \in Elems(queue[q])
      /\ \A r \in Queues \ {q} : queue'[r] = queue[r]
      /\ Elems(queue'[q]) = Elems(queue[q]) \ {x}
      /\ Distinct(queue'[q]) /\ Len(queue'[q]) <= QCap
      /\ pc[t] \notin {"dec", "push"}
      /\ UNCHANGED <<sent, executed>>
      /\ Stacks(t, x)
  BY DEF Takes, Stacks
<1>3. \A u \in Threads : x \notin Elems(stack[u])
  BY <1>1, <1>2 DEF Apart
<1>4. /\ pc'[t] = "body"
      /\ \A u \in Threads \ {t} : pc'[u] = pc[u] /\ cur'[u] = cur[u]
      /\ \A u \in Threads \ {t} : stack'[u] = stack[u] /\ Top(u)' = Top(u)
      /\ Distinct(stack'[t])
      /\ Elems(stack'[t]) = Elems(stack[t]) \cup {x}
  BY <1>2, <1>3, StacksFacts
<1>5. \A r \in Queues : Elems(queue'[r]) = Elems(queue[r]) \ {x}
  BY <1>1, <1>2 DEF Unique
<1>6. \A u \in Threads : pc[u] = "push" => cur[u] # x
  BY <1>1, <1>2 DEF Apart
<1>7. Unique'
  <2>1. \A u \in Threads : Distinct(stack'[u])
    BY <1>1, <1>4 DEF Unique
  <2>2. \A r \in Queues : Distinct(queue'[r])
    BY <1>1, <1>2 DEF Unique
  <2>3. \A u, v \in Threads : \A y : y \in Elems(stack'[u]) /\ y \in Elems(stack'[v]) => u = v
    <3>1. \A u \in Threads : \A y :
             y \in Elems(stack'[u]) => y \in Elems(stack[u]) \/ (y = x /\ u = t)
      BY <1>4
    <3> QED
      BY <1>1, <1>3, <3>1 DEF Unique
  <2>4. \A r, v \in Queues : \A y : y \in Elems(queue'[r]) /\ y \in Elems(queue'[v]) => r = v
    BY <1>1, <1>5 DEF Unique
  <2>5. \A u, v \in Threads :
           pc'[u] = "push" /\ pc'[v] = "push" /\ cur'[u] = cur'[v] => u = v
    BY <1>1, <1>4 DEF Unique
  <2> QED
    BY <2>1, <2>2, <2>3, <2>4, <2>5 DEF Unique
<1>8. Apart'
  <2>1. \A u \in Threads, r \in Queues : \A y :
           ~(y \in Elems(stack'[u]) /\ y \in Elems(queue'[r]))
    BY <1>1, <1>4, <1>5 DEF Apart
  <2>2. \A u, v \in Threads : pc'[v] = "push" => cur'[v] \notin Elems(stack'[u])
    BY <1>1, <1>4, <1>6 DEF Apart
  <2>3. \A u \in Threads, r \in Queues : pc'[u] = "push" => cur'[u] \notin Elems(queue'[r])
    BY <1>1, <1>4, <1>5 DEF Apart
  <2> QED
    BY <2>1, <2>2, <2>3 DEF Apart
<1>9. executed[x] = 0 /\ x \in sent
  BY <1>1, <1>2 DEF Life, Placed
<1>10. ASSUME NEW y \in Tasks PROVE Life(y)'
  <2>1. CASE y = x
    <3>1. Placed(x)'
      BY <1>4 DEF Placed
    <3> QED
      BY <1>2, <1>9, <2>1, <3>1 DEF Life
  <2>2. CASE y # x
    <3>1. Placed(y)' <=> Placed(y)
      BY <1>2, <1>4, <1>5, <2>2 DEF Placed
    <3>2. executed[y] = 1 => y \notin Elems(stack[t])
      BY <1>1, <1>2 DEF Life
    <3> QED
      BY <1>1, <1>2, <1>4, <1>5, <2>2, <3>1, <3>2 DEF Life
  <2> QED
    BY <2>1, <2>2
<1>11. \A u \in Threads : pc'[u] = "dec" => executed'[Top(u)'] = 1
  BY <1>2, <1>4 DEF PlaceInv
<1>12. \A r \in Queues : Len(queue'[r]) <= QCap
  BY <1>2 DEF PlaceInv
<1> QED
  BY <1>7, <1>8, <1>10, <1>11, <1>12 DEF PlaceInv

\* Thread t runs the task itself, the queue being full.
LEMMA InlinePlaceInv ==
    ASSUME TypeInv, PlaceInv, NEW t \in Threads, NEW x \in Tasks, Stacks(t, x),
           pc[t] = "push", cur[t] = x, UNCHANGED queue
    PROVE  PlaceInv'
<1>1. Unique /\ Apart /\ (\A y \in Tasks : Life(y)) /\ UNCHANGED <<sent, executed>>
  BY DEF PlaceInv, Stacks
<1>2. \A u \in Threads : x \notin Elems(stack[u])
  BY <1>1 DEF Apart
<1>3. /\ pc'[t] = "body"
      /\ \A u \in Threads \ {t} : pc'[u] = pc[u] /\ cur'[u] = cur[u]
      /\ \A u \in Threads \ {t} : stack'[u] = stack[u] /\ Top(u)' = Top(u)
      /\ Distinct(stack'[t])
      /\ Elems(stack'[t]) = Elems(stack[t]) \cup {x}
  BY <1>2, StacksFacts
<1>4. \A r \in Queues : x \notin Elems(queue[r])
  BY <1>1 DEF Apart
<1>5. \A u \in Threads \ {t} : pc[u] = "push" => cur[u] # x
  BY <1>1 DEF Unique
<1>6. Unique'
  <2>1. \A u \in Threads : Distinct(stack'[u])
    BY <1>1, <1>3 DEF Unique
  <2>2. \A u, v \in Threads : \A y : y \in Elems(stack'[u]) /\ y \in Elems(stack'[v]) => u = v
    <3>1. \A u \in Threads : \A y :
             y \in Elems(stack'[u]) => y \in Elems(stack[u]) \/ (y = x /\ u = t)
      BY <1>3
    <3> QED
      BY <1>1, <1>2, <3>1 DEF Unique
  <2>3. \A u, v \in Threads :
           pc'[u] = "push" /\ pc'[v] = "push" /\ cur'[u] = cur'[v] => u = v
    BY <1>1, <1>3 DEF Unique
  <2> QED
    BY <1>1, <2>1, <2>2, <2>3 DEF Unique
<1>7. Apart'
  <2>1. \A u \in Threads, r \in Queues : \A y :
           ~(y \in Elems(stack'[u]) /\ y \in Elems(queue[r]))
    BY <1>1, <1>3, <1>4 DEF Apart
  <2>2. \A u, v \in Threads : pc'[v] = "push" => cur'[v] \notin Elems(stack'[u])
    BY <1>1, <1>3, <1>5 DEF Apart
  <2>3. \A u \in Threads, r \in Queues : pc'[u] = "push" => cur'[u] \notin Elems(queue[r])
    BY <1>1, <1>3 DEF Apart
  <2> QED
    BY <2>1, <2>2, <2>3 DEF Apart
<1>8. executed[x] = 0 /\ x \in sent
  BY <1>1 DEF Life, Placed
<1>9. ASSUME NEW y \in Tasks PROVE Life(y)'
  <2>1. CASE y = x
    <3>1. Placed(x)'
      BY <1>3 DEF Placed
    <3> QED
      BY <1>1, <1>8, <2>1, <3>1 DEF Life
  <2>2. CASE y # x
    <3>1. Placed(y)' <=> Placed(y)
      BY <1>3, <2>2 DEF Placed
    <3>2. executed[y] = 1 => y \notin Elems(stack[t])
      BY <1>1 DEF Life
    <3> QED
      BY <1>1, <1>3, <2>2, <3>1, <3>2 DEF Life
  <2> QED
    BY <2>1, <2>2
<1>10. \A u \in Threads : pc'[u] = "dec" => executed'[Top(u)'] = 1
  BY <1>1, <1>3 DEF PlaceInv
<1> QED
  BY <1>6, <1>7, <1>9, <1>10 DEF PlaceInv

\* Thread t puts the task it sends into queue q.
LEMMA EnqueuePlaceInv ==
    ASSUME TypeInv, PlaceInv, NEW t \in Threads, NEW q \in Queues, NEW x \in Tasks,
           pc[t] = "push", cur[t] = x, Len(queue[q]) < QCap,
           queue' = [queue EXCEPT ![q] = Append(queue[q], x)],
           pc' = [pc EXCEPT ![t] = "notify"],
           \A u \in Threads \ {t} : cur'[u] = cur[u],
           UNCHANGED <<stack, sent, executed>>
    PROVE  PlaceInv'
<1>1. Unique /\ Apart /\ (\A y \in Tasks : Life(y))
  BY DEF PlaceInv
<1>2. \A u \in Threads : x \notin Elems(stack[u])
  BY <1>1 DEF Apart
<1>3. \A r \in Queues : x \notin Elems(queue[r])
  BY <1>1 DEF Apart
<1>4. \A u \in Threads \ {t} : pc[u] = "push" => cur[u] # x
  BY <1>1 DEF Unique
<1>5. /\ pc'[t] = "notify"
      /\ \A u \in Threads \ {t} : pc'[u] = pc[u] /\ cur'[u] = cur[u]
      /\ \A u \in Threads : Top(u)' = Top(u)
  BY DEF TypeInv, TypeOK, ThreadTypeOK, Top
<1>6. queue[q] \in Seq(Tasks) /\ queue'[q] = Append(queue[q], x)
  BY DEF TypeInv, TypeOK, SharedTypeOK
<1>7. \A r \in Queues \ {q} : queue'[r] = queue[r]
  BY DEF TypeInv, TypeOK, SharedTypeOK
<1>8. Distinct(queue[q])
  BY <1>1 DEF Unique
<1>9. /\ Elems(queue'[q]) = Elems(queue[q]) \cup {x}
      /\ Distinct(queue'[q])
      /\ Len(queue'[q]) = Len(queue[q]) + 1
  BY <1>3, <1>6, <1>8, AppendElems
<1>10. \A r \in Queues : \A y :
          y \in Elems(queue'[r]) => y \in Elems(queue[r]) \/ (y = x /\ r = q)
  BY <1>7, <1>9
<1>11. Unique'
  <2>1. \A r \in Queues : Distinct(queue'[r])
    BY <1>1, <1>7, <1>9 DEF Unique
  <2>2. \A r, v \in Queues : \A y : y \in Elems(queue'[r]) /\ y \in Elems(queue'[v]) => r = v
    BY <1>1, <1>3, <1>10 DEF Unique
  <2>3. \A u, v \in Threads :
           pc'[u] = "push" /\ pc'[v] = "push" /\ cur'[u] = cur'[v] => u = v
    BY <1>1, <1>5 DEF Unique
  <2> QED
    BY <1>1, <2>1, <2>2, <2>3 DEF Unique
<1>12. Apart'
  <2>1. \A u \in Threads, r \in Queues : \A y :
           ~(y \in Elems(stack[u]) /\ y \in Elems(queue'[r]))
    <3>1. \A u \in Threads, r \in Queues : \A y :
             ~(y \in Elems(stack[u]) /\ y \in Elems(queue[r]))
      BY <1>1 DEF Apart
    <3> QED
      BY <1>2, <1>10, <3>1, SMTT(40)
  <2>2. \A u, v \in Threads : pc'[v] = "push" => cur'[v] \notin Elems(stack[u])
    BY <1>1, <1>5 DEF Apart
  <2>3. \A u \in Threads, r \in Queues : pc'[u] = "push" => cur'[u] \notin Elems(queue'[r])
    BY <1>1, <1>4, <1>5, <1>10 DEF Apart
  <2> QED
    BY <2>1, <2>2, <2>3 DEF Apart
<1>13. executed[x] = 0 /\ x \in sent
  BY <1>1 DEF Life, Placed
<1>14. ASSUME NEW y \in Tasks PROVE Life(y)'
  <2>1. CASE y = x
    <3>1. Placed(x)'
      BY <1>9 DEF Placed
    <3> QED
      BY <1>13, <2>1, <3>1 DEF Life
  <2>2. CASE y # x
    <3>1. \A r \in Queues : y \in Elems(queue'[r]) <=> y \in Elems(queue[r])
      BY <1>7, <1>9, <2>2
    <3>2. Placed(y)' <=> Placed(y)
      BY <1>5, <2>2, <3>1 DEF Placed
    <3> QED
      BY <1>1, <1>5, <2>2, <3>1, <3>2 DEF Life
  <2> QED
    BY <2>1, <2>2
<1>15. \A u \in Threads : pc'[u] = "dec" => executed'[Top(u)'] = 1
  BY <1>5 DEF PlaceInv
<1>16. \A r \in Queues : Len(queue'[r]) <= QCap
  <2>1. Len(queue[q]) \in Nat /\ QCap \in Nat
    BY <1>6, LenProperties, PoolAssumption
  <2>2. Len(queue'[q]) <= QCap
    BY <1>9, <2>1
  <2> QED
    BY <1>7, <2>2 DEF PlaceInv
<1> QED
  BY <1>11, <1>12, <1>14, <1>15, <1>16 DEF PlaceInv

\* Thread t counts a task that nobody has sent, and is about to push it.
SendsNew(t, x) ==
    /\ Aside(pc[t]) \/ pc[t] = "sendto"
    /\ x \notin sent
    /\ sent' = sent \cup {x}
    /\ cur' = [cur EXCEPT ![t] = x]
    /\ pc' = [pc EXCEPT ![t] = "push"]

LEMMA SendPlaceInv ==
    ASSUME TypeInv, PlaceInv, NEW t \in Threads, NEW x \in Tasks, SendsNew(t, x),
           UNCHANGED <<queue, stack, executed>>
    PROVE  PlaceInv'
<1>1. Unique /\ Apart /\ (\A y \in Tasks : Life(y))
  BY DEF PlaceInv
<1>2. /\ pc'[t] = "push" /\ cur'[t] = x
      /\ \A u \in Threads \ {t} : pc'[u] = pc[u] /\ cur'[u] = cur[u]
      /\ \A u \in Threads : Top(u)' = Top(u)
      /\ pc[t] \notin {"push", "dec"}
      /\ x \notin sent /\ sent' = sent \cup {x}
  BY DEF TypeInv, TypeOK, ThreadTypeOK, TaskTypeOK, Top, SendsNew, Aside
<1>3. ~Placed(x) /\ executed[x] = 0
  BY <1>1, <1>2 DEF Life
<1>4. /\ \A u \in Threads : x \notin Elems(stack[u])
      /\ \A r \in Queues : x \notin Elems(queue[r])
      /\ \A u \in Threads : pc[u] = "push" => cur[u] # x
  BY <1>3 DEF Placed
<1>5. Unique'
  BY <1>1, <1>2, <1>4 DEF Unique
<1>6. Apart'
  BY <1>1, <1>2, <1>4 DEF Apart
<1>7. ASSUME NEW y \in Tasks PROVE Life(y)'
  <2>1. CASE y = x
    <3>1. Placed(x)'
      BY <1>2 DEF Placed
    <3> QED
      BY <1>2, <1>3, <2>1, <3>1 DEF Life
  <2>2. CASE y # x
    <3>1. Placed(y)' <=> Placed(y)
      BY <1>2, <2>2 DEF Placed
    <3> QED
      BY <1>1, <1>2, <2>2, <3>1 DEF Life
  <2> QED
    BY <2>1, <2>2
<1> QED
  BY <1>2, <1>5, <1>6, <1>7 DEF PlaceInv

\* The body of the innermost task returns.
LEMMA ReturnPlaceInv ==
    ASSUME TypeInv, PlaceInv, NEW t \in Threads, BodyReturn(t)
    PROVE  PlaceInv'
<1>1. Unique /\ Apart /\ (\A y \in Tasks : Life(y))
  BY DEF PlaceInv
<1>2. /\ pc[t] = "body" /\ pc'[t] = "dec"
      /\ \A u \in Threads \ {t} : pc'[u] = pc[u]
      /\ UNCHANGED <<queue, stack, cur, sent>>
      /\ \A u \in Threads : Top(u)' = Top(u)
  BY DEF BodyReturn, GoTo, TypeInv, TypeOK, ThreadTypeOK, Top
<1>3. stack[t] \in Seq(Tasks) /\ stack[t] # <<>> /\ Distinct(stack[t])
  BY <1>1, <1>2 DEF TypeInv, TypeOK, TaskTypeOK, ThreadOK, Unique
<1>4. Top(t) \in Tasks
  BY <1>3, TakeType DEF Top
<1>5. Top(t) \in Elems(stack[t])
  BY <1>3, NewestElems DEF Top
<1>6. executed[Top(t)] = 0 /\ Top(t) \in sent
  BY <1>1, <1>2, <1>4, <1>5 DEF Life, Placed
<1>7. executed'[Top(t)] = 1 /\ \A y \in Tasks \ {Top(t)} : executed'[y] = executed[y]
  BY <1>4, <1>6 DEF BodyReturn, TypeInv, TypeOK, TaskTypeOK
<1>8. \A u \in Threads : pc'[u] = "push" <=> pc[u] = "push"
  BY <1>2
<1>9. Unique'
  BY <1>1, <1>2, <1>8 DEF Unique
<1>10. Apart'
  BY <1>1, <1>2, <1>8 DEF Apart
<1>11. ASSUME NEW y \in Tasks PROVE Life(y)'
  <2>1. Placed(y)' <=> Placed(y)
    BY <1>2, <1>8 DEF Placed
  <2>2. CASE y = Top(t)
    <3>1. \A u \in Threads : y \in Elems(stack[u]) => u = t
      BY <1>1, <1>5, <2>2 DEF Unique
    <3>2. \A r \in Queues : y \notin Elems(queue[r])
      BY <1>1, <1>5, <2>2 DEF Apart
    <3>3. \A u \in Threads : pc[u] = "push" => cur[u] # y
      BY <1>1, <1>5, <2>2 DEF Apart
    <3> QED
      BY <1>2, <1>6, <1>7, <1>8, <2>2, <3>1, <3>2, <3>3 DEF Life
  <2>3. CASE y # Top(t)
    <3>1. executed[y] = 1 => y \notin Elems(stack[t])
      BY <1>1, <1>2 DEF Life
    <3> QED
      BY <1>1, <1>2, <1>7, <1>8, <2>1, <2>3, <3>1 DEF Life
  <2> QED
    BY <2>2, <2>3
<1>12. \A u \in Threads : pc'[u] = "dec" => executed'[Top(u)'] = 1
  <2>1. ASSUME NEW u \in Threads \ {t}, pc[u] = "dec" PROVE executed'[Top(u)] = 1
    <3>1. executed[Top(u)] = 1
      BY <2>1 DEF PlaceInv
    <3>2. stack[u] \in Seq(Tasks) /\ stack[u] # <<>>
      BY <2>1 DEF TypeInv, TypeOK, TaskTypeOK, ThreadOK
    <3>3. Top(u) \in Tasks
      BY <3>2, TakeType DEF Top
    <3> QED
      BY <1>6, <1>7, <3>1, <3>3
  <2> QED
    BY <1>2, <1>7, <2>1
<1> QED
  BY <1>2, <1>9, <1>10, <1>11, <1>12 DEF PlaceInv

\* The count is decremented and the task leaves the stack.
LEMMA DecrementPlaceInv ==
    ASSUME TypeInv, PlaceInv, NEW t \in Threads, Decrement(t)
    PROVE  PlaceInv'
<1>1. Unique /\ Apart /\ (\A y \in Tasks : Life(y))
  BY DEF PlaceInv
<1>2. stack \in [Threads -> Seq(Tasks)] /\ pc[t] = "dec" /\ stack[t] # <<>>
  BY DEF Decrement, TypeInv, TypeOK, TaskTypeOK, ThreadOK
<1>3. /\ stack'[t] = WithoutNewest(stack[t])
      /\ \A u \in Threads \ {t} : stack'[u] = stack[u] /\ Top(u)' = Top(u)
  BY <1>2 DEF Decrement, Top
<1>4. UNCHANGED <<queue, cur, sent, executed>>
  BY DEF Decrement
<1>5. \E v \in {"body", "check"} \cup Calls : pc' = [pc EXCEPT ![t] = v]
  BY ResumeType DEF Decrement, GoTo, Threads
<1>6. /\ pc'[t] \in {"body", "check"} \cup Calls
      /\ \A u \in Threads \ {t} : pc'[u] = pc[u]
  BY <1>5 DEF TypeInv, TypeOK, ThreadTypeOK
<1>7. \A u \in Threads : /\ pc'[u] = "push" <=> pc[u] = "push"
                         /\ pc'[u] = "dec" => pc[u] = "dec" /\ u # t
  BY <1>2, <1>6
<1>8. stack[t] \in Seq(Tasks) /\ Distinct(stack[t])
  BY <1>1, <1>2 DEF Unique
<1>9. /\ Top(t) \in Elems(stack[t])
      /\ Elems(stack'[t]) = Elems(stack[t]) \ {Top(t)}
      /\ Distinct(stack'[t])
  BY <1>2, <1>3, <1>8, NewestElems DEF Top
<1>10. \A u \in Threads : Elems(stack'[u]) \subseteq Elems(stack[u])
  BY <1>3, <1>9
<1>11. Unique'
  BY <1>1, <1>3, <1>4, <1>7, <1>9, <1>10 DEF Unique
<1>12. Apart'
  BY <1>1, <1>4, <1>7, <1>10 DEF Apart
<1>13. executed[Top(t)] = 1
  BY <1>2 DEF PlaceInv
<1>14. ASSUME NEW y \in Tasks PROVE Life(y)'
  <2>1. CASE y = Top(t)
    <3>1. \A u \in Threads : y \notin Elems(stack'[u])
      BY <1>1, <1>3, <1>9, <2>1 DEF Unique
    <3>2. y \in sent
      BY <1>1, <1>13, <2>1 DEF Life
    <3> QED
      BY <1>1, <1>4, <1>7, <1>13, <2>1, <3>1, <3>2 DEF Life
  <2>2. CASE y # Top(t)
    <3>1. \A u \in Threads : y \in Elems(stack'[u]) <=> y \in Elems(stack[u])
      BY <1>3, <1>9, <2>2
    <3>2. Placed(y)' <=> Placed(y)
      BY <1>4, <1>7, <3>1 DEF Placed
    <3>3. executed[y] = 1 => y \notin Elems(stack[t])
      BY <1>1, <2>2 DEF Life
    <3> QED
      BY <1>1, <1>3, <1>4, <1>6, <1>7, <3>1, <3>2, <3>3 DEF Life
  <2> QED
    BY <2>1, <2>2
<1>15. \A u \in Threads : pc'[u] = "dec" => executed'[Top(u)'] = 1
  BY <1>3, <1>4, <1>7 DEF PlaceInv
<1> QED
  BY <1>4, <1>11, <1>12, <1>14, <1>15 DEF PlaceInv

\* Who may still send a task after x has been counted.
LEMMA SendFutureInv ==
    ASSUME TypeInv, FutureInv, NEW t \in Threads, NEW x \in Tasks, SendsNew(t, x),
           \A y \in Tasks : todo'[y] \subseteq todo[y] /\ x \notin todo'[y],
           \A c \in Clients : batch'[c] \subseteq batch[c] /\ x \notin batch'[c],
           \A u \in Threads \ {t} : pc[u] = "sendto" => cur[u] # x
    PROVE  FutureInv'
<1>1. \A u \in Threads : pc'[u] = "sendto" => u # t /\ pc[u] = "sendto" /\ cur'[u] = cur[u]
  BY DEF SendsNew, TypeInv, TypeOK, ThreadTypeOK, TaskTypeOK
<1>2. sent' = sent \cup {x}
  BY DEF SendsNew
<1>3. \A y \in Tasks : todo'[y] \subseteq Spawns[y] /\ todo'[y] \cap sent' = {}
  BY <1>2 DEF FutureInv
<1>4. \A c \in Clients : batch'[c] \subseteq Roots /\ batch'[c] \cap sent' = {}
  BY <1>2 DEF FutureInv
<1>5. \A u \in Threads : pc'[u] = "sendto" =>
         /\ cur'[u] \notin sent' /\ cur'[u] \notin Roots
         /\ \A y \in Tasks : cur'[u] \notin todo'[y]
  BY <1>1, <1>2 DEF FutureInv
<1>6. \A u, v \in Threads :
         pc'[u] = "sendto" /\ pc'[v] = "sendto" /\ cur'[u] = cur'[v] => u = v
  BY <1>1 DEF FutureInv
<1>7. \A c, d \in Clients : \A y : y \in batch'[c] /\ y \in batch'[d] => c = d
  BY DEF FutureInv
<1> QED
  BY <1>3, <1>4, <1>5, <1>6, <1>7 DEF FutureInv

SafeInv == PlaceInv /\ FutureInv

\* A step that only moves its thread, to a step that neither sends nor counts.
LEMMA QuietSafe ==
    ASSUME TypeInv, SafeInv, UNCHANGED <<queue, stack, sent, executed, cur, todo, batch>>,
           \A u \in Threads : pc'[u] = pc[u] \/ (Aside(pc[u]) /\ Aside(pc'[u]))
    PROVE  SafeInv'
<1>1. \A u \in Threads : Quiet(u)
  BY DEF Quiet
<1> QED
  BY <1>1, QuietPlaces, QuietFuture DEF SafeInv

\* The same for a step that changes only the program counter of its thread.
LEMMA QuietMove ==
    ASSUME TypeInv, SafeInv, UNCHANGED <<queue, stack, sent, executed, cur, todo, batch>>,
           NEW t \in Threads, Aside(pc[t]), NEW v, Aside(v),
           pc' = pc \/ pc' = [pc EXCEPT ![t] = v]
    PROVE  SafeInv'
<1>1. \A u \in Threads : pc'[u] = pc[u] \/ (Aside(pc[u]) /\ Aside(pc'[u]))
  BY DEF TypeInv, TypeOK, ThreadTypeOK
<1> QED
  BY <1>1, QuietSafe

LEMMA FoundSafe ==
    ASSUME TypeInv, SafeInv, NEW t \in Threads, NEW q \in Queues, NEW x, NEW s,
           pc[t] \in ScanPcs, Found(t, x),
           queue[q] # <<>>, queue' = [queue EXCEPT ![q] = s],
           \/ s = Tail(queue[q]) /\ x = Head(queue[q])
           \/ s = WithoutNewest(queue[q]) /\ x = queue[q][Len(queue[q])]
    PROVE  SafeInv'
<1>1. queue \in [Queues -> Seq(Tasks)] /\ queue[q] \in Seq(Tasks)
  BY DEF TypeInv, TypeOK, SharedTypeOK
<1>2. Distinct(queue[q]) /\ Len(queue[q]) <= QCap
  BY DEF SafeInv, PlaceInv, Unique
<1>3. x \in Tasks /\ s \in Seq(Tasks)
  BY <1>1, TakeType
<1>4. x \in Elems(queue[q]) /\ Elems(s) = Elems(queue[q]) \ {x} /\ Distinct(s)
  BY <1>1, <1>2, TailElems, NewestElems
<1>5. Len(s) <= QCap
  <2>1. Len(s) <= Len(queue[q])
    BY <1>1, <1>2, TailElems, NewestElems
  <2>2. Len(s) \in Nat /\ Len(queue[q]) \in Nat /\ QCap \in Nat
    BY <1>1, <1>3, LenProperties, PoolAssumption
  <2> QED
    BY <1>2, <2>1, <2>2
<1>6. queue'[q] = s /\ \A r \in Queues \ {q} : queue'[r] = queue[r]
  BY <1>1
<1>7. Aside(pc[t]) /\ pc' = [pc EXCEPT ![t] = "body"]
  BY DEF ScanPcs, Aside, Found, GoTo
<1>8. Stacks(t, x)
  BY <1>7 DEF Stacks, Found, Aside
<1>9. Takes(t, q, x)
  BY <1>4, <1>5, <1>6, <1>7, <1>8 DEF Takes, Aside
<1>10. PlaceInv'
  BY <1>3, <1>9, TakesPlaceInv DEF SafeInv
<1>11. \A u \in Threads : Quiet(u)
  BY <1>7 DEF Quiet, Aside, Found, TypeInv, TypeOK, ThreadTypeOK
<1>12. FutureInv'
  BY <1>11, QuietFuture DEF SafeInv, Found
<1> QED
  BY <1>10, <1>12 DEF SafeInv

LEMMA ScanSafe ==
    ASSUME TypeInv, SafeInv, NEW t \in Threads, PopLocal(t) \/ PopPool(t) \/ TrySteal(t)
    PROVE  SafeInv'
<1> USE Names
<1>1. pc[t] \in ScanPcs /\ Aside(pc[t])
  BY DEF PopLocal, PopPool, TrySteal, ScanPcs, Aside
<1>2. CASE PopLocal(t)
  <2>1. t \in Queues
    BY <1>2 DEF PopLocal, TypeInv, ThreadOK
  <2>2. CASE queue[t] # <<>>
    BY <1>1, <1>2, <2>1, <2>2, FoundSafe DEF PopLocal
  <2>3. CASE queue[t] = <<>>
    <3>1. UNCHANGED <<queue, stack, sent, executed, cur, todo, batch, pc>>
      BY <1>2, <2>3 DEF PopLocal
    <3> QED
      BY <3>1, QuietSafe
  <2> QED
    BY <2>2, <2>3
<1>3. ASSUME NEW q \in Queues, StealFrom(t, q) PROVE SafeInv'
  <2>1. CASE queue[q] # <<>>
    BY <1>1, <1>3, <2>1, FoundSafe DEF StealFrom
  <2>2. CASE queue[q] = <<>>
    <3>1. UNCHANGED <<queue, stack, sent, executed, cur, todo, batch>>
      BY <1>3, <2>2 DEF StealFrom
    <3>2. \A st : Resume(t, st) \in {"body", "check"} \cup Calls
      BY ResumeType DEF Threads
    <3>3. Aside(AfterMiss(t))
      BY <3>2 DEF AfterMiss, Aside
    <3>4. pc' = pc \/ pc' = [pc EXCEPT ![t] = AfterMiss(t)]
      BY <1>3, <2>2 DEF StealFrom, GoTo
    <3> QED
      BY <1>1, <3>1, <3>3, <3>4, QuietMove
  <2> QED
    BY <2>1, <2>2
<1> QED
  BY <1>2, <1>3 DEF PopPool, TrySteal

\* What a running body knows of the task it sends next.
LEMMA BodyFacts ==
    ASSUME TypeInv, FutureInv, NEW t \in Threads, pc[t] = "body", NEW x \in todo[Top(t)]
    PROVE  /\ Top(t) \in Tasks
           /\ x \in Tasks /\ x \notin sent /\ x \notin Roots
           /\ \A y \in Tasks \ {Top(t)} : x \notin todo[y]
           /\ \A c \in Clients : x \notin batch[c]
           /\ \A u \in Threads : pc[u] = "sendto" => cur[u] # x
<1>1. stack[t] \in Seq(Tasks) /\ stack[t] # <<>>
  BY DEF TypeInv, TypeOK, TaskTypeOK, ThreadOK
<1>2. Top(t) \in Tasks
  BY <1>1, TakeType DEF Top
<1>3. x \in Spawns[Top(t)] /\ x \notin sent
  BY <1>2 DEF FutureInv
<1>4. x \in Tasks /\ x \notin Roots
  BY <1>2, <1>3, PoolAssumption DEF Roots
<1>5. \A y \in Tasks \ {Top(t)} : x \notin todo[y]
  BY <1>2, <1>3, TaskAssumption DEF FutureInv
<1>6. \A c \in Clients : x \notin batch[c]
  BY <1>4 DEF FutureInv
<1>7. \A u \in Threads : pc[u] = "sendto" => cur[u] # x
  BY <1>2 DEF FutureInv
<1> QED
  BY <1>2, <1>3, <1>4, <1>5, <1>6, <1>7

LEMMA BodySafe ==
    ASSUME TypeInv, SafeInv, NEW t \in Threads, BodySend(t) \/ BodySendTo(t) \/ SendTo(t)
    PROVE  SafeInv'
<1>1. PlaceInv /\ FutureInv /\ todo \in [Tasks -> SUBSET Tasks]
  BY DEF SafeInv, TypeInv, TypeOK, TaskTypeOK
<1>2. CASE BodySend(t)
  <2>1. PICK x \in todo[Top(t)] :
           /\ StartSend(t, x, Tid(t))
           /\ todo' = [todo EXCEPT ![Top(t)] = @ \ {x}]
    BY <1>2 DEF BodySend
  <2>2. pc[t] = "body"
    BY <1>2 DEF BodySend
  <2>3. /\ Top(t) \in Tasks
        /\ x \in Tasks /\ x \notin sent
        /\ \A y \in Tasks \ {Top(t)} : x \notin todo[y]
        /\ \A c \in Clients : x \notin batch[c]
        /\ \A u \in Threads : pc[u] = "sendto" => cur[u] # x
    BY <1>1, <2>2, BodyFacts
  <2>4. SendsNew(t, x)
    BY <2>1, <2>2, <2>3 DEF SendsNew, StartSend, GoTo, Aside
  <2>5. UNCHANGED <<queue, stack, executed, batch>>
    BY <1>2 DEF BodySend
  <2>6. \A y \in Tasks : todo'[y] \subseteq todo[y] /\ x \notin todo'[y]
    BY <1>1, <2>1, <2>3
  <2>7. PlaceInv'
    BY <1>1, <2>3, <2>4, <2>5, SendPlaceInv
  <2>8. FutureInv'
    BY <1>1, <2>3, <2>4, <2>5, <2>6, SendFutureInv
  <2> QED
    BY <2>7, <2>8 DEF SafeInv
<1>3. CASE BodySendTo(t)
  <2>1. PICK x \in todo[Top(t)] :
           /\ cur' = [cur EXCEPT ![t] = x]
           /\ todo' = [todo EXCEPT ![Top(t)] = @ \ {x}]
    BY <1>3 DEF BodySendTo
  <2>2. pc[t] = "body" /\ pc' = [pc EXCEPT ![t] = "sendto"]
    BY <1>3 DEF BodySendTo, GoTo
  <2>3. /\ Top(t) \in Tasks
        /\ x \in Tasks /\ x \notin sent /\ x \notin Roots
        /\ \A y \in Tasks \ {Top(t)} : x \notin todo[y]
        /\ \A u \in Threads : pc[u] = "sendto" => cur[u] # x
    BY <1>1, <2>2, BodyFacts
  <2>4. UNCHANGED <<queue, stack, executed, sent, batch>>
    BY <1>3 DEF BodySendTo
  <2>5. /\ pc'[t] = "sendto" /\ cur'[t] = x
        /\ \A u \in Threads \ {t} : pc'[u] = pc[u] /\ cur'[u] = cur[u]
        /\ \A u \in Threads : Top(u)' = Top(u)
    BY <2>1, <2>2, <2>4 DEF TypeInv, TypeOK, ThreadTypeOK, TaskTypeOK, Top
  <2>6. \A y \in Tasks : todo'[y] \subseteq todo[y] /\ x \notin todo'[y]
    BY <1>1, <2>1, <2>3
  <2>7. PlaceInv'
    <3>1. \A u \in Threads : /\ pc'[u] = "push" <=> pc[u] = "push"
                             /\ pc'[u] = "dec" <=> pc[u] = "dec"
                             /\ pc'[u] = "push" => cur'[u] = cur[u]
      BY <2>2, <2>5
    <3>2. Unique'
      BY <1>1, <2>4, <3>1 DEF PlaceInv, Unique
    <3>3. Apart'
      BY <1>1, <2>4, <3>1 DEF PlaceInv, Apart
    <3>4. ASSUME NEW y \in Tasks PROVE Life(y)'
      BY <1>1, <2>4, <2>5, <3>1 DEF PlaceInv, Life, Placed
    <3> QED
      BY <1>1, <2>4, <2>5, <3>1, <3>2, <3>3, <3>4 DEF PlaceInv
  <2>8. FutureInv'
    <3>1. \A y \in Tasks : todo'[y] \subseteq Spawns[y] /\ todo'[y] \cap sent' = {}
      BY <1>1, <2>4, <2>6 DEF FutureInv
    <3>2. \A u \in Threads : pc'[u] = "sendto" =>
             /\ cur'[u] \notin sent' /\ cur'[u] \notin Roots
             /\ \A y \in Tasks : cur'[u] \notin todo'[y]
      BY <1>1, <2>3, <2>4, <2>5, <2>6 DEF FutureInv
    <3>3. \A u, v \in Threads :
             pc'[u] = "sendto" /\ pc'[v] = "sendto" /\ cur'[u] = cur'[v] => u = v
      BY <1>1, <2>3, <2>5 DEF FutureInv
    <3> QED
      BY <1>1, <2>4, <3>1, <3>2, <3>3 DEF FutureInv
  <2> QED
    BY <2>7, <2>8 DEF SafeInv
<1>4. CASE SendTo(t)
  <2>1. pc[t] = "sendto" /\ cur[t] \in Tasks
    BY <1>4 DEF SendTo, TypeInv, ThreadOK
  <2>2. /\ cur[t] \notin sent /\ cur[t] \notin Roots
        /\ \A y \in Tasks : cur[t] \notin todo[y]
        /\ \A u \in Threads \ {t} : pc[u] = "sendto" => cur[u] # cur[t]
        /\ \A c \in Clients : cur[t] \notin batch[c]
    BY <1>1, <2>1 DEF FutureInv
  <2>3. SendsNew(t, cur[t])
    BY <1>4, <2>1, <2>2 DEF SendTo, SendsNew, StartSend, GoTo
  <2>4. UNCHANGED <<queue, stack, executed, batch, todo>>
    BY <1>4 DEF SendTo
  <2>5. PlaceInv'
    BY <1>1, <2>1, <2>3, <2>4, SendPlaceInv
  <2>6. FutureInv'
    BY <1>1, <2>1, <2>2, <2>3, <2>4, SendFutureInv
  <2> QED
    BY <2>5, <2>6 DEF SafeInv
<1> QED
  BY <1>2, <1>3, <1>4

LEMMA PushSafe ==
    ASSUME TypeInv, SafeInv, NEW t \in Threads, Push(t)
    PROVE  SafeInv'
<1>1. /\ PlaceInv /\ FutureInv
      /\ pc[t] = "push" /\ cur[t] \in Tasks /\ dst[t] \in Queues
  BY DEF SafeInv, Push, TypeInv, TypeOK, TaskTypeOK, ThreadOK
<1>2. /\ UNCHANGED <<sent, executed, todo, batch>>
      /\ \A u \in Threads \ {t} : cur'[u] = cur[u]
  BY DEF Push, TypeInv, TypeOK, TaskTypeOK
<1>3. CASE Len(queue[dst[t]]) < QCap
  <2>1. /\ queue' = [queue EXCEPT ![dst[t]] = Append(queue[dst[t]], cur[t])]
        /\ pc' = [pc EXCEPT ![t] = "notify"] /\ UNCHANGED stack
    <3>1. Len(queue[dst[t]]) \in Nat /\ QCap \in Nat
      BY <1>1, LenProperties, PoolAssumption DEF TypeInv, TypeOK, SharedTypeOK
    <3> QED
      BY <1>3, <3>1 DEF Push, GoTo
  <2>2. PlaceInv'
    BY <1>1, <1>2, <1>3, <2>1, EnqueuePlaceInv
  <2>3. \A u \in Threads : pc'[u] = "sendto" => pc[u] = "sendto" /\ cur'[u] = cur[u]
    BY <1>2, <2>1 DEF TypeInv, TypeOK, ThreadTypeOK
  <2>4. FutureInv'
    BY <1>1, <1>2, <2>3 DEF FutureInv
  <2> QED
    BY <2>2, <2>4 DEF SafeInv
<1>4. CASE ~(Len(queue[dst[t]]) < QCap)
  <2>1. /\ stack' = [stack EXCEPT ![t] = Append(stack[t], cur[t])]
        /\ pc' = [pc EXCEPT ![t] = "body"] /\ UNCHANGED queue
    BY <1>4 DEF Push, GoTo
  <2>2. Stacks(t, cur[t])
    BY <1>1, <1>2, <2>1 DEF Stacks
  <2>3. PlaceInv'
    BY <1>1, <2>1, <2>2, InlinePlaceInv
  <2>4. \A u \in Threads : pc'[u] = "sendto" => pc[u] = "sendto" /\ cur'[u] = cur[u]
    BY <1>2, <2>1 DEF TypeInv, TypeOK, ThreadTypeOK
  <2>5. FutureInv'
    BY <1>1, <1>2, <2>4 DEF FutureInv
  <2> QED
    BY <2>3, <2>5 DEF SafeInv
<1> QED
  BY <1>3, <1>4

LEMMA RunSafe ==
    ASSUME TypeInv, SafeInv, NEW t \in Threads, RunStep(t)
    PROVE  SafeInv'
<1> USE Names
<1>1. \A st : Resume(t, st) \in {"body", "check"} \cup Calls
  BY ResumeType DEF Threads
<1>2. pc \in [Threads -> WorkerPcs \cup RunPcs \cup ClientPcs]
  BY DEF TypeInv, TypeOK, ThreadTypeOK
<1>3. CASE NotifyOne(t) \/ WakeByAddressSingle(t)
  <2>1. /\ pc[t] \in {"notify", "wake"}
        /\ UNCHANGED <<queue, stack, sent, executed, cur, todo, batch>>
    BY <1>3 DEF NotifyOne, WakeByAddressSingle
  <2>2. \/ \E v \in {"wake", "body", "check"} \cup Calls : pc' = [pc EXCEPT ![t] = v]
        \/ \E v \in {"body", "check"} \cup Calls, w \in Workers :
              pc[w] = "asleep" /\ pc' = [pc EXCEPT ![t] = v, ![w] = "wait"]
    BY <1>1, <1>3 DEF NotifyOne, WakeByAddressSingle, WakeOne, Asleep, GoTo
  <2>3. \A u \in Threads : pc'[u] = pc[u] \/ (Aside(pc[u]) /\ Aside(pc'[u]))
    BY <1>2, <2>1, <2>2 DEF Aside
  <2> QED
    BY <2>1, <2>3, QuietSafe
<1>4. CASE BodyHelp(t)
  <2>1. /\ pc[t] = "body" /\ pc' = [pc EXCEPT ![t] = "help"]
        /\ UNCHANGED <<queue, stack, sent, executed, cur, todo, batch>>
    BY <1>4 DEF BodyHelp, BeginScan, GoTo
  <2>2. Aside("body") /\ Aside("help")
    BY DEF Aside
  <2> QED
    BY <2>1, <2>2, QuietMove
<1>5. CASE BodyReturn(t) \/ Decrement(t)
  <2>1. \A u \in Threads : pc'[u] = "sendto" => pc[u] = "sendto"
    BY <1>1, <1>2, <1>5 DEF BodyReturn, Decrement, GoTo
  <2>2. UNCHANGED <<todo, batch, sent, cur>>
    BY <1>5 DEF BodyReturn, Decrement
  <2>3. FutureInv'
    BY <2>1, <2>2 DEF SafeInv, FutureInv
  <2> QED
    BY <1>5, <2>3, ReturnPlaceInv, DecrementPlaceInv DEF SafeInv
<1> QED
  BY <1>3, <1>4, <1>5, ScanSafe, BodySafe, PushSafe DEF RunStep

LEMMA WorkerSafe ==
    ASSUME TypeInv, SafeInv, NEW w \in Workers, WorkerStep(w) \/ SpuriousWake(w)
    PROVE  SafeInv'
<1>1. UNCHANGED <<queue, stack, sent, executed, cur, todo, batch>>
  BY DEF WorkerStep, Start, CheckStop, Idle, Wait, PredStop, Block, Capture,
     WaitOnAddress, Exit, SpuriousWake
<1>2. Aside(pc[w])
  BY DEF WorkerStep, Start, CheckStop, Idle, Wait, PredStop, Block, Capture,
     WaitOnAddress, Exit, SpuriousWake, Aside
<1>3. \E v \in WorkerPcs : pc' = [pc EXCEPT ![w] = v]
  BY DEF WorkerStep, Start, CheckStop, Idle, Wait, PredStop, Block, Capture,
     WaitOnAddress, Exit, SpuriousWake, BeginScan, GoTo, AfterPred
<1>4. \A v \in WorkerPcs : Aside(v)
  BY DEF Aside
<1> QED
  BY <1>1, <1>2, <1>3, <1>4, QuietMove, Names

\* A root that a client sends.
LEMMA ClientSendSafe ==
    ASSUME TypeInv, SafeInv, NEW c \in Clients, Send(c) \/ ParallelSend(c)
    PROVE  SafeInv'
<1> USE Names
<1>1. PlaceInv /\ FutureInv /\ batch \in [Clients -> SUBSET Tasks]
  BY DEF SafeInv, TypeInv, TypeOK, ClientTypeOK
<1>2. UNCHANGED <<queue, stack, executed, todo>>
  BY DEF Send, ParallelSend
<1>3. Aside(pc[c])
  BY DEF Send, ParallelSend, CanCall, Aside
<1>4. ASSUME NEW x \in Roots, x \notin sent, sent' = sent \cup {x},
             cur' = [cur EXCEPT ![c] = x], pc' = [pc EXCEPT ![c] = "push"],
             \A d \in Clients : batch'[d] \subseteq batch[d] /\ x \notin batch'[d]
      PROVE  SafeInv'
  <2>1. x \in Tasks /\ \A y \in Tasks : x \notin todo[y]
    BY <1>1 DEF Roots, FutureInv
  <2>2. SendsNew(c, x)
    BY <1>3, <1>4 DEF SendsNew
  <2>3. \A u \in Threads : pc[u] = "sendto" => cur[u] # x
    BY <1>1 DEF FutureInv
  <2>4. PlaceInv'
    BY <1>1, <1>2, <2>1, <2>2, SendPlaceInv
  <2>5. FutureInv'
    BY <1>1, <1>2, <1>4, <2>1, <2>2, <2>3, SendFutureInv
  <2> QED
    BY <2>4, <2>5 DEF SafeInv
<1>5. CASE Send(c)
  <2>1. PICK x \in Unsent : \E q \in Queues : StartSend(c, x, q)
    BY <1>5 DEF Send
  <2>2. x \in Roots /\ x \notin sent /\ \A d \in Clients : x \notin batch[d]
    BY DEF Unsent
  <2>3. UNCHANGED batch
    BY <1>5 DEF Send
  <2> QED
    BY <1>4, <2>1, <2>2, <2>3 DEF StartSend, GoTo
<1>6. CASE ParallelSend(c)
  <2>1. CASE batch[c] = {}
    <3>1. /\ pc' = [pc EXCEPT ![c] = "future"]
          /\ UNCHANGED <<sent, cur, batch>>
      BY <1>6, <2>1 DEF ParallelSend, Enter, GoTo
    <3>2. Aside("future")
      BY DEF Aside
    <3> QED
      BY <1>2, <1>3, <3>1, <3>2, QuietMove
  <2>2. CASE batch[c] # {}
    <3>1. PICK x \in batch[c] :
             /\ sent' = sent \cup {x}
             /\ cur' = [cur EXCEPT ![c] = x]
             /\ pc' = [pc EXCEPT ![c] = "push"]
             /\ batch' = [batch EXCEPT ![c] = batch[c] \ {x}]
      BY <1>6, <2>2 DEF ParallelSend, StartSend, GoTo
    <3>2. x \in Roots /\ x \notin sent
      BY <1>1 DEF FutureInv
    <3>3. \A d \in Clients : batch'[d] \subseteq batch[d] /\ x \notin batch'[d]
      BY <1>1, <3>1 DEF FutureInv
    <3> QED
      BY <1>4, <3>1, <3>2, <3>3
  <2> QED
    BY <2>1, <2>2
<1> QED
  BY <1>5, <1>6

LEMMA ClientSafe ==
    ASSUME TypeInv, SafeInv, NEW c \in Clients, ClientStep(c) \/ ClientCall(c)
    PROVE  SafeInv'
<1> USE Names
<1>1. CASE ParallelFor(c)
  <2>1. PICK S \in SUBSET Unsent : batch' = [batch EXCEPT ![c] = S]
    BY <1>1 DEF ParallelFor
  <2>2. /\ pc' = [pc EXCEPT ![c] = "batch"]
        /\ UNCHANGED <<queue, stack, sent, executed, cur, todo>>
    BY <1>1 DEF ParallelFor, Enter, GoTo
  <2>3. \A u \in Threads : Quiet(u)
    BY <1>1, <2>2 DEF Quiet, Aside, ParallelFor, CanCall, TypeInv, TypeOK, ThreadTypeOK
  <2>4. PlaceInv'
    BY <2>2, <2>3, QuietPlaces DEF SafeInv
  <2>5. FutureInv /\ batch \in [Clients -> SUBSET Tasks]
    BY DEF SafeInv, TypeInv, TypeOK, ClientTypeOK
  <2>6. \A u \in Threads : pc'[u] = "sendto" => pc[u] = "sendto" /\ cur'[u] = cur[u]
    BY <2>3 DEF Quiet, Aside
  <2>7. S \subseteq Roots /\ S \cap sent = {} /\ \A d \in Clients : S \cap batch[d] = {}
    BY DEF Unsent
  <2>8. batch'[c] = S /\ \A d \in Clients \ {c} : batch'[d] = batch[d]
    BY <2>1, <2>5
  <2>9. \A d \in Clients : batch'[d] \subseteq Roots /\ batch'[d] \cap sent' = {}
    BY <2>2, <2>5, <2>7, <2>8 DEF FutureInv
  <2>10. \A d, e \in Clients : \A x : x \in batch'[d] /\ x \in batch'[e] => d = e
    BY <2>5, <2>7, <2>8 DEF FutureInv
  <2>11. FutureInv'
    BY <2>2, <2>5, <2>6, <2>9, <2>10 DEF FutureInv
  <2> QED
    BY <2>4, <2>11 DEF SafeInv
<1>2. CASE \/ IsReady(c) \/ Count(c) \/ SetStop(c) \/ Join(c) \/ WaitOrWork(c)
           \/ WaitForAll(c) \/ DoWork(c) \/ SetDone(c)
  <2>1. UNCHANGED <<queue, stack, sent, executed, cur, todo, batch>>
    BY <1>2 DEF IsReady, Count, SetStop, Join, WaitOrWork, WaitForAll, DoWork, SetDone
  <2>2. Aside(pc[c])
    BY <1>2 DEF IsReady, Count, SetStop, Join, WaitOrWork, WaitForAll, DoWork, SetDone,
       CanCall, Aside
  <2>3. pc' = pc \/ \E v \in {"help"} \cup ClientPcs : pc' = [pc EXCEPT ![c] = v]
    BY <1>2 DEF IsReady, Count, SetStop, Join, WaitOrWork, WaitForAll, DoWork, SetDone,
       BeginScan, Enter, GoTo
  <2>4. \A v \in {"help"} \cup ClientPcs : Aside(v)
    BY DEF Aside
  <2> QED
    BY <2>1, <2>2, <2>3, <2>4, QuietMove
<1>3. CASE NotifyAll(c) \/ WakeByAddressAll(c)
  <2>1. UNCHANGED <<queue, stack, sent, executed, cur, todo, batch>>
    BY <1>3 DEF NotifyAll, WakeByAddressAll
  <2>2. pc[c] \in {"notifyall", "wakeall"}
    BY <1>3 DEF NotifyAll, WakeByAddressAll
  <2>3. \/ pc' = [pc EXCEPT ![c] = "wakeall"]
        \/ pc' = [t \in Threads |-> IF t = c THEN "join"
                                    ELSE IF t \in Asleep THEN "wait" ELSE pc[t]]
    BY <1>3 DEF NotifyAll, WakeByAddressAll, WakeAll, GoTo
  <2>4. \A u \in Threads : pc'[u] = pc[u] \/ (Aside(pc[u]) /\ Aside(pc'[u]))
    BY <2>2, <2>3 DEF Aside, Asleep, TypeInv, TypeOK, ThreadTypeOK
  <2> QED
    BY <2>1, <2>4, QuietSafe
<1> QED
  BY <1>1, <1>2, <1>3, ClientSendSafe DEF ClientStep, ClientCall

LEMMA NextSafeInv == TypeInv /\ SafeInv /\ [Next]_vars => SafeInv'
<1> SUFFICES ASSUME TypeInv, SafeInv, [Next]_vars PROVE SafeInv'
  OBVIOUS
<1>1. CASE UNCHANGED vars
  <2>1. UNCHANGED <<queue, stack, sent, executed, cur, todo, batch, pc>>
    BY <1>1 DEF vars
  <2> QED
    BY <2>1, QuietSafe
<1>2. CASE Next
  BY <1>2, RunSafe, WorkerSafe, ClientSafe DEF Next
<1> QED
  BY <1>1, <1>2

LEMMA InitSafeInv == Init => SafeInv
<1> SUFFICES ASSUME Init PROVE SafeInv
  OBVIOUS
<1>1. Len(<<>>) = 0 /\ Elems(<<>>) = {} /\ Distinct(<<>>)
  <2>1. Len(<<>>) = 0
    BY EmptySeq
  <2>2. 1 .. 0 = {}
    OBVIOUS
  <2> QED
    BY <2>1, <2>2 DEF Elems, Distinct
<1>2. /\ \A t \in Threads : stack[t] = <<>> /\ pc[t] \in {"start", "ready"}
      /\ \A q \in Queues : queue[q] = <<>>
      /\ \A x \in Tasks : executed[x] = 0 /\ todo[x] = Spawns[x]
      /\ \A c \in Clients : batch[c] = {}
      /\ sent = {}
  BY DEF Init
<1>3. Unique /\ Apart
  BY <1>1, <1>2 DEF Unique, Apart
<1>4. \A x \in Tasks : Life(x)
  BY <1>1, <1>2 DEF Life, Placed
<1>5. \A q \in Queues : Len(queue[q]) <= QCap
  BY <1>1, <1>2, PoolAssumption
<1>6. PlaceInv
  BY <1>2, <1>3, <1>4, <1>5 DEF PlaceInv
<1>7. FutureInv
  BY <1>2 DEF FutureInv
<1> QED
  BY <1>6, <1>7 DEF SafeInv

\* The sets that TaskConservation counts have one element or none.
LEMMA RunningCount ==
    ASSUME TypeInv, PlaceInv, NEW x \in Tasks
    PROVE  /\ (\E t \in Threads : x \in Elems(stack[t])) => Cardinality(Running(x)) = 1
           /\ (\A t \in Threads : x \notin Elems(stack[t])) => Cardinality(Running(x)) = 0
<1>1. \A t \in Threads : stack[t] \in Seq(Tasks) /\ Len(stack[t]) \in Nat
  BY LenProperties DEF TypeInv, TypeOK, TaskTypeOK
<1>2. ASSUME NEW t \in Threads, x \in Elems(stack[t]) PROVE Cardinality(Running(x)) = 1
  <2>1. PICK i \in 1 .. Len(stack[t]) : stack[t][i] = x
    BY <1>2 DEF Elems
  <2>2. Len(stack[t]) <= Cardinality(Tasks) /\ Cardinality(Tasks) \in Nat
    BY <1>1, DistinctBound, TaskAssumption, FS_CardinalityType DEF PlaceInv, Unique
  <2>3. i \in 1 .. Cardinality(Tasks)
    BY <1>1, <2>1, <2>2
  <2>4. ASSUME NEW u \in Threads, NEW j \in 1 .. Cardinality(Tasks), j <= Len(stack[u]),
               stack[u][j] = x
        PROVE  u = t /\ j = i
    <3>1. j \in 1 .. Len(stack[u])
      BY <1>1, <2>2, <2>4
    <3>2. x \in Elems(stack[u])
      BY <2>4, <3>1 DEF Elems
    <3>3. u = t
      BY <1>2, <3>2 DEF PlaceInv, Unique
    <3> QED
      BY <2>1, <2>4, <3>1, <3>3 DEF PlaceInv, Unique, Distinct
  <2>5. i <= Len(stack[t])
    BY <1>1, <2>1
  <2>6. Running(x) = {<<t, i>>}
    BY <2>1, <2>3, <2>4, <2>5 DEF Running
  <2> QED
    BY <2>6, FS_Singleton
<1>3. ASSUME \A t \in Threads : x \notin Elems(stack[t]) PROVE Cardinality(Running(x)) = 0
  <2>1. ASSUME NEW p \in Running(x) PROVE FALSE
    <3>1. /\ p[1] \in Threads /\ p[2] \in 1 .. Cardinality(Tasks)
          /\ p[2] <= Len(stack[p[1]]) /\ stack[p[1]][p[2]] = x
      BY DEF Running
    <3>2. Cardinality(Tasks) \in Nat
      BY TaskAssumption, FS_CardinalityType
    <3>3. p[2] \in 1 .. Len(stack[p[1]])
      BY <1>1, <3>1, <3>2
    <3> QED
      BY <1>3, <3>1, <3>3 DEF Elems
  <2>2. Running(x) = {}
    BY <2>1
  <2> QED
    BY <2>2, FS_EmptySet
<1> QED
  BY <1>2, <1>3

LEMMA QueuedCount ==
    ASSUME TypeInv, PlaceInv, NEW x \in Tasks
    PROVE  /\ (\E q \in Queues : x \in Elems(queue[q])) => Cardinality(Queued(x)) = 1
           /\ (\A q \in Queues : x \notin Elems(queue[q])) => Cardinality(Queued(x)) = 0
<1>1. QCap \in Nat /\ \A q \in Queues : Len(queue[q]) \in Nat /\ Len(queue[q]) <= QCap
  BY LenProperties, PoolAssumption DEF TypeInv, TypeOK, SharedTypeOK, PlaceInv
<1>2. ASSUME NEW q \in Queues, x \in Elems(queue[q]) PROVE Cardinality(Queued(x)) = 1
  <2>1. PICK i \in 1 .. Len(queue[q]) : queue[q][i] = x
    BY <1>2 DEF Elems
  <2>2. i \in 1 .. QCap /\ i <= Len(queue[q])
    BY <1>1, <2>1
  <2>3. ASSUME NEW r \in Queues, NEW j \in 1 .. QCap, j <= Len(queue[r]), queue[r][j] = x
        PROVE  r = q /\ j = i
    <3>1. j \in 1 .. Len(queue[r])
      BY <1>1, <2>3
    <3>2. x \in Elems(queue[r])
      BY <2>3, <3>1 DEF Elems
    <3>3. r = q
      BY <1>2, <3>2 DEF PlaceInv, Unique
    <3> QED
      BY <2>1, <2>3, <3>1, <3>3 DEF PlaceInv, Unique, Distinct
  <2>4. Queued(x) = {<<q, i>>}
    BY <2>1, <2>2, <2>3 DEF Queued
  <2> QED
    BY <2>4, FS_Singleton
<1>3. ASSUME \A q \in Queues : x \notin Elems(queue[q]) PROVE Cardinality(Queued(x)) = 0
  <2>1. ASSUME NEW p \in Queued(x) PROVE FALSE
    <3>1. /\ p[1] \in Queues /\ p[2] \in 1 .. QCap
          /\ p[2] <= Len(queue[p[1]]) /\ queue[p[1]][p[2]] = x
      BY DEF Queued
    <3>2. p[2] \in 1 .. Len(queue[p[1]])
      BY <1>1, <3>1
    <3> QED
      BY <1>3, <3>1, <3>2 DEF Elems
  <2>2. Queued(x) = {}
    BY <2>1
  <2> QED
    BY <2>2, FS_EmptySet
<1> QED
  BY <1>2, <1>3

LEMMA SendingCount ==
    ASSUME PlaceInv, NEW x \in Tasks
    PROVE  /\ (\E t \in Threads : pc[t] = "push" /\ cur[t] = x) => Cardinality(Sending(x)) = 1
           /\ (\A t \in Threads : pc[t] = "push" => cur[t] # x) => Cardinality(Sending(x)) = 0
<1>1. ASSUME NEW t \in Threads, pc[t] = "push", cur[t] = x PROVE Sending(x) = {t}
  BY <1>1 DEF Sending, PlaceInv, Unique
<1>2. ASSUME \A t \in Threads : pc[t] = "push" => cur[t] # x PROVE Sending(x) = {}
  BY <1>2 DEF Sending
<1> QED
  BY <1>1, <1>2, FS_Singleton, FS_EmptySet

LEMMA InDecCount ==
    ASSUME TypeInv, PlaceInv, NEW x \in Tasks
    PROVE  Cardinality(InDec(x)) =
              IF executed[x] = 1 /\ \E t \in Threads : x \in Elems(stack[t]) THEN 1 ELSE 0
<1>1. ASSUME NEW t \in Threads, pc[t] = "dec", Top(t) = x
      PROVE  executed[x] = 1 /\ x \in Elems(stack[t])
  <2>1. stack[t] \in Seq(Tasks) /\ stack[t] # <<>> /\ Distinct(stack[t])
    BY <1>1 DEF TypeInv, TypeOK, TaskTypeOK, ThreadOK, PlaceInv, Unique
  <2>2. x \in Elems(stack[t])
    BY <1>1, <2>1, NewestElems DEF Top
  <2> QED
    BY <1>1, <2>2 DEF PlaceInv
<1>2. ASSUME NEW t \in Threads, executed[x] = 1, x \in Elems(stack[t])
      PROVE  Cardinality(InDec(x)) = 1
  <2>1. pc[t] = "dec" /\ Top(t) = x
    BY <1>2 DEF PlaceInv, Life
  <2>2. \A u \in Threads : pc[u] = "dec" /\ Top(u) = x => u = t
    BY <1>1, <1>2 DEF PlaceInv, Unique
  <2>3. InDec(x) = {t}
    BY <2>1, <2>2 DEF InDec
  <2> QED
    BY <2>3, FS_Singleton
<1>3. ASSUME ~(executed[x] = 1 /\ \E t \in Threads : x \in Elems(stack[t]))
      PROVE  Cardinality(InDec(x)) = 0
  <2>1. InDec(x) = {}
    BY <1>1, <1>3 DEF InDec
  <2> QED
    BY <2>1, FS_EmptySet
<1> QED
  BY <1>2, <1>3

LEMMA SafeConservation == TypeInv /\ SafeInv => TaskConservation
<1> SUFFICES ASSUME TypeInv, PlaceInv, NEW x \in Tasks
             PROVE  Cardinality(Running(x)) + Cardinality(Sending(x))
                       + Cardinality(Queued(x)) - Cardinality(InDec(x)) + executed[x]
                       = IF x \in sent THEN 1 ELSE 0
  BY DEF TaskConservation, SafeInv
<1> DEFINE onStack == \E t \in Threads : x \in Elems(stack[t])
           inQueue == \E q \in Queues : x \in Elems(queue[q])
           inSend  == \E t \in Threads : pc[t] = "push" /\ cur[t] = x
<1>1. /\ Cardinality(Running(x)) = IF onStack THEN 1 ELSE 0
      /\ Cardinality(Queued(x)) = IF inQueue THEN 1 ELSE 0
      /\ Cardinality(Sending(x)) = IF inSend THEN 1 ELSE 0
      /\ Cardinality(InDec(x)) = IF executed[x] = 1 /\ onStack THEN 1 ELSE 0
  BY RunningCount, QueuedCount, SendingCount, InDecCount
<1>2. ~(onStack /\ inQueue) /\ ~(onStack /\ inSend) /\ ~(inQueue /\ inSend)
  BY DEF PlaceInv, Apart
<1>3. /\ executed[x] \in {0, 1}
      /\ x \notin sent => executed[x] = 0 /\ ~(onStack \/ inQueue \/ inSend)
      /\ x \in sent /\ executed[x] = 0 => onStack \/ inQueue \/ inSend
      /\ executed[x] = 1 => ~inQueue /\ ~inSend
  BY DEF PlaceInv, Life, Placed
<1> HIDE DEF onStack, inQueue, inSend
<1> QED
  BY <1>1, <1>2, <1>3

\* No task is lost and none runs twice, for every number of workers, clients
\* and tasks, every capacity of the queues and both wait policies: a task that
\* was sent is in one queue, on one stack or with one sender until it has run.
THEOREM TasksConserved == Spec => []TaskConservation
  BY InitTypeInv, NextTypeInv, InitSafeInv, NextSafeInv, SafeConservation, PTL DEF Spec

-----------------------------------------------------------------------------
(* The slots of the counter add up to the outstanding tasks *)

LEMMA LeastNumber ==
    ASSUME NEW T, T \subseteq Nat, T # {}
    PROVE  \E n \in T : \A m \in T : n <= m
<1>1. PICK n \in T : \A m \in T : ~(<<m, n>> \in OpToRel(<, Nat))
  BY WFMin, NatLessThanWellFounded
<1>2. \A m \in T : ~(m < n)
  BY <1>1 DEF OpToRel
<1> QED
  BY <1>2

\* f[n] is what the slots below n add up to, for n up to k.
Adds(slots, f, k) ==
    f = [n \in 0 .. k |-> IF n = 0 THEN 0 ELSE f[n - 1] + slots[n - 1]]

\* There is such a function for every k, so the recursion of SlotSum has a
\* solution: a least k without one would have a predecessor with one.
LEMMA AddsExists ==
    ASSUME NEW slots \in [Queues -> Int], NEW k \in 0 .. NThreads + 1
    PROVE  \E f \in [0 .. k -> Int] : Adds(slots, f, k)
<1> USE PoolAssumption
<1> DEFINE T == {j \in 0 .. NThreads + 1 : ~ \E f \in [0 .. j -> Int] : Adds(slots, f, j)}
<1> SUFFICES ASSUME T # {} PROVE FALSE
  OBVIOUS
<1>1. T \subseteq Nat
  OBVIOUS
<1>2. PICK j \in T : \A m \in T : j <= m
  <2> HIDE DEF T
  <2> QED
    BY <1>1, LeastNumber
<1>3. j \in 0 .. NThreads + 1 /\ ~ \E f \in [0 .. j -> Int] : Adds(slots, f, j)
  OBVIOUS
<1>4. CASE j = 0
  <2>1. Adds(slots, [n \in 0 .. 0 |-> 0], 0)
    BY DEF Adds
  <2> QED
    BY <1>3, <1>4, <2>1
<1>5. CASE j # 0
  <2>1. j - 1 \in 0 .. NThreads + 1 /\ ~(j <= j - 1)
    BY <1>3, <1>5
  <2>2. PICK f \in [0 .. j - 1 -> Int] : Adds(slots, f, j - 1)
    BY <1>2, <2>1
  <2> DEFINE g == [n \in 0 .. j |-> IF n = j THEN f[j - 1] + slots[j - 1] ELSE f[n]]
  <2>3. j - 1 \in Queues /\ slots[j - 1] \in Int /\ f[j - 1] \in Int
    BY <1>3, <1>5 DEF Queues
  <2>4. \A n \in 0 .. j : n # j => n \in 0 .. j - 1
    BY <1>3
  <2>5. g \in [0 .. j -> Int]
    BY <2>3, <2>4
  <2>6. ASSUME NEW n \in 0 .. j PROVE g[n] = IF n = 0 THEN 0 ELSE g[n - 1] + slots[n - 1]
    <3>1. CASE n = j
      <4>1. n - 1 \in 0 .. j /\ n - 1 # j
        BY <1>3, <1>5, <3>1
      <4> QED
        BY <1>5, <3>1, <4>1
    <3>2. CASE n # j
      <4>1. n \in 0 .. j - 1 /\ g[n] = f[n]
        BY <2>4, <3>2
      <4>2. f[n] = IF n = 0 THEN 0 ELSE f[n - 1] + slots[n - 1]
        BY <2>2, <4>1 DEF Adds
      <4>3. n # 0 => n - 1 \in 0 .. j /\ n - 1 # j
        BY <1>3, <4>1
      <4> QED
        BY <4>1, <4>2, <4>3
    <3> QED
      BY <3>1, <3>2
  <2>7. Adds(slots, g, j)
    BY <2>6 DEF Adds
  <2> QED
    BY <1>3, <2>5, <2>7
<1> QED
  BY <1>4, <1>5

\* A function that satisfies the equation has integer values.
LEMMA AddsType ==
    ASSUME NEW slots \in [Queues -> Int], NEW f, Adds(slots, f, NThreads + 1)
    PROVE  f \in [0 .. NThreads + 1 -> Int]
<1> USE PoolAssumption
<1> DEFINE T == {j \in 0 .. NThreads + 1 : f[j] \notin Int}
<1>1. f = [n \in 0 .. NThreads + 1 |-> IF n = 0 THEN 0 ELSE f[n - 1] + slots[n - 1]]
  BY DEF Adds
<1>2. \A n \in 0 .. NThreads + 1 : f[n] = IF n = 0 THEN 0 ELSE f[n - 1] + slots[n - 1]
  BY <1>1
<1>3. T = {}
  <2> SUFFICES ASSUME T # {} PROVE FALSE
    OBVIOUS
  <2>1. T \subseteq Nat
    OBVIOUS
  <2>2. PICK j \in T : \A m \in T : j <= m
    <3> HIDE DEF T
    <3> QED
      BY <2>1, LeastNumber
  <2>3. j \in 0 .. NThreads + 1 /\ f[j] \notin Int
    OBVIOUS
  <2>4. j # 0
    BY <1>2, <2>3
  <2>5. j - 1 \in 0 .. NThreads + 1 /\ j - 1 \in Queues /\ ~(j <= j - 1)
    BY <2>3, <2>4 DEF Queues
  <2>6. f[j - 1] \in Int /\ slots[j - 1] \in Int
    BY <2>2, <2>5
  <2> QED
    BY <1>2, <2>3, <2>4, <2>6
<1> QED
  BY <1>1, <1>3

LEMMA SlotSumDef ==
    ASSUME NEW slots \in [Queues -> Int]
    PROVE  /\ SlotSum(slots) \in [0 .. NThreads + 1 -> Int]
           /\ SlotSum(slots)[0] = 0
           /\ \A q \in Queues : SlotSum(slots)[q + 1] = SlotSum(slots)[q] + slots[q]
<1> USE PoolAssumption
<1>1. NThreads + 1 \in 0 .. NThreads + 1
  OBVIOUS
<1>2. \E f : Adds(slots, f, NThreads + 1)
  BY <1>1, AddsExists
<1>3. SlotSum(slots) = CHOOSE f : Adds(slots, f, NThreads + 1)
  BY DEF SlotSum, Adds
<1>4. Adds(slots, SlotSum(slots), NThreads + 1)
  BY <1>2, <1>3
<1>5. SlotSum(slots) \in [0 .. NThreads + 1 -> Int]
  BY <1>4, AddsType
<1>6. \A n \in 0 .. NThreads + 1 : SlotSum(slots)[n] =
         IF n = 0 THEN 0 ELSE SlotSum(slots)[n - 1] + slots[n - 1]
  <2> DEFINE f == SlotSum(slots)
  <2>1. f = [n \in 0 .. NThreads + 1 |-> IF n = 0 THEN 0 ELSE f[n - 1] + slots[n - 1]]
    BY <1>4 DEF Adds
  <2> HIDE DEF f
  <2>2. \A n \in 0 .. NThreads + 1 : f[n] = IF n = 0 THEN 0 ELSE f[n - 1] + slots[n - 1]
    BY <2>1
  <2> QED
    BY <2>2 DEF f
<1>7. ASSUME NEW q \in Queues
      PROVE  q + 1 \in 0 .. NThreads + 1 /\ q + 1 # 0 /\ (q + 1) - 1 = q
  BY DEF Queues
<1> QED
  BY <1>5, <1>6, <1>7

\* One slot changes by d: the sums above it do, the others stay.
LEMMA SlotSumChange ==
    ASSUME NEW slots \in [Queues -> Int], NEW s \in Queues, NEW d \in Int,
           NEW after \in [Queues -> Int], after[s] = slots[s] + d,
           \A q \in Queues \ {s} : after[q] = slots[q]
    PROVE  \A n \in 0 .. NThreads + 1 :
              /\ n > s => SlotSum(after)[n] = SlotSum(slots)[n] + d
              /\ ~(n > s) => SlotSum(after)[n] = SlotSum(slots)[n]
<1> USE PoolAssumption
<1> DEFINE f == SlotSum(slots)
           g == SlotSum(after)
           T == {n \in 0 .. NThreads + 1 : g[n] # f[n] + IF n > s THEN d ELSE 0}
<1>1. after \in [Queues -> Int] /\ after[s] = slots[s] + d
      /\ \A q \in Queues \ {s} : after[q] = slots[q]
  OBVIOUS
<1>2. /\ f \in [0 .. NThreads + 1 -> Int] /\ f[0] = 0
      /\ \A q \in Queues : f[q + 1] = f[q] + slots[q]
  BY SlotSumDef
<1>3. /\ g \in [0 .. NThreads + 1 -> Int] /\ g[0] = 0
      /\ \A q \in Queues : g[q + 1] = g[q] + after[q]
  BY <1>1, SlotSumDef
<1> HIDE DEF f, g
<1> SUFFICES ASSUME T # {} PROVE FALSE
  <2> SUFFICES ASSUME T = {}, NEW n \in 0 .. NThreads + 1
               PROVE  (n > s => g[n] = f[n] + d) /\ (~(n > s) => g[n] = f[n])
    BY DEF f, g
  <2>1. g[n] = f[n] + (IF n > s THEN d ELSE 0) /\ f[n] \in Int
    BY <1>2
  <2> QED
    BY <2>1
<1>4. T \subseteq Nat
  OBVIOUS
<1>5. PICK j \in T : \A m \in T : j <= m
  <2> HIDE DEF T
  <2> QED
    BY <1>4, LeastNumber
<1>6. j \in 0 .. NThreads + 1 /\ g[j] # f[j] + IF j > s THEN d ELSE 0
  OBVIOUS
<1>7. s \in 0 .. NThreads
  BY DEF Queues
<1>8. j # 0
  BY <1>2, <1>3, <1>6, <1>7
<1>9. PICK q \in Queues : j = q + 1 /\ q \in 0 .. NThreads + 1
  <2>1. j - 1 \in Queues /\ j = (j - 1) + 1 /\ j - 1 \in 0 .. NThreads + 1
    BY <1>6, <1>8 DEF Queues
  <2> QED
    BY <2>1
<1>10. ~(j <= q)
  BY <1>9
<1>11. g[q] = f[q] + IF q > s THEN d ELSE 0
  BY <1>5, <1>9, <1>10
<1>12. g[j] = g[q] + after[q] /\ f[j] = f[q] + slots[q]
  BY <1>2, <1>3, <1>9
<1>13. f[q] \in Int /\ g[q] \in Int /\ slots[q] \in Int /\ after[q] \in Int
  BY <1>1, <1>2, <1>3, <1>9
<1>14. CASE q = s
  BY <1>1, <1>6, <1>7, <1>9, <1>11, <1>12, <1>13, <1>14
<1>15. CASE q # s
  <2>1. after[q] = slots[q]
    BY <1>1, <1>15
  <2>2. j > s <=> q > s
    BY <1>7, <1>9, <1>15
  <2> QED
    BY <1>6, <1>11, <1>12, <1>13, <2>1, <2>2
<1> QED
  BY <1>14, <1>15

\* Thread t counts x in its slot: the first step of a send.
CountsNew(t, x) ==
    /\ SendsNew(t, x)
    /\ count' = [count EXCEPT ![Tid(t)] = @ + 1]
    /\ UNCHANGED <<stack, executed>>

\* No task is counted, returns or is counted down.
Uncounted ==
    /\ UNCHANGED <<count, sent, executed>>
    /\ \A u \in Threads : pc'[u] = "dec" <=> pc[u] = "dec"
    /\ \A u \in Threads : pc[u] = "dec" => stack'[u] = stack[u]

LEMMA QuietUncounted ==
    ASSUME UNCHANGED <<count, sent, executed, stack>>,
           \A u \in Threads : pc'[u] = pc[u] \/ (Aside(pc[u]) /\ Aside(pc'[u]))
    PROVE  Uncounted
  BY DEF Uncounted, Aside

LEMMA RunCounts ==
    ASSUME TypeInv, SafeInv, NEW t \in Threads, RunStep(t)
    PROVE  \/ \E x \in Tasks : CountsNew(t, x)
           \/ BodyReturn(t)
           \/ Decrement(t)
           \/ Uncounted
<1> USE Names
<1>1. \A st : Resume(t, st) \in {"body", "check"} \cup Calls
  BY ResumeType DEF Threads
<1>2. pc \in [Threads -> WorkerPcs \cup RunPcs \cup ClientPcs]
      /\ stack \in [Threads -> Seq(Tasks)]
  BY DEF TypeInv, TypeOK, ThreadTypeOK, TaskTypeOK
<1>3. PlaceInv /\ FutureInv
  BY DEF SafeInv
<1>4. CASE PopLocal(t) \/ PopPool(t) \/ TrySteal(t)
  <2>1. AfterMiss(t) \in {"idle", "chk", "chk1", "chk2", "body", "check"} \cup Calls
    BY <1>1 DEF AfterMiss
  <2>2. pc' = pc \/ \E v \in {"body", "idle", "chk", "chk1", "chk2", "check"} \cup Calls :
           pc' = [pc EXCEPT ![t] = v]
    BY <1>4, <2>1 DEF PopLocal, PopPool, TrySteal, StealFrom, Found, GoTo
  <2>3. pc[t] # "dec" /\ UNCHANGED <<count, sent, executed>>
    BY <1>4 DEF PopLocal, PopPool, TrySteal, StealFrom, Found, ScanPcs
  <2>4. \A u \in Threads \ {t} : stack'[u] = stack[u]
    BY <1>2, <1>4 DEF PopLocal, PopPool, TrySteal, StealFrom, Found
  <2> QED
    BY <1>2, <2>2, <2>3, <2>4 DEF Uncounted
<1>5. CASE BodySend(t)
  <2>1. PICK x \in todo[Top(t)] : StartSend(t, x, Tid(t))
    BY <1>5 DEF BodySend
  <2>2. pc[t] = "body" /\ UNCHANGED <<stack, executed>>
    BY <1>5 DEF BodySend
  <2>3. x \in Tasks /\ x \notin sent
    BY <1>3, <2>2, BodyFacts
  <2>4. CountsNew(t, x)
    BY <2>1, <2>2, <2>3 DEF CountsNew, SendsNew, StartSend, GoTo, Aside
  <2> QED
    BY <2>3, <2>4
<1>6. CASE SendTo(t)
  <2>1. pc[t] = "sendto" /\ cur[t] \in Tasks /\ UNCHANGED <<stack, executed>>
    BY <1>6 DEF SendTo, TypeInv, ThreadOK
  <2>2. cur[t] \notin sent
    BY <1>3, <2>1 DEF FutureInv
  <2>3. CountsNew(t, cur[t])
    BY <1>6, <2>1, <2>2 DEF SendTo, CountsNew, SendsNew, StartSend, GoTo
  <2> QED
    BY <2>1, <2>3
<1>7. CASE BodySendTo(t) \/ BodyHelp(t)
  <2>1. pc[t] = "body" /\ UNCHANGED <<count, sent, executed, stack>>
    BY <1>7 DEF BodySendTo, BodyHelp
  <2>2. \E v \in {"sendto", "help"} : pc' = [pc EXCEPT ![t] = v]
    BY <1>7 DEF BodySendTo, BodyHelp, BeginScan, GoTo
  <2> QED
    BY <1>2, <2>1, <2>2 DEF Uncounted
<1>8. CASE Push(t)
  <2>1. pc[t] = "push" /\ UNCHANGED <<count, sent, executed>>
    BY <1>8 DEF Push
  <2>2. \E v \in {"notify", "body"} : pc' = [pc EXCEPT ![t] = v]
    BY <1>8 DEF Push, GoTo
  <2>3. \A u \in Threads \ {t} : stack'[u] = stack[u]
    BY <1>2, <1>8 DEF Push
  <2> QED
    BY <1>2, <2>1, <2>2, <2>3 DEF Uncounted
<1>9. CASE NotifyOne(t) \/ WakeByAddressSingle(t)
  <2>1. /\ pc[t] \in {"notify", "wake"}
        /\ UNCHANGED <<count, sent, executed, stack>>
    BY <1>9 DEF NotifyOne, WakeByAddressSingle
  <2>2. \/ \E v \in {"wake", "body", "check"} \cup Calls : pc' = [pc EXCEPT ![t] = v]
        \/ \E v \in {"body", "check"} \cup Calls, w \in Workers :
              pc[w] = "asleep" /\ pc' = [pc EXCEPT ![t] = v, ![w] = "wait"]
    BY <1>1, <1>9 DEF NotifyOne, WakeByAddressSingle, WakeOne, Asleep, GoTo
  <2>3. \A u \in Threads : pc'[u] = pc[u] \/ (Aside(pc[u]) /\ Aside(pc'[u]))
    BY <1>2, <2>1, <2>2 DEF Aside
  <2> QED
    BY <2>1, <2>3, QuietUncounted
<1> QED
  BY <1>4, <1>5, <1>6, <1>7, <1>8, <1>9 DEF RunStep

LEMMA WorkerCounts ==
    ASSUME TypeInv, NEW w \in Workers, WorkerStep(w) \/ SpuriousWake(w)
    PROVE  Uncounted
<1>1. UNCHANGED <<count, sent, executed, stack>>
  BY DEF WorkerStep, Start, CheckStop, Idle, Wait, PredStop, Block, Capture,
     WaitOnAddress, Exit, SpuriousWake
<1>2. Aside(pc[w])
  BY DEF WorkerStep, Start, CheckStop, Idle, Wait, PredStop, Block, Capture,
     WaitOnAddress, Exit, SpuriousWake, Aside
<1>3. \E v \in WorkerPcs : pc' = [pc EXCEPT ![w] = v]
  BY DEF WorkerStep, Start, CheckStop, Idle, Wait, PredStop, Block, Capture,
     WaitOnAddress, Exit, SpuriousWake, BeginScan, GoTo, AfterPred
<1>4. \A v \in WorkerPcs : Aside(v)
  BY Names DEF Aside
<1>5. \A u \in Threads : pc'[u] = pc[u] \/ (Aside(pc[u]) /\ Aside(pc'[u]))
  BY <1>2, <1>3, <1>4 DEF TypeInv, TypeOK, ThreadTypeOK
<1> QED
  BY <1>1, <1>5, QuietUncounted

LEMMA ClientCounts ==
    ASSUME TypeInv, SafeInv, NEW c \in Clients, ClientStep(c) \/ ClientCall(c)
    PROVE  (\E x \in Tasks : CountsNew(c, x)) \/ Uncounted
<1> USE Names
<1>1. CASE Send(c)
  <2>1. PICK x \in Unsent : \E q \in Queues : StartSend(c, x, q)
    BY <1>1 DEF Send
  <2>2. x \in Tasks /\ x \notin sent
    BY DEF Unsent, Roots
  <2>3. CountsNew(c, x)
    BY <1>1, <2>1, <2>2 DEF Send, CanCall, CountsNew, SendsNew, StartSend, GoTo, Aside
  <2> QED
    BY <2>2, <2>3
<1>2. CASE ParallelSend(c) /\ batch[c] # {}
  <2>1. PICK x \in batch[c] : StartSend(c, x, RoundRobin(njobs'[c]))
    BY <1>2 DEF ParallelSend
  <2>2. x \in Tasks /\ x \notin sent
    BY DEF SafeInv, FutureInv, Roots
  <2>3. CountsNew(c, x)
    BY <1>2, <2>1, <2>2 DEF ParallelSend, CountsNew, SendsNew, StartSend, GoTo, Aside
  <2> QED
    BY <2>2, <2>3
<1>3. CASE \/ (ParallelSend(c) /\ batch[c] = {}) \/ ParallelFor(c)
           \/ IsReady(c) \/ Count(c) \/ SetStop(c) \/ Join(c) \/ WaitOrWork(c)
           \/ WaitForAll(c) \/ DoWork(c) \/ SetDone(c)
  <2>1. UNCHANGED <<count, sent, executed, stack>>
    BY <1>3 DEF ParallelSend, ParallelFor, IsReady, Count, SetStop, Join, WaitOrWork,
       WaitForAll, DoWork, SetDone
  <2>2. Aside(pc[c])
    BY <1>3 DEF ParallelSend, ParallelFor, IsReady, Count, SetStop, Join, WaitOrWork,
       WaitForAll, DoWork, SetDone, CanCall, Aside
  <2>3. pc' = pc \/ \E v \in {"help"} \cup ClientPcs : pc' = [pc EXCEPT ![c] = v]
    BY <1>3 DEF ParallelSend, ParallelFor, IsReady, Count, SetStop, Join, WaitOrWork,
       WaitForAll, DoWork, SetDone, BeginScan, Enter, GoTo
  <2>4. \A v \in {"help"} \cup ClientPcs : Aside(v)
    BY DEF Aside
  <2>5. \A u \in Threads : pc'[u] = pc[u] \/ (Aside(pc[u]) /\ Aside(pc'[u]))
    BY <2>2, <2>3, <2>4 DEF TypeInv, TypeOK, ThreadTypeOK
  <2> QED
    BY <2>1, <2>5, QuietUncounted
<1>4. CASE NotifyAll(c) \/ WakeByAddressAll(c)
  <2>1. UNCHANGED <<count, sent, executed, stack>>
    BY <1>4 DEF NotifyAll, WakeByAddressAll
  <2>2. pc[c] \in {"notifyall", "wakeall"}
    BY <1>4 DEF NotifyAll, WakeByAddressAll
  <2>3. \/ pc' = [pc EXCEPT ![c] = "wakeall"]
        \/ pc' = [t \in Threads |-> IF t = c THEN "join"
                                    ELSE IF t \in Asleep THEN "wait" ELSE pc[t]]
    BY <1>4 DEF NotifyAll, WakeByAddressAll, WakeAll, GoTo
  <2>4. \A u \in Threads : pc'[u] = pc[u] \/ (Aside(pc[u]) /\ Aside(pc'[u]))
    BY <2>2, <2>3 DEF Aside, Asleep, TypeInv, TypeOK, ThreadTypeOK
  <2> QED
    BY <2>1, <2>4, QuietUncounted
<1> QED
  BY <1>1, <1>2, <1>3, <1>4 DEF ClientStep, ClientCall

\* Every step counts one new task, or returns from one, or counts one down, or
\* has nothing to do with the counter.
LEMMA CountSteps ==
    ASSUME TypeInv, SafeInv, [Next]_vars
    PROVE  \/ \E t \in Threads, x \in Tasks : CountsNew(t, x)
           \/ \E t \in Threads : BodyReturn(t) \/ Decrement(t)
           \/ Uncounted
<1>1. CASE UNCHANGED vars
  BY <1>1 DEF vars, sharedVars, taskVars, histVars, Uncounted
<1>2. ASSUME NEW t \in Threads, RunStep(t)
      PROVE  \/ \E x \in Tasks : CountsNew(t, x)
             \/ BodyReturn(t) \/ Decrement(t)
             \/ Uncounted
  BY <1>2, RunCounts
<1>3. ASSUME NEW w \in Workers, WorkerStep(w) \/ SpuriousWake(w) PROVE Uncounted
  BY <1>3, WorkerCounts
<1>4. ASSUME NEW c \in Clients, ClientStep(c) \/ ClientCall(c)
      PROVE  (\E x \in Tasks : CountsNew(c, x)) \/ Uncounted
  BY <1>4, ClientCounts
<1>5. Clients \subseteq Threads
  BY Names
<1> QED
  BY <1>1, <1>2, <1>3, <1>4, <1>5 DEF Next

\* The whole sum when a slot changes.
LEMMA TotalChange ==
    ASSUME TypeInv, NEW t \in Threads
    PROVE  /\ count' = [count EXCEPT ![Tid(t)] = @ + 1] =>
                 SlotSum(count')[NThreads + 1] = SlotSum(count)[NThreads + 1] + 1
           /\ count' = [count EXCEPT ![Tid(t)] = @ - 1] =>
                 SlotSum(count')[NThreads + 1] = SlotSum(count)[NThreads + 1] - 1
<1>1. count \in [Queues -> Int] /\ Tid(t) \in Queues
  BY TidType DEF TypeInv, TypeOK, SharedTypeOK
<1>2. NThreads + 1 \in 0 .. NThreads + 1 /\ NThreads + 1 > Tid(t)
  BY <1>1, PoolAssumption DEF Queues
<1>3. SlotSum(count)[NThreads + 1] \in Int
  BY <1>1, <1>2, SlotSumDef
<1>4. ASSUME count' = [count EXCEPT ![Tid(t)] = @ + 1]
      PROVE  SlotSum(count')[NThreads + 1] = SlotSum(count)[NThreads + 1] + 1
  <2>1. /\ count' \in [Queues -> Int] /\ count'[Tid(t)] = count[Tid(t)] + 1 /\ 1 \in Int
        /\ \A q \in Queues \ {Tid(t)} : count'[q] = count[q]
    BY <1>1, <1>4
  <2> QED
    BY <1>1, <1>2, <2>1, SlotSumChange
<1>5. ASSUME count' = [count EXCEPT ![Tid(t)] = @ - 1]
      PROVE  SlotSum(count')[NThreads + 1] = SlotSum(count)[NThreads + 1] - 1
  <2>1. /\ count' \in [Queues -> Int] /\ count'[Tid(t)] = count[Tid(t)] + (-1) /\ -1 \in Int
        /\ \A q \in Queues \ {Tid(t)} : count'[q] = count[q]
    BY <1>1, <1>5
  <2>2. SlotSum(count')[NThreads + 1] = SlotSum(count)[NThreads + 1] + (-1)
    BY <1>1, <1>2, <2>1, SlotSumChange
  <2> QED
    BY <1>3, <2>2
<1> QED
  BY <1>4, <1>5

LEMMA OutstandingFinite ==
    ASSUME TypeInv
    PROVE  IsFiniteSet(Outstanding) /\ Cardinality(Outstanding) \in Nat
<1>1. Outstanding \subseteq Tasks
  BY DEF Outstanding, TypeInv, TypeOK, TaskTypeOK
<1> QED
  BY <1>1, TaskAssumption, FS_Subset, FS_CardinalityType

LEMMA SendBalances ==
    ASSUME TypeInv, SafeInv, CounterBalance, NEW t \in Threads, NEW x \in Tasks,
           CountsNew(t, x)
    PROVE  CounterBalance'
<1>1. /\ x \notin sent /\ sent' = sent \cup {x} /\ UNCHANGED <<stack, executed>>
      /\ executed[x] = 0
      /\ count' = [count EXCEPT ![Tid(t)] = @ + 1]
  BY DEF CountsNew, SendsNew, SafeInv, PlaceInv, Life
<1>2. \A u \in Threads : /\ pc'[u] = "dec" <=> pc[u] = "dec"
                         /\ Top(u)' = Top(u)
  BY <1>1 DEF CountsNew, SendsNew, Aside, Top, TypeInv, TypeOK, ThreadTypeOK
<1>3. \A y : InDec(y)' = InDec(y)
  BY <1>2 DEF InDec
<1>4. Outstanding' = Outstanding \cup {x} /\ x \notin Outstanding
  BY <1>1, <1>3 DEF Outstanding
<1>5. Cardinality(Outstanding') = Cardinality(Outstanding) + 1
  BY <1>4, OutstandingFinite, FS_AddElement
<1>6. SlotSum(count')[NThreads + 1] = SlotSum(count)[NThreads + 1] + 1
  BY <1>1, TotalChange
<1> QED
  BY <1>5, <1>6 DEF CounterBalance

\* Its future is ready, and the task stays outstanding until the count follows.
LEMMA ReturnBalances ==
    ASSUME TypeInv, SafeInv, CounterBalance, NEW t \in Threads, BodyReturn(t)
    PROVE  CounterBalance'
<1>1. /\ pc[t] = "body" /\ pc'[t] = "dec"
      /\ \A u \in Threads \ {t} : pc'[u] = pc[u]
      /\ UNCHANGED <<stack, sent, count>>
      /\ \A u \in Threads : Top(u)' = Top(u)
  BY DEF BodyReturn, GoTo, TypeInv, TypeOK, ThreadTypeOK, Top
<1>2. stack[t] \in Seq(Tasks) /\ stack[t] # <<>> /\ Distinct(stack[t])
  BY <1>1 DEF TypeInv, TypeOK, TaskTypeOK, ThreadOK, SafeInv, PlaceInv, Unique
<1>3. Top(t) \in Tasks /\ Top(t) \in Elems(stack[t])
  BY <1>2, TakeType, NewestElems DEF Top
<1>4. executed[Top(t)] = 0 /\ Top(t) \in sent
  BY <1>1, <1>3 DEF SafeInv, PlaceInv, Life, Placed
<1>5. \A y \in Tasks \ {Top(t)} : executed'[y] = executed[y]
  BY DEF BodyReturn, TypeInv, TypeOK, TaskTypeOK
<1>6. Top(t) \in Outstanding /\ Top(t) \in Outstanding'
  BY <1>1, <1>4 DEF Outstanding, InDec
<1>7. ASSUME NEW y \in Tasks \ {Top(t)} PROVE InDec(y)' = InDec(y)
  BY <1>1 DEF InDec
<1>8. sent \subseteq Tasks
  BY DEF TypeInv, TypeOK, TaskTypeOK
<1>9. ASSUME NEW y PROVE y \in Outstanding' <=> y \in Outstanding
  <2>1. CASE y = Top(t)
    BY <1>6, <2>1
  <2>2. CASE y # Top(t)
    BY <1>1, <1>5, <1>7, <1>8, <2>2 DEF Outstanding
  <2> QED
    BY <2>1, <2>2
<1>10. Outstanding' = Outstanding
  BY <1>9
<1> QED
  BY <1>1, <1>10 DEF CounterBalance

LEMMA DecrementBalances ==
    ASSUME TypeInv, SafeInv, CounterBalance, NEW t \in Threads, Decrement(t)
    PROVE  CounterBalance'
<1>1. stack[t] \in Seq(Tasks) /\ stack[t] # <<>> /\ pc[t] = "dec" /\ Distinct(stack[t])
  BY DEF Decrement, TypeInv, TypeOK, TaskTypeOK, ThreadOK, SafeInv, PlaceInv, Unique
<1>2. Top(t) \in Tasks /\ Top(t) \in Elems(stack[t]) /\ executed[Top(t)] = 1
  BY <1>1, TakeType, NewestElems DEF Top, SafeInv, PlaceInv
<1>3. Top(t) \in sent
  BY <1>2 DEF SafeInv, PlaceInv, Life
<1>4. pc'[t] # "dec"
  <2>1. pc' = [pc EXCEPT ![t] = Resume(t, stack'[t])]
    BY DEF Decrement, GoTo
  <2>2. Resume(t, stack'[t]) \in {"body", "check"} \cup Calls
    BY ResumeType DEF Threads
  <2> QED
    BY <2>1, <2>2 DEF TypeInv, TypeOK, ThreadTypeOK
<1>5. /\ \A u \in Threads \ {t} : pc'[u] = pc[u] /\ Top(u)' = Top(u)
      /\ UNCHANGED <<sent, executed>>
  BY DEF Decrement, GoTo, Top, TypeInv, TypeOK, ThreadTypeOK, TaskTypeOK
<1>6. ASSUME NEW u \in Threads, pc[u] = "dec", Top(u) = Top(t) PROVE u = t
  <2>1. stack[u] \in Seq(Tasks) /\ stack[u] # <<>> /\ Distinct(stack[u])
    BY <1>6 DEF TypeInv, TypeOK, TaskTypeOK, ThreadOK, SafeInv, PlaceInv, Unique
  <2>2. Top(t) \in Elems(stack[u])
    BY <1>6, <2>1, NewestElems DEF Top
  <2> QED
    BY <1>2, <2>2 DEF SafeInv, PlaceInv, Unique
<1>7. Top(t) \in Outstanding
  BY <1>1, <1>3 DEF Outstanding, InDec
<1>8. Top(t) \notin Outstanding'
  BY <1>2, <1>4, <1>5, <1>6 DEF Outstanding, InDec
<1>9. ASSUME NEW y, y # Top(t) PROVE InDec(y)' = InDec(y)
  <2>1. ASSUME NEW u PROVE u \in InDec(y)' <=> u \in InDec(y)
    <3>1. CASE u = t
      BY <1>4, <1>9, <3>1 DEF InDec
    <3>2. CASE u # t
      BY <1>5, <3>2 DEF InDec
    <3> QED
      BY <3>1, <3>2
  <2> QED
    BY <2>1
<1>10. Outstanding' = Outstanding \ {Top(t)}
  <2>1. ASSUME NEW y, y # Top(t) PROVE y \in Outstanding' <=> y \in Outstanding
    BY <1>5, <1>9, <2>1 DEF Outstanding
  <2> QED
    BY <1>8, <2>1
<1>11. Cardinality(Outstanding') = Cardinality(Outstanding) - 1
  BY <1>7, <1>10, OutstandingFinite, FS_RemoveElement
<1>12. SlotSum(count')[NThreads + 1] = SlotSum(count)[NThreads + 1] - 1
  BY TotalChange DEF Decrement
<1>13. SlotSum(count)[NThreads + 1] \in Int
  BY OutstandingFinite DEF CounterBalance
<1> QED
  BY <1>11, <1>12, <1>13, OutstandingFinite DEF CounterBalance

LEMMA UncountedBalances ==
    ASSUME CounterBalance, Uncounted
    PROVE  CounterBalance'
<1>1. \A y : InDec(y)' = InDec(y)
  BY DEF InDec, Uncounted, Top
<1>2. Outstanding' = Outstanding
  BY <1>1 DEF Outstanding, Uncounted
<1> QED
  BY <1>2 DEF CounterBalance, Uncounted

LEMMA NextBalance ==
    TypeInv /\ SafeInv /\ CounterBalance /\ [Next]_vars => CounterBalance'
  BY CountSteps, SendBalances, ReturnBalances, DecrementBalances, UncountedBalances

LEMMA InitBalance == Init => CounterBalance
<1> SUFFICES ASSUME Init PROVE CounterBalance
  OBVIOUS
<1>1. count \in [Queues -> Int] /\ \A q \in Queues : count[q] = 0
  BY DEF Init
<1>2. /\ SlotSum(count) \in [0 .. NThreads + 1 -> Int]
      /\ SlotSum(count)[0] = 0
      /\ \A q \in Queues : SlotSum(count)[q + 1] = SlotSum(count)[q] + count[q]
  BY <1>1, SlotSumDef
<1> DEFINE f == SlotSum(count)
           T == {n \in 0 .. NThreads + 1 : f[n] # 0}
<1>3. T = {}
  <2> HIDE DEF f
  <2> SUFFICES ASSUME T # {} PROVE FALSE
    OBVIOUS
  <2>1. T \subseteq Nat
    OBVIOUS
  <2>2. PICK j \in T : \A m \in T : j <= m
    <3> HIDE DEF T
    <3> QED
      BY <2>1, LeastNumber
  <2>3. j \in 0 .. NThreads + 1 /\ f[j] # 0 /\ j # 0
    BY <1>2 DEF f
  <2>4. j - 1 \in Queues /\ j - 1 \in 0 .. NThreads + 1 /\ ~(j <= j - 1) /\ (j - 1) + 1 = j
    BY <2>3, PoolAssumption DEF Queues
  <2>5. f[j - 1] = 0
    BY <2>2, <2>4
  <2> QED
    BY <1>1, <1>2, <2>3, <2>4, <2>5 DEF f
<1>4. NThreads + 1 \in 0 .. NThreads + 1
  BY PoolAssumption
<1>5. SlotSum(count)[NThreads + 1] = 0
  BY <1>3, <1>4
<1>6. Outstanding = {}
  BY DEF Outstanding, Init
<1> QED
  BY <1>5, <1>6, FS_EmptySet DEF CounterBalance

\* m_nTasksOutstanding is exact, for every number of workers, clients and
\* tasks: whichever slots the increments and the decrements go to, the slots
\* add up to the number of the tasks sent and not yet finished.
THEOREM CounterBalanced == Spec => []CounterBalance
  BY InitTypeInv, NextTypeInv, InitSafeInv, NextSafeInv, InitBalance, NextBalance,
     PTL DEF Spec

-----------------------------------------------------------------------------
(* wait_for_all_tasks, with one client and bodies that send nothing *)

\* Nobody sends while count() runs: there is one client, and no body sends.
Alone == (\A c, d \in Clients : c = d) /\ \A x \in Tasks : Spawns[x] = {}

\* What count() has read is at least what the slots it has read hold now: they
\* can only have been decremented since.
CountInv ==
    /\ \A t \in Threads : pc[t] # "sendto"
    /\ \A c \in Clients : pc[c] # "sum" => acc[c] = 0
    /\ \A c \in Clients : pc[c] \notin Destroying \cup {"sum"} => slot[c] = 0
    /\ \A c \in Clients : pc[c] = "sum" => acc[c] >= SlotSum(count)[slot[c]]

\* A step of other code than count(), for client c.
Elsewhere(c) ==
    /\ acc'[c] = acc[c]
    /\ pc[c] = "sum" => pc'[c] = "sum"
    /\ pc[c] \in Destroying => pc'[c] \in Destroying
    /\ slot'[c] = slot[c] \/ pc'[c] \in Destroying

LEMMA RunElsewhere ==
    ASSUME TypeInv, NEW t \in Threads, RunStep(t), NEW c \in Clients
    PROVE  Elsewhere(c)
<1> USE Names DEF Destroying
<1>1. UNCHANGED <<acc, slot>>
  BY DEF RunStep, PopLocal, PopPool, TrySteal, StealFrom, Found, BodySend, BodySendTo,
     SendTo, Push, NotifyOne, WakeByAddressSingle, BodyHelp, BodyReturn, Decrement
<1>2. pc[t] \notin Destroying \cup {"sum"}
  BY DEF RunStep, PopLocal, PopPool, TrySteal, StealFrom, Found, BodySend, BodySendTo,
     SendTo, Push, NotifyOne, WakeByAddressSingle, BodyHelp, BodyReturn, Decrement, ScanPcs
<1>3. \A u \in Clients \ {t} : pc'[u] = pc[u]
  BY DEF RunStep, PopLocal, PopPool, TrySteal, StealFrom, Found, BodySend, BodySendTo,
     SendTo, Push, NotifyOne, WakeByAddressSingle, BodyHelp, BodyReturn, Decrement,
     StartSend, BeginScan, WakeOne, Asleep, GoTo, TypeInv, TypeOK, ThreadTypeOK
<1> QED
  BY <1>1, <1>2, <1>3 DEF Elsewhere

LEMMA WorkerElsewhere ==
    ASSUME TypeInv, NEW w \in Workers, WorkerStep(w) \/ SpuriousWake(w), NEW c \in Clients
    PROVE  Elsewhere(c)
<1> USE Names
<1>1. UNCHANGED <<acc, slot>>
  BY DEF WorkerStep, Start, CheckStop, Idle, Wait, PredStop, Block, Capture,
     WaitOnAddress, Exit, SpuriousWake
<1>2. \E v \in WorkerPcs : pc' = [pc EXCEPT ![w] = v]
  BY DEF WorkerStep, Start, CheckStop, Idle, Wait, PredStop, Block, Capture,
     WaitOnAddress, Exit, SpuriousWake, BeginScan, GoTo, AfterPred
<1>3. pc'[c] = pc[c]
  BY <1>2 DEF TypeInv, TypeOK, ThreadTypeOK
<1> QED
  BY <1>1, <1>3 DEF Elsewhere

LEMMA ClientElsewhere ==
    ASSUME TypeInv, NEW d \in Clients, ClientStep(d) \/ ClientCall(d), NEW c \in Clients
    PROVE  Elsewhere(c) \/ Count(c)
<1> USE Names DEF Destroying
<1>1. CASE Count(d)
  <2>1. CASE c = d
    BY <1>1, <2>1
  <2>2. CASE c # d
    BY <1>1, <2>2 DEF Count, Enter, BeginScan, GoTo, Elsewhere, TypeInv, TypeOK,
       ThreadTypeOK, ClientTypeOK
  <2> QED
    BY <2>1, <2>2
<1>2. CASE NotifyAll(d) \/ WakeByAddressAll(d)
  <2>1. UNCHANGED <<acc, slot>> /\ pc[d] \in {"notifyall", "wakeall"}
    BY <1>2 DEF NotifyAll, WakeByAddressAll
  <2>2. \/ pc' = [pc EXCEPT ![d] = "wakeall"]
        \/ pc' = [t \in Threads |-> IF t = d THEN "join"
                                    ELSE IF t \in Asleep THEN "wait" ELSE pc[t]]
    BY <1>2 DEF NotifyAll, WakeByAddressAll, WakeAll, GoTo
  <2>3. IF c = d THEN pc'[c] \in {"wakeall", "join"} ELSE pc'[c] = pc[c]
    BY <2>2 DEF Asleep, TypeInv, TypeOK, ThreadTypeOK
  <2> QED
    BY <2>1, <2>3 DEF Elsewhere
<1>3. CASE SetStop(d) \/ Join(d) \/ SetDone(d)
  <2>1. UNCHANGED acc /\ pc[d] \in {"setstop", "join", "ready"}
    BY <1>3 DEF SetStop, Join, SetDone, CanCall
  <2>2. (pc' = pc /\ pc[d] = "setstop") \/ (\E v \in Destroying : pc' = [pc EXCEPT ![d] = v])
    BY <1>3 DEF SetStop, Join, SetDone, GoTo
  <2>3. \A e \in Clients \ {d} : slot'[e] = slot[e]
    BY <1>3 DEF SetStop, Join, SetDone, TypeInv, TypeOK, ClientTypeOK
  <2>4. IF c = d THEN pc'[c] \in Destroying ELSE pc'[c] = pc[c]
    BY <2>2 DEF TypeInv, TypeOK, ThreadTypeOK
  <2> QED
    BY <2>1, <2>3, <2>4 DEF Elsewhere
<1>4. CASE \/ Send(d) \/ ParallelSend(d) \/ ParallelFor(d) \/ IsReady(d)
           \/ WaitOrWork(d) \/ WaitForAll(d) \/ DoWork(d)
  <2>1. UNCHANGED <<acc, slot>>
    BY <1>4 DEF Send, ParallelSend, ParallelFor, IsReady, WaitOrWork, WaitForAll, DoWork
  <2>2. pc[d] \in {"ready", "batch", "future"}
    BY <1>4 DEF Send, ParallelSend, ParallelFor, IsReady, WaitOrWork, WaitForAll, DoWork,
       CanCall
  <2>3. pc' = pc \/ \E v : pc' = [pc EXCEPT ![d] = v]
    BY <1>4 DEF Send, ParallelSend, ParallelFor, IsReady, WaitOrWork, WaitForAll, DoWork,
       StartSend, BeginScan, Enter, GoTo
  <2>4. c # d => pc'[c] = pc[c]
    BY <2>3 DEF TypeInv, TypeOK, ThreadTypeOK
  <2> QED
    BY <2>1, <2>2, <2>4 DEF Elsewhere
<1> QED
  BY <1>1, <1>2, <1>3, <1>4 DEF ClientStep, ClientCall

LEMMA NextElsewhere ==
    ASSUME TypeInv, [Next]_vars, NEW c \in Clients
    PROVE  Elsewhere(c) \/ Count(c)
<1>1. CASE UNCHANGED vars
  BY <1>1 DEF vars, Elsewhere
<1> QED
  BY <1>1, RunElsewhere, WorkerElsewhere, ClientElsewhere DEF Next

\* No body has a task to send.
LEMMA NoBodySends ==
    ASSUME Alone, TypeInv, SafeInv, NEW t \in Threads
    PROVE  ~BodySend(t) /\ ~BodySendTo(t)
<1> SUFFICES ASSUME pc[t] = "body", todo[Top(t)] # {} PROVE FALSE
  BY DEF BodySend, BodySendTo
<1>1. stack[t] \in Seq(Tasks) /\ stack[t] # <<>>
  BY DEF TypeInv, TypeOK, TaskTypeOK, ThreadOK
<1>2. Top(t) \in Tasks
  BY <1>1, TakeType DEF Top
<1> QED
  BY <1>2 DEF Alone, SafeInv, FutureInv

\* No thread chooses a queue for a task of its body, as no body has one.
LEMMA NobodySendsTo ==
    ASSUME Alone, TypeInv, SafeInv, CountInv, [Next]_vars
    PROVE  \A t \in Threads : pc'[t] # "sendto"
<1> USE Names
<1>1. \A t \in Threads : ~BodySendTo(t)
  BY NoBodySends
<1>2. pc \in [Threads -> WorkerPcs \cup RunPcs \cup ClientPcs]
      /\ \A t \in Threads : pc[t] # "sendto"
  BY DEF TypeInv, TypeOK, ThreadTypeOK, CountInv
<1>3. CASE UNCHANGED vars
  BY <1>2, <1>3 DEF vars
<1>4. ASSUME NEW t \in Threads, RunStep(t) PROVE \A u \in Threads : pc'[u] # "sendto"
  <2>1. \A st : Resume(t, st) \in {"body", "check"} \cup Calls
    BY ResumeType DEF Threads
  <2>2. AfterMiss(t) \in {"idle", "chk", "chk1", "chk2", "body", "check"} \cup Calls
    BY <2>1 DEF AfterMiss
  <2>3. CASE PopLocal(t) \/ PopPool(t) \/ TrySteal(t)
    <3>1. pc' = pc \/ \E v \in {"body", "idle", "chk", "chk1", "chk2", "check"} \cup Calls :
             pc' = [pc EXCEPT ![t] = v]
      BY <2>2, <2>3 DEF PopLocal, PopPool, TrySteal, StealFrom, Found, GoTo
    <3> QED
      BY <1>2, <3>1
  <2>4. CASE \/ BodySend(t) \/ SendTo(t) \/ Push(t) \/ BodyHelp(t) \/ BodyReturn(t)
             \/ Decrement(t)
    <3>1. \E v \in {"push", "notify", "body", "help", "dec", "check"} \cup Calls :
             pc' = [pc EXCEPT ![t] = v]
      BY <2>1, <2>4 DEF BodySend, SendTo, Push, BodyHelp, BodyReturn, Decrement, StartSend,
         BeginScan, GoTo
    <3> QED
      BY <1>2, <3>1
  <2>5. CASE NotifyOne(t) \/ WakeByAddressSingle(t)
    <3>1. \/ \E v \in {"wake", "body", "check"} \cup Calls : pc' = [pc EXCEPT ![t] = v]
          \/ \E v \in {"body", "check"} \cup Calls, w \in Workers :
                pc' = [pc EXCEPT ![t] = v, ![w] = "wait"]
      BY <2>1, <2>5 DEF NotifyOne, WakeByAddressSingle, WakeOne, Asleep, GoTo
    <3> QED
      BY <1>2, <3>1
  <2> QED
    BY <1>1, <1>4, <2>3, <2>4, <2>5 DEF RunStep
<1>5. ASSUME NEW w \in Workers, WorkerStep(w) \/ SpuriousWake(w)
      PROVE  \A u \in Threads : pc'[u] # "sendto"
  <2>1. \E v \in WorkerPcs : pc' = [pc EXCEPT ![w] = v]
    BY <1>5 DEF WorkerStep, Start, CheckStop, Idle, Wait, PredStop, Block, Capture,
       WaitOnAddress, Exit, SpuriousWake, BeginScan, GoTo, AfterPred
  <2> QED
    BY <1>2, <2>1
<1>6. ASSUME NEW c \in Clients, ClientStep(c) \/ ClientCall(c)
      PROVE  \A u \in Threads : pc'[u] # "sendto"
  <2>1. \/ pc' = pc
        \/ \E v \in {"help", "push"} \cup ClientPcs : pc' = [pc EXCEPT ![c] = v]
        \/ pc' = [t \in Threads |-> IF t = c THEN "join"
                                    ELSE IF t \in Asleep THEN "wait" ELSE pc[t]]
    BY <1>6 DEF ClientStep, ClientCall, Send, ParallelSend, ParallelFor, IsReady, Count,
       SetStop, Join, WaitOrWork, WaitForAll, DoWork, SetDone, NotifyAll,
       WakeByAddressAll, WakeAll, StartSend, BeginScan, Enter, GoTo
  <2> QED
    BY <1>2, <2>1
<1> QED
  BY <1>3, <1>4, <1>5, <1>6 DEF Next

LEMMA CountChanges ==
    ASSUME [Next]_vars, count' # count
    PROVE  \/ \E t \in Threads : BodySend(t) \/ SendTo(t) \/ Decrement(t)
           \/ \E d \in Clients : pc[d] \in {"ready", "batch"}
<1>1. ~(UNCHANGED vars)
  BY DEF vars
<1>2. ASSUME NEW t \in Threads, RunStep(t)
      PROVE  BodySend(t) \/ SendTo(t) \/ Decrement(t)
  BY <1>2 DEF RunStep, PopLocal, PopPool, TrySteal, StealFrom, Found, BodySendTo,
     Push, NotifyOne, WakeByAddressSingle, BodyHelp, BodyReturn
<1>3. ASSUME NEW w \in Workers PROVE ~(WorkerStep(w) \/ SpuriousWake(w))
  BY DEF WorkerStep, Start, CheckStop, Idle, Wait, PredStop, Block, Capture,
     WaitOnAddress, Exit, SpuriousWake
<1>4. ASSUME NEW d \in Clients, ClientStep(d) \/ ClientCall(d)
      PROVE  pc[d] \in {"ready", "batch"}
  BY <1>4 DEF ClientStep, ClientCall, Send, ParallelSend, ParallelFor, IsReady, Count,
     SetStop, Join, WaitOrWork, WaitForAll, DoWork, SetDone, NotifyAll,
     WakeByAddressAll, CanCall
<1> QED
  BY <1>1, <1>2, <1>3, <1>4 DEF Next

\* While the client counts, the counter only goes down.
LEMMA SumsFall ==
    ASSUME Alone, TypeInv, SafeInv, CountInv, [Next]_vars,
           NEW c \in Clients, pc[c] = "sum", NEW n \in 0 .. NThreads + 1
    PROVE  /\ SlotSum(count)[n] \in Int
           /\ SlotSum(count')[n] \in Int
           /\ SlotSum(count')[n] <= SlotSum(count)[n]
<1>1. count \in [Queues -> Int]
  BY DEF TypeInv, TypeOK, SharedTypeOK
<1>2. SlotSum(count)[n] \in Int
  BY <1>1, SlotSumDef
<1>3. CASE count' = count
  BY <1>2, <1>3
<1>4. CASE count' # count
  <2>1. PICK t \in Threads : Decrement(t)
    <3>1. \A t \in Threads : ~BodySend(t) /\ ~SendTo(t)
      BY NoBodySends DEF SendTo, CountInv
    <3>2. \A d \in Clients : pc[d] \notin {"ready", "batch"}
      BY DEF Alone
    <3> QED
      BY <1>4, <3>1, <3>2, CountChanges
  <2>2. Tid(t) \in Queues
    BY TidType
  <2>3. /\ count' \in [Queues -> Int] /\ count'[Tid(t)] = count[Tid(t)] + (-1) /\ -1 \in Int
        /\ \A q \in Queues \ {Tid(t)} : count'[q] = count[q]
    BY <1>1, <2>1, <2>2 DEF Decrement
  <2>4. /\ n > Tid(t) => SlotSum(count')[n] = SlotSum(count)[n] + (-1)
        /\ ~(n > Tid(t)) => SlotSum(count')[n] = SlotSum(count)[n]
    BY <1>1, <2>2, <2>3, SlotSumChange
  <2> QED
    BY <1>2, <2>4
<1> QED
  BY <1>3, <1>4

LEMMA NextCountInv ==
    ASSUME Alone, TypeInv, SafeInv, CountInv, [Next]_vars
    PROVE  CountInv'
<1> USE Names DEF Destroying
<1>1. \A t \in Threads : pc'[t] # "sendto"
  BY NobodySendsTo
<1>2. /\ count \in [Queues -> Int] /\ count' \in [Queues -> Int]
      /\ slot \in [Clients -> Queues] /\ acc \in [Clients -> Int]
      /\ pc \in [Threads -> WorkerPcs \cup RunPcs \cup ClientPcs]
  <2>1. TypeInv'
    BY NextTypeInv
  <2> QED
    BY <2>1 DEF TypeInv, TypeOK, SharedTypeOK, ClientTypeOK, ThreadTypeOK
<1>3. ASSUME NEW c \in Clients
      PROVE  /\ pc'[c] # "sum" => acc'[c] = 0
             /\ pc'[c] \notin Destroying \cup {"sum"} => slot'[c] = 0
             /\ pc'[c] = "sum" => acc'[c] >= SlotSum(count')[slot'[c]]
  <2>1. CASE Count(c)
    <3>1. /\ pc[c] = "sum" /\ count' = count
          /\ acc[c] >= SlotSum(count)[slot[c]]
      BY <2>1 DEF Count, CountInv
    <3>2. CASE slot[c] < NThreads
      <4>1. /\ slot'[c] = slot[c] + 1 /\ acc'[c] = acc[c] + count[slot[c]]
            /\ pc'[c] = "sum"
        BY <1>2, <2>1, <3>1, <3>2 DEF Count
      <4>2. /\ SlotSum(count)[slot[c] + 1] = SlotSum(count)[slot[c]] + count[slot[c]]
            /\ SlotSum(count) \in [0 .. NThreads + 1 -> Int]
        BY <1>2, SlotSumDef
      <4>3. SlotSum(count)[slot[c]] \in Int /\ count[slot[c]] \in Int /\ acc[c] \in Int
        <5>1. slot[c] \in Queues /\ slot[c] \in 0 .. NThreads + 1
          BY <1>2, PoolAssumption DEF Queues
        <5> QED
          BY <1>2, <4>2, <5>1
      <4> QED
        BY <3>1, <4>1, <4>2, <4>3
    <3>3. CASE ~(slot[c] < NThreads)
      <4>1. slot'[c] = 0 /\ acc'[c] = 0 /\ pc'[c] \in {"ready", "help"}
        BY <1>2, <2>1, <3>3 DEF Count, Enter, BeginScan, GoTo
      <4> QED
        BY <4>1
    <3> QED
      BY <3>2, <3>3
  <2>2. CASE Elsewhere(c)
    <3>1. CASE pc[c] = "sum"
      <4>1. /\ pc'[c] = "sum" /\ acc'[c] = acc[c] /\ slot'[c] = slot[c]
            /\ acc[c] >= SlotSum(count)[slot[c]]
        BY <2>2, <3>1 DEF Elsewhere, CountInv
      <4>2. slot[c] \in 0 .. NThreads + 1
        BY <1>2, PoolAssumption DEF Queues
      <4>3. /\ SlotSum(count)[slot[c]] \in Int /\ SlotSum(count')[slot[c]] \in Int
            /\ SlotSum(count')[slot[c]] <= SlotSum(count)[slot[c]]
        BY <3>1, <4>2, SumsFall
      <4>4. acc[c] \in Int
        BY <1>2
      <4> QED
        BY <4>1, <4>3, <4>4
    <3>2. CASE pc[c] # "sum"
      <4>1. acc'[c] = 0
        BY <2>2, <3>2 DEF Elsewhere, CountInv
      <4>2. pc'[c] \notin Destroying => slot'[c] = 0
        BY <2>2, <3>2 DEF Elsewhere, CountInv
      <4>3. SlotSum(count')[0] = 0
        BY <1>2, SlotSumDef
      <4> QED
        BY <4>1, <4>2, <4>3
    <3> QED
      BY <3>1, <3>2
  <2> QED
    BY <2>1, <2>2, NextElsewhere
<1> QED
  BY <1>1, <1>3 DEF CountInv

LEMMA InitCountInv == Init => CountInv
<1> SUFFICES ASSUME Init PROVE CountInv
  OBVIOUS
<1>1. \A t \in Threads : pc[t] \in {"start", "ready"}
  BY DEF Init
<1>2. \A c \in Clients : acc[c] = 0 /\ slot[c] = 0
  BY DEF Init
<1> QED
  BY <1>1, <1>2, Names DEF CountInv

\* The sum that lets wait_for_all_tasks return is at least the number of the
\* outstanding tasks, so there is none.
LEMMA WaitStep ==
    ASSUME Alone, TypeInv, CountInv, CounterBalance, [Next]_vars,
           NEW c \in Clients, pc[c] = "sum", pc'[c] = "ready"
    PROVE  \A x \in sent : executed[x] > 0
<1> USE Names
<1>1. Count(c)
  BY NextElsewhere DEF Elsewhere
<1>2. /\ slot \in [Clients -> Queues] /\ acc \in [Clients -> Int]
      /\ count \in [Queues -> Int]
      /\ pc \in [Threads -> WorkerPcs \cup RunPcs \cup ClientPcs]
  BY DEF TypeInv, TypeOK, SharedTypeOK, ClientTypeOK, ThreadTypeOK
<1>3. ~(slot[c] < NThreads)
  BY <1>1, <1>2 DEF Count
<1>4. slot[c] = NThreads
  BY <1>2, <1>3, PoolAssumption DEF Queues
<1>5. acc[c] + count[NThreads] = 0
  <2>1. acc[c] + count[slot[c]] = 0
    BY <1>1, <1>2, <1>3 DEF Count, Enter, BeginScan, GoTo
  <2> QED
    BY <1>4, <2>1
<1>6. NThreads \in Queues /\ NThreads \in 0 .. NThreads + 1
  BY PoolAssumption DEF Queues
<1>7. /\ SlotSum(count)[NThreads + 1] = SlotSum(count)[NThreads] + count[NThreads]
      /\ SlotSum(count)[NThreads] \in Int
  BY <1>2, <1>6, SlotSumDef
<1>8. acc[c] >= SlotSum(count)[NThreads]
  BY <1>4 DEF CountInv
<1>9. SlotSum(count)[NThreads + 1] <= 0
  BY <1>2, <1>5, <1>6, <1>7, <1>8
<1>10. Cardinality(Outstanding) = 0
  BY <1>9, OutstandingFinite DEF CounterBalance
<1>11. Outstanding = {}
  BY <1>10, OutstandingFinite, FS_EmptySet
<1>12. \A x \in sent : executed[x] \in Nat /\ executed[x] # 0
  BY <1>11 DEF Outstanding, TypeInv, TypeOK, TaskTypeOK
<1> QED
  BY <1>12

\* With one client, and tasks that send none, wait_for_all_tasks returns only
\* when every task sent has run, although count() reads the slots one by one
\* while the workers decrement them.
THEOREM WaitForAllSound ==
    ASSUME Alone PROVE Spec => WaitForAllTasks
<1>1. TypeInv /\ SafeInv /\ CountInv /\ CounterBalance /\ [Next]_vars
         => [\A c \in Clients : pc[c] = "sum" /\ pc'[c] = "ready"
                => \A x \in sent : executed[x] > 0]_vars
  BY WaitStep
<1>2. TypeInv /\ SafeInv /\ CountInv /\ [Next]_vars => CountInv'
  BY NextCountInv
<1> QED
  BY <1>1, <1>2, InitTypeInv, NextTypeInv, InitSafeInv, NextSafeInv, InitBalance,
     NextBalance, InitCountInv, PTL DEF Spec, WaitForAllTasks
=============================================================================
