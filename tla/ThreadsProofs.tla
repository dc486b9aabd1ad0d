--------------------------- MODULE ThreadsProofs ---------------------------
(***************************************************************************)
(* What is proved of the components with threads of their own: the safety  *)
(* of thread_pool, active_object, job_manager, memory_pool and the barrier, *)
(* for any number of threads, tasks, jobs and nodes, and their types.      *)
(***************************************************************************)
EXTENDS ThreadsMC, FiniteSetTheorems, SequenceTheorems, TLAPS

-----------------------------------------------------------------------------
(* thread_pool: the inductive invariant.                                   *)

PoolThreads == Workers \cup Callers

Labels ==
    {"pop", "run", "after", "idle", "check", "sleep", "asleep", "woken", "exit", "leaving", "gone",
     "ready", "notify", "wait_for", "stop", "join", "destroyed"}

Sent(x) == \E c \in Callers : x \in pSent[c]

PoolTypes ==
    /\ pQueue \in SUBSET Tasks
    /\ pPc \in [PoolThreads -> Labels]
    /\ pTask \in [PoolThreads -> Tasks \cup {Nobody}]
    /\ pSent \in [Callers -> SUBSET Tasks]
    /\ pRuns \in [Tasks -> Nat]
    /\ \A t \in PoolThreads : pPc[t] = "run" <=> pTask[t] \in Tasks

\* A task that was sent is in one place.
PlaceInv ==
    \A x \in Tasks :
        /\ x \in pQueue => Sent(x) /\ pRuns[x] = 0 /\ \A t \in PoolThreads : pTask[t] # x
        /\ pRuns[x] # 0 => /\ pRuns[x] = 1 /\ Sent(x) /\ x \notin pQueue
                           /\ \A t \in PoolThreads : pTask[t] # x
        /\ \A t \in PoolThreads : pTask[t] = x =>
              /\ Sent(x) /\ pRuns[x] = 0 /\ x \notin pQueue
              /\ \A u \in PoolThreads : pTask[u] = x => u = t
        /\ Sent(x) => x \in pQueue \/ pRuns[x] = 1 \/ \E t \in PoolThreads : pTask[t] = x

PoolInv == PoolTypes /\ PlaceInv /\ Pool!NoUseAfterDestroy

-----------------------------------------------------------------------------
(* The moves of a task.                                                    *)

\* The step neither moves a task nor ends a run.
LEMMA NoTaskMoves ==
    ASSUME PoolInv, UNCHANGED <<pQueue, pTask, pSent, pRuns>>,
           pPc' \in [PoolThreads -> Labels],
           \A t \in PoolThreads : pPc'[t] = "run" <=> pPc[t] = "run"
    PROVE  PoolTypes' /\ PlaceInv'
  BY DEF PoolInv, PoolTypes, PlaceInv, Sent

\* A thread takes a task from the queue.
Takes(t) ==
    /\ Pool!Pop(t)
    /\ pPc[t] # "run"
    /\ UNCHANGED <<pSent, pRuns>>

LEMMA TaskTaken ==
    ASSUME PoolInv, NEW t \in PoolThreads, Takes(t)
    PROVE  PoolTypes' /\ PlaceInv'
<1>1. PICK x \in pQueue : /\ pQueue' = pQueue \ {x} /\ pTask' = [pTask EXCEPT ![t] = x]
                          /\ pPc' = [pPc EXCEPT ![t] = "run"]
  BY DEF Takes, Pool!Pop, Pool!Goto
<1>2. pPc[t] # "run" /\ UNCHANGED <<pSent, pRuns>>
  BY DEF Takes
<1>3. PoolTypes /\ PlaceInv
  BY DEF PoolInv
<1>4. x \in Tasks /\ pTask[t] \notin Tasks
  BY <1>1, <1>2, <1>3 DEF PoolTypes
<1>5. /\ pTask'[t] = x /\ pPc'[t] = "run"
      /\ \A u \in PoolThreads : u # t => pTask'[u] = pTask[u] /\ pPc'[u] = pPc[u]
  BY <1>1, <1>3 DEF PoolTypes
<1>6. PoolTypes'
  BY <1>1, <1>2, <1>3, <1>4, <1>5 DEF PoolTypes, Labels
<1>7. PlaceInv'
  <2>1. Sent(x) /\ pRuns[x] = 0 /\ \A u \in PoolThreads : pTask[u] # x
    BY <1>1, <1>3, <1>4 DEF PlaceInv
  <2>2. \A y : Sent(y)' <=> Sent(y)
    BY <1>2 DEF Sent
  <2>3. ASSUME NEW y \in Tasks, y # x
        PROVE  /\ y \in pQueue' <=> y \in pQueue
               /\ \A u \in PoolThreads : pTask'[u] = y <=> pTask[u] = y
    BY <1>1, <1>4, <1>5, <2>3
  <2>4. x \notin pQueue' /\ \A u \in PoolThreads : pTask'[u] = x <=> u = t
    BY <1>1, <1>5, <2>1
  <2> QED
    BY <1>2, <1>3, <2>1, <2>2, <2>3, <2>4 DEF PlaceInv, Sent
<1> QED
  BY <1>6, <1>7

\* A thread has run its task.
LEMMA TaskRun ==
    ASSUME PoolInv, NEW t \in PoolThreads, Pool!RunTask(t)
    PROVE  PoolTypes' /\ PlaceInv'
<1> DEFINE x == pTask[t]
           l == IF t \in Workers THEN "after" ELSE "wait_for"
<1>1. /\ pPc[t] = "run" /\ pRuns' = [pRuns EXCEPT ![x] = @ + 1]
      /\ pTask' = [pTask EXCEPT ![t] = Nobody] /\ pPc' = [pPc EXCEPT ![t] = l]
      /\ UNCHANGED <<pQueue, pSent>>
  BY DEF Pool!RunTask, Pool!Run, Pool!Goto
<1>2. PoolTypes /\ PlaceInv
  BY DEF PoolInv
<1>3. x \in Tasks /\ Nobody \notin Tasks
  BY <1>1, <1>2, PoolAssumption DEF PoolTypes
<1>4. l \in Labels /\ l # "run"
  BY DEF Labels
<1> HIDE DEF l
<1>5. /\ pTask'[t] = Nobody /\ pPc'[t] = l
      /\ \A u \in PoolThreads : u # t => pTask'[u] = pTask[u] /\ pPc'[u] = pPc[u]
  BY <1>1, <1>2 DEF PoolTypes
<1>6. /\ Sent(x) /\ pRuns[x] = 0 /\ x \notin pQueue
      /\ \A u \in PoolThreads : pTask[u] = x => u = t
  BY <1>2, <1>3 DEF PlaceInv
<1> HIDE DEF x
<1>7. pRuns'[x] = 1 /\ \A y \in Tasks : y # x => pRuns'[y] = pRuns[y]
  BY <1>1, <1>2, <1>3, <1>6 DEF PoolTypes
<1>8. PoolTypes'
  <2>1. pRuns' \in [Tasks -> Nat]
    BY <1>1, <1>2, <1>3, <1>6 DEF PoolTypes
  <2> QED
    BY <1>1, <1>2, <1>3, <1>4, <1>5, <2>1 DEF PoolTypes
<1>9. PlaceInv'
  <2>1. \A y : Sent(y)' <=> Sent(y)
    BY <1>1 DEF Sent
  <2>2. \A u \in PoolThreads : pTask'[u] # x
    BY <1>3, <1>5, <1>6
  <2>3. ASSUME NEW y \in Tasks, y # x
        PROVE  \A u \in PoolThreads : pTask'[u] = y <=> pTask[u] = y
    <3>1. pTask[t] # y /\ pTask'[t] # y
      BY <1>3, <1>5, <2>3 DEF x
    <3> QED
      BY <1>5, <3>1
  <2> QED
    BY <1>1, <1>2, <1>6, <1>7, <2>1, <2>2, <2>3 DEF PlaceInv, Sent
<1> QED
  BY <1>8, <1>9

\* A caller sends a task: to the queue, or it runs the task itself.
LEMMA TaskSent ==
    ASSUME PoolInv, NEW c \in Callers, NEW x \in Tasks, Pool!Send(c, x)
    PROVE  PoolTypes' /\ PlaceInv'
<1>1. /\ pPc[c] = "ready" /\ (\A d \in Callers : x \notin pSent[d])
      /\ pSent' = [pSent EXCEPT ![c] = @ \cup {x}] /\ UNCHANGED pTask
      /\ \/ /\ pQueue' = pQueue \cup {x} /\ pPc' = [pPc EXCEPT ![c] = "notify"]
            /\ UNCHANGED pRuns
         \/ /\ pRuns' = [pRuns EXCEPT ![x] = @ + 1] /\ UNCHANGED <<pQueue, pPc>>
  BY DEF Pool!Send, Pool!Run, Pool!Goto
<1>2. PoolTypes /\ PlaceInv /\ c \in PoolThreads
  BY DEF PoolInv, PoolThreads
<1>3. /\ x \notin pQueue /\ pRuns[x] = 0 /\ \A t \in PoolThreads : pTask[t] # x
  BY <1>1, <1>2 DEF PlaceInv, Sent, PoolTypes
<1>4. \/ /\ x \in pQueue' /\ pRuns'[x] = 0
      \/ /\ x \notin pQueue' /\ pRuns'[x] = 1
  BY <1>1, <1>2, <1>3 DEF PoolTypes
<1>5. ASSUME NEW y \in Tasks, y # x
      PROVE  (y \in pQueue' <=> y \in pQueue) /\ pRuns'[y] = pRuns[y]
  BY <1>1, <1>2, <1>5 DEF PoolTypes
<1>6. /\ pSent' \in [Callers -> SUBSET Tasks] /\ x \in pSent'[c]
      /\ \A y \in Tasks, d \in Callers : y # x => (y \in pSent'[d] <=> y \in pSent[d])
  BY <1>1, <1>2 DEF PoolTypes
<1>7. /\ pQueue' \in SUBSET Tasks /\ pRuns' \in [Tasks -> Nat] /\ pPc' \in [PoolThreads -> Labels]
      /\ \A t \in PoolThreads : pPc'[t] = "run" <=> pPc[t] = "run"
  BY <1>1, <1>2, <1>3 DEF PoolTypes, Labels
<1>8. PoolTypes'
  BY <1>1, <1>2, <1>6, <1>7 DEF PoolTypes
<1>9. PlaceInv'
  <2>1. \E d \in Callers : x \in pSent'[d]
    BY <1>6
  <2>2. \A y \in Tasks : y # x => ((\E d \in Callers : y \in pSent'[d]) <=> Sent(y))
    BY <1>6 DEF Sent
  <2> QED
    BY <1>1, <1>2, <1>3, <1>4, <1>5, <2>1, <2>2 DEF PlaceInv, Sent
<1> QED
  BY <1>8, <1>9

-----------------------------------------------------------------------------
(* The steps of thread_pool.                                               *)

\* The labels that a step of one thread may leave and reach without a task.
LEMMA Moves ==
    ASSUME PoolInv, NEW t \in PoolThreads, NEW l \in Labels \ {"run"}, pPc[t] # "run",
           Pool!Goto(t, l)
    PROVE  /\ pPc' \in [PoolThreads -> Labels]
           /\ \A u \in PoolThreads : pPc'[u] = "run" <=> pPc[u] = "run"
  BY DEF PoolInv, PoolTypes, Pool!Goto

LEMMA WorkKeepsPlaces ==
    ASSUME PoolInv, NEW w \in Workers, Pool!Work(w)
    PROVE  PoolTypes' /\ PlaceInv'
<1>0. w \in PoolThreads
  BY DEF PoolThreads
<1> USE DEF Labels
<1>1. CASE Pool!TryPop(w)
  <2>1. CASE pQueue # {}
    <3>1. Takes(w)
      BY <1>1, <2>1 DEF Pool!TryPop, Takes
    <3> QED
      BY <1>0, <3>1, TaskTaken
  <2>2. CASE pQueue = {}
    BY <1>0, <1>1, <2>2, Moves, NoTaskMoves DEF Pool!TryPop
  <2> QED
    BY <2>1, <2>2
<1>2. CASE Pool!RunTask(w)
  BY <1>0, <1>2, TaskRun
<1>3. CASE Pool!CheckStop(w)
  <2>1. PICK l \in {"exit", "pop"} : Pool!Goto(w, l)
    BY <1>3 DEF Pool!CheckStop
  <2> QED
    BY <1>0, <1>3, <2>1, Moves, NoTaskMoves DEF Pool!CheckStop
<1>4. CASE Pool!LockWait(w)
  BY <1>0, <1>4, Moves, NoTaskMoves DEF Pool!LockWait, Pool!BeginWait
<1>5. CASE Pool!CheckWait(w)
  <2>1. CASE pQueue # {}
    <3>1. Takes(w)
      BY <1>5, <2>1 DEF Pool!CheckWait, Takes
    <3> QED
      BY <1>0, <3>1, TaskTaken
  <2>2. CASE pQueue = {}
    <3>1. PICK l \in {"exit", "sleep"} : Pool!Goto(w, l)
      BY <1>5, <2>2 DEF Pool!CheckWait
    <3>2. pPc[w] # "run" /\ UNCHANGED <<pQueue, pTask, pSent, pRuns>>
      BY <1>5, <2>2 DEF Pool!CheckWait
    <3> QED
      BY <1>0, <3>1, <3>2, Moves, NoTaskMoves
  <2> QED
    BY <2>1, <2>2
<1>6. CASE Pool!Sleep(w)
  BY <1>0, <1>6, Moves, NoTaskMoves DEF Pool!Sleep
<1>7. CASE Pool!Exit(w)
  BY <1>0, <1>7, Moves, NoTaskMoves DEF Pool!Exit
<1>8. CASE Pool!Leave(w)
  BY <1>0, <1>8, Moves, NoTaskMoves DEF Pool!Leave
<1> QED
  BY <1>1, <1>2, <1>3, <1>4, <1>5, <1>6, <1>7, <1>8 DEF Pool!Work

LEMMA CallKeepsPlaces ==
    ASSUME PoolInv, NEW c \in Callers, Pool!Call(c) \/ Pool!Finish(c)
    PROVE  PoolTypes' /\ PlaceInv'
<1>0. c \in PoolThreads
  BY DEF PoolThreads
<1>1. CASE \E x \in Tasks : Pool!Send(c, x)
  BY <1>1, TaskSent
<1> USE DEF Labels
<1>2. CASE Pool!WaitFor(c)
  BY <1>0, <1>2, Moves, NoTaskMoves DEF Pool!WaitFor
<1>3. CASE Pool!Notify(c)
  <2>1. pPc[c] = "notify" /\ UNCHANGED <<pQueue, pTask, pSent, pRuns>>
    BY <1>3 DEF Pool!Notify
  <2>2. CASE Pool!Goto(c, "ready")
    BY <1>0, <2>1, <2>2, Moves, NoTaskMoves
  <2>3. ASSUME NEW w \in Pool!Asleep, pPc' = [pPc EXCEPT ![c] = "ready", ![w] = "woken"]
        PROVE  PoolTypes' /\ PlaceInv'
    <3>1. w \in PoolThreads /\ pPc[w] = "asleep"
      BY DEF Pool!Asleep, PoolThreads
    <3>2. pPc \in [PoolThreads -> Labels]
      BY DEF PoolInv, PoolTypes
    <3>3. /\ pPc' \in [PoolThreads -> Labels]
          /\ \A t \in PoolThreads : pPc'[t] = "run" <=> pPc[t] = "run"
      BY <1>0, <2>1, <2>3, <3>1, <3>2
    <3> QED
      BY <2>1, <3>3, NoTaskMoves
  <2> QED
    BY <1>3, <2>2, <2>3 DEF Pool!Notify
<1>4. CASE Pool!HelpOrReturn(c)
  <2>1. CASE Pool!Pop(c)
    <3>1. Takes(c)
      BY <1>4, <2>1 DEF Pool!HelpOrReturn, Takes
    <3> QED
      BY <1>0, <3>1, TaskTaken
  <2>2. CASE Pool!Goto(c, "ready") /\ UNCHANGED <<pQueue, pTask>>
    BY <1>0, <1>4, <2>2, Moves, NoTaskMoves DEF Pool!HelpOrReturn
  <2> QED
    BY <1>4, <2>1, <2>2 DEF Pool!HelpOrReturn
<1>5. CASE Pool!RunTask(c)
  BY <1>0, <1>5, TaskRun
<1> QED
  BY <1>1, <1>2, <1>3, <1>4, <1>5 DEF Pool!Call, Pool!Finish

LEMMA DestructorKeepsPlaces ==
    ASSUME PoolInv, Pool!SetDone \/ Pool!Destroy
    PROVE  PoolTypes' /\ PlaceInv'
<1>0. Owner \in PoolThreads /\ Owner \in Callers /\ pPc \in [PoolThreads -> Labels]
  BY PoolAssumption DEF PoolThreads, PoolInv, PoolTypes
<1> USE DEF Labels
<1>1. CASE Pool!SetDone
  BY <1>0, <1>1, Moves, NoTaskMoves DEF Pool!SetDone
<1>2. CASE \E w \in Workers : Pool!SetStop(w)
  BY <1>0, <1>2, NoTaskMoves DEF Pool!SetStop
<1>3. CASE Pool!Drain
  <2>1. pPc[Owner] = "stop" /\ UNCHANGED <<pQueue, pTask, pSent, pRuns>>
    BY <1>3 DEF Pool!Drain
  <2>2. CASE Pool!Goto(Owner, "join")
    BY <1>0, <2>1, <2>2, Moves, NoTaskMoves
  <2>3. CASE pPc' = [t \in Pool!Threads |-> IF t \in Pool!Asleep THEN "woken" ELSE pPc[t]]
    <3>1. /\ pPc' \in [PoolThreads -> Labels]
          /\ \A t \in PoolThreads : pPc'[t] = "run" <=> pPc[t] = "run"
      BY <1>0, <2>3 DEF Pool!Threads, PoolThreads, Pool!Asleep
    <3> QED
      BY <2>1, <3>1, NoTaskMoves
  <2> QED
    BY <1>3, <2>2, <2>3 DEF Pool!Drain
<1>4. CASE Pool!Join
  BY <1>0, <1>4, Moves, NoTaskMoves DEF Pool!Join, Pool!MayJoin
<1> QED
  BY <1>1, <1>2, <1>3, <1>4 DEF Pool!Destroy

\* A worker that is gone stays away, and the destructor ends with a join.
LEMMA GoneStays ==
    ASSUME PoolInv, Pool!Next
    PROVE  Pool!NoUseAfterDestroy'
<1>0. /\ pPc \in [PoolThreads -> Labels] /\ Owner \in Callers /\ Owner \notin Workers
      /\ Workers \subseteq PoolThreads /\ Callers \subseteq PoolThreads
      /\ \A c \in Callers : c \notin Workers
  BY PoolAssumption DEF PoolInv, PoolTypes, PoolThreads
<1> DEFINE Stays == /\ \A w \in Workers : pPc[w] = "gone" => pPc'[w] = "gone"
                    /\ \/ pPc'[Owner] # "destroyed" \/ pPc[Owner] = "destroyed"
                       \/ \A w \in Workers : pPc[w] = "gone"
<1> USE DEF Pool!Goto, Pool!Pop
<1>1. ASSUME NEW w \in Workers, Pool!Work(w) PROVE Stays
  <2>1. pPc[w] # "gone" /\ \A u \in PoolThreads : u # w => pPc'[u] = pPc[u]
    BY <1>0, <1>1 DEF Pool!Work, Pool!TryPop, Pool!RunTask, Pool!CheckStop, Pool!LockWait,
                      Pool!CheckWait, Pool!Sleep, Pool!Exit, Pool!Leave
  <2> QED
    BY <1>0, <2>1
<1>2. ASSUME NEW c \in Callers, Pool!Call(c) \/ Pool!Finish(c) PROVE Stays
  <2>1. pPc'[c] # "destroyed" /\ \A w \in Workers : pPc[w] = "gone" => pPc'[w] = "gone"
    BY <1>0, <1>2 DEF Pool!Call, Pool!Finish, Pool!Send, Pool!WaitFor, Pool!Notify,
                      Pool!HelpOrReturn, Pool!RunTask, Pool!Asleep
  <2>2. \A d \in Callers : d # c => pPc'[d] = pPc[d]
    BY <1>0, <1>2 DEF Pool!Call, Pool!Finish, Pool!Send, Pool!WaitFor, Pool!Notify,
                      Pool!HelpOrReturn, Pool!RunTask, Pool!Asleep
  <2> QED
    BY <1>0, <2>1, <2>2
<1>3. ASSUME Pool!SetDone PROVE Stays
  <2>1. pPc' = [pPc EXCEPT ![Owner] = "stop"]
    BY <1>3 DEF Pool!SetDone
  <2> QED
    BY <1>0, <2>1
<1>4. ASSUME Pool!Destroy PROVE Stays
  <2>1. CASE \E w \in Workers : Pool!SetStop(w)
    BY <2>1 DEF Pool!SetStop
  <2>2. CASE Pool!Drain
    <3>1. CASE pPc' = [pPc EXCEPT ![Owner] = "join"]
      BY <1>0, <3>1
    <3>2. CASE pPc' = [t \in Pool!Threads |-> IF t \in Pool!Asleep THEN "woken" ELSE pPc[t]]
      BY <1>0, <3>2 DEF Pool!Asleep, Pool!Threads, PoolThreads
    <3> QED
      BY <2>2, <3>1, <3>2 DEF Pool!Drain
  <2>3. CASE Pool!Join
    <3>1. pPc' = [pPc EXCEPT ![Owner] = "destroyed"] /\ \A w \in Workers : pPc[w] = "gone"
      BY <2>3 DEF Pool!Join, Pool!MayJoin
    <3> QED
      BY <1>0, <3>1
  <2> QED
    BY <1>4, <2>1, <2>2, <2>3 DEF Pool!Destroy
<1>5. Stays
  <2> HIDE DEF Stays
  <2> QED
    BY <1>1, <1>2, <1>3, <1>4 DEF Pool!Next
<1> QED
  BY <1>5 DEF PoolInv, Pool!NoUseAfterDestroy

LEMMA PoolNext == PoolInv /\ [Next]_vars => PoolInv'
<1> SUFFICES ASSUME PoolInv, [Next]_vars PROVE PoolInv'
  OBVIOUS
<1>1. CASE Pool!Next
  <2>1. PoolTypes' /\ PlaceInv'
    BY <1>1, WorkKeepsPlaces, CallKeepsPlaces, DestructorKeepsPlaces DEF Pool!Next
  <2> QED
    BY <1>1, <2>1, GoneStays DEF PoolInv
<1>2. CASE UNCHANGED poolVars
  BY <1>2 DEF poolVars, PoolInv, PoolTypes, PlaceInv, Sent, Pool!NoUseAfterDestroy
<1>3. Pool!Next \/ UNCHANGED poolVars
  BY DEF Next, Of, Others, vars
<1> QED
  BY <1>1, <1>2, <1>3

LEMMA PoolInit == Init => PoolInv
<1> SUFFICES ASSUME Init PROVE PoolInv
  OBVIOUS
<1>1. PoolTypes
  BY PoolAssumption DEF Init, Pool!Init, Pool!Threads, PoolTypes, PoolThreads, Labels
<1>2. PlaceInv
  BY PoolAssumption DEF Init, Pool!Init, Pool!Threads, PlaceInv, PoolThreads, Sent
<1>3. Pool!NoUseAfterDestroy
  BY PoolAssumption DEF Init, Pool!Init, Pool!Threads, Pool!NoUseAfterDestroy
<1> QED
  BY <1>1, <1>2, <1>3 DEF PoolInv

LEMMA PoolConserved == Spec => [](Pool!PoolConserves /\ Pool!NoUseAfterDestroy)
<1>1. ASSUME PoolInv PROVE Pool!PoolConserves /\ Pool!NoUseAfterDestroy
  <2>1. ASSUME NEW x \in Tasks
        PROVE  Cardinality({t \in Pool!Threads : pTask[t] = x}) + pRuns[x]
                 + (IF x \in pQueue THEN 1 ELSE 0)
               = IF \E c \in Callers : x \in pSent[c] THEN 1 ELSE 0
    <3> DEFINE H == {t \in Pool!Threads : pTask[t] = x}
    <3>1. PlaceInv
      BY <1>1 DEF PoolInv
    <3>2. CASE \E t \in PoolThreads : pTask[t] = x
      <4>1. PICK t \in PoolThreads : pTask[t] = x
        BY <3>2
      <4>2. H = {t} /\ Sent(x) /\ pRuns[x] = 0 /\ x \notin pQueue
        BY <3>1, <4>1 DEF PlaceInv, Pool!Threads, PoolThreads
      <4>3. Cardinality({t}) = 1
        BY FS_Singleton
      <4> QED
        BY <4>2, <4>3 DEF Sent
    <3>3. CASE ~\E t \in PoolThreads : pTask[t] = x
      <4>1. H = {} /\ Cardinality({}) = 0
        BY <3>3, FS_EmptySet DEF Pool!Threads, PoolThreads
      <4>2. CASE Sent(x)
        <5>1. \/ x \in pQueue /\ pRuns[x] = 0
              \/ x \notin pQueue /\ pRuns[x] = 1
          BY <3>1, <3>3, <4>2 DEF PlaceInv
        <5> QED
          BY <4>1, <4>2, <5>1 DEF Sent
      <4>3. CASE ~Sent(x)
        <5>1. x \notin pQueue /\ pRuns[x] = 0
          BY <3>1, <4>3 DEF PlaceInv
        <5> QED
          BY <4>1, <4>3, <5>1 DEF Sent
      <4> QED
        BY <4>2, <4>3
    <3> QED
      BY <3>2, <3>3
  <2>2. Pool!PoolConserves
    BY <2>1 DEF Pool!PoolConserves, Pool!Cardinality, Cardinality
  <2> QED
    BY <1>1, <2>2 DEF PoolInv
<1> QED
  BY <1>1, PoolInit, PoolNext, PTL DEF Spec

\* wait_for returns only after every task of its caller has been run to its end,
\* by whomever.
LEMMA WaitForIsRight == Spec => Pool!WaitForCovers
<1> DEFINE Covers == \A c \in Callers : pPc[c] = "wait_for" /\ pPc'[c] = "ready" =>
                       \A x \in pSent[c] : pRuns[x] = 1
<1>1. ASSUME PoolInv, Pool!Next PROVE Covers
  <2> SUFFICES ASSUME NEW c \in Callers, pPc[c] = "wait_for", pPc'[c] = "ready",
                      NEW x \in pSent[c]
               PROVE  pRuns[x] = 1
    OBVIOUS
  <2>0. /\ pPc \in [PoolThreads -> Labels] /\ c \in PoolThreads /\ c \notin Workers
        /\ Owner \in PoolThreads /\ x \in Tasks /\ pRuns \in [Tasks -> Nat]
    BY <1>1, PoolAssumption DEF PoolInv, PoolTypes, PoolThreads
  <2>1. Pool!HelpOrReturn(c)
    <3> USE DEF Pool!Goto, Pool!Pop
    <3>1. ASSUME NEW w \in Workers, Pool!Work(w) PROVE pPc'[c] = pPc[c]
      BY <2>0, <3>1 DEF Pool!Work, Pool!TryPop, Pool!RunTask, Pool!CheckStop, Pool!LockWait,
                        Pool!CheckWait, Pool!Sleep, Pool!Exit, Pool!Leave
    <3>2. ASSUME NEW d \in Callers, Pool!Call(d) \/ Pool!Finish(d), d # c
          PROVE  pPc'[c] = pPc[c]
      BY <2>0, <3>2 DEF Pool!Call, Pool!Finish, Pool!Send, Pool!WaitFor, Pool!Notify,
                        Pool!HelpOrReturn, Pool!RunTask, Pool!Asleep
    <3>3. ASSUME Pool!SetDone PROVE FALSE
      BY <3>3 DEF Pool!SetDone
    <3>4. ASSUME Pool!Destroy PROVE pPc'[c] = pPc[c] \/ pPc'[c] # "ready"
      BY <2>0, <3>4 DEF Pool!Destroy, Pool!SetStop, Pool!Drain, Pool!Join, Pool!MayJoin,
                        Pool!Asleep, Pool!Threads, PoolThreads
    <3>5. Pool!Call(c) \/ Pool!Finish(c)
      BY <1>1, <3>1, <3>2, <3>3, <3>4 DEF Pool!Next
    <3> QED
      BY <3>5 DEF Pool!Call, Pool!Finish, Pool!Send, Pool!WaitFor, Pool!Notify, Pool!RunTask
  <2>2. ~Pool!Pop(c)
    BY <2>0 DEF Pool!Pop, Pool!Goto
  <2>3. pRuns[x] > 0
    BY <2>1, <2>2 DEF Pool!HelpOrReturn, Pool!Consumed
  <2> QED
    BY <1>1, <2>0, <2>3 DEF PoolInv, PlaceInv
<1>2. PoolInv /\ [Next]_vars => [Covers]_(Pool!vars)
  <2>1. Next => Pool!Next \/ UNCHANGED poolVars
    BY DEF Next, Of, Others
  <2>2. UNCHANGED vars => UNCHANGED poolVars
    BY DEF vars
  <2>3. UNCHANGED poolVars => UNCHANGED Pool!vars
    BY DEF poolVars, Pool!vars
  <2> HIDE DEF Covers
  <2> QED
    BY <1>1, <2>1, <2>2, <2>3
<1> QED
  BY <1>2, PoolInit, PoolNext, PTL DEF Spec, Pool!WaitForCovers

\* thread_pool loses no task, runs none twice and is used by no worker after its
\* destructor, and wait_for covers the tasks of its caller, for any number of
\* workers, callers and tasks and any queue.
THEOREM PoolIsSafe == Spec => PoolSafe
  BY PoolConserved, WaitForIsRight, PTL DEF PoolSafe

-----------------------------------------------------------------------------
(* barrier: the inductive invariant.                                       *)

\* The parties that have entered the current cycle.
Arrived == {t \in Parties : bEntered[t] = bCycle + 1}

BarrierInv ==
    /\ bCurrent \in Nat /\ bCycle \in Nat
    /\ bPc \in [Parties -> {"out", "asleep", "notify", "woken"}]
    /\ bMine \in [Parties -> Nat] /\ bEntered \in [Parties -> 0 .. Rounds]
    /\ bLeft \in [Parties -> Nat]
    \* A cycle is not closed before all have entered it.
    /\ bCurrent + Cardinality(Arrived) = Cardinality(Parties) /\ bCurrent >= 1
    /\ \A t \in Parties :
          /\ bEntered[t] \in {bCycle, bCycle + 1}
          /\ bPc[t] \in {"out", "notify"} => bEntered[t] = bCycle
          /\ bPc[t] = "out" => bLeft[t] = bEntered[t]
          /\ bPc[t] # "out" => bLeft[t] + 1 = bEntered[t] /\ bMine[t] = bLeft[t]

LEMMA PartiesFinite ==
    /\ IsFiniteSet(Parties) /\ Cardinality(Parties) \in Nat /\ Cardinality(Parties) >= 1
<1>1. IsFiniteSet(Parties) /\ Parties # {}
  BY BarrierAssumption
<1>2. Cardinality(Parties) \in Nat /\ Cardinality(Parties) # 0
  BY <1>1, FS_CardinalityType, FS_EmptySet
<1> QED
  BY <1>1, <1>2

LEMMA BarrierInit == Init => BarrierInv
<1> SUFFICES ASSUME Init PROVE BarrierInv
  OBVIOUS
<1>1. /\ bCurrent = TheBarrier!Cardinality(Parties) /\ bCycle = 0
      /\ bPc = [t \in Parties |-> "out"] /\ bMine = [t \in Parties |-> 0]
      /\ bEntered = [t \in Parties |-> 0] /\ bLeft = [t \in Parties |-> 0]
  BY DEF Init, TheBarrier!Init
<1>2. bCurrent = Cardinality(Parties)
  BY <1>1 DEF TheBarrier!Cardinality, Cardinality
<1>3. Arrived = {}
  BY <1>1 DEF Arrived
<1>4. Cardinality(Arrived) = 0
  BY <1>3, FS_EmptySet
<1> QED
  BY <1>1, <1>2, <1>4, PartiesFinite, BarrierAssumption DEF BarrierInv

LEMMA ArrivedFinite == IsFiniteSet(Arrived) /\ Cardinality(Arrived) \in Nat
<1>1. Arrived \in SUBSET Parties
  BY DEF Arrived
<1>2. IsFiniteSet(Arrived)
  BY <1>1, PartiesFinite, FS_Subset
<1> QED
  BY <1>2, FS_CardinalityType

\* A party enters: the last one finds all others in the current cycle.
LEMMA WaitStep ==
    ASSUME BarrierInv, NEW t \in Parties, TheBarrier!Wait(t)
    PROVE  BarrierInv'
<1>1. /\ bPc[t] = "out" /\ bEntered[t] < Rounds
      /\ bEntered' = [bEntered EXCEPT ![t] = @ + 1] /\ bMine' = [bMine EXCEPT ![t] = bCycle]
      /\ UNCHANGED bLeft
  BY DEF TheBarrier!Wait
<1>2. /\ bCurrent \in Nat /\ bCycle \in Nat /\ Rounds \in Nat
      /\ bPc \in [Parties -> {"out", "asleep", "notify", "woken"}]
      /\ bMine \in [Parties -> Nat] /\ bEntered \in [Parties -> 0 .. Rounds]
      /\ bLeft \in [Parties -> Nat]
      /\ bCurrent + Cardinality(Arrived) = Cardinality(Parties) /\ bCurrent >= 1
  BY BarrierAssumption DEF BarrierInv
<1>3. \A u \in Parties :
          /\ bEntered[u] \in {bCycle, bCycle + 1}
          /\ bPc[u] \in {"out", "notify"} => bEntered[u] = bCycle
          /\ bPc[u] = "out" => bLeft[u] = bEntered[u]
          /\ bPc[u] # "out" => bLeft[u] + 1 = bEntered[u] /\ bMine[u] = bLeft[u]
  BY DEF BarrierInv
<1>4. /\ bEntered[t] = bCycle /\ bLeft[t] = bCycle /\ bEntered'[t] = bCycle + 1
      /\ bMine'[t] = bCycle
      /\ \A u \in Parties : u # t => bEntered'[u] = bEntered[u] /\ bMine'[u] = bMine[u]
      /\ bEntered' \in [Parties -> 0 .. Rounds] /\ bMine' \in [Parties -> Nat]
  BY <1>1, <1>2, <1>3
<1>5. t \notin Arrived
  BY <1>2, <1>4 DEF Arrived
<1>6. /\ IsFiniteSet(Arrived \cup {t})
      /\ Cardinality(Arrived \cup {t}) = Cardinality(Arrived) + 1
  BY <1>5, ArrivedFinite, FS_AddElement
<1>7. CASE bCurrent = 1
  <2>1. /\ bCycle' = bCycle + 1 /\ bCurrent' = TheBarrier!Cardinality(Parties)
        /\ bPc' = [bPc EXCEPT ![t] = "notify"]
    BY <1>7 DEF TheBarrier!Wait, TheBarrier!NextCycle, TheBarrier!Reset
  <2>2. bCurrent' = Cardinality(Parties)
    BY <2>1 DEF TheBarrier!Cardinality, Cardinality
  <2>3. Arrived \cup {t} = Parties
    <3>1. Arrived \cup {t} \in SUBSET Parties
      BY DEF Arrived
    <3>2. Cardinality(Arrived \cup {t}) = Cardinality(Parties)
      BY <1>2, <1>6, <1>7, ArrivedFinite, PartiesFinite
    <3> QED
      BY <3>1, <3>2, PartiesFinite, FS_Subset
  <2>4. \A u \in Parties : bEntered'[u] = bCycle + 1
    BY <1>4, <2>3 DEF Arrived
  <2>5. Cardinality(Arrived') = 0
    <3>1. Arrived' = {}
      BY <1>2, <2>1, <2>4 DEF Arrived
    <3> QED
      BY <3>1, FS_EmptySet
  <2>6. /\ bPc' \in [Parties -> {"out", "asleep", "notify", "woken"}] /\ bPc'[t] = "notify"
        /\ \A u \in Parties : u # t => bPc'[u] = bPc[u]
    BY <1>2, <2>1
  <2>7. ASSUME NEW u \in Parties, u # t PROVE bPc[u] # "out" /\ bPc[u] # "notify"
    BY <1>2, <1>3, <2>3, <2>7 DEF Arrived
  <2>8. ASSUME NEW u \in Parties
        PROVE  /\ bEntered'[u] \in {bCycle', bCycle' + 1}
               /\ bPc'[u] \in {"out", "notify"} => bEntered'[u] = bCycle'
               /\ bPc'[u] = "out" => bLeft'[u] = bEntered'[u]
               /\ bPc'[u] # "out" => bLeft'[u] + 1 = bEntered'[u] /\ bMine'[u] = bLeft'[u]
    <3>1. CASE u = t
      BY <1>1, <1>2, <1>4, <2>1, <2>6, <3>1
    <3>2. CASE u # t
      BY <1>1, <1>2, <1>3, <1>4, <2>1, <2>4, <2>6, <2>7, <3>2
    <3> QED
      BY <3>1, <3>2
  <2> QED
    BY <1>1, <1>2, <1>4, <2>1, <2>2, <2>5, <2>6, <2>8, PartiesFinite DEF BarrierInv
<1>8. CASE bCurrent # 1
  <2>1. /\ bCycle' = bCycle /\ bCurrent' = bCurrent - 1
        /\ bPc' = [bPc EXCEPT ![t] = "asleep"]
    BY <1>8 DEF TheBarrier!Wait
  <2>2. Arrived' = Arrived \cup {t}
    BY <1>4, <2>1 DEF Arrived
  <2>3. bCurrent' + Cardinality(Arrived') = Cardinality(Parties) /\ bCurrent' >= 1 /\ bCurrent' \in Nat
    BY <1>2, <1>6, <1>8, <2>1, <2>2, ArrivedFinite, PartiesFinite
  <2>4. /\ bPc' \in [Parties -> {"out", "asleep", "notify", "woken"}] /\ bPc'[t] = "asleep"
        /\ \A u \in Parties : u # t => bPc'[u] = bPc[u]
    BY <1>2, <2>1
  <2>5. ASSUME NEW u \in Parties
        PROVE  /\ bEntered'[u] \in {bCycle', bCycle' + 1}
               /\ bPc'[u] \in {"out", "notify"} => bEntered'[u] = bCycle'
               /\ bPc'[u] = "out" => bLeft'[u] = bEntered'[u]
               /\ bPc'[u] # "out" => bLeft'[u] + 1 = bEntered'[u] /\ bMine'[u] = bLeft'[u]
    <3>1. CASE u = t
      BY <1>1, <1>2, <1>4, <2>1, <2>4, <3>1
    <3>2. CASE u # t
      BY <1>1, <1>3, <1>4, <2>1, <2>4, <3>2
    <3> QED
      BY <3>1, <3>2
  <2> QED
    BY <1>1, <1>2, <1>4, <2>1, <2>3, <2>4, <2>5 DEF BarrierInv
<1> QED
  BY <1>7, <1>8

\* A party goes from one label to another, or returns.
LEMMA PassStep ==
    ASSUME BarrierInv, NEW t \in Parties,
           TheBarrier!Notify(t) \/ TheBarrier!Recheck(t) \/ TheBarrier!SpuriousWake(t)
    PROVE  BarrierInv'
<1>1. /\ bCurrent \in Nat /\ bCycle \in Nat
      /\ bPc \in [Parties -> {"out", "asleep", "notify", "woken"}]
      /\ bMine \in [Parties -> Nat] /\ bEntered \in [Parties -> 0 .. Rounds]
      /\ bLeft \in [Parties -> Nat]
      /\ bCurrent + Cardinality(Arrived) = Cardinality(Parties) /\ bCurrent >= 1
  BY DEF BarrierInv
<1>2. \A u \in Parties :
          /\ bEntered[u] \in {bCycle, bCycle + 1}
          /\ bPc[u] \in {"out", "notify"} => bEntered[u] = bCycle
          /\ bPc[u] = "out" => bLeft[u] = bEntered[u]
          /\ bPc[u] # "out" => bLeft[u] + 1 = bEntered[u] /\ bMine[u] = bLeft[u]
  BY DEF BarrierInv
<1>3. UNCHANGED <<bCurrent, bCycle, bMine, bEntered>>
  BY DEF TheBarrier!Notify, TheBarrier!Recheck, TheBarrier!SpuriousWake
<1>4. Arrived' = Arrived
  BY <1>3 DEF Arrived
\* Either t returns from a wait whose cycle is over, or nobody returns.
<1>5. /\ bPc' \in [Parties -> {"out", "asleep", "notify", "woken"}]
      /\ bLeft' \in [Parties -> Nat]
      /\ \A u \in Parties : u # t \/ bLeft'[t] = bLeft[t] =>
            /\ bPc'[u] = bPc[u] \/ (bPc[u] \in {"asleep", "woken"} /\ bPc'[u] \in {"asleep", "woken"})
            /\ bLeft'[u] = bLeft[u]
      /\ bLeft'[t] # bLeft[t] =>
            /\ bLeft'[t] = bLeft[t] + 1 /\ bPc'[t] = "out" /\ bPc[t] # "out"
            /\ bPc[t] = "notify" \/ bMine[t] # bCycle
  <2>1. CASE TheBarrier!Notify(t)
    BY <1>1, <2>1 DEF TheBarrier!Notify, TheBarrier!Return
  <2>2. CASE TheBarrier!Recheck(t)
    <3>1. CASE bMine[t] # bCycle
      <4>1. /\ bPc[t] = "woken" /\ bPc' = [bPc EXCEPT ![t] = "out"]
            /\ bLeft' = [bLeft EXCEPT ![t] = @ + 1]
        BY <2>2, <3>1 DEF TheBarrier!Recheck, TheBarrier!Return, TheBarrier!Passed
      <4> QED
        BY <1>1, <3>1, <4>1
    <3>2. CASE bMine[t] = bCycle
      <4>1. /\ bPc[t] = "woken" /\ bPc' = [bPc EXCEPT ![t] = "asleep"] /\ bLeft' = bLeft
        BY <2>2, <3>2 DEF TheBarrier!Recheck, TheBarrier!Passed
      <4> QED
        BY <1>1, <4>1
    <3> QED
      BY <3>1, <3>2
  <2>3. CASE TheBarrier!SpuriousWake(t)
    BY <1>1, <2>3 DEF TheBarrier!SpuriousWake
  <2> QED
    BY <2>1, <2>2, <2>3
<1>6. ASSUME NEW u \in Parties
      PROVE  /\ bEntered[u] \in {bCycle, bCycle + 1}
             /\ bPc'[u] \in {"out", "notify"} => bEntered[u] = bCycle
             /\ bPc'[u] = "out" => bLeft'[u] = bEntered[u]
             /\ bPc'[u] # "out" => bLeft'[u] + 1 = bEntered[u] /\ bMine[u] = bLeft'[u]
  <2>1. CASE u # t \/ bLeft'[t] = bLeft[t]
    BY <1>2, <1>5, <2>1
  <2>2. CASE u = t /\ bLeft'[t] # bLeft[t]
    <3>1. bEntered[t] = bCycle
      BY <1>1, <1>2, <1>5, <2>2
    <3> QED
      BY <1>1, <1>2, <1>5, <2>2, <3>1
  <2> QED
    BY <2>1, <2>2
<1> QED
  BY <1>1, <1>3, <1>4, <1>5, <1>6 DEF BarrierInv

LEMMA BarrierNext == BarrierInv /\ [Next]_vars => BarrierInv'
<1> SUFFICES ASSUME BarrierInv, [Next]_vars PROVE BarrierInv'
  OBVIOUS
<1>1. CASE TheBarrier!Next
  BY <1>1, WaitStep, PassStep DEF TheBarrier!Next, TheBarrier!Go
<1>2. CASE UNCHANGED barrierVars
  BY <1>2 DEF barrierVars, BarrierInv, Arrived
<1>3. TheBarrier!Next \/ UNCHANGED barrierVars
  BY DEF Next, Of, Others, vars
<1> QED
  BY <1>1, <1>2, <1>3

\* Nobody leaves its n-th wait at a barrier before everybody has entered its
\* n-th, for any number of parties and of cycles.
THEOREM BarrierHolds == Spec => []BarrierSafe
<1>1. BarrierInv => BarrierSafe
  <2> SUFFICES ASSUME BarrierInv, NEW t \in Parties, NEW u \in Parties
               PROVE  bLeft[t] <= bEntered[u]
    BY DEF BarrierSafe, TheBarrier!NobodyLeavesEarly
  <2>1. bCycle \in Nat /\ bLeft[t] \in Nat /\ bEntered[u] \in {bCycle, bCycle + 1}
    BY DEF BarrierInv
  <2>2. bLeft[t] <= bCycle
    BY <2>1 DEF BarrierInv
  <2> QED
    BY <2>1, <2>2
<1> QED
  BY <1>1, BarrierInit, BarrierNext, PTL DEF Spec

-----------------------------------------------------------------------------
(* memory_pool: the inductive invariant.                                   *)

MemoryLabels ==
    {"ready", "dequeue", "expand", "size", "grow", "count", "store", "notify_all", "lock",
     "check", "sleep", "asleep", "notify_one"}

\* The thread that m_isExpanding speaks of.
Expanding(t) == mPc[t] \in {"size", "grow", "count", "store"}

GrowthIsSize == \A n \in Nat : Growth(n) \in Nat

MemoryInv ==
    /\ mPc \in [Parties -> MemoryLabels]
    /\ Memory!TypeOK
    /\ \A n \in 1 .. mNodes : n \in mFree <=> mHolder[n] = Nobody
    /\ \A t \in Parties : Expanding(t) => mIsExpanding
    /\ \A t, u \in Parties : Expanding(t) /\ Expanding(u) => t = u
    \* Until the new block is counted, the total is short of it.
    /\ \A t \in Parties : mPc[t] = "count" => mNodes = mTotal + mLastBlock
    /\ Memory!ElementsCounted

\* A step that neither moves a node nor changes the blocks.
LEMMA NoNodeMoves ==
    ASSUME MemoryInv, UNCHANGED <<mFree, mLastBlock, mTotal, mNodes, mHolder>>,
           mIsExpanding' \in BOOLEAN, mMutex' \in Parties \cup {Nobody}, mCalls' \in Nat,
           mPc' \in [Parties -> MemoryLabels],
           \A t \in Parties : mPc'[t] = "count" <=> mPc[t] = "count",
           \A t \in Parties : Expanding(t)' => mIsExpanding',
           \A t, u \in Parties : Expanding(t)' /\ Expanding(u)' => t = u
    PROVE  MemoryInv'
  BY DEF MemoryInv, Memory!TypeOK, Memory!ElementsCounted

LEMMA AllocateStep ==
    ASSUME MemoryInv, NEW t \in Parties, Memory!Allocate(t) \/ Memory!Expand(t) \/ Memory!NotifyOne(t),
           ~Memory!Grow(t), ~Memory!CountElements(t)
    PROVE  MemoryInv'
<1> USE DEF Memory!Goto, MemoryLabels, Expanding
<1>0. /\ mPc \in [Parties -> MemoryLabels] /\ mIsExpanding \in BOOLEAN /\ mCalls \in Nat
      /\ mMutex \in Parties \cup {Nobody}
      /\ \A u \in Parties : Expanding(u) => mIsExpanding
      /\ \A u, v \in Parties : Expanding(u) /\ Expanding(v) => u = v
  BY DEF MemoryInv, Memory!TypeOK
<1>1. CASE Memory!Allocate(t)
  BY <1>0, <1>1, NoNodeMoves DEF Memory!Allocate
<1>2. CASE Memory!ExchangeExpanding(t)
  BY <1>0, <1>2, NoNodeMoves DEF Memory!ExchangeExpanding, Memory!MayExpand
<1>3. CASE Memory!CheckSize(t) \/ Memory!StoreExpanding(t)
  BY <1>0, <1>3, NoNodeMoves DEF Memory!CheckSize, Memory!StoreExpanding
<1>4. CASE Memory!NotifyAll(t)
  BY <1>0, <1>4, NoNodeMoves DEF Memory!NotifyAll, Memory!Woken, Memory!Sleepers
<1>5. CASE Memory!Lock(t) \/ Memory!CheckDone(t) \/ Memory!Sleep(t)
  BY <1>0, <1>5, NoNodeMoves DEF Memory!Lock, Memory!CheckDone, Memory!Sleep
<1>6. CASE Memory!NotifyOne(t)
  BY <1>0, <1>6, NoNodeMoves DEF Memory!NotifyOne, Memory!Sleepers
<1> QED
  BY <1>1, <1>2, <1>3, <1>4, <1>5, <1>6 DEF Memory!Expand

LEMMA NodeMoves ==
    ASSUME MemoryInv, NEW t \in Parties, Memory!TryDequeue(t) \/ Memory!GiveBack(t)
    PROVE  MemoryInv'
<1> USE DEF Memory!Goto, MemoryLabels, Expanding
<1>0. /\ mPc \in [Parties -> MemoryLabels] /\ mNodes \in Nat /\ mFree \subseteq 1 .. mNodes
      /\ mHolder \in [1 .. mNodes -> Parties \cup {Nobody}] /\ Nobody \notin Parties
  BY PoolAssumption DEF MemoryInv, Memory!TypeOK
<1>1. /\ UNCHANGED <<mLastBlock, mTotal, mNodes, mIsExpanding, mMutex>> /\ mCalls' \in Nat
      /\ mPc' \in [Parties -> MemoryLabels]
      /\ \A u \in Parties : /\ mPc'[u] = "count" <=> mPc[u] = "count"
                            /\ Expanding(u)' => Expanding(u)
  BY <1>0 DEF Memory!TryDequeue, Memory!GiveBack, Memory!Deallocate, MemoryInv, Memory!TypeOK
<1>2. /\ mFree' \subseteq 1 .. mNodes /\ mHolder' \in [1 .. mNodes -> Parties \cup {Nobody}]
      /\ \A n \in 1 .. mNodes : n \in mFree' <=> mHolder'[n] = Nobody
  <2>1. \A n \in 1 .. mNodes : n \in mFree <=> mHolder[n] = Nobody
    BY DEF MemoryInv
  <2>2. CASE Memory!TryDequeue(t)
    <3>1. CASE UNCHANGED <<mFree, mHolder>>
      BY <1>0, <2>1, <3>1
    <3>2. CASE \E n \in mFree : mFree' = mFree \ {n} /\ mHolder' = [mHolder EXCEPT ![n] = t]
      <4>1. PICK n \in mFree : mFree' = mFree \ {n} /\ mHolder' = [mHolder EXCEPT ![n] = t]
        BY <3>2
      <4>2. n \in 1 .. mNodes /\ t # Nobody
        BY <1>0
      <4>3. mHolder' \in [1 .. mNodes -> Parties \cup {Nobody}] /\ mFree' \subseteq 1 .. mNodes
        BY <1>0, <4>1, <4>2
      <4>4. \A k \in 1 .. mNodes : mHolder'[k] = IF k = n THEN t ELSE mHolder[k]
        BY <1>0, <4>1, <4>2
      <4> QED
        BY <2>1, <4>1, <4>2, <4>3, <4>4
    <3> QED
      BY <2>2, <3>1, <3>2 DEF Memory!TryDequeue
  <2>3. CASE Memory!GiveBack(t)
    BY <1>0, <2>1, <2>3 DEF Memory!GiveBack, Memory!Deallocate
  <2> QED
    BY <2>2, <2>3
<1> QED
  BY <1>1, <1>2 DEF MemoryInv, Memory!TypeOK, Memory!ElementsCounted

LEMMA GrowStep ==
    ASSUME MemoryInv, GrowthIsSize, NEW t \in Parties, Memory!Grow(t) \/ Memory!CountElements(t)
    PROVE  MemoryInv'
<1> USE DEF Memory!Goto, MemoryLabels, Expanding
<1>0. /\ mPc \in [Parties -> MemoryLabels] /\ mNodes \in Nat /\ mFree \subseteq 1 .. mNodes
      /\ mHolder \in [1 .. mNodes -> Parties \cup {Nobody}] /\ Nobody \notin Parties
      /\ mLastBlock \in Nat /\ mTotal \in Nat /\ Growth(mLastBlock) \in Nat
      /\ \A n \in 1 .. mNodes : n \in mFree <=> mHolder[n] = Nobody
  BY PoolAssumption DEF MemoryInv, Memory!TypeOK, GrowthIsSize
<1>1. /\ mPc' \in [Parties -> MemoryLabels] /\ \A u \in Parties : Expanding(u)' <=> Expanding(u)
      /\ Expanding(t) /\ UNCHANGED <<mIsExpanding, mMutex, mCalls>>
  BY <1>0 DEF Memory!Grow, Memory!CountElements
<1>2. \A u \in Parties \ {t} : ~Expanding(u) /\ mPc'[u] = mPc[u]
  BY <1>0, <1>1 DEF MemoryInv, Memory!Grow, Memory!CountElements
<1>3. CASE Memory!Grow(t)
  <2>1. /\ mNodes' = mNodes + Growth(mLastBlock) /\ mLastBlock' = Growth(mLastBlock)
        /\ mTotal' = mTotal /\ mPc'[t] = "count"
        /\ mFree' = mFree \cup (mNodes + 1 .. mNodes + Growth(mLastBlock))
        /\ mHolder' = [n \in 1 .. mNodes' |-> IF n <= mNodes THEN mHolder[n] ELSE Nobody]
    BY <1>0, <1>3 DEF Memory!Grow, Memory!NewBlock
  <2>2. mTotal = mNodes
    BY <1>0, <1>2, <1>3 DEF MemoryInv, Memory!ElementsCounted, Memory!Grow
  <2>3. /\ mNodes' \in Nat /\ mLastBlock' \in Nat /\ mFree' \subseteq 1 .. mNodes'
        /\ mHolder' \in [1 .. mNodes' -> Parties \cup {Nobody}]
    <3>1. mNodes' \in Nat /\ mLastBlock' \in Nat /\ mFree' \subseteq 1 .. mNodes'
      <4> PICK g \in Nat : g = Growth(mLastBlock)
        BY <1>0
      <4>1. mNodes' = mNodes + g /\ mLastBlock' = g /\ mFree' = mFree \cup (mNodes + 1 .. mNodes + g)
        BY <2>1
      <4>2. mNodes' \in Nat /\ 1 .. mNodes \subseteq 1 .. mNodes' /\ mNodes + 1 .. mNodes + g \subseteq 1 .. mNodes'
        BY <1>0, <4>1
      <4> QED
        BY <1>0, <4>1, <4>2
    <3>2. \A n \in 1 .. mNodes' : n <= mNodes => n \in 1 .. mNodes
      BY <1>0, <3>1
    <3>3. \A n \in 1 .. mNodes' : (IF n <= mNodes THEN mHolder[n] ELSE Nobody) \in Parties \cup {Nobody}
      BY <1>0, <3>2
    <3> QED
      BY <2>1, <3>1, <3>3
  <2>4. ASSUME NEW n \in 1 .. mNodes' PROVE n \in mFree' <=> mHolder'[n] = Nobody
    <3>1. CASE n <= mNodes
      <4>1. n \in 1 .. mNodes /\ n \notin mNodes + 1 .. mNodes + Growth(mLastBlock)
        BY <1>0, <2>1, <3>1
      <4> QED
        BY <1>0, <2>1, <3>1, <4>1
    <3>2. CASE ~(n <= mNodes)
      <4>1. n \in mNodes + 1 .. mNodes + Growth(mLastBlock)
        BY <1>0, <2>1, <3>2
      <4> QED
        BY <1>0, <2>1, <3>2, <4>1
    <3> QED
      BY <3>1, <3>2
  <2> QED
    BY <1>0, <1>1, <1>2, <2>1, <2>2, <2>3, <2>4
       DEF MemoryInv, Memory!TypeOK, Memory!ElementsCounted
<1>4. CASE Memory!CountElements(t)
  <2>1. UNCHANGED <<mFree, mLastBlock, mNodes, mHolder>> /\ mTotal' = mTotal + mLastBlock
    BY <1>4 DEF Memory!CountElements, Memory!Counted
  <2>2. mTotal' = mNodes' /\ mPc'[t] # "count"
    BY <1>0, <1>4, <2>1 DEF MemoryInv, Memory!CountElements
  <2> QED
    BY <1>0, <1>1, <1>2, <2>1, <2>2
       DEF MemoryInv, Memory!TypeOK, Memory!ElementsCounted
<1> QED
  BY <1>3, <1>4

LEMMA MemoryNext == ASSUME GrowthIsSize PROVE MemoryInv /\ [Next]_vars => MemoryInv'
<1> SUFFICES ASSUME MemoryInv, [Next]_vars PROVE MemoryInv'
  OBVIOUS
<1>1. CASE Memory!Next
  <2>1. PICK t \in Parties : Memory!Allocate(t) \/ Memory!Go(t) \/ Memory!GiveBack(t)
    BY <1>1 DEF Memory!Next
  <2>2. CASE Memory!Grow(t) \/ Memory!CountElements(t)
    BY <2>2, GrowStep
  <2>3. CASE ~Memory!Grow(t) /\ ~Memory!CountElements(t)
    BY <2>1, <2>3, AllocateStep, NodeMoves DEF Memory!Go
  <2> QED
    BY <2>2, <2>3
<1>2. CASE UNCHANGED memoryVars
  BY <1>2 DEF memoryVars, MemoryInv, Expanding, Memory!TypeOK,
              Memory!ElementsCounted
<1>3. Memory!Next \/ UNCHANGED memoryVars
  BY DEF Next, Of, Others, vars
<1> QED
  BY <1>1, <1>2, <1>3

LEMMA MemoryInit == Init => MemoryInv
<1> SUFFICES ASSUME Init PROVE MemoryInv
  OBVIOUS
<1>1. /\ mFree = 1 .. InitialSize /\ mHolder = [n \in 1 .. InitialSize |-> Nobody]
      /\ mLastBlock = InitialSize /\ mTotal = InitialSize /\ mNodes = InitialSize /\ mCalls = 0
      /\ mIsExpanding = FALSE /\ mMutex = Nobody /\ mPc = [t \in Parties |-> "ready"]
      /\ InitialSize \in Nat
  BY PoolAssumption DEF Init, Memory!Init
<1>2. Memory!TypeOK
  <2>1. mHolder \in [1 .. mNodes -> Parties \cup {Nobody}] /\ mFree \subseteq 1 .. mNodes
    BY <1>1
  <2>2. /\ mLastBlock \in Nat /\ mTotal \in Nat /\ mNodes \in Nat /\ mCalls \in Nat
        /\ mIsExpanding \in BOOLEAN /\ mMutex \in Parties \cup {Nobody}
    BY <1>1
  <2> QED
    BY <2>1, <2>2 DEF Memory!TypeOK
<1>3. mPc \in [Parties -> MemoryLabels] /\ \A t \in Parties : mPc[t] = "ready"
  BY <1>1 DEF MemoryLabels
<1>4. \A n \in 1 .. mNodes : n \in mFree <=> mHolder[n] = Nobody
  BY <1>1
<1> QED
  BY <1>1, <1>2, <1>3, <1>4 DEF MemoryInv, Expanding, Memory!ElementsCounted

\* memory_pool keeps each node free or somebody's, lets one thread at a time add
\* a block and counts its elements, for any number of threads, any first size
\* and any growth policy.
THEOREM MemoryIsSafe == ASSUME GrowthIsSize PROVE Spec => []MemorySafe
<1>1. MemoryInv => MemorySafe
  BY DEF MemoryInv, MemorySafe, Memory!NodesConserved, Memory!OneExpander, Expanding
<1> QED
  BY <1>1, MemoryInit, MemoryNext, PTL DEF Spec

-----------------------------------------------------------------------------
(* active_object: the inductive invariant.                                 *)

ObjectInv ==
    /\ Object!TypeOK
    /\ oWorker = "run" <=> oTask \in Tasks
    /\ \A c \in Callers : oCaller[c] = "push" => oSends[c] \in Tasks
    /\ Object!ActiveRunsInOrder

\* What the object has begun to run and what lies before it, in one sequence.
Line(ran, task, queue) == ran \o (IF task = Nobody THEN <<>> ELSE <<task>>) \o queue

LEMMA LinePop ==
    ASSUME NEW ran \in Seq(Tasks), NEW queue \in Seq(Tasks), queue # <<>>
    PROVE  /\ Head(queue) \in Tasks /\ Tail(queue) \in Seq(Tasks) /\ Len(Tail(queue)) < Len(queue)
           /\ Line(ran, Head(queue), Tail(queue)) = Line(ran, Nobody, queue)
<1>1. /\ Head(queue) \in Tasks /\ Tail(queue) \in Seq(Tasks) /\ Len(Tail(queue)) = Len(queue) - 1
      /\ Len(queue) \in Nat
  BY HeadTailProperties, LenProperties
<1>2. Head(queue) # Nobody
  BY <1>1, PoolAssumption
<1>3. queue = <<Head(queue)>> \o Tail(queue)
  BY <1>1
<1>4. <<Head(queue)>> \in Seq(Tasks)
  BY <1>1
<1>5. (ran \o <<Head(queue)>>) \o Tail(queue) = ran \o (<<Head(queue)>> \o Tail(queue))
  BY <1>1, <1>4, ConcatAssociative
<1>6. ran \o <<>> = ran
  BY ConcatEmptySeq
<1> QED
  BY <1>1, <1>2, <1>3, <1>5, <1>6 DEF Line

LEMMA LineRun ==
    ASSUME NEW ran \in Seq(Tasks), NEW queue \in Seq(Tasks), NEW x \in Tasks
    PROVE  /\ Append(ran, x) \in Seq(Tasks)
           /\ Line(Append(ran, x), Nobody, queue) = Line(ran, x, queue)
<1>1. x # Nobody
  BY PoolAssumption
<1>2. Append(ran, x) \in Seq(Tasks) /\ Append(ran, x) = ran \o <<x>>
  BY AppendProperties, AppendIsConcat
<1>3. (ran \o <<x>>) \o <<>> = ran \o <<x>>
  BY <1>2, ConcatEmptySeq
<1> QED
  BY <1>1, <1>2, <1>3 DEF Line

LEMMA LinePush ==
    ASSUME NEW ran \in Seq(Tasks), NEW queue \in Seq(Tasks), NEW x \in Tasks,
           NEW task \in Tasks \cup {Nobody}
    PROVE  /\ Append(queue, x) \in Seq(Tasks) /\ Len(Append(queue, x)) = Len(queue) + 1
           /\ Line(ran, task, Append(queue, x)) = Append(Line(ran, task, queue), x)
           /\ Append(Line(ran, task, queue), x) \in Seq(Tasks)
<1> DEFINE s == ran \o (IF task = Nobody THEN <<>> ELSE <<task>>)
<1>1. s \in Seq(Tasks)
  <2>1. (IF task = Nobody THEN <<>> ELSE <<task>>) \in Seq(Tasks)
    OBVIOUS
  <2> QED
    BY <2>1, ConcatProperties
<1> HIDE DEF s
<1>2. /\ Append(queue, x) \in Seq(Tasks) /\ Append(queue, x) = queue \o <<x>>
      /\ Len(Append(queue, x)) = Len(queue) + 1
  BY AppendProperties, AppendIsConcat
<1>3. s \o queue \in Seq(Tasks)
  BY <1>1, ConcatProperties
<1>4. Append(s \o queue, x) = (s \o queue) \o <<x>> /\ Append(s \o queue, x) \in Seq(Tasks)
  BY <1>3, AppendProperties, AppendIsConcat
<1>5. (s \o queue) \o <<x>> = s \o (queue \o <<x>>)
  BY <1>1, ConcatAssociative
<1> QED
  BY <1>2, <1>4, <1>5 DEF Line, s

\* A step that moves no task.
LEMMA ObjectAlike ==
    ASSUME ObjectInv, UNCHANGED <<oQueue, oTask, oPushed, oRan>>,
           oDone' \in BOOLEAN, oLocked' \in BOOLEAN,
           oWorker' \in {"pop", "run", "after", "lock", "check", "sleep", "asleep", "gone"},
           oWorker' = "run" <=> oWorker = "run",
           oCaller' \in [Callers -> {"ready", "push", "notify", "shutdown", "join", "destroyed"}],
           oSends' \in [Callers -> Tasks \cup {Nobody}],
           \A c \in Callers : oCaller'[c] = "push" => oSends'[c] \in Tasks
    PROVE  ObjectInv'
  BY DEF ObjectInv, Object!TypeOK, Object!ActiveRunsInOrder

LEMMA ObjectPops ==
    ASSUME ObjectInv, oQueue # <<>>, Object!Pop, oTask \notin Tasks, oLocked' \in BOOLEAN,
           UNCHANGED <<oDone, oCaller, oSends, oPushed, oRan>>
    PROVE  ObjectInv'
<1>1. /\ oQueue \in Seq(Tasks) /\ oRan \in Seq(Tasks) /\ oPushed = Line(oRan, oTask, oQueue)
      /\ oTask = Nobody /\ Len(oQueue) <= ObjectLimit /\ ObjectLimit \in Nat /\ oPushed \in Seq(Tasks)
  BY PoolAssumption DEF ObjectInv, Object!TypeOK, Object!ActiveRunsInOrder, Line
<1>2. oQueue' = Tail(oQueue) /\ oTask' = Head(oQueue) /\ oWorker' = "run"
  BY DEF Object!Pop
<1>3. /\ oQueue' \in Seq(Tasks) /\ oTask' \in Tasks /\ Len(oQueue') <= ObjectLimit
      /\ oPushed = Line(oRan, oTask', oQueue')
  BY <1>1, <1>2, LinePop, LenProperties
<1>4. Object!ActiveRunsInOrder'
  BY <1>3 DEF Object!ActiveRunsInOrder, Line
<1> QED
  BY <1>1, <1>2, <1>3, <1>4 DEF ObjectInv, Object!TypeOK

LEMMA ObjectRuns ==
    ASSUME ObjectInv, Object!RunTask
    PROVE  ObjectInv'
<1>1. /\ oQueue \in Seq(Tasks) /\ oRan \in Seq(Tasks) /\ oPushed = Line(oRan, oTask, oQueue)
      /\ oTask \in Tasks /\ oPushed \in Seq(Tasks)
  BY DEF ObjectInv, Object!TypeOK, Object!ActiveRunsInOrder, Line, Object!RunTask
<1>2. oRan' = Append(oRan, oTask) /\ oTask' = Nobody /\ oWorker' = "after"
  BY DEF Object!RunTask
<1>3. oRan' \in Seq(Tasks) /\ oPushed = Line(oRan', oTask', oQueue)
  BY <1>1, <1>2, LineRun
<1>4. Object!ActiveRunsInOrder'
  BY <1>3 DEF Object!ActiveRunsInOrder, Line, Object!RunTask
<1> QED
  BY <1>1, <1>2, <1>3, <1>4, PoolAssumption DEF ObjectInv, Object!TypeOK, Object!RunTask

LEMMA ObjectPushes ==
    ASSUME ObjectInv, NEW c \in Callers, Object!Push(c)
    PROVE  ObjectInv'
<1> PICK x \in Tasks : x = oSends[c]
  BY DEF ObjectInv, Object!Push
<1>1. /\ oQueue \in Seq(Tasks) /\ oRan \in Seq(Tasks) /\ oPushed = Line(oRan, oTask, oQueue)
      /\ oTask \in Tasks \cup {Nobody} /\ Len(oQueue) < ObjectLimit /\ ObjectLimit \in Nat
      /\ Len(oQueue) \in Nat
  BY PoolAssumption, LenProperties DEF ObjectInv, Object!TypeOK, Object!ActiveRunsInOrder, Line, Object!Push
<1>2. /\ oQueue' = Append(oQueue, x) /\ oPushed' = Append(oPushed, x)
      /\ oCaller' = [oCaller EXCEPT ![c] = "notify"] /\ oSends' = [oSends EXCEPT ![c] = Nobody]
      /\ UNCHANGED <<oDone, oLocked, oWorker, oTask, oRan>>
  BY DEF Object!Push, Object!Enqueue, Object!Goto
<1>3. /\ oQueue' \in Seq(Tasks) /\ oPushed' \in Seq(Tasks) /\ Len(oQueue') <= ObjectLimit
      /\ oPushed' = Line(oRan, oTask, oQueue')
  <2>1. /\ oQueue' \in Seq(Tasks) /\ Len(oQueue') = Len(oQueue) + 1
        /\ Line(oRan, oTask, oQueue') = Append(Line(oRan, oTask, oQueue), x)
        /\ Append(Line(oRan, oTask, oQueue), x) \in Seq(Tasks)
    BY <1>1, <1>2, LinePush
  <2> QED
    BY <1>1, <1>2, <2>1
<1>4. Object!ActiveRunsInOrder'
  BY <1>2, <1>3 DEF Object!ActiveRunsInOrder, Line
<1> QED
  BY <1>1, <1>2, <1>3, <1>4 DEF ObjectInv, Object!TypeOK

LEMMA ObjectNext == ObjectInv /\ [Next]_vars => ObjectInv'
<1> SUFFICES ASSUME ObjectInv, [Next]_vars PROVE ObjectInv'
  OBVIOUS
<1>0. /\ oDone \in BOOLEAN /\ oLocked \in BOOLEAN /\ oTask \in Tasks \cup {Nobody}
      /\ oWorker \in {"pop", "run", "after", "lock", "check", "sleep", "asleep", "gone"}
      /\ oCaller \in [Callers -> {"ready", "push", "notify", "shutdown", "join", "destroyed"}]
      /\ oSends \in [Callers -> Tasks \cup {Nobody}]
      /\ \A c \in Callers : oCaller[c] = "push" => oSends[c] \in Tasks
      /\ oWorker = "run" <=> oTask \in Tasks
  BY DEF ObjectInv, Object!TypeOK
<1>1. CASE Object!TryPop \/ Object!CheckWait
  BY <1>0, <1>1, ObjectPops, ObjectAlike DEF Object!TryPop, Object!CheckWait
<1>2. CASE Object!AfterTask \/ Object!Lock \/ Object!Sleep
  BY <1>0, <1>2, ObjectAlike DEF Object!AfterTask, Object!Lock, Object!Sleep
<1>3. ASSUME NEW c \in Callers, \E x \in Tasks : Object!Send(c, x) PROVE ObjectInv'
  BY <1>0, <1>3, ObjectAlike DEF Object!Send, Object!Goto
<1>4. ASSUME NEW c \in Callers, Object!Notify(c) \/ Object!Join(c) \/ Object!Shutdown(c)
      PROVE  ObjectInv'
  BY <1>0, <1>4, ObjectAlike DEF Object!Notify, Object!MayNotify, Object!Join, Object!Shutdown, Object!Goto
<1>5. CASE UNCHANGED objectVars
  BY <1>0, <1>5, ObjectAlike DEF objectVars
<1>6. Object!Next \/ UNCHANGED objectVars
  BY DEF Next, Of, Others, vars
<1> QED
  BY <1>1, <1>2, <1>3, <1>4, <1>5, <1>6, ObjectRuns, ObjectPushes DEF Object!Next, Object!Work, Object!Finish

LEMMA ObjectInit == Init => ObjectInv
<1> SUFFICES ASSUME Init PROVE ObjectInv
  OBVIOUS
<1>1. /\ oQueue = <<>> /\ oPushed = <<>> /\ oRan = <<>> /\ oDone = FALSE /\ oLocked = FALSE
      /\ oWorker = "pop" /\ oTask = Nobody /\ oCaller = [c \in Callers |-> "ready"]
      /\ oSends = [c \in Callers |-> Nobody] /\ Nobody \notin Tasks /\ ObjectLimit \in Nat
  BY PoolAssumption DEF Init, Object!Init
<1>2. <<>> \in Seq(Tasks) /\ Len(<<>>) = 0 /\ <<>> \o <<>> = <<>>
  BY EmptySeq, ConcatEmptySeq
<1>3. Object!ActiveRunsInOrder
  BY <1>1, <1>2 DEF Object!ActiveRunsInOrder
<1>4. Object!TypeOK
  <2>1. oQueue \in Seq(Tasks) /\ oPushed \in Seq(Tasks) /\ oRan \in Seq(Tasks) /\ Len(oQueue) = 0
    BY <1>1, <1>2
  <2>2. /\ oCaller \in [Callers -> {"ready", "push", "notify", "shutdown", "join", "destroyed"}]
        /\ oSends \in [Callers -> Tasks \cup {Nobody}]
    BY <1>1
  <2>3. /\ oDone \in BOOLEAN /\ oLocked \in BOOLEAN /\ oTask \in Tasks \cup {Nobody}
        /\ oWorker \in {"pop", "run", "after", "lock", "check", "sleep", "asleep", "gone"}
    BY <1>1
  <2>4. Len(oQueue) <= ObjectLimit
    BY <2>1, PoolAssumption
  <2> QED
    BY <2>1, <2>2, <2>3, <2>4 DEF Object!TypeOK
<1> QED
  BY <1>1, <1>3, <1>4 DEF ObjectInv

\* active_object runs its tasks in the order of their pushes and none twice, for
\* any number of callers and tasks and any queue.
THEOREM ObjectRunsInOrder == Spec => []ObjectInOrder
<1>1. ObjectInv => ObjectInOrder
  BY DEF ObjectInv, ObjectInOrder
<1> QED
  BY <1>1, ObjectInit, ObjectNext, PTL DEF Spec

-----------------------------------------------------------------------------
(* job_manager: the inductive invariant.                                   *)

JobTypes ==
    /\ Jobs!TypeOK
    /\ jManager = "popped" <=> jTask \in JobKeys
    /\ jCaller \in [JobCallers -> {"ready", "push", "notify", "shutdown", "join", "destroyed"}]
    /\ jWants \in [JobCallers -> JobKeys \cup {Nobody}]
    /\ \A c \in JobCallers : jCaller[c] = "push" => jWants[c] \in JobKeys

JobsInv == JobTypes /\ Jobs!DependenciesFirst

-----------------------------------------------------------------------------
(* Sequences of tasks.                                                     *)

In(s, k) == \E i \in 1 .. Len(s) : s[i] = k

LEMMA InConcat ==
    ASSUME NEW s \in Seq(JobKeys), NEW q \in Seq(JobKeys), NEW k
    PROVE  Jobs!Contains(s \o q, k) <=> In(s, k) \/ In(q, k)
<1>1. /\ Len(s) \in Nat /\ Len(q) \in Nat /\ Len(s \o q) = Len(s) + Len(q)
      /\ \A i \in 1 .. Len(s) + Len(q) : (s \o q)[i] = IF i <= Len(s) THEN s[i] ELSE q[i - Len(s)]
  BY LenProperties, ConcatProperties
<1>2. ASSUME Jobs!Contains(s \o q, k) PROVE In(s, k) \/ In(q, k)
  <2>1. PICK i \in 1 .. Len(s) + Len(q) : (s \o q)[i] = k
    BY <1>1, <1>2 DEF Jobs!Contains
  <2>2. CASE i <= Len(s)
    BY <1>1, <2>1, <2>2 DEF In
  <2>3. CASE ~(i <= Len(s))
    <3>1. i - Len(s) \in 1 .. Len(q) /\ q[i - Len(s)] = k
      BY <1>1, <2>1, <2>3
    <3> QED
      BY <3>1 DEF In
  <2> QED
    BY <2>2, <2>3
<1>3. ASSUME In(s, k) PROVE Jobs!Contains(s \o q, k)
  <2>1. PICK i \in 1 .. Len(s) : s[i] = k
    BY <1>3 DEF In
  <2>2. i \in 1 .. Len(s) + Len(q) /\ (s \o q)[i] = k
    BY <1>1, <2>1
  <2> QED
    BY <1>1, <2>2 DEF Jobs!Contains
<1>4. ASSUME In(q, k) PROVE Jobs!Contains(s \o q, k)
  <2>1. PICK i \in 1 .. Len(q) : q[i] = k
    BY <1>4 DEF In
  <2>2. i + Len(s) \in 1 .. Len(s) + Len(q) /\ (s \o q)[i + Len(s)] = k
    BY <1>1, <2>1
  <2> QED
    BY <1>1, <2>2 DEF Jobs!Contains
<1> QED
  BY <1>2, <1>3, <1>4

LEMMA InTail ==
    ASSUME NEW s \in Seq(JobKeys), s # <<>>
    PROVE  /\ Head(s) \in JobKeys /\ Tail(s) \in Seq(JobKeys)
           /\ \A k : In(s, k) => k = Head(s) \/ In(Tail(s), k)
<1>1. /\ Head(s) \in JobKeys /\ Tail(s) \in Seq(JobKeys) /\ Len(Tail(s)) = Len(s) - 1 /\ Len(s) \in Nat
      /\ \A i \in 1 .. Len(Tail(s)) : Tail(s)[i] = s[i + 1]
  BY HeadTailProperties, LenProperties
<1>2. Head(s) = s[1]
  OBVIOUS
<1>3. ASSUME NEW k, NEW i \in 1 .. Len(s), s[i] = k, i # 1 PROVE In(Tail(s), k)
  <2>1. i - 1 \in 1 .. Len(Tail(s)) /\ Tail(s)[i - 1] = k
    BY <1>1, <1>3
  <2> QED
    BY <2>1 DEF In
<1> QED
  BY <1>1, <1>2, <1>3 DEF In

LEMMA InAppend ==
    ASSUME NEW s \in Seq(JobKeys), NEW x \in JobKeys
    PROVE  /\ Append(s, x) \in Seq(JobKeys) /\ Len(Append(s, x)) = Len(s) + 1
           /\ In(Append(s, x), x)
           /\ \A k : In(s, k) => In(Append(s, x), k)
<1>1. /\ Append(s, x) \in Seq(JobKeys) /\ Len(Append(s, x)) = Len(s) + 1 /\ Len(s) \in Nat
      /\ \A i \in 1 .. Len(s) : Append(s, x)[i] = s[i]
      /\ Append(s, x)[Len(s) + 1] = x
  BY AppendProperties, LenProperties
<1>2. \A i \in 1 .. Len(s) : i \in 1 .. Len(s) + 1
  BY <1>1
<1>3. Len(s) + 1 \in 1 .. Len(s) + 1
  BY <1>1
<1> QED
  BY <1>1, <1>2, <1>3 DEF In

LEMMA InRemoveAt ==
    ASSUME NEW s \in Seq(JobKeys), NEW i \in 1 .. Len(s)
    PROVE  /\ Jobs!RemoveAt(s, i) \in Seq(JobKeys) /\ Len(Jobs!RemoveAt(s, i)) = Len(s) - 1
           /\ \A k : In(s, k) => k = s[i] \/ In(Jobs!RemoveAt(s, i), k)
<1> DEFINE a == SubSeq(s, 1, i - 1)
           b == SubSeq(s, i + 1, Len(s))
<1>0. Len(s) \in Nat /\ i \in Nat /\ \A j \in 1 .. Len(s) : s[j] \in JobKeys
  BY LenProperties, ElementOfSeq
<1>1. /\ a \in Seq(JobKeys) /\ Len(a) = i - 1
      /\ \A j \in 1 .. i - 1 : a[j] = s[j]
  <2>1. \A j \in 1 .. i - 1 : s[j] \in JobKeys
    BY <1>0
  <2>2. /\ a \in Seq(JobKeys) /\ Len(a) = IF 1 <= i - 1 THEN (i - 1) - 1 + 1 ELSE 0
        /\ \A j \in 1 .. (i - 1) - 1 + 1 : a[j] = s[1 + j - 1]
    BY <1>0, <2>1, SubSeqProperties
  <2> HIDE DEF a
  <2> QED
    BY <1>0, <2>2
<1>2. /\ b \in Seq(JobKeys) /\ Len(b) = Len(s) - i
      /\ \A j \in 1 .. Len(s) - i : b[j] = s[i + j]
  <2>1. \A j \in i + 1 .. Len(s) : s[j] \in JobKeys
    BY <1>0
  <2>2. /\ b \in Seq(JobKeys) /\ Len(b) = IF i + 1 <= Len(s) THEN Len(s) - (i + 1) + 1 ELSE 0
        /\ \A j \in 1 .. Len(s) - (i + 1) + 1 : b[j] = s[(i + 1) + j - 1]
    BY <1>0, <2>1, SubSeqProperties
  <2> HIDE DEF b
  <2> QED
    BY <1>0, <2>2
<1>3. Jobs!RemoveAt(s, i) = a \o b
  BY DEF Jobs!RemoveAt
<1> HIDE DEF a, b
<1>4. /\ a \o b \in Seq(JobKeys) /\ Len(a \o b) = Len(a) + Len(b)
      /\ \A j \in 1 .. Len(a) + Len(b) : (a \o b)[j] = IF j <= Len(a) THEN a[j] ELSE b[j - Len(a)]
  BY <1>1, <1>2, ConcatProperties
<1>5. ASSUME NEW k, NEW j \in 1 .. Len(s), s[j] = k, j # i PROVE In(a \o b, k)
  <2>1. CASE j < i
    <3>1. j \in 1 .. Len(a) + Len(b) /\ (a \o b)[j] = k
      BY <1>0, <1>1, <1>2, <1>4, <1>5, <2>1
    <3> QED
      BY <1>4, <3>1 DEF In
  <2>2. CASE j > i
    <3>1. j - 1 \in 1 .. Len(a) + Len(b) /\ (a \o b)[j - 1] = k
      <4>1. /\ j - 1 \in 1 .. Len(a) + Len(b) /\ ~(j - 1 <= Len(a)) /\ (j - 1) - Len(a) = j - i
            /\ j - i \in 1 .. Len(s) - i /\ i + (j - i) = j
        BY <1>0, <1>1, <1>2, <2>2
      <4>2. (a \o b)[j - 1] = b[j - i]
        BY <1>4, <4>1
      <4> QED
        BY <1>2, <1>5, <4>1, <4>2
    <3> QED
      BY <1>4, <3>1 DEF In
  <2> QED
    BY <1>0, <1>5, <2>1, <2>2
<1>6. Len(a \o b) = Len(s) - 1
  BY <1>0, <1>1, <1>2, <1>4
<1> QED
  BY <1>3, <1>4, <1>5, <1>6 DEF In

-----------------------------------------------------------------------------
(* The steps.                                                              *)

JobStates == {"none", "NotStarted", "Running", "Finished", "Aborted"}

\* What the steps have to keep of DependenciesFirst.
LEMMA JobsAlike ==
    ASSUME JobsInv, JobTypes',
           \A k \in JobKeys : /\ jCompleted'[k] >= jCompleted[k]
                              /\ jState'[k] = "Finished" => jCompleted'[k] > 0
                              /\ \/ jSubmitted'[k] + jRunning'[k] <= jSubmitted[k] + jRunning[k]
                                 \/ Jobs!Ready(k)
    PROVE  JobsInv'
<1> SUFFICES ASSUME NEW k \in JobKeys
             PROVE  /\ Jobs!Is(k, "Finished")' => jCompleted'[k] > 0
                    /\ jSubmitted'[k] + jRunning'[k] > 0 => \A d \in JobDeps[k] : jCompleted'[d] > 0
  BY DEF JobsInv, Jobs!DependenciesFirst
<1>1. /\ \A d \in JobKeys : /\ jCompleted[d] \in Nat /\ jCompleted'[d] \in Nat
                            /\ jSubmitted[d] \in Nat /\ jSubmitted'[d] \in Nat
                            /\ jRunning[d] \in Nat /\ jRunning'[d] \in Nat
      /\ JobDeps[k] \subseteq JobKeys
  BY PoolAssumption DEF JobsInv, JobTypes, Jobs!TypeOK
<1>2. \A d \in JobKeys : Jobs!Is(d, "Finished") => jCompleted[d] > 0
  BY DEF JobsInv, Jobs!DependenciesFirst
<1>3. ASSUME jSubmitted'[k] + jRunning'[k] > 0, NEW d \in JobDeps[k] PROVE jCompleted'[d] > 0
  <2>1. jCompleted[d] > 0
    <3>1. CASE Jobs!Ready(k)
      BY <1>1, <1>2, <3>1 DEF Jobs!Ready
    <3>2. CASE jSubmitted'[k] + jRunning'[k] <= jSubmitted[k] + jRunning[k]
      <4>1. jSubmitted[k] + jRunning[k] > 0
        BY <1>1, <1>3, <3>2
      <4> QED
        BY <4>1 DEF JobsInv, Jobs!DependenciesFirst
    <3> QED
      BY <3>1, <3>2
  <2> QED
    BY <1>1, <2>1
<1> QED
  BY <1>3 DEF Jobs!Is

\* What a step of the manager has to keep of the tasks.
Kept == \A k \in JobKeys : Jobs!Waits(k) /\ ~Jobs!Waits(k)' => jSubmitted'[k] > jSubmitted[k]

LEMMA KeptIn ==
    ASSUME JobTypes, JobTypes',
           \A k \in JobKeys : In(jQueue, k) \/ In(jInternalQ, k) \/ jTask = k =>
              \/ In(jQueue', k) \/ In(jInternalQ', k) \/ jTask' = k
              \/ jSubmitted'[k] > jSubmitted[k]
    PROVE  Kept
<1>1. /\ jQueue \in Seq(JobKeys) /\ jInternalQ \in Seq(JobKeys)
      /\ jQueue' \in Seq(JobKeys) /\ jInternalQ' \in Seq(JobKeys)
  BY DEF JobTypes, Jobs!TypeOK
<1>2. \A k : Jobs!Contains(jQueue \o jInternalQ, k) <=> In(jQueue, k) \/ In(jInternalQ, k)
  BY <1>1, InConcat
<1>3. \A k : Jobs!Contains(jQueue' \o jInternalQ', k) <=> In(jQueue', k) \/ In(jInternalQ', k)
  BY <1>1, InConcat
<1> QED
  BY <1>2, <1>3 DEF Kept, Jobs!Waits

\* The facts about types that the steps use.
LEMMA JobFacts ==
    ASSUME JobTypes
    PROVE  /\ jQueue \in Seq(JobKeys) /\ jInternalQ \in Seq(JobKeys)
           /\ jState \in [JobKeys -> JobStates] /\ jTask \in JobKeys \cup {Nobody}
           /\ jAt \in 1 .. Len(jInternalQ) + 1 /\ Len(jInternalQ) \in Nat /\ Len(jQueue) \in Nat
           /\ jSubmitted \in [JobKeys -> Nat] /\ jRunning \in [JobKeys -> Nat]
           /\ jCompleted \in [JobKeys -> Nat]
           /\ Nobody \notin JobKeys
  BY PoolAssumption, LenProperties DEF JobTypes, Jobs!TypeOK, JobStates

\* A step that leaves the queues, the counts and the jobs.
LEMMA JobsUnmoved ==
    ASSUME JobsInv, UNCHANGED <<jState, jQueue, jInternalQ, jAt, jTask, jSubmitted, jRunning, jCompleted>>,
           jManager' = "popped" <=> jManager = "popped",
           jCaller' \in [JobCallers -> {"ready", "push", "notify", "shutdown", "join", "destroyed"}],
           UNCHANGED jWants, \A c \in JobCallers : jCaller'[c] = "push" => jCaller[c] = "push"
    PROVE  JobsInv' /\ Kept
<1>1. JobTypes'
  BY DEF JobsInv, JobTypes, Jobs!TypeOK
<1>2. JobsInv'
  BY <1>1 DEF JobsInv, Jobs!DependenciesFirst, Jobs!Is
<1> QED
  BY <1>2 DEF Kept, Jobs!Waits

LEMMA InvokeJobs ==
    ASSUME JobsInv, NEW c \in JobCallers, NEW k \in JobKeys, Jobs!Invoke(c, k)
    PROVE  JobsInv' /\ Kept
<1>0. JobTypes
  BY DEF JobsInv
<1>1. JobTypes'
  <2>1. jState' \in [JobKeys -> JobStates]
    BY <1>0, JobFacts DEF Jobs!Invoke, JobStates
  <2>2. /\ jCaller' \in [JobCallers -> {"ready", "push", "notify", "shutdown", "join", "destroyed"}]
        /\ jWants' \in [JobCallers -> JobKeys \cup {Nobody}]
        /\ \A d \in JobCallers : jCaller'[d] = "push" => jWants'[d] \in JobKeys
    BY <1>0 DEF Jobs!Invoke, Jobs!Goto, JobTypes
  <2> QED
    BY <1>0, <2>1, <2>2 DEF Jobs!Invoke, JobTypes, Jobs!TypeOK, JobStates
<1>2. JobsInv'
  <2>1. ASSUME NEW d \in JobKeys
        PROVE  /\ jCompleted'[d] >= jCompleted[d]
               /\ jState'[d] = "Finished" => jCompleted'[d] > 0
               /\ jSubmitted'[d] + jRunning'[d] <= jSubmitted[d] + jRunning[d]
    <3>1. jState'[d] = "Finished" => jState[d] = "Finished"
      BY <1>0, JobFacts DEF Jobs!Invoke
    <3> QED
      BY <1>0, <3>1, JobFacts DEF Jobs!Invoke, JobsInv, Jobs!DependenciesFirst, Jobs!Is
  <2> QED
    BY <1>1, <2>1, JobsAlike
<1> QED
  BY <1>2 DEF Jobs!Invoke, Kept, Jobs!Waits

LEMMA PushJobs ==
    ASSUME JobsInv, NEW c \in JobCallers, Jobs!Push(c)
    PROVE  JobsInv' /\ Kept
<1>0. JobTypes
  BY DEF JobsInv
<1>a. jWants[c] \in JobKeys
  BY <1>0 DEF Jobs!Push, JobTypes
<1>b. /\ jQueue' \in Seq(JobKeys)
      /\ \A k : In(jQueue, k) => In(jQueue', k)
  BY <1>0, <1>a, JobFacts, InAppend DEF Jobs!Push
<1>1. JobTypes'
  <2>2. /\ jCaller' \in [JobCallers -> {"ready", "push", "notify", "shutdown", "join", "destroyed"}]
        /\ jWants' \in [JobCallers -> JobKeys \cup {Nobody}]
        /\ \A d \in JobCallers : jCaller'[d] = "push" => jWants'[d] \in JobKeys
    BY <1>0 DEF Jobs!Push, Jobs!Goto, JobTypes
  <2>3. UNCHANGED <<jState, jInternalQ, jAt, jManager, jTask, jSubmitted, jRunning, jCompleted>>
    BY DEF Jobs!Push
  <2> QED
    BY <1>0, <1>b, <2>2, <2>3 DEF JobTypes, Jobs!TypeOK
<1>2. JobsInv'
  BY <1>1 DEF Jobs!Push, JobsInv, Jobs!DependenciesFirst, Jobs!Is
<1>3. Kept
  BY <1>0, <1>1, <1>b, KeptIn DEF Jobs!Push
<1> QED
  BY <1>2, <1>3

LEMMA EraseJobs ==
    ASSUME JobsInv, NEW k \in JobKeys, Jobs!EraseJob(k)
    PROVE  JobsInv' /\ Kept
<1>0. JobTypes
  BY DEF JobsInv
<1>1. JobTypes'
  <2>1. jState' \in [JobKeys -> JobStates]
    BY <1>0, JobFacts DEF Jobs!EraseJob, JobStates
  <2> QED
    BY <1>0, <2>1 DEF Jobs!EraseJob, JobTypes, Jobs!TypeOK, JobStates
<1>2. JobsInv'
  <2>1. ASSUME NEW d \in JobKeys PROVE jState'[d] = "Finished" => jState[d] = "Finished"
    BY <1>0, JobFacts DEF Jobs!EraseJob
  <2> QED
    BY <1>1, <2>1 DEF Jobs!EraseJob, JobsInv, Jobs!DependenciesFirst, Jobs!Is
<1> QED
  BY <1>2 DEF Jobs!EraseJob, Kept, Jobs!Waits

LEMMA TryPopJobs ==
    ASSUME JobsInv, Jobs!TryPop
    PROVE  JobsInv' /\ Kept
<1>0. JobTypes
  BY DEF JobsInv
<1>n. jTask = Nobody
  BY <1>0, JobFacts DEF JobTypes, Jobs!TryPop
<1>a. /\ jQueue' \in Seq(JobKeys) /\ jTask' \in JobKeys \cup {Nobody}
      /\ jManager' = "popped" <=> jTask' \in JobKeys
      /\ \A k : In(jQueue, k) => In(jQueue', k) \/ jTask' = k
  <2>1. CASE jQueue = <<>>
    BY <1>0, <1>n, <2>1, JobFacts DEF Jobs!TryPop
  <2>2. CASE jQueue # <<>>
    BY <1>0, <2>2, JobFacts, InTail DEF Jobs!TryPop
  <2> QED
    BY <2>1, <2>2
<1>b. /\ jAt' \in 1 .. Len(jInternalQ) + 1
      /\ UNCHANGED <<jState, jInternalQ, jCaller, jWants, jSubmitted, jRunning, jCompleted>>
  BY <1>0, JobFacts DEF Jobs!TryPop
<1>1. JobTypes'
  BY <1>0, <1>a, <1>b DEF JobTypes, Jobs!TypeOK
<1>2. JobsInv'
  BY <1>1, <1>b DEF JobsInv, Jobs!DependenciesFirst, Jobs!Is
<1>3. Kept
  BY <1>0, <1>1, <1>a, <1>b, <1>n, JobFacts, KeptIn
<1> QED
  BY <1>2, <1>3

\* The executor gets the task of a job that is ready.
LEMMA SubmitJobs ==
    ASSUME JobsInv, NEW k \in JobKeys, Jobs!Submit(k), Jobs!Ready(k)
    PROVE  /\ jSubmitted' \in [JobKeys -> Nat]
           /\ jSubmitted'[k] > jSubmitted[k]
           /\ \A d \in JobKeys : d # k => jSubmitted'[d] = jSubmitted[d]
  BY JobFacts DEF JobsInv, Jobs!Submit

LEMMA DispatchJobs ==
    ASSUME JobsInv, Jobs!Dispatch
    PROVE  JobsInv' /\ Kept
<1>0. JobTypes
  BY DEF JobsInv
<1>k. jTask \in JobKeys
  BY <1>0 DEF JobTypes, Jobs!Dispatch
<1>b. /\ UNCHANGED <<jState, jQueue, jAt, jCaller, jWants, jRunning, jCompleted>>
      /\ jTask' = Nobody /\ jManager' = "scan"
  BY DEF Jobs!Dispatch
<1>1. CASE Jobs!Ready(jTask)
  <2>1. /\ jSubmitted' \in [JobKeys -> Nat]
        /\ jSubmitted'[jTask] > jSubmitted[jTask]
        /\ \A d \in JobKeys : d # jTask => jSubmitted'[d] = jSubmitted[d]
        /\ UNCHANGED jInternalQ
    BY <1>k, <1>1, SubmitJobs DEF Jobs!Dispatch
  <2>2. JobTypes'
    BY <1>0, <1>b, <2>1, JobFacts DEF JobTypes, Jobs!TypeOK
  <2>3. JobsInv'
    <3>1. ASSUME NEW d \in JobKeys
          PROVE  /\ jCompleted'[d] >= jCompleted[d]
                 /\ jState'[d] = "Finished" => jCompleted'[d] > 0
                 /\ \/ jSubmitted'[d] + jRunning'[d] <= jSubmitted[d] + jRunning[d]
                    \/ Jobs!Ready(d)
      <4>1. jState[d] = "Finished" => jCompleted[d] > 0
        BY DEF JobsInv, Jobs!DependenciesFirst, Jobs!Is
      <4>2. jCompleted[d] \in Nat /\ jSubmitted[d] \in Nat /\ jRunning[d] \in Nat
        BY <1>0, JobFacts
      <4>3. jCompleted' = jCompleted /\ jState' = jState /\ jRunning' = jRunning
        BY <1>b
      <4>4. d # jTask => jSubmitted'[d] = jSubmitted[d]
        BY <2>1
      <4> QED
        BY <1>1, <4>1, <4>2, <4>3, <4>4
    <3> QED
      BY <2>2, <3>1, JobsAlike
  <2>4. Kept
    BY <1>0, <1>b, <2>1, <2>2, KeptIn
  <2> QED
    BY <2>3, <2>4
<1>2. CASE ~Jobs!Ready(jTask)
  <2>1. /\ jInternalQ' \in Seq(JobKeys) /\ Len(jInternalQ') = Len(jInternalQ) + 1
        /\ In(jInternalQ', jTask) /\ \A k : In(jInternalQ, k) => In(jInternalQ', k)
        /\ UNCHANGED jSubmitted
    BY <1>0, <1>k, <1>2, JobFacts, InAppend DEF Jobs!Dispatch, Jobs!PutAside
  <2>a. jAt' \in 1 .. Len(jInternalQ') + 1
    BY <1>0, <1>b, <2>1, JobFacts
  <2>2. JobTypes'
    BY <1>0, <1>b, <2>1, <2>a, JobFacts DEF JobTypes, Jobs!TypeOK
  <2>3. JobsInv'
    BY <1>b, <2>1, <2>2 DEF JobsInv, Jobs!DependenciesFirst, Jobs!Is
  <2>4. Kept
    BY <1>0, <1>b, <2>1, <2>2, KeptIn
  <2> QED
    BY <2>3, <2>4
<1> QED
  BY <1>1, <1>2

LEMMA ScanJobs ==
    ASSUME JobsInv, Jobs!Scan
    PROVE  JobsInv' /\ Kept
<1>0. JobTypes
  BY DEF JobsInv
<1>a. jAt \in 1 .. Len(jInternalQ)
  BY <1>0, JobFacts DEF Jobs!Scan
<1> DEFINE k == jInternalQ[jAt]
<1>k. k \in JobKeys
  BY <1>0, <1>a, JobFacts, ElementOfSeq
<1> HIDE DEF k
<1>b. UNCHANGED <<jState, jQueue, jManager, jTask, jCaller, jWants, jRunning, jCompleted>>
  BY DEF Jobs!Scan
<1>1. CASE Jobs!Ready(k)
  <2>1. /\ jSubmitted' \in [JobKeys -> Nat]
        /\ jSubmitted'[k] > jSubmitted[k]
        /\ \A d \in JobKeys : d # k => jSubmitted'[d] = jSubmitted[d]
        /\ jInternalQ' = Jobs!RemoveAt(jInternalQ, jAt) /\ jAt' = jAt
    BY <1>k, <1>1, SubmitJobs DEF Jobs!Scan, k
  <2>2. /\ jInternalQ' \in Seq(JobKeys) /\ Len(jInternalQ') = Len(jInternalQ) - 1
        /\ \A d : In(jInternalQ, d) => d = k \/ In(jInternalQ', d)
    BY <1>0, <1>a, <2>1, JobFacts, InRemoveAt DEF k
  <2>a. jAt' \in 1 .. Len(jInternalQ') + 1
    BY <1>0, <1>a, <2>1, <2>2, JobFacts
  <2>3. JobTypes'
    BY <1>0, <1>b, <2>1, <2>2, <2>a DEF JobTypes, Jobs!TypeOK
  <2>4. JobsInv'
    <3>1. ASSUME NEW d \in JobKeys
          PROVE  /\ jCompleted'[d] >= jCompleted[d]
                 /\ jState'[d] = "Finished" => jCompleted'[d] > 0
                 /\ \/ jSubmitted'[d] + jRunning'[d] <= jSubmitted[d] + jRunning[d]
                    \/ Jobs!Ready(d)
      <4>1. jState[d] = "Finished" => jCompleted[d] > 0
        BY DEF JobsInv, Jobs!DependenciesFirst, Jobs!Is
      <4>2. jCompleted[d] \in Nat /\ jSubmitted[d] \in Nat /\ jRunning[d] \in Nat
        BY <1>0, JobFacts
      <4>3. jCompleted' = jCompleted /\ jState' = jState /\ jRunning' = jRunning
        BY <1>b
      <4>4. d # k => jSubmitted'[d] = jSubmitted[d]
        BY <2>1
      <4> QED
        BY <1>1, <4>1, <4>2, <4>3, <4>4
    <3> QED
      BY <2>3, <3>1, JobsAlike
  <2>5. Kept
    BY <1>0, <1>b, <2>1, <2>2, <2>3, KeptIn
  <2> QED
    BY <2>4, <2>5
<1>2. CASE ~Jobs!Ready(k)
  <2>1. jAt' = jAt + 1 /\ UNCHANGED <<jInternalQ, jSubmitted>>
    BY <1>2 DEF Jobs!Scan, k
  <2>a. jAt' \in 1 .. Len(jInternalQ) + 1
    BY <1>0, <1>a, <2>1, JobFacts
  <2>2. JobTypes'
    BY <1>0, <1>b, <2>1, <2>a DEF JobTypes, Jobs!TypeOK
  <2>3. JobsInv'
    BY <1>b, <2>1, <2>2 DEF JobsInv, Jobs!DependenciesFirst, Jobs!Is
  <2> QED
    BY <1>b, <2>1, <2>3 DEF Kept, Jobs!Waits
<1> QED
  BY <1>1, <1>2

LEMMA ExecuteJobs ==
    ASSUME JobsInv, NEW k \in JobKeys, Jobs!Execute(k)
    PROVE  JobsInv' /\ Kept
<1>0. JobTypes
  BY DEF JobsInv
<1>f. \A d \in JobKeys : jState[d] = "Finished" => jCompleted[d] > 0
  BY DEF JobsInv, Jobs!DependenciesFirst, Jobs!Is
<1>b. UNCHANGED <<jQueue, jInternalQ, jAt, jManager, jTask, jCaller, jWants>>
  BY DEF Jobs!Execute, Jobs!Begin, Jobs!End
<1>1. CASE Jobs!Begin(k)
  <2>1. /\ jState' \in [JobKeys -> JobStates]
        /\ jSubmitted' \in [JobKeys -> Nat] /\ jRunning' \in [JobKeys -> Nat]
        /\ jCompleted' = jCompleted
        /\ \A d \in JobKeys : /\ jState'[d] = "Finished" => jState[d] = "Finished"
                              /\ jSubmitted'[d] + jRunning'[d] <= jSubmitted[d] + jRunning[d]
    <3>1. /\ jState' = [jState EXCEPT ![k] = IF @ = "NotStarted" THEN "Running" ELSE @]
          /\ jSubmitted' = [jSubmitted EXCEPT ![k] = @ - 1] /\ jSubmitted[k] > 0
          /\ jRunning' = [jRunning EXCEPT ![k] = @ + 1]
          /\ jCompleted' = jCompleted
      BY <1>1 DEF Jobs!Begin
    <3>2. /\ jState' \in [JobKeys -> JobStates]
          /\ \A d \in JobKeys : jState'[d] = "Finished" => jState[d] = "Finished"
      BY <1>0, <3>1, JobFacts DEF JobStates
    <3>3. jSubmitted \in [JobKeys -> Nat] /\ jRunning \in [JobKeys -> Nat]
      BY <1>0, JobFacts
    <3>4. jSubmitted' \in [JobKeys -> Nat] /\ jRunning' \in [JobKeys -> Nat]
      BY <3>1, <3>3
    <3>5. ASSUME NEW d \in JobKeys
          PROVE  jSubmitted'[d] + jRunning'[d] <= jSubmitted[d] + jRunning[d]
      BY <3>1, <3>3
    <3> QED
      BY <3>1, <3>2, <3>4, <3>5
  <2>2. JobTypes'
    BY <1>0, <1>b, <2>1 DEF JobTypes, Jobs!TypeOK, JobStates
  <2>3. JobsInv'
    <3>1. ASSUME NEW d \in JobKeys
          PROVE  /\ jCompleted'[d] >= jCompleted[d]
                 /\ jState'[d] = "Finished" => jCompleted'[d] > 0
                 /\ \/ jSubmitted'[d] + jRunning'[d] <= jSubmitted[d] + jRunning[d]
                    \/ Jobs!Ready(d)
      <4>1. jCompleted[d] \in Nat /\ jCompleted' = jCompleted
        BY <1>0, <2>1, JobFacts
      <4>2. jState'[d] = "Finished" => jCompleted[d] > 0
        BY <1>f, <2>1
      <4>3. jSubmitted'[d] + jRunning'[d] <= jSubmitted[d] + jRunning[d]
        BY <2>1
      <4> QED
        BY <4>1, <4>2, <4>3
    <3> QED
      BY <2>2, <3>1, JobsAlike
  <2> QED
    BY <1>b, <2>3 DEF Kept, Jobs!Waits
<1>2. ASSUME NEW how \in {"Finished", "Aborted"}, Jobs!End(k, how) PROVE JobsInv' /\ Kept
  <2>1. /\ jState' \in [JobKeys -> JobStates]
        /\ jRunning' \in [JobKeys -> Nat] /\ jCompleted' \in [JobKeys -> Nat]
        /\ jSubmitted' = jSubmitted
        /\ \A d \in JobKeys : /\ jState'[d] = "Finished" => jState[d] = "Finished" \/ jCompleted'[d] > 0
                              /\ jCompleted'[d] >= jCompleted[d]
                              /\ jSubmitted'[d] + jRunning'[d] <= jSubmitted[d] + jRunning[d]
    <3>1. /\ jState' = [jState EXCEPT ![k] = IF @ = "Running" THEN how ELSE @]
          /\ jRunning' = [jRunning EXCEPT ![k] = @ - 1] /\ jRunning[k] > 0
          /\ jCompleted' = [jCompleted EXCEPT ![k] = IF how = "Finished" THEN @ + 1 ELSE @]
          /\ jSubmitted' = jSubmitted
      BY <1>2 DEF Jobs!End
    <3>2. /\ jSubmitted \in [JobKeys -> Nat] /\ jRunning \in [JobKeys -> Nat]
          /\ jCompleted \in [JobKeys -> Nat] /\ jState \in [JobKeys -> JobStates]
      BY <1>0, JobFacts
    <3>3. jState' \in [JobKeys -> JobStates]
      BY <3>1, <3>2 DEF JobStates
    <3>4. jRunning' \in [JobKeys -> Nat] /\ jCompleted' \in [JobKeys -> Nat]
      BY <3>1, <3>2
    <3>5. ASSUME NEW d \in JobKeys
          PROVE  /\ jState'[d] = "Finished" => jState[d] = "Finished" \/ jCompleted'[d] > 0
                 /\ jCompleted'[d] >= jCompleted[d]
                 /\ jSubmitted'[d] + jRunning'[d] <= jSubmitted[d] + jRunning[d]
      <4>1. CASE d = k
        BY <3>1, <3>2, <4>1
      <4>2. CASE d # k
        BY <3>1, <3>2, <4>2
      <4> QED
        BY <4>1, <4>2
    <3> QED
      BY <3>1, <3>3, <3>4, <3>5
  <2>2. JobTypes'
    BY <1>0, <1>b, <2>1 DEF JobTypes, Jobs!TypeOK, JobStates
  <2>3. \A d \in JobKeys : jState'[d] = "Finished" => jCompleted'[d] > 0
    BY <1>0, <1>f, <2>1, JobFacts
  <2>4. JobsInv'
    <3>1. ASSUME NEW d \in JobKeys
          PROVE  /\ jCompleted'[d] >= jCompleted[d]
                 /\ jState'[d] = "Finished" => jCompleted'[d] > 0
                 /\ \/ jSubmitted'[d] + jRunning'[d] <= jSubmitted[d] + jRunning[d]
                    \/ Jobs!Ready(d)
      <4>1. jCompleted'[d] >= jCompleted[d]
        BY <2>1
      <4>2. jSubmitted'[d] + jRunning'[d] <= jSubmitted[d] + jRunning[d]
        BY <2>1
      <4> QED
        BY <2>3, <4>1, <4>2
    <3> QED
      BY <2>2, <3>1, JobsAlike
  <2> QED
    BY <1>b, <2>4 DEF Kept, Jobs!Waits
<1> QED
  BY <1>1, <1>2 DEF Jobs!Execute

LEMMA JobsNext ==
    ASSUME JobsInv, Jobs!Next
    PROVE  JobsInv' /\ Kept
<1>0. JobTypes
  BY DEF JobsInv
<1>1. CASE Jobs!EndScan \/ Jobs!CheckWait \/ Jobs!Sleep \/ Jobs!Timeout \/ Jobs!CheckDone
  <2>1. /\ UNCHANGED <<jState, jQueue, jInternalQ, jAt, jTask, jSubmitted, jRunning, jCompleted>>
        /\ UNCHANGED <<jCaller, jWants>>
        /\ jManager' # "popped" /\ jManager # "popped"
    BY <1>1 DEF Jobs!EndScan, Jobs!CheckWait, Jobs!Sleep, Jobs!Timeout, Jobs!CheckDone, Jobs!Expires
  <2> QED
    BY <1>0, <2>1, JobsUnmoved DEF JobTypes
<1>2. ASSUME NEW c \in JobCallers, Jobs!Notify(c) \/ Jobs!Join(c) \/ Jobs!Shutdown(c)
      PROVE  JobsInv' /\ Kept
  <2>1. /\ UNCHANGED <<jState, jQueue, jInternalQ, jAt, jTask, jSubmitted, jRunning, jCompleted>>
        /\ UNCHANGED jWants
        /\ jManager' = "popped" <=> jManager = "popped"
    BY <1>2 DEF Jobs!Notify, Jobs!Join, Jobs!Shutdown
  <2>2. /\ jCaller' \in [JobCallers -> {"ready", "push", "notify", "shutdown", "join", "destroyed"}]
        /\ \A d \in JobCallers : jCaller'[d] = "push" => jCaller[d] = "push"
    BY <1>0, <1>2 DEF Jobs!Notify, Jobs!Join, Jobs!Shutdown, Jobs!Goto, JobTypes
  <2> QED
    BY <2>1, <2>2, JobsUnmoved
<1> QED
  BY <1>1, <1>2, InvokeJobs, PushJobs, EraseJobs, TryPopJobs, DispatchJobs, ScanJobs, ExecuteJobs
  DEF Jobs!Next, Jobs!Manage, Jobs!Finish

LEMMA JobsInit ==
    ASSUME Jobs!Init
    PROVE  JobsInv
<1>1. jQueue \in Seq(JobKeys) /\ jInternalQ \in Seq(JobKeys) /\ Len(jInternalQ) = 0 /\ jAt = 1
  BY DEF Jobs!Init
<1>2. /\ jState \in [JobKeys -> JobStates]
      /\ jSubmitted \in [JobKeys -> Nat] /\ jRunning \in [JobKeys -> Nat]
      /\ jCompleted \in [JobKeys -> Nat]
      /\ jTask = Nobody /\ Nobody \notin JobKeys
  BY PoolAssumption DEF Jobs!Init, JobStates
<1>3. Jobs!TypeOK
  BY <1>1, <1>2 DEF Jobs!TypeOK, JobStates
<1>4. JobTypes
  BY <1>2, <1>3 DEF JobTypes, Jobs!Init
<1>5. \A k \in JobKeys : jState[k] = "none" /\ jSubmitted[k] + jRunning[k] = 0
  BY DEF Jobs!Init
<1> QED
  BY <1>4, <1>5 DEF JobsInv, Jobs!DependenciesFirst, Jobs!Is

LEMMA JobsKept == JobsInv /\ [Next]_vars => JobsInv' /\ [Kept]_(Jobs!vars)
<1> SUFFICES ASSUME JobsInv, [Next]_vars
             PROVE  JobsInv' /\ [Kept]_(Jobs!vars)
  OBVIOUS
<1>1. CASE Of("jobs", Jobs!Next)
  BY <1>1, JobsNext DEF Of
<1>2. CASE ~Of("jobs", Jobs!Next)
  <2>1. UNCHANGED jobsVars
    BY <1>2 DEF Next, Of, Others, vars
  <2>2. JobsInv'
    BY <2>1 DEF jobsVars, JobsInv, JobTypes, Jobs!TypeOK, Jobs!DependenciesFirst, Jobs!Is
  <2> QED
    BY <2>1, <2>2 DEF jobsVars, Jobs!vars
<1> QED
  BY <1>1, <1>2

\* job_manager gives a job to its executor only after every job that it depends
\* on has run to its end, for any jobs and dependencies, and its thread drops no
\* task while it goes through its queues: one that is no longer there was given
\* to the executor in that step.
THEOREM JobsAreSafe == Spec => JobsSafe
<1>1. Init => JobsInv
  BY JobsInit DEF Init
<1>2. JobsInv => Jobs!DependenciesFirst
  BY DEF JobsInv
<1> QED
  BY <1>1, <1>2, JobsKept, PTL DEF Spec, JobsSafe, Jobs!TasksKept, Kept

-----------------------------------------------------------------------------
(* The types.                                                              *)

\* The workers that have not yet counted themselves out.
Active == {w \in Workers : pPc[w] \notin {"leaving", "gone"}}

PoolCounts ==
    /\ pDone \in BOOLEAN /\ pStop \in [Workers -> BOOLEAN]
    /\ pMutex \in Workers \cup {Nobody}
    /\ pNThreads = Cardinality(Active)

\* Only a worker that leaves counts itself out, once.
LEMMA ActiveStays ==
    ASSUME PoolInv, PoolCounts, Pool!Next
    PROVE  PoolCounts'
<1>0. /\ pPc \in [PoolThreads -> Labels] /\ Owner \in Callers /\ Owner \notin Workers
      /\ Workers \subseteq PoolThreads /\ Callers \subseteq PoolThreads
      /\ \A c \in Callers : c \notin Workers
  BY PoolAssumption DEF PoolInv, PoolTypes, PoolThreads
<1> DEFINE Same == /\ UNCHANGED pNThreads
                   /\ \A w \in Workers : pPc'[w] \in {"leaving", "gone"} <=> pPc[w] \in {"leaving", "gone"}
<1> USE DEF Pool!Goto, Pool!Pop
<1>1. ASSUME NEW w \in Workers, Pool!Work(w), ~Pool!Exit(w) PROVE Same
  <2>1. /\ pPc'[w] \in {"leaving", "gone"} <=> pPc[w] \in {"leaving", "gone"}
        /\ \A u \in PoolThreads : u # w => pPc'[u] = pPc[u]
        /\ UNCHANGED pNThreads
    BY <1>0, <1>1 DEF Pool!Work, Pool!TryPop, Pool!RunTask, Pool!CheckStop, Pool!LockWait,
                      Pool!CheckWait, Pool!Sleep, Pool!Leave, Pool!BeginWait
  <2> QED
    BY <1>0, <2>1
<1>2. ASSUME NEW c \in Callers, Pool!Call(c) \/ Pool!Finish(c) PROVE Same
  BY <1>0, <1>2 DEF Pool!Call, Pool!Finish, Pool!Send, Pool!WaitFor, Pool!Notify,
                    Pool!HelpOrReturn, Pool!RunTask, Pool!Asleep
<1>3. ASSUME Pool!SetDone \/ Pool!Destroy PROVE Same
  BY <1>0, <1>3 DEF Pool!SetDone, Pool!Destroy, Pool!SetStop, Pool!Drain, Pool!Join,
                    Pool!Asleep, Pool!Threads, PoolThreads
<1>4. ASSUME NEW w \in Workers, Pool!Exit(w) PROVE pNThreads' = Cardinality(Active')
  <2>1. pPc[w] = "exit" /\ pNThreads' = pNThreads - 1 /\ pPc' = [pPc EXCEPT ![w] = "leaving"]
    BY <1>4 DEF Pool!Exit
  <2>2. Active' = Active \ {w} /\ w \in Active
    BY <1>0, <2>1 DEF Active
  <2>3. IsFiniteSet(Active)
    BY PoolAssumption, FS_Subset DEF Active
  <2> QED
    BY <2>1, <2>2, <2>3, FS_RemoveElement DEF PoolCounts
<1>5. pNThreads' = Cardinality(Active')
  <2>1. CASE Same
    <3>1. Active' = Active
      BY <2>1 DEF Active
    <3> QED
      BY <2>1, <3>1 DEF PoolCounts
  <2> HIDE DEF Same
  <2> QED
    BY <1>1, <1>2, <1>3, <1>4, <2>1 DEF Pool!Next
<1>6. pDone' \in BOOLEAN /\ pStop' \in [Workers -> BOOLEAN] /\ pMutex' \in Workers \cup {Nobody}
  <2> USE DEF PoolCounts
  <2>1. ASSUME NEW w \in Workers, Pool!Work(w)
        PROVE  UNCHANGED <<pDone, pStop>> /\ pMutex' \in Workers \cup {Nobody}
    BY <2>1 DEF Pool!Work, Pool!TryPop, Pool!RunTask, Pool!CheckStop, Pool!LockWait,
                Pool!CheckWait, Pool!Sleep, Pool!Exit, Pool!Leave
  <2>2. ASSUME NEW c \in Callers, Pool!Call(c) \/ Pool!Finish(c)
        PROVE  UNCHANGED <<pDone, pStop, pMutex>>
    BY <2>2 DEF Pool!Call, Pool!Finish, Pool!Send, Pool!WaitFor, Pool!Notify,
                Pool!HelpOrReturn, Pool!RunTask
  <2>3. ASSUME Pool!SetDone \/ Pool!Drain \/ Pool!Join
        PROVE  UNCHANGED <<pStop, pMutex>> /\ pDone' \in BOOLEAN
    BY <2>3 DEF Pool!SetDone, Pool!Drain, Pool!Join
  <2>4. ASSUME NEW w \in Workers, Pool!SetStop(w)
        PROVE  UNCHANGED <<pDone, pMutex>> /\ pStop' \in [Workers -> BOOLEAN]
    BY <2>4 DEF Pool!SetStop
  <2> QED
    BY <2>1, <2>2, <2>3, <2>4 DEF Pool!Next, Pool!Destroy
<1> QED
  BY <1>5, <1>6 DEF PoolCounts

LEMMA PoolCountsInit == Init => PoolCounts
<1> SUFFICES ASSUME Init PROVE PoolCounts
  OBVIOUS
<1>1. Active = Workers
  BY DEF Init, Pool!Init, Pool!Threads, Active
<1>2. pNThreads = Cardinality(Workers)
  BY DEF Init, Pool!Init, Pool!Cardinality, Cardinality
<1>3. pDone \in BOOLEAN /\ pStop \in [Workers -> BOOLEAN] /\ pMutex \in Workers \cup {Nobody}
  BY DEF Init, Pool!Init
<1> QED
  BY <1>1, <1>2, <1>3 DEF PoolCounts

LEMMA PoolCountsNext == PoolInv /\ PoolCounts /\ [Next]_vars => PoolCounts'
<1> SUFFICES ASSUME PoolInv, PoolCounts, [Next]_vars PROVE PoolCounts'
  OBVIOUS
<1>1. CASE UNCHANGED poolVars
  BY <1>1 DEF poolVars, PoolCounts, Active
<1>2. Pool!Next \/ UNCHANGED poolVars
  BY DEF Next, Of, Others, vars
<1> QED
  BY <1>1, <1>2, ActiveStays

LEMMA PoolTypeOK ==
    ASSUME PoolInv, PoolCounts
    PROVE  Pool!TypeOK
<1>1. Cardinality(Active) \in 0 .. Cardinality(Workers)
  <2>1. IsFiniteSet(Workers) /\ Active \subseteq Workers
    BY PoolAssumption DEF Active
  <2> QED
    BY <2>1, FS_Subset, FS_CardinalityType
<1>2. pNThreads \in 0 .. Pool!Cardinality(Workers)
  BY <1>1 DEF PoolCounts, Pool!Cardinality, Cardinality
<1>3. pRuns \in [Tasks -> 0 .. 1]
  <2>1. \A x \in Tasks : pRuns[x] \in 0 .. 1
    BY DEF PoolInv, PoolTypes, PlaceInv
  <2> QED
    BY <2>1 DEF PoolInv, PoolTypes
<1> QED
  BY <1>2, <1>3 DEF Pool!TypeOK, PoolInv, PoolTypes, PoolCounts, Pool!Threads, PoolThreads

MineInv == bMine \in [Parties -> 0 .. Rounds]

LEMMA CycleBound ==
    ASSUME BarrierInv
    PROVE  bCycle \in 0 .. Rounds
<1>1. PICK t \in Parties : TRUE
  BY BarrierAssumption
<1>2. bEntered[t] \in 0 .. Rounds /\ bEntered[t] \in {bCycle, bCycle + 1} /\ bCycle \in Nat
  BY DEF BarrierInv
<1> QED
  BY <1>2, BarrierAssumption

LEMMA MineNext == BarrierInv /\ MineInv /\ [Next]_vars => MineInv'
<1> SUFFICES ASSUME BarrierInv, MineInv, [Next]_vars PROVE MineInv'
  OBVIOUS
<1>1. CASE TheBarrier!Next
  <2>1. \/ UNCHANGED bMine
        \/ \E t \in Parties : bMine' = [bMine EXCEPT ![t] = bCycle]
    BY <1>1 DEF TheBarrier!Next, TheBarrier!Go, TheBarrier!Wait, TheBarrier!Notify,
                TheBarrier!Recheck, TheBarrier!SpuriousWake
  <2> QED
    BY <2>1, CycleBound DEF MineInv
<1>2. CASE UNCHANGED barrierVars
  BY <1>2 DEF barrierVars, MineInv
<1>3. TheBarrier!Next \/ UNCHANGED barrierVars
  BY DEF Next, Of, Others, vars
<1> QED
  BY <1>1, <1>2, <1>3

LEMMA BarrierTypeOK ==
    ASSUME BarrierInv, MineInv
    PROVE  TheBarrier!TypeOK
<1>1. bCurrent \in 1 .. Cardinality(Parties)
  BY PartiesFinite, ArrivedFinite DEF BarrierInv
<1>2. bCurrent \in 1 .. TheBarrier!Cardinality(Parties)
  BY <1>1 DEF TheBarrier!Cardinality, Cardinality
<1>3. bLeft \in [Parties -> 0 .. Rounds]
  <2>1. \A t \in Parties : bLeft[t] \in 0 .. Rounds
    BY BarrierAssumption DEF BarrierInv
  <2> QED
    BY <2>1 DEF BarrierInv
<1> QED
  BY <1>2, <1>3, CycleBound DEF TheBarrier!TypeOK, BarrierInv, MineInv

\* Every variable of the five components keeps its type: the pool never counts
\* fewer than no threads or more than it has, the barrier's count stays between
\* one and the number of parties, and the queue of the object within its limit.
THEOREM ThreadsTypes == ASSUME GrowthIsSize PROVE Spec => []TypeOK
<1>1. Init => MineInv
  BY BarrierAssumption DEF Init, TheBarrier!Init, MineInv
<1>2. Init => ObjectInv /\ MemoryInv /\ JobsInv
  BY ObjectInit, MemoryInit, JobsInit DEF Init
<1>3. PoolInv /\ PoolCounts /\ BarrierInv /\ MineInv /\ ObjectInv /\ MemoryInv /\ JobsInv => TypeOK
  BY PoolTypeOK, BarrierTypeOK DEF TypeOK, ObjectInv, MemoryInv, JobsInv, JobTypes
<1>4. MemoryInv /\ [Next]_vars => MemoryInv'
  BY MemoryNext
<1> QED
  BY <1>1, <1>2, <1>3, <1>4, PoolInit, PoolNext, PoolCountsInit, PoolCountsNext, BarrierInit,
     BarrierNext, MineNext, ObjectNext, JobsKept, PTL DEF Spec
=============================================================================
