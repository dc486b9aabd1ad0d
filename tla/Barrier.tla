------------------------------- MODULE Barrier -------------------------------
(***************************************************************************)
(* barrier: threads that call wait() again and again.  The counts of the   *)
(* calls are history variables; the cycle is compared for equality only,   *)
(* so it is a count that never wraps here.                                 *)
(***************************************************************************)
EXTENDS Integers, FiniteSets

CONSTANTS
    Threads,     \* as many as initial_
    Rounds       \* bound: how often each thread calls wait

VARIABLES
    current,     \* current_
    cycle,       \* cycle_
    pc,          \* where each thread is
    mine,        \* the local copy of the cycle
    entered,     \* history: how often each thread has called wait
    left         \* history: how often it has returned

vars == <<current, cycle, pc, mine, entered, left>>

Init ==
    /\ current = Cardinality(Threads)
    /\ cycle = 0
    /\ pc = [t \in Threads |-> "out"]
    /\ mine = [t \in Threads |-> 0]
    /\ entered = [t \in Threads |-> 0]
    /\ left = [t \in Threads |-> 0]

\* Faulty: the count is not set for the next cycle.
ResetFaulty == 0

\* current_ = initial_
Reset == Cardinality(Threads)

\* Faulty: the cycle is not counted.
NextCycleFaulty == cycle

NextCycle == cycle + 1

\* The critical section of wait: the last thread opens the next cycle and goes
\* on to notify the others, after it has released the mutex.
Wait(t) ==
    /\ pc[t] = "out" /\ entered[t] < Rounds
    /\ entered' = [entered EXCEPT ![t] = @ + 1]
    /\ mine' = [mine EXCEPT ![t] = cycle]
    /\ IF current = 1
         THEN /\ cycle' = NextCycle
              /\ current' = Reset
              /\ pc' = [pc EXCEPT ![t] = "notify"]
         ELSE /\ current' = current - 1
              /\ pc' = [pc EXCEPT ![t] = "asleep"]
              /\ UNCHANGED cycle
    /\ UNCHANGED left

Return(t) == left' = [left EXCEPT ![t] = @ + 1]

\* notify_all wakes the threads of this cycle and those of the next alike.
Notify(t) ==
    /\ pc[t] = "notify"
    /\ pc' = [u \in Threads |-> IF u = t THEN "out" ELSE IF pc[u] = "asleep" THEN "woken" ELSE pc[u]]
    /\ Return(t)
    /\ UNCHANGED <<current, cycle, mine, entered>>

\* Faulty: a thread that was woken returns.
PassedFaulty(t) == TRUE

\* The predicate of the wait.
Passed(t) == mine[t] # cycle

\* A thread that was notified, or woken spuriously, looks at the cycle.
Recheck(t) ==
    /\ pc[t] = "woken"
    /\ IF Passed(t) THEN pc' = [pc EXCEPT ![t] = "out"] /\ Return(t)
                    ELSE pc' = [pc EXCEPT ![t] = "asleep"] /\ UNCHANGED left
    /\ UNCHANGED <<current, cycle, mine, entered>>

SpuriousWake(t) ==
    /\ pc[t] = "asleep"
    /\ pc' = [pc EXCEPT ![t] = "woken"]
    /\ UNCHANGED <<current, cycle, mine, entered, left>>

Go(t) == Wait(t) \/ Notify(t) \/ Recheck(t)

Next == \E t \in Threads : Go(t) \/ SpuriousWake(t)

Spec == Init /\ [][Next]_vars

-----------------------------------------------------------------------------
(* Properties. *)

\* The type of every variable.
TypeOK ==
    /\ current \in 1 .. Cardinality(Threads)
    /\ cycle \in 0 .. Rounds
    /\ pc \in [Threads -> {"out", "asleep", "notify", "woken"}]
    /\ mine \in [Threads -> 0 .. Rounds]
    /\ entered \in [Threads -> 0 .. Rounds] /\ left \in [Threads -> 0 .. Rounds]

\* Nobody leaves its n-th wait before everybody has entered its own n-th, also
\* when a fast thread is in the next cycle while the others are still woken.
NobodyLeavesEarly == \A t, u \in Threads : left[t] <= entered[u]

\* When every thread keeps calling wait, every call returns: a notification
\* that reaches a thread of the next cycle, or comes late, does no harm.
BarrierPasses == \A t \in Threads : pc[t] # "out" ~> pc[t] = "out"
=============================================================================
