---------------------------- MODULE LockedQueue ----------------------------
(***************************************************************************)
(* stk::locked_queue: a bounded deque under a mutex, with a condition      *)
(* variable for consumers (m_empty) and one for producers (m_full).        *)
(*                                                                         *)
(* What a thread does between taking the mutex and giving it up (at its    *)
(* end, or by waiting) is one step.  A notification is sent after the      *)
(* mutex was released and is a step of its own.  A thread that was woken   *)
(* takes the mutex again and looks at the queue afresh.                    *)
(***************************************************************************)
EXTENDS Integers, Sequences, FiniteSets

CONSTANTS
    Producers,   \* threads that push
    Consumers,   \* threads that pop
    Pollers,     \* threads that make the calls that never wait
    MaxSize,     \* m_maxSize
    MaxItems     \* bound: items pushed in a behaviour

Threads == Producers \cup Consumers \cup Pollers

ASSUME QueueAssumption ==
    /\ IsFiniteSet(Threads)
    /\ MaxSize \in Nat \ {0}
    /\ MaxItems \in Nat

VARIABLES
    queue,     \* m_queue, of items numbered in the order of their creation
    made,      \* number of items created so far
    pc,        \* where each thread is
    item       \* the item that a thread pushes, 0 when it has none

vars == <<queue, made, pc, item>>

PCs == {"idle", "push", "pop", "waitFull", "waitEmpty", "notifyFull", "notifyEmpty"}

Init ==
    /\ queue = <<>>
    /\ made = 0
    /\ pc = [t \in Threads |-> "idle"]
    /\ item = [t \in Threads |-> 0]

GoTo(t, l) == pc' = [pc EXCEPT ![t] = l]

-----------------------------------------------------------------------------
(* Pushing. *)

Full == Len(queue) = MaxSize

\* Faulty: off by one.
PushNotifiesFaulty == Len(queue) = 1

\* A push notifies when the item it added is the only one.
PushNotifies == Len(queue) = 0

\* The end of push_or_wait_impl and try_push_impl.
PushBack(t, x) ==
    /\ queue' = Append(queue, x)
    /\ GoTo(t, IF PushNotifies THEN "notifyEmpty" ELSE "idle")

CallPushOrWait(t) ==
    /\ t \in Producers
    /\ pc[t] = "idle" /\ made < MaxItems
    /\ made' = made + 1
    /\ item' = [item EXCEPT ![t] = made + 1]
    /\ GoTo(t, "push")
    /\ UNCHANGED queue

\* Faulty: the size is tested once, before the wait.
MustWaitFaulty == FALSE

MustWait == Full

PushOrWait(t) ==
    /\ pc[t] = "push" /\ ~MustWait
    /\ PushBack(t, item[t])
    /\ item' = [item EXCEPT ![t] = 0]
    /\ UNCHANGED made

WaitFull(t) ==
    /\ pc[t] = "push" /\ MustWait
    /\ GoTo(t, "waitFull")
    /\ UNCHANGED <<queue, made, item>>

\* try_push on a full queue returns false and changes nothing.
TryPush(t) ==
    /\ t \in Pollers
    /\ pc[t] = "idle" /\ made < MaxItems
    /\ ~Full
    /\ made' = made + 1
    /\ PushBack(t, made + 1)
    /\ UNCHANGED item

-----------------------------------------------------------------------------
(* Popping. *)

\* Faulty: only the pop that finds the queue full notifies.
PopNotifiesFaulty(n) == n = MaxSize - 1

\* The size after the pop is compared with the capacity.
PopNotifies(n) == n < MaxSize

AfterPop(t) == GoTo(t, IF PopNotifies(Len(queue) - 1) THEN "notifyFull" ELSE "idle")

CallPopOrWait(t) ==
    /\ t \in Consumers
    /\ pc[t] = "idle"
    /\ GoTo(t, "pop")
    /\ UNCHANGED <<queue, made, item>>

PopOrWait(t) ==
    /\ pc[t] = "pop" /\ queue # <<>>
    /\ queue' = Tail(queue)
    /\ AfterPop(t)
    /\ UNCHANGED <<made, item>>

WaitEmpty(t) ==
    /\ pc[t] = "pop" /\ queue = <<>>
    /\ GoTo(t, "waitEmpty")
    /\ UNCHANGED <<queue, made, item>>

\* try_pop; on an empty queue it returns false and changes nothing.
TryPop(t) ==
    /\ t \in Pollers
    /\ pc[t] = "idle" /\ queue # <<>>
    /\ queue' = Tail(queue)
    /\ AfterPop(t)
    /\ UNCHANGED <<made, item>>

\* try_steal takes the newest item.
TrySteal(t) ==
    /\ t \in Pollers
    /\ pc[t] = "idle" /\ queue # <<>>
    /\ queue' = SubSeq(queue, 1, Len(queue) - 1)
    /\ AfterPop(t)
    /\ UNCHANGED <<made, item>>

-----------------------------------------------------------------------------
(* The condition variables. *)

Waiters(l) == {t \in Threads : pc[t] = l}

\* notify_one by t: one thread that waits at l, if there is one, goes to wake.
NotifyOne(t, l, wake) ==
    IF Waiters(l) = {}
      THEN GoTo(t, "idle")
      ELSE \E u \in Waiters(l) : pc' = [pc EXCEPT ![t] = "idle", ![u] = wake]

NotifyFull(t) ==
    /\ pc[t] = "notifyFull"
    /\ NotifyOne(t, "waitFull", "push")
    /\ UNCHANGED <<queue, made, item>>

NotifyEmpty(t) ==
    /\ pc[t] = "notifyEmpty"
    /\ NotifyOne(t, "waitEmpty", "pop")
    /\ UNCHANGED <<queue, made, item>>

\* A wait may end without a notification.
SpuriousWake(t) ==
    /\ \/ pc[t] = "waitFull" /\ GoTo(t, "push")
       \/ pc[t] = "waitEmpty" /\ GoTo(t, "pop")
    /\ UNCHANGED <<queue, made, item>>

-----------------------------------------------------------------------------
\* A call that is under way goes on.
Step(t) ==
    \/ PushOrWait(t) \/ WaitFull(t) \/ PopOrWait(t) \/ WaitEmpty(t)
    \/ NotifyFull(t) \/ NotifyEmpty(t)

Call(t) == CallPushOrWait(t) \/ TryPush(t) \/ CallPopOrWait(t) \/ TryPop(t) \/ TrySteal(t)

Next == \E t \in Threads : Step(t) \/ Call(t) \/ SpuriousWake(t)

Spec == Init /\ [][Next]_vars

(* The threads run.  Nobody is obliged to call, except that consumers come *)
(* back for more; nothing makes a wait end without a notification.         *)
FairSpec ==
    /\ Spec
    /\ \A t \in Threads : WF_vars(Step(t))
    /\ \A t \in Consumers : WF_vars(CallPopOrWait(t))

-----------------------------------------------------------------------------
(* Properties. *)

Items == 1 .. MaxItems

\* The type of every variable; the queue never exceeds its capacity.
TypeOK ==
    /\ queue \in Seq(Items) /\ Len(queue) <= MaxSize
    /\ made \in 0 .. MaxItems
    /\ pc \in [Threads -> PCs]
    /\ item \in [Threads -> 0 .. MaxItems]

\* A producer does not sleep beside free places: for each of them a thread
\* is about to notify m_full or a producer was woken and has not looked yet.
ProducersWake ==
    Waiters("waitFull") # {}
      => MaxSize - Len(queue)
           <= Cardinality(Waiters("notifyFull")) + Cardinality(Waiters("push"))

\* "If the Q is empty, it blocks until an element is available": a consumer
\* does not sleep beside an item, unless a thread is about to notify m_empty or
\* another consumer was woken.
ConsumersWake ==
    Waiters("waitEmpty") # {} /\ queue # <<>>
      => Waiters("notifyEmpty") # {} \/ Waiters("pop") # {}

\* A producer that waits for room gets its item in, as long as consumers pop.
PushReturns == \A t \in Producers : pc[t] = "push" ~> item[t] = 0

\* Every item that is pushed leaves the queue.
ItemsLeave ==
    \A x \in Items :
        (\E i \in DOMAIN queue : queue[i] = x) ~> ~(\E i \in DOMAIN queue : queue[i] = x)
=============================================================================
