------------------------- MODULE LockedQueueProofs -------------------------
(***************************************************************************)
(* Proofs about LockedQueue, for any numbers of threads, any capacity and  *)
(* any number of items.                                                    *)
(***************************************************************************)
EXTENDS LockedQueue, FiniteSetTheorems, TLAPS

\* A thread that is inside push_or_wait has an item; only consumers wait for
\* one.
CallInv ==
    \A t \in Threads :
        /\ pc[t] \in {"push", "waitFull"} => item[t] \in Items
        /\ pc[t] \in {"pop", "waitEmpty"} => t \in Consumers

TypeInv == TypeOK /\ CallInv

-----------------------------------------------------------------------------
(* Types. *)

LEMMA InitType == Init => TypeInv
  BY QueueAssumption DEF Init, TypeInv, TypeOK, CallInv, PCs, Items

\* A notification moves the thread that sends it and at most one other, which
\* waited there.
LEMMA NotifyMoves ==
    ASSUME TypeOK, NEW t \in Threads, NEW l \in PCs, NEW wake \in PCs, NotifyOne(t, l, wake)
    PROVE  /\ pc' \in [Threads -> PCs]
           /\ \A u \in Threads : u # t => pc'[u] = pc[u] \/ (pc[u] = l /\ pc'[u] = wake)
           /\ pc'[t] \in {"idle", wake}
           /\ pc[t] # l => pc'[t] = "idle"
  BY DEF NotifyOne, Waiters, GoTo, TypeOK, PCs

LEMMA NextType == TypeInv /\ [Next]_vars => TypeInv'
<1> SUFFICES ASSUME TypeInv, [Next]_vars PROVE TypeInv'
  OBVIOUS
<1> USE QueueAssumption DEF TypeInv, TypeOK, CallInv, Items, PCs
<1>0. \A n \in Nat, s \in Seq(Items) :
         Len(s) = n => /\ s # <<>> => /\ Tail(s) \in Seq(Items) /\ Len(Tail(s)) = n - 1
                                      /\ SubSeq(s, 1, n - 1) \in Seq(Items)
                                      /\ Len(SubSeq(s, 1, n - 1)) = n - 1
                       /\ \A x \in Items : Append(s, x) \in Seq(Items) /\ Len(Append(s, x)) = n + 1
  OBVIOUS
<1>1. ASSUME NEW t \in Threads, CallPushOrWait(t) PROVE TypeInv'
  BY <1>1 DEF CallPushOrWait, GoTo
<1>2. ASSUME NEW t \in Threads, PushOrWait(t) PROVE TypeInv'
  BY <1>2, <1>0 DEF PushOrWait, PushBack, MustWait, Full, GoTo
<1>3. ASSUME NEW t \in Threads, WaitFull(t) PROVE TypeInv'
  BY <1>3 DEF WaitFull, GoTo
<1>4. ASSUME NEW t \in Threads, TryPush(t) PROVE TypeInv'
  BY <1>4, <1>0 DEF TryPush, PushBack, Full, GoTo
<1>5. ASSUME NEW t \in Threads, CallPopOrWait(t) PROVE TypeInv'
  BY <1>5 DEF CallPopOrWait, GoTo
<1>6. ASSUME NEW t \in Threads, PopOrWait(t) PROVE TypeInv'
  BY <1>6, <1>0 DEF PopOrWait, AfterPop, GoTo
<1>7. ASSUME NEW t \in Threads, WaitEmpty(t) PROVE TypeInv'
  BY <1>7 DEF WaitEmpty, GoTo
<1>8. ASSUME NEW t \in Threads, TryPop(t) PROVE TypeInv'
  BY <1>8, <1>0 DEF TryPop, AfterPop, GoTo
<1>12. ASSUME NEW t \in Threads, TrySteal(t) PROVE TypeInv'
  BY <1>12, <1>0 DEF TrySteal, AfterPop, GoTo
<1>9. ASSUME NEW t \in Threads, NotifyFull(t) \/ NotifyEmpty(t) PROVE TypeInv'
  BY <1>9, NotifyMoves DEF NotifyFull, NotifyEmpty
<1>10. ASSUME NEW t \in Threads, SpuriousWake(t) PROVE TypeInv'
  BY <1>10 DEF SpuriousWake, GoTo
<1>11. CASE UNCHANGED vars
  BY <1>11 DEF vars
<1> QED
  BY <1>1, <1>2, <1>3, <1>4, <1>5, <1>6, <1>7, <1>8, <1>9, <1>10, <1>11, <1>12 DEF Next, Step, Call

LEMMA SpecType == Spec => []TypeInv
  BY InitType, NextType, PTL DEF Spec

\* The variables keep their types and the queue never exceeds its capacity,
\* however the threads are woken: every push looks at the size once more.
THEOREM QueueTypeCorrect == Spec => []TypeOK
  BY SpecType, PTL DEF TypeInv

-----------------------------------------------------------------------------
(* m_full: the promise of places to the producers that sleep.              *)

\* The threads that are about to wake a producer, or are producers that will
\* look at the queue: each stands for one free place.
Bound == {"notifyFull", "push"}

Helpers(f) == {t \in Threads : f[t] \in Bound}

Weight(l) == IF l \in Bound THEN 1 ELSE 0

Sleepers(f) == {t \in Threads : f[t] = "waitFull"}

Promise(f, n) == Sleepers(f) # {} => MaxSize - n <= Cardinality(Helpers(f))

LEMMA HelpersType ==
    ASSUME NEW f
    PROVE  IsFiniteSet(Helpers(f)) /\ Cardinality(Helpers(f)) \in Nat
  BY QueueAssumption, FS_Subset, FS_CardinalityType, Helpers(f) \subseteq Threads DEF Helpers

LEMMA HelpersSum ==
    ASSUME NEW f
    PROVE  Cardinality(Helpers(f)) = Cardinality({t \in Threads : f[t] = "notifyFull"})
                                       + Cardinality({t \in Threads : f[t] = "push"})
<1> DEFINE S == {t \in Threads : f[t] = "notifyFull"}
           T == {t \in Threads : f[t] = "push"}
<1>1. IsFiniteSet(S) /\ IsFiniteSet(T)
  BY QueueAssumption, FS_Subset, S \subseteq Threads, T \subseteq Threads
<1>2. Helpers(f) = S \cup T /\ S \cap T = {}
  BY DEF Helpers, Bound
<1> HIDE DEF S, T
<1>3. Cardinality(S \cup T) = Cardinality(S) + Cardinality(T) - Cardinality({})
  BY <1>1, <1>2, FS_Union
<1>4. Cardinality(S) \in Nat /\ Cardinality(T) \in Nat /\ Cardinality({}) = 0
  BY <1>1, FS_CardinalityType, FS_EmptySet
<1>5. Cardinality(Helpers(f)) = Cardinality(S) + Cardinality(T)
  BY <1>2, <1>3, <1>4
<1> QED
  BY <1>5 DEF S, T

LEMMA PromiseIs ==
    /\ ProducersWake <=> Promise(pc, Len(queue))
    /\ ProducersWake' <=> Promise(pc', Len(queue'))
<1>1. ProducersWake <=> Promise(pc, Len(queue))
  BY HelpersSum DEF ProducersWake, Promise, Sleepers, Waiters
<1>2. ProducersWake' <=> Promise(pc', Len(queue'))
  BY HelpersSum DEF ProducersWake, Promise, Sleepers, Waiters
<1> QED
  BY <1>1, <1>2

\* What the move of one thread changes.
LEMMA HelpersMove ==
    ASSUME NEW f \in [Threads -> PCs], NEW t \in Threads, NEW l \in PCs,
           NEW g, g = [f EXCEPT ![t] = l]
    PROVE  Cardinality(Helpers(g)) = Cardinality(Helpers(f))
             + Weight(l) - Weight(f[t])
<1>1. IsFiniteSet(Helpers(f)) /\ Cardinality(Helpers(f)) \in Nat
  BY HelpersType
<1>2. CASE f[t] \in Bound <=> l \in Bound
  <2>1. Helpers(g) = Helpers(f)
    BY <1>2 DEF Helpers
  <2> QED
    BY <2>1, <1>1, <1>2 DEF Weight
<1>3. CASE f[t] \notin Bound /\ l \in Bound
  <2>1. Helpers(g) = Helpers(f) \cup {t} /\ t \notin Helpers(f)
    BY <1>3 DEF Helpers
  <2>2. Cardinality(Helpers(g)) = Cardinality(Helpers(f)) + 1
    BY <2>1, <1>1, FS_AddElement
  <2> QED
    BY <2>2, <1>1, <1>3 DEF Weight
<1>4. CASE f[t] \in Bound /\ l \notin Bound
  <2>1. Helpers(g) = Helpers(f) \ {t} /\ t \in Helpers(f)
    BY <1>4 DEF Helpers
  <2>2. Cardinality(Helpers(g)) = Cardinality(Helpers(f)) - 1
    BY <2>1, <1>1, FS_RemoveElement
  <2> QED
    BY <2>2, <1>1, <1>4 DEF Weight
<1> QED
  BY <1>2, <1>3, <1>4

\* Such a move keeps the promise when no thread lies down beside a place, and a
\* helper that is lost has filled one.
LEMMA MoveKeepsPromise ==
    ASSUME TypeOK, NEW t \in Threads, NEW l \in PCs, NEW n \in Nat,
           Promise(pc, Len(queue)), pc' = [pc EXCEPT ![t] = l],
           l = "waitFull" => n = MaxSize,
           l # "waitFull" => n - Len(queue) >= Weight(pc[t]) - Weight(l)
    PROVE  Promise(pc', n)
<1>1. pc \in [Threads -> PCs] /\ Len(queue) \in Nat /\ MaxSize \in Nat
  BY QueueAssumption DEF TypeOK
<1>2. Cardinality(Helpers(pc)) \in Nat /\ Cardinality(Helpers(pc')) \in Nat
  BY HelpersType
<1>3. Cardinality(Helpers(pc')) = Cardinality(Helpers(pc))
             + Weight(l) - Weight(pc[t])
  BY <1>1, HelpersMove
<1>7. Weight(l) \in Int /\ Weight(pc[t]) \in Int
  BY DEF Weight
<1>4. l # "waitFull" /\ Sleepers(pc') # {} => Sleepers(pc) # {}
  BY <1>1 DEF Sleepers
<1>5. CASE l = "waitFull"
  BY <1>1, <1>2, <1>5 DEF Promise
<1>6. CASE l # "waitFull"
  <2>2. ASSUME Sleepers(pc') # {} PROVE MaxSize - n <= Cardinality(Helpers(pc'))
    <3>1. Sleepers(pc) # {}
      BY <1>4, <1>6, <2>2
    <3>2. MaxSize - Len(queue) <= Cardinality(Helpers(pc))
      BY <3>1 DEF Promise
    <3>3. n - Len(queue) >= Weight(pc[t]) - Weight(l)
      BY <1>6
    <3> QED
      BY <1>1, <1>2, <1>3, <1>7, <3>2, <3>3
  <2>1. MaxSize - n <= Cardinality(Helpers(pc')) \/ Sleepers(pc') = {}
    BY <2>2
  <2> QED
    BY <2>1 DEF Promise
<1> QED
  BY <1>5, <1>6

LEMMA NotifyKeepsPromise ==
    ASSUME TypeOK, NEW t \in Threads, pc[t] = "notifyFull", Promise(pc, Len(queue)),
           NotifyOne(t, "waitFull", "push")
    PROVE  Promise(pc', Len(queue))
<1>1. pc \in [Threads -> PCs] /\ "idle" \in PCs /\ "push" \in PCs
  BY DEF TypeOK, PCs
<1>2. CASE Sleepers(pc) = {}
  <2>1. Sleepers(pc') = {}
    BY <1>1, <1>2 DEF NotifyOne, GoTo, Waiters, Sleepers
  <2> QED
    BY <2>1 DEF Promise
<1>3. CASE Sleepers(pc) # {}
  <2>1. PICK u \in Threads : /\ pc[u] = "waitFull"
                             /\ pc' = [pc EXCEPT ![t] = "idle", ![u] = "push"]
    BY <1>3 DEF NotifyOne, Waiters, Sleepers
  <2> DEFINE mid == [pc EXCEPT ![t] = "idle"]
  <2>2. mid \in [Threads -> PCs] /\ mid[u] = "waitFull" /\ pc' = [mid EXCEPT ![u] = "push"]
    BY <1>1, <2>1
  <2>3. Cardinality(Helpers(mid)) = Cardinality(Helpers(pc)) + 0 - 1
    BY <1>1, HelpersMove DEF Bound, Weight
  <2> HIDE DEF mid
  <2>4. Cardinality(Helpers(pc')) = Cardinality(Helpers(mid)) + 1 - 0
    BY <1>1, <2>2, HelpersMove DEF Bound, Weight
  <2>5. Cardinality(Helpers(pc)) \in Nat /\ Cardinality(Helpers(mid)) \in Nat
    BY HelpersType
  <2>6. Cardinality(Helpers(pc')) = Cardinality(Helpers(pc))
    BY <2>3, <2>4, <2>5
  <2> QED
    BY <1>3, <2>6 DEF Promise
<1> QED
  BY <1>2, <1>3

LEMMA NextPromise == TypeInv /\ ProducersWake /\ [Next]_vars => ProducersWake'
<1> SUFFICES ASSUME TypeInv, Promise(pc, Len(queue)), [Next]_vars
             PROVE  Promise(pc', Len(queue'))
  BY PromiseIs
<1>0. /\ TypeOK /\ queue \in Seq(Items) /\ Len(queue) \in Nat /\ Len(queue) <= MaxSize
      /\ MaxSize \in Nat /\ Len(queue)' \in Nat
  BY NextType, QueueAssumption DEF TypeInv, TypeOK
<1> USE DEF GoTo
<1>1. ASSUME NEW t \in Threads, CallPushOrWait(t) \/ CallPopOrWait(t) PROVE Promise(pc', Len(queue'))
  <2>1. PICK l \in {"push", "pop"} : pc' = [pc EXCEPT ![t] = l] /\ pc[t] = "idle" /\ queue' = queue
    BY <1>1 DEF CallPushOrWait, CallPopOrWait
  <2>2. l \in PCs /\ l # "waitFull" /\ Len(queue') - Len(queue) >= Weight(pc[t]) - Weight(l)
    BY <1>0, <2>1 DEF Weight, Bound, PCs
  <2> QED
    BY <1>0, <2>1, <2>2, MoveKeepsPromise
<1>2. ASSUME NEW t \in Threads, PushOrWait(t) \/ TryPush(t) PROVE Promise(pc', Len(queue'))
  <2>1. PICK l \in {"notifyEmpty", "idle"} : pc' = [pc EXCEPT ![t] = l] /\ pc[t] \in {"push", "idle"}
    BY <1>2 DEF PushOrWait, TryPush, PushBack
  <2>2. Len(queue') = Len(queue) + 1
    BY <1>2, <1>0 DEF PushOrWait, TryPush, PushBack, TypeInv, CallInv
  <2>3. l \in PCs /\ l # "waitFull" /\ Len(queue') - Len(queue) >= Weight(pc[t]) - Weight(l)
    BY <1>0, <2>1, <2>2 DEF Weight, Bound, PCs
  <2> QED
    BY <1>0, <2>1, <2>3, MoveKeepsPromise
<1>3. ASSUME NEW t \in Threads, WaitFull(t) PROVE Promise(pc', Len(queue'))
  <2>1. pc' = [pc EXCEPT ![t] = "waitFull"] /\ Len(queue') = MaxSize /\ "waitFull" \in PCs
    BY <1>3 DEF WaitFull, MustWait, Full, PCs
  <2> QED
    BY <1>0, <2>1, MoveKeepsPromise
<1>4. ASSUME NEW t \in Threads, PopOrWait(t) \/ TryPop(t) \/ TrySteal(t)
      PROVE  Promise(pc', Len(queue'))
  <2>1. Len(queue') = Len(queue) - 1 /\ Len(queue) > 0
    BY <1>0, <1>4 DEF PopOrWait, TryPop, TrySteal
  <2>2. pc' = [pc EXCEPT ![t] = "notifyFull"] /\ pc[t] \in {"pop", "idle"}
    BY <1>0, <1>4, <2>1 DEF PopOrWait, TryPop, TrySteal, AfterPop, PopNotifies
  <2>3. /\ "notifyFull" \in PCs /\ "notifyFull" # "waitFull"
        /\ Len(queue') - Len(queue) >= Weight(pc[t]) - Weight("notifyFull")
    BY <1>0, <2>1, <2>2 DEF Weight, Bound, PCs
  <2> QED
    BY <1>0, <2>2, <2>3, MoveKeepsPromise
<1>5. ASSUME NEW t \in Threads, WaitEmpty(t) PROVE Promise(pc', Len(queue'))
  <2>1. pc' = [pc EXCEPT ![t] = "waitEmpty"] /\ pc[t] = "pop" /\ queue' = queue
    BY <1>5 DEF WaitEmpty
  <2>2. /\ "waitEmpty" \in PCs /\ "waitEmpty" # "waitFull"
        /\ Len(queue') - Len(queue) >= Weight(pc[t]) - Weight("waitEmpty")
    BY <1>0, <2>1 DEF Weight, Bound, PCs
  <2> QED
    BY <1>0, <2>1, <2>2, MoveKeepsPromise
<1>6. ASSUME NEW t \in Threads, NotifyFull(t) PROVE Promise(pc', Len(queue'))
  BY <1>0, <1>6, NotifyKeepsPromise DEF NotifyFull
<1>7. ASSUME NEW t \in Threads, NotifyEmpty(t) PROVE Promise(pc', Len(queue'))
  <2>1. pc[t] = "notifyEmpty" /\ queue' = queue
    BY <1>7 DEF NotifyEmpty
  <2> DEFINE mid == [pc EXCEPT ![t] = "idle"]
  <2>2. pc' = mid \/ \E u \in Threads : u # t /\ pc[u] = "waitEmpty" /\ pc' = [mid EXCEPT ![u] = "pop"]
    BY <1>7 DEF NotifyEmpty, NotifyOne, Waiters
  <2>3. Sleepers(pc') = Sleepers(pc) /\ Helpers(pc') = Helpers(pc)
    BY <1>0, <2>1, <2>2 DEF Sleepers, Helpers, Bound, TypeOK
  <2> QED
    BY <2>1, <2>3 DEF Promise
<1>8. ASSUME NEW t \in Threads, SpuriousWake(t) PROVE Promise(pc', Len(queue'))
  <2>1. PICK l \in {"push", "pop"} : /\ pc' = [pc EXCEPT ![t] = l] /\ queue' = queue
                                     /\ pc[t] \in {"waitFull", "waitEmpty"}
    BY <1>8 DEF SpuriousWake
  <2>2. l \in PCs /\ l # "waitFull" /\ Len(queue') - Len(queue) >= Weight(pc[t]) - Weight(l)
    BY <1>0, <2>1 DEF Weight, Bound, PCs
  <2> QED
    BY <1>0, <2>1, <2>2, MoveKeepsPromise
<1>9. CASE UNCHANGED vars
  BY <1>9 DEF vars
<1> QED
  BY <1>1, <1>2, <1>3, <1>4, <1>5, <1>6, <1>7, <1>8, <1>9 DEF Next, Step, Call

\* However many producers and consumers there are, no producer sleeps in
\* push_or_wait beside a free place that nobody has promised to it: a pop always
\* notifies m_full, and a producer that was woken fills the place itself.
THEOREM ProducersNeverStranded == Spec => []ProducersWake
<1>1. Init => ProducersWake
  BY DEF Init, ProducersWake, Waiters
<1> QED
  BY <1>1, SpecType, NextPromise, PTL DEF Spec

-----------------------------------------------------------------------------
(* m_empty: what a single consumer may rely on.                            *)

OneConsumer == \A k, l \in Consumers : k = l

LEMMA NextConsumer ==
    ASSUME OneConsumer
    PROVE  TypeInv /\ ConsumersWake /\ [Next]_vars => ConsumersWake'
<1> SUFFICES ASSUME TypeInv, ConsumersWake, [Next]_vars,
                    NEW k \in Threads, pc'[k] = "waitEmpty", queue' # <<>>
             PROVE  Waiters("notifyEmpty")' # {} \/ Waiters("pop")' # {}
  BY DEF ConsumersWake, Waiters
<1>0. /\ pc \in [Threads -> PCs] /\ queue \in Seq(Items) /\ k \in Consumers
      /\ pc' \in [Threads -> PCs]
  BY NextType DEF TypeInv, TypeOK, CallInv
<1>1. \A t \in Threads : pc[t] \in {"pop", "waitEmpty"} => t = k
  BY <1>0 DEF OneConsumer, TypeInv, CallInv
<1> DEFINE Told == \E t \in Threads : pc[t] = "notifyEmpty"
           Told1 == \E t \in Threads : pc'[t] = "notifyEmpty"
<1> SUFFICES Told1
  BY DEF Waiters
<1>2. pc[k] = "waitEmpty" /\ queue # <<>> => Told
  BY <1>1 DEF ConsumersWake, Waiters
<1> USE DEF PCs, GoTo
<1>3. ASSUME NEW t \in Threads, CallPushOrWait(t) \/ CallPopOrWait(t) \/ WaitFull(t) PROVE Told1
  BY <1>0, <1>2, <1>3 DEF CallPushOrWait, CallPopOrWait, WaitFull
<1>4. ASSUME NEW t \in Threads, PushOrWait(t) \/ TryPush(t) PROVE Told1
  <2>1. PICK l \in PCs : /\ pc' = [pc EXCEPT ![t] = l] /\ pc[t] \in {"push", "idle"}
                         /\ queue = <<>> => l = "notifyEmpty"
                         /\ l \in {"notifyEmpty", "idle"}
    BY <1>0, <1>4 DEF PushOrWait, TryPush, PushBack, PushNotifies
  <2>2. t # k /\ pc[k] = "waitEmpty"
    BY <1>0, <2>1
  <2> QED
    BY <1>0, <1>2, <2>1, <2>2
<1>5. ASSUME NEW t \in Threads, PopOrWait(t) \/ TryPop(t) \/ TrySteal(t) PROVE Told1
  <2>1. PICK l \in {"notifyFull", "idle"} : pc' = [pc EXCEPT ![t] = l] /\ pc[t] \in {"pop", "idle"}
    BY <1>0, <1>5 DEF PopOrWait, TryPop, TrySteal, AfterPop
  <2>2. queue # <<>>
    BY <1>5 DEF PopOrWait, TryPop, TrySteal
  <2> QED
    BY <1>0, <1>2, <2>1, <2>2
<1>6. ASSUME NEW t \in Threads, WaitEmpty(t) PROVE Told1
  BY <1>6 DEF WaitEmpty
<1>7. ASSUME NEW t \in Threads, NotifyFull(t) PROVE Told1
  <2>1. \A u \in Threads : pc[u] = "notifyEmpty" => pc'[u] = "notifyEmpty"
    BY <1>0, <1>7 DEF NotifyFull, NotifyOne, Waiters
  <2>2. pc[k] = "waitEmpty" /\ queue' = queue
    BY <1>0, <1>7 DEF NotifyFull, NotifyOne, Waiters
  <2> QED
    BY <1>2, <2>1, <2>2
<1>8. ASSUME NEW t \in Threads, NotifyEmpty(t) PROVE Told1
  <2>1. CASE Waiters("waitEmpty") = {}
    BY <1>0, <1>8, <2>1 DEF NotifyEmpty, NotifyOne, Waiters
  <2>2. CASE Waiters("waitEmpty") # {}
    <3>1. PICK u \in Threads : /\ pc[u] = "waitEmpty"
                               /\ pc' = [pc EXCEPT ![t] = "idle", ![u] = "pop"]
      BY <1>8, <2>2 DEF NotifyEmpty, NotifyOne, Waiters
    <3> QED
      BY <1>0, <1>1, <3>1
  <2> QED
    BY <2>1, <2>2
<1>9. ASSUME NEW t \in Threads, SpuriousWake(t) PROVE Told1
  BY <1>0, <1>2, <1>9 DEF SpuriousWake
<1>10. CASE UNCHANGED vars
  BY <1>2, <1>10 DEF vars
<1> QED
  BY <1>3, <1>4, <1>5, <1>6, <1>7, <1>8, <1>9, <1>10 DEF Next, Step, Call

\* With one consumer, the consumer does not sleep in
\* pop_or_wait beside an item unless somebody is about to notify m_empty.  With
\* two it may, since a push notifies only when the queue was empty.
THEOREM OneConsumerNeverStranded == ASSUME OneConsumer PROVE Spec => []ConsumersWake
<1>1. Init => ConsumersWake
  BY DEF Init, ConsumersWake
<1> QED
  BY <1>1, SpecType, NextConsumer, PTL DEF Spec
=============================================================================
