-------------------------- MODULE ContainersProofs --------------------------
(***************************************************************************)
(* What is proved of the containers side by side: the contracts of the     *)
(* bounded queue and of the reclaimer follow from the proofs about their   *)
(* own modules; those of concurrent_vector and of partition_work are       *)
(* proved here.                                                            *)
(***************************************************************************)
EXTENDS ContainersMC, SequenceTheorems, FiniteSetTheorems, TLAPS

-----------------------------------------------------------------------------
(* The bounded queue.                                                      *)

QP == INSTANCE VyukovQueueProofs WITH
    sequence <- qSequence, data <- qData, enqueuePos <- qEnqueuePos,
    dequeuePos <- qDequeuePos, pc <- qPc, pos <- qPos, val <- qVal, claimed <- qClaimed,
    Values <- Items, NoValue <- Nothing

LEMMA IsQueue == Spec => QP!Spec
<1>1. Init => QP!Init
  BY DEF Init, Queue!Init, QP!Init, Queue!Cells, QP!Cells
<1>2. Queue!Next <=> QP!Next
  BY DEF Queue!Next, Queue!Push, Queue!Pop, Queue!TryPush, Queue!PushSequence, Queue!PushCas,
         Queue!PushLoad, Queue!PushData, Queue!PushPublish, Queue!TryPop, Queue!PopSequence,
         Queue!PopCas, Queue!PopLoad, Queue!PopData, Queue!PopPublish, Queue!ReturnFalse,
         Queue!Goto, Queue!AfterSequence, Queue!Fresh, Queue!PushDif, Queue!Released,
         Queue!Cell, Queue!Pushing,
         QP!Next, QP!Push, QP!Pop, QP!TryPush, QP!PushSequence, QP!PushCas, QP!PushLoad,
         QP!PushData, QP!PushPublish, QP!TryPop, QP!PopSequence, QP!PopCas, QP!PopLoad,
         QP!PopData, QP!PopPublish, QP!ReturnFalse, QP!Goto, QP!AfterSequence, QP!Fresh,
         QP!PushDif, QP!Released, QP!Cell, QP!Pushing
<1>3. [Next]_vars => [QP!Next]_(QP!vars)
  <2>1. Next => Queue!Next \/ UNCHANGED queueVars
    BY DEF Next, Of, Others
  <2>2. UNCHANGED vars => UNCHANGED queueVars
    BY DEF vars
  <2>3. UNCHANGED queueVars => UNCHANGED QP!vars
    BY DEF queueVars, QP!vars
  <2> QED
    BY <1>2, <2>1, <2>2, <2>3
<1> QED
  BY <1>1, <1>3, PTL DEF Spec, QP!Spec

\* vyukov_mpmc_bounded_queue keeps its contract, for every capacity and any
\* number of threads and values.
THEOREM QueueKeepsContract == Spec => QueueContract
<1>1. QP!CapacityAssumption
  BY QueueAssumption DEF Queue!CapacityAssumption, QP!CapacityAssumption
<1>2. QP!Spec => []QP!CellOwnedByOne
  BY <1>1, QP!CellsHaveOneOwner
<1>3. QP!Spec => []QP!PopsWhatWasPushed
  BY <1>1, QP!PopsGetTheirValue
<1>4. QP!Spec => QP!FailsOnlyWhenBlocked
  BY <1>1, QP!FailuresAreJustified
<1>5. QP!Spec => QP!ImplementsFifo
  BY <1>1, QP!QueueImplementsFifo
<1>6. QP!CellOwnedByOne <=> Queue!CellOwnedByOne
  BY DEF QP!CellOwnedByOne, Queue!CellOwnedByOne, QP!Cell, Queue!Cell
<1>7. QP!PopsWhatWasPushed <=> Queue!PopsWhatWasPushed
  BY DEF QP!PopsWhatWasPushed, Queue!PopsWhatWasPushed
<1>8. QP!FailsOnlyWhenBlocked <=> Queue!FailsOnlyWhenBlocked
  BY PTL DEF QP!FailsOnlyWhenBlocked, Queue!FailsOnlyWhenBlocked, QP!vars, Queue!vars
<1>9. QP!ImplementsFifo <=> Queue!ImplementsFifo
  <2>1. QP!Fifo!Init <=> Queue!Fifo!Init
    BY DEF QP!Fifo!Init, Queue!Fifo!Init
  <2>2. QP!Fifo!Next <=> Queue!Fifo!Next
    BY DEF QP!Fifo!Next, Queue!Fifo!Next, QP!Fifo!Enqueue, Queue!Fifo!Enqueue,
           QP!Fifo!Dequeue, Queue!Fifo!Dequeue
  <2> QED
    BY <2>1, <2>2, PTL DEF QP!ImplementsFifo, Queue!ImplementsFifo, QP!Fifo!Spec, Queue!Fifo!Spec
<1> QED
  BY IsQueue, <1>2, <1>3, <1>4, <1>5, <1>6, <1>7, <1>8, <1>9, PTL DEF QueueContract

-----------------------------------------------------------------------------
(* The reclaimer.                                                          *)

\* What the constants of the reclaimer are.
ReclaimerGiven ==
    /\ IsFiniteSet(Threads) /\ IsFiniteSet(Unlinkable)
    /\ Queues # {} /\ Nothing \notin Unlinkable

ReclaimerLocals ==
    [pc : {"out", "in", "enqueue", "added", "exchange", "run", "leave"},
     p : Queues \cup {Nothing}, node : Unlinkable \cup {Nothing}, held : SUBSET Unlinkable]

\* Types, and which local variables are in use where.
ShapeInv ==
    /\ rCurrent \in Queues /\ rStamp \in Nat
    /\ rPending \in [Queues -> SUBSET Unlinkable]
    /\ rLinked \in SUBSET Unlinkable /\ rFreed \in SUBSET Unlinkable
    /\ rTh \in [Threads -> ReclaimerLocals]
    /\ \A t \in Threads :
          /\ rTh[t].pc \in {"enqueue", "exchange", "run"} => rTh[t].p \in Queues
          /\ rTh[t].node = Nothing <=> rTh[t].pc # "enqueue"
          /\ rTh[t].held # {} => rTh[t].pc \in {"in", "enqueue", "added"}

\* The threads that are checked out, and those that add() checks out again.
Inside == {t \in Threads : rTh[t].pc # "out"}
Adding == {t \in Threads : rTh[t].pc \in {"enqueue", "added"}}

\* The stamp counts the checkouts.
CountInv == rStamp = Cardinality(Inside) + Cardinality(Adding)

\* What is queued is in the current queue, or in one that a thread runs.
QueueInv ==
    /\ Reclaimer!QueueOfOne
    /\ \A q \in Queues : rPending[q] # {} =>
          q = rCurrent \/ \E t \in Threads : rTh[t].pc = "run" /\ rTh[t].p = q

\* A node is in one place only, and nowhere else.
NodeInv ==
    \A n \in Unlinkable :
        /\ n \in rLinked => /\ n \notin rFreed
                            /\ \A q \in Queues : n \notin rPending[q]
                            /\ \A t \in Threads : rTh[t].node # n
        /\ n \in rFreed => /\ \A q \in Queues : n \notin rPending[q]
                           /\ \A t \in Threads : rTh[t].node # n
        /\ \A q \in Queues : n \in rPending[q] => /\ \A t \in Threads : rTh[t].node # n
                                                  /\ \A r \in Queues : n \in rPending[r] => r = q
        /\ \A t, u \in Threads : rTh[t].node = n /\ rTh[u].node = n => t = u
        /\ \/ n \in rLinked \/ n \in rFreed
           \/ \E q \in Queues : n \in rPending[q]
           \/ \E t \in Threads : rTh[t].node = n

\* Nobody holds a node that is freed or will be without another exchange.
HeldInv ==
    \A t \in Threads : \A n \in rTh[t].held :
        /\ n \notin rFreed
        /\ \A u \in Threads : rTh[u].pc = "run" => n \notin rPending[rTh[u].p]

\* Nothing is left behind by the destructor.
GoneInv == rDestroyed => Reclaimer!AllOut /\ \A q \in Queues : rPending[q] = {}

ReclaimerInv ==
    /\ ReclaimerGiven
    /\ ShapeInv /\ CountInv /\ QueueInv /\ NodeInv /\ HeldInv /\ GoneInv

-----------------------------------------------------------------------------
(* The count.                                                              *)

LEMMA Counts ==
    ASSUME ReclaimerGiven
    PROVE  /\ IsFiniteSet(Inside) /\ IsFiniteSet(Adding)
           /\ Cardinality(Inside) \in Nat /\ Cardinality(Adding) \in Nat
<1>1. Inside \in SUBSET Threads /\ Adding \in SUBSET Threads
  BY DEF Inside, Adding
<1>2. IsFiniteSet(Inside) /\ IsFiniteSet(Adding)
  BY <1>1, FS_Subset DEF ReclaimerGiven
<1> QED
  BY <1>2, FS_CardinalityType

\* A stamp of 1 means that the thread which reads it is alone.
LEMMA OneIsAlone ==
    ASSUME ReclaimerInv, rStamp = 1, NEW t \in Threads, rTh[t].pc # "out"
    PROVE  /\ \A u \in Threads : u # t => rTh[u].pc = "out"
           /\ rTh[t].pc \notin {"enqueue", "added"}
<1>1. /\ IsFiniteSet(Inside) /\ IsFiniteSet(Adding)
      /\ Cardinality(Inside) \in Nat /\ Cardinality(Adding) \in Nat
  BY Counts DEF ReclaimerInv
<1>2. Cardinality(Inside) + Cardinality(Adding) = 1
  BY DEF ReclaimerInv, CountInv
<1>3. t \in Inside
  BY DEF Inside
<1>4. IsFiniteSet(Inside \ {t}) /\ Cardinality(Inside \ {t}) = Cardinality(Inside) - 1
  BY <1>1, <1>3, FS_RemoveElement
<1>5. Cardinality(Inside \ {t}) \in Nat
  BY <1>4, FS_CardinalityType
<1>6. Cardinality(Inside \ {t}) = 0 /\ Cardinality(Adding) = 0
  BY <1>1, <1>2, <1>4, <1>5
<1>7. Inside \ {t} = {} /\ Adding = {}
  BY <1>1, <1>4, <1>6, FS_EmptySet
<1> QED
  BY <1>7 DEF Inside, Adding

\* A thread that checks out or leaves, and one that begins or ends add().
CheckedOut(t, r) ==
    /\ rTh' = [rTh EXCEPT ![t] = r]
    /\ \/ /\ rTh[t].pc = "out" /\ r.pc = "in" /\ rStamp' = rStamp + 1
       \/ /\ rTh[t].pc = "in" /\ r.pc = "enqueue" /\ rStamp' = rStamp + 1
       \/ /\ rTh[t].pc = "added" /\ r.pc = "in" /\ rStamp' = rStamp - 1
       \/ /\ rTh[t].pc = "leave" /\ r.pc = "out" /\ rStamp' = rStamp - 1

LEMMA CountStep ==
    ASSUME ReclaimerInv, NEW t \in Threads, NEW r, CheckedOut(t, r)
    PROVE  CountInv' /\ rStamp' \in Nat
<1> USE DEF CheckedOut
<1>0. rTh \in [Threads -> ReclaimerLocals] /\ rStamp \in Nat
  BY DEF ReclaimerInv, ShapeInv
<1>1. rTh'[t] = r /\ \A u \in Threads : u # t => rTh'[u] = rTh[u]
  BY <1>0
<1>2. /\ IsFiniteSet(Inside) /\ IsFiniteSet(Adding)
      /\ Cardinality(Inside) \in Nat /\ Cardinality(Adding) \in Nat
  BY Counts DEF ReclaimerInv
<1>3. rStamp = Cardinality(Inside) + Cardinality(Adding)
  BY DEF ReclaimerInv, CountInv
<1>4. CASE rTh[t].pc = "out" /\ r.pc = "in" /\ rStamp' = rStamp + 1
  <2>1. Inside' = Inside \cup {t} /\ Adding' = Adding /\ t \notin Inside
    BY <1>1, <1>4 DEF Inside, Adding
  <2>2. Cardinality(Inside') = Cardinality(Inside) + 1
    BY <1>2, <2>1, FS_AddElement
  <2> QED
    BY <1>2, <1>3, <1>4, <2>1, <2>2 DEF CountInv
<1>5. CASE rTh[t].pc = "in" /\ r.pc = "enqueue" /\ rStamp' = rStamp + 1
  <2>1. Adding' = Adding \cup {t} /\ Inside' = Inside /\ t \notin Adding
    BY <1>1, <1>5 DEF Inside, Adding
  <2>2. Cardinality(Adding') = Cardinality(Adding) + 1
    BY <1>2, <2>1, FS_AddElement
  <2> QED
    BY <1>2, <1>3, <1>5, <2>1, <2>2 DEF CountInv
<1>6. CASE rTh[t].pc = "added" /\ r.pc = "in" /\ rStamp' = rStamp - 1
  <2>1. Adding' = Adding \ {t} /\ Inside' = Inside /\ t \in Adding
    BY <1>1, <1>6 DEF Inside, Adding
  <2>2. Cardinality(Adding') = Cardinality(Adding) - 1 /\ IsFiniteSet(Adding')
    BY <1>2, <2>1, FS_RemoveElement
  <2>3. Cardinality(Adding') \in Nat
    BY <2>2, FS_CardinalityType
  <2> QED
    BY <1>2, <1>3, <1>6, <2>1, <2>2, <2>3 DEF CountInv
<1>7. CASE rTh[t].pc = "leave" /\ r.pc = "out" /\ rStamp' = rStamp - 1
  <2>1. Inside' = Inside \ {t} /\ Adding' = Adding /\ t \in Inside
    BY <1>1, <1>7 DEF Inside, Adding
  <2>2. Cardinality(Inside') = Cardinality(Inside) - 1 /\ IsFiniteSet(Inside')
    BY <1>2, <2>1, FS_RemoveElement
  <2>3. Cardinality(Inside') \in Nat
    BY <2>2, FS_CardinalityType
  <2> QED
    BY <1>2, <1>3, <1>7, <2>1, <2>2, <2>3 DEF CountInv
<1> QED
  BY <1>4, <1>5, <1>6, <1>7

\* A step that leaves the stamp alone.
LEMMA CountStays ==
    ASSUME ReclaimerInv, rStamp' = rStamp,
           \A u \in Threads : /\ rTh'[u].pc = "out" <=> rTh[u].pc = "out"
                              /\ rTh'[u].pc \in {"enqueue", "added"}
                                   <=> rTh[u].pc \in {"enqueue", "added"}
    PROVE  CountInv' /\ rStamp' \in Nat
<1>1. Inside' = Inside /\ Adding' = Adding
  BY DEF Inside, Adding
<1> QED
  BY <1>1 DEF ReclaimerInv, CountInv, ShapeInv

-----------------------------------------------------------------------------
(* The actions.                                                            *)

LEMMA InitReclaimerInv == ASSUME ReclaimerGiven PROVE Reclaimer!Init => ReclaimerInv
<1> SUFFICES ASSUME Reclaimer!Init PROVE ReclaimerInv
  OBVIOUS
<1>1. rCurrent \in Queues
  BY DEF Reclaimer!Init, ReclaimerGiven
<1>2. \A t \in Threads : /\ rTh[t].pc = "out" /\ rTh[t].p = Nothing /\ rTh[t].node = Nothing
                         /\ rTh[t].held = {}
  BY DEF Reclaimer!Init, Reclaimer!Out
<1>3. rTh \in [Threads -> ReclaimerLocals]
  BY DEF Reclaimer!Init, Reclaimer!Out, ReclaimerLocals
<1>4. ShapeInv
  BY <1>1, <1>2, <1>3 DEF Reclaimer!Init, ShapeInv
<1>5. CountInv
  <2>1. Inside = {} /\ Adding = {}
    BY <1>2 DEF Inside, Adding
  <2> QED
    BY <2>1, FS_EmptySet DEF Reclaimer!Init, CountInv
<1>6. QueueInv /\ HeldInv /\ GoneInv
  BY <1>2 DEF Reclaimer!Init, QueueInv, Reclaimer!QueueOfOne, HeldInv, GoneInv
<1>7. NodeInv
  BY <1>2 DEF Reclaimer!Init, NodeInv, ReclaimerGiven
<1> QED
  BY <1>4, <1>5, <1>6, <1>7 DEF ReclaimerInv

LEMMA ReclaimerLocalStep ==
    ASSUME ReclaimerInv, NEW t \in Threads, NEW r \in ReclaimerLocals, rTh' = [rTh EXCEPT ![t] = r]
    PROVE  /\ rTh'[t] = r /\ \A u \in Threads : u # t => rTh'[u] = rTh[u]
           /\ rTh' \in [Threads -> ReclaimerLocals]
<1>1. rTh \in [Threads -> ReclaimerLocals]
  BY DEF ReclaimerInv, ShapeInv
<1> QED
  BY <1>1

\* Only a thread that is out is there when the reclaimer is gone.
LEMMA NotGone ==
    ASSUME ReclaimerInv, NEW t \in Threads, rTh[t].pc # "out"
    PROVE  ~rDestroyed
  BY DEF ReclaimerInv, GoneInv, Reclaimer!AllOut

LEMMA AddCheckoutInv ==
    ASSUME ReclaimerInv, NEW t \in Threads, Reclaimer!AddCheckout(t)
    PROVE  ReclaimerInv'
<1> DEFINE r == [Reclaimer!Out EXCEPT !.pc = "in"]
<1>1. /\ rTh[t].pc = "out" /\ ~rDestroyed /\ rStamp' = rStamp + 1 /\ rTh' = [rTh EXCEPT ![t] = r]
      /\ UNCHANGED <<rCurrent, rPending, rLinked, rFreed, rDestroyed>>
  BY DEF Reclaimer!AddCheckout, Reclaimer!CountUp, Reclaimer!Local
<1>2. r \in ReclaimerLocals /\ r.pc = "in" /\ r.p = Nothing /\ r.node = Nothing /\ r.held = {}
  BY DEF ReclaimerLocals, Reclaimer!Out
<1> HIDE DEF r
<1>3. /\ rTh'[t] = r /\ \A u \in Threads : u # t => rTh'[u] = rTh[u]
      /\ rTh' \in [Threads -> ReclaimerLocals]
  BY <1>1, <1>2, ReclaimerLocalStep
<1>4. CountInv' /\ rStamp' \in Nat
  <2>1. CheckedOut(t, r)
    BY <1>1, <1>2 DEF CheckedOut
  <2> QED
    BY <2>1, CountStep
<1>5. ShapeInv /\ QueueInv /\ NodeInv /\ HeldInv /\ Nothing \notin Unlinkable
  BY DEF ReclaimerInv, ReclaimerGiven
<1>6. ShapeInv'
  BY <1>1, <1>2, <1>3, <1>4, <1>5 DEF ShapeInv
<1>7. QueueInv'
  BY <1>1, <1>2, <1>3, <1>5 DEF QueueInv, Reclaimer!QueueOfOne
<1>8. NodeInv'
  <2>1. \A u \in Threads : rTh'[u].node = rTh[u].node
    BY <1>1, <1>2, <1>3, <1>5 DEF ShapeInv
  <2> QED
    BY <1>1, <1>5, <2>1 DEF NodeInv
<1>9. HeldInv'
  BY <1>1, <1>2, <1>3, <1>5 DEF HeldInv
<1>10. GoneInv'
  BY <1>1 DEF GoneInv
<1> QED
  BY <1>4, <1>6, <1>7, <1>8, <1>9, <1>10 DEF ReclaimerInv, ReclaimerGiven

LEMMA FindInv ==
    ASSUME ReclaimerInv, NEW t \in Threads, Reclaimer!Find(t)
    PROVE  ReclaimerInv'
<1>1. PICK n \in rLinked \ rTh[t].held : rTh' = [rTh EXCEPT ![t] = [rTh[t] EXCEPT !.held = @ \cup {n}]]
  BY DEF Reclaimer!Find, Reclaimer!Local
<1> DEFINE r == [rTh[t] EXCEPT !.held = @ \cup {n}]
<1>2. rTh[t].pc = "in" /\ UNCHANGED <<rCurrent, rStamp, rPending, rLinked, rFreed, rDestroyed>>
  BY DEF Reclaimer!Find
<1>3. /\ ShapeInv /\ QueueInv /\ NodeInv /\ HeldInv /\ n \in Unlinkable /\ rTh[t] \in ReclaimerLocals
      /\ Nothing \notin Unlinkable /\ rTh \in [Threads -> ReclaimerLocals]
  BY DEF ReclaimerInv, ShapeInv, ReclaimerGiven
<1>4. /\ r \in ReclaimerLocals /\ r.pc = "in" /\ r.p = rTh[t].p /\ r.node = rTh[t].node
      /\ r.held = rTh[t].held \cup {n}
  BY <1>2, <1>3 DEF ReclaimerLocals
<1>5. rTh' = [rTh EXCEPT ![t] = r]
  BY <1>1
<1> HIDE DEF r
<1>6. /\ rTh'[t] = r /\ \A u \in Threads : u # t => rTh'[u] = rTh[u]
      /\ rTh' \in [Threads -> ReclaimerLocals]
  BY <1>4, <1>5, ReclaimerLocalStep
<1>7. \A u \in Threads : rTh'[u].pc = rTh[u].pc /\ rTh'[u].p = rTh[u].p /\ rTh'[u].node = rTh[u].node
  BY <1>2, <1>4, <1>6
<1>8. CountInv' /\ rStamp' \in Nat
  BY <1>2, <1>7, CountStays
<1>9. ShapeInv'
  BY <1>2, <1>3, <1>4, <1>6, <1>7, <1>8 DEF ShapeInv
<1>10. QueueInv'
  BY <1>2, <1>3, <1>7 DEF QueueInv, Reclaimer!QueueOfOne
<1>11. NodeInv'
  BY <1>2, <1>3, <1>7 DEF NodeInv
<1>12. HeldInv'
  <2>1. n \in rLinked /\ n \notin rFreed /\ \A q \in Queues : n \notin rPending[q]
    BY <1>1, <1>3 DEF NodeInv
  <2>2. \A u \in Threads : rTh[u].pc = "run" => rTh[u].p \in Queues
    BY <1>3 DEF ShapeInv
  <2> QED
    BY <1>2, <1>3, <1>4, <1>6, <1>7, <2>1, <2>2 DEF HeldInv
<1>13. GoneInv'
  BY <1>2, NotGone DEF GoneInv
<1> QED
  BY <1>8, <1>9, <1>10, <1>11, <1>12, <1>13 DEF ReclaimerInv, ReclaimerGiven

LEMMA UnlinkAndAddInv ==
    ASSUME ReclaimerInv, NEW t \in Threads, Reclaimer!UnlinkAndAdd(t)
    PROVE  ReclaimerInv'
<1>1. PICK n \in rLinked :
         /\ rLinked' = rLinked \ {n}
         /\ rTh' = [rTh EXCEPT ![t] = [rTh[t] EXCEPT !.pc = "enqueue", !.p = rCurrent, !.node = n]]
  BY DEF Reclaimer!UnlinkAndAdd, Reclaimer!Local
<1> DEFINE r == [rTh[t] EXCEPT !.pc = "enqueue", !.p = rCurrent, !.node = n]
<1>2. /\ rTh[t].pc = "in" /\ rStamp' = rStamp + 1
      /\ UNCHANGED <<rCurrent, rPending, rFreed, rDestroyed>>
  BY DEF Reclaimer!UnlinkAndAdd, Reclaimer!CountUp
<1>3. /\ ShapeInv /\ QueueInv /\ NodeInv /\ HeldInv /\ n \in Unlinkable /\ rTh[t] \in ReclaimerLocals
      /\ Nothing \notin Unlinkable /\ rCurrent \in Queues /\ n # Nothing
  BY DEF ReclaimerInv, ShapeInv, ReclaimerGiven
<1>4. /\ r \in ReclaimerLocals /\ r.pc = "enqueue" /\ r.p = rCurrent /\ r.node = n
      /\ r.held = rTh[t].held
  BY <1>3 DEF ReclaimerLocals
<1>5. rTh' = [rTh EXCEPT ![t] = r]
  BY <1>1
<1> HIDE DEF r
<1>6. /\ rTh'[t] = r /\ \A u \in Threads : u # t => rTh'[u] = rTh[u]
      /\ rTh' \in [Threads -> ReclaimerLocals]
  BY <1>4, <1>5, ReclaimerLocalStep
<1>7. CountInv' /\ rStamp' \in Nat
  <2>1. CheckedOut(t, r)
    BY <1>2, <1>4, <1>5 DEF CheckedOut
  <2> QED
    BY <2>1, CountStep
<1>8. ShapeInv'
  BY <1>1, <1>2, <1>3, <1>4, <1>6, <1>7 DEF ShapeInv
<1>9. QueueInv'
  BY <1>2, <1>3, <1>4, <1>6 DEF QueueInv, Reclaimer!QueueOfOne
<1>10. NodeInv'
  <2>1. /\ n \in rLinked /\ n \notin rFreed /\ \A q \in Queues : n \notin rPending[q]
        /\ \A u \in Threads : rTh[u].node # n
    BY <1>1, <1>3 DEF NodeInv
  <2>2. rTh[t].node = Nothing
    BY <1>2, <1>3 DEF ShapeInv
  <2>3. ASSUME NEW m \in Unlinkable, m # n
        PROVE  /\ \A u \in Threads : rTh'[u].node = m <=> rTh[u].node = m
               /\ m \in rLinked' <=> m \in rLinked
    BY <1>1, <1>3, <1>4, <1>6, <2>2, <2>3
  <2>4. \A u \in Threads : rTh'[u].node = n <=> u = t
    BY <1>4, <1>6, <2>1
  <2> QED
    BY <1>1, <1>2, <1>3, <2>1, <2>3, <2>4 DEF NodeInv
<1>11. HeldInv'
  BY <1>2, <1>3, <1>4, <1>6 DEF HeldInv
<1>12. GoneInv'
  BY <1>2, NotGone DEF GoneInv
<1> QED
  BY <1>7, <1>8, <1>9, <1>10, <1>11, <1>12 DEF ReclaimerInv, ReclaimerGiven

LEMMA EnqueueInv ==
    ASSUME ReclaimerInv, NEW t \in Threads, Reclaimer!Enqueue(t)
    PROVE  ReclaimerInv'
<1> DEFINE r == [rTh[t] EXCEPT !.pc = "added", !.p = Nothing, !.node = Nothing]
           n == rTh[t].node
<1>1. /\ rTh[t].pc = "enqueue" /\ rPending' = [rPending EXCEPT ![rTh[t].p] = @ \cup {n}]
      /\ rTh' = [rTh EXCEPT ![t] = r]
      /\ UNCHANGED <<rCurrent, rStamp, rLinked, rFreed, rDestroyed>>
  BY DEF Reclaimer!Enqueue, Reclaimer!Local
<1>2. /\ ShapeInv /\ QueueInv /\ NodeInv /\ HeldInv /\ rTh[t] \in ReclaimerLocals
      /\ Nothing \notin Unlinkable /\ rCurrent \in Queues
  BY DEF ReclaimerInv, ShapeInv, ReclaimerGiven
<1>3. rTh[t].p = rCurrent /\ n \in Unlinkable
  BY <1>1, <1>2 DEF QueueInv, Reclaimer!QueueOfOne, ShapeInv, ReclaimerLocals
<1>4. /\ r \in ReclaimerLocals /\ r.pc = "added" /\ r.p = Nothing /\ r.node = Nothing
      /\ r.held = rTh[t].held
  BY <1>2 DEF ReclaimerLocals
<1> HIDE DEF r, n
<1>5. /\ rTh'[t] = r /\ \A u \in Threads : u # t => rTh'[u] = rTh[u]
      /\ rTh' \in [Threads -> ReclaimerLocals]
  BY <1>1, <1>4, ReclaimerLocalStep
<1>6. /\ rPending' \in [Queues -> SUBSET Unlinkable] /\ rPending'[rCurrent] = rPending[rCurrent] \cup {n}
      /\ \A q \in Queues : q # rCurrent => rPending'[q] = rPending[q]
  BY <1>1, <1>2, <1>3 DEF ShapeInv
<1>7. CountInv' /\ rStamp' \in Nat
  BY <1>1, <1>4, <1>5, CountStays
<1>8. ShapeInv'
  BY <1>1, <1>2, <1>4, <1>5, <1>6, <1>7 DEF ShapeInv
<1>9. QueueInv'
  <2>1. Reclaimer!QueueOfOne'
    BY <1>1, <1>2, <1>4, <1>5 DEF QueueInv, Reclaimer!QueueOfOne
  <2>2. \A u \in Threads : rTh'[u].pc = "run" <=> rTh[u].pc = "run"
    BY <1>1, <1>4, <1>5
  <2> QED
    BY <1>1, <1>2, <1>5, <1>6, <2>1, <2>2 DEF QueueInv
<1>10. NodeInv'
  <2>1. /\ n \notin rLinked /\ n \notin rFreed /\ \A q \in Queues : n \notin rPending[q]
        /\ \A u \in Threads : u # t => rTh[u].node # n
    BY <1>2, <1>3 DEF NodeInv, n
  <2>2. \A u \in Threads : rTh'[u].node # n
    BY <1>2, <1>3, <1>4, <1>5, <2>1
  <2>3. ASSUME NEW m \in Unlinkable, m # n
        PROVE  /\ \A u \in Threads : rTh'[u].node = m <=> rTh[u].node = m
               /\ \A q \in Queues : m \in rPending'[q] <=> m \in rPending[q]
    <3>1. rTh'[t].node # m /\ rTh[t].node # m
      BY <1>2, <1>4, <1>5, <2>3 DEF n
    <3> QED
      BY <1>5, <1>6, <2>3, <3>1
  <2>4. \A q \in Queues : n \in rPending'[q] <=> q = rCurrent
    BY <1>6, <2>1
  <2> QED
    BY <1>1, <1>2, <2>1, <2>2, <2>3, <2>4 DEF NodeInv
<1>11. HeldInv'
  <2>1. ASSUME NEW u \in Threads, NEW m \in rTh'[u].held, NEW x \in Threads, rTh'[x].pc = "run"
        PROVE  m \notin rPending'[rTh'[x].p]
    <3>1. m \in rTh[u].held /\ x # t /\ rTh'[x] = rTh[x]
      BY <1>4, <1>5, <2>1
    <3>2. rTh[x].p # rCurrent /\ rTh[x].p \in Queues
      BY <1>2, <2>1, <3>1 DEF QueueInv, Reclaimer!QueueOfOne, ShapeInv
    <3> QED
      BY <1>2, <1>6, <2>1, <3>1, <3>2 DEF HeldInv
  <2>2. \A u \in Threads : rTh'[u].held = rTh[u].held
    BY <1>4, <1>5
  <2> QED
    BY <1>1, <1>2, <2>1, <2>2 DEF HeldInv
<1>12. GoneInv'
  BY <1>1, NotGone DEF GoneInv
<1> QED
  BY <1>7, <1>8, <1>9, <1>10, <1>11, <1>12 DEF ReclaimerInv, ReclaimerGiven

\* A thread outside add() that keeps its place among the checked out, whose new
\* local variables are r.
Turns(t, r) ==
    /\ rTh' = [rTh EXCEPT ![t] = r]
    /\ r \in ReclaimerLocals
    /\ rTh[t].pc \notin {"out", "enqueue", "added"}
    /\ r.pc \notin {"out", "enqueue", "added"}
    /\ r.node = Nothing /\ r.held = {}
    /\ r.pc \in {"exchange", "run"} => r.p \in Queues

LEMMA TurnStep ==
    ASSUME ReclaimerInv, NEW t \in Threads, NEW r, Turns(t, r), rStamp' = rStamp, rDestroyed' = rDestroyed,
           rCurrent' \in Queues, rPending' \in [Queues -> SUBSET Unlinkable],
           rLinked' = rLinked, rFreed' \in SUBSET Unlinkable
    PROVE  /\ rTh'[t] = r /\ \A u \in Threads : u # t => rTh'[u] = rTh[u]
           /\ \A u \in Threads : rTh'[u].node = rTh[u].node
           /\ ShapeInv' /\ CountInv' /\ GoneInv'
<1> USE DEF Turns
<1>1. /\ rTh'[t] = r /\ \A u \in Threads : u # t => rTh'[u] = rTh[u]
      /\ rTh' \in [Threads -> ReclaimerLocals]
  BY ReclaimerLocalStep
<1>2. ShapeInv
  BY DEF ReclaimerInv
<1>3. \A u \in Threads : rTh'[u].node = rTh[u].node
  BY <1>1, <1>2 DEF ShapeInv
<1>4. CountInv' /\ rStamp' \in Nat
  BY <1>1, CountStays
<1>5. ShapeInv'
  BY <1>1, <1>2, <1>4 DEF ShapeInv
<1>6. GoneInv'
  BY NotGone DEF GoneInv
<1> QED
  BY <1>1, <1>3, <1>4, <1>5, <1>6

LEMMA EndAddInv ==
    ASSUME ReclaimerInv, NEW t \in Threads, Reclaimer!EndAdd(t)
    PROVE  ReclaimerInv'
<1> DEFINE r == [rTh[t] EXCEPT !.pc = "in"]
<1>1. /\ rTh[t].pc = "added" /\ rStamp' = rStamp - 1 /\ rTh' = [rTh EXCEPT ![t] = r]
      /\ UNCHANGED <<rCurrent, rPending, rLinked, rFreed, rDestroyed>>
  BY DEF Reclaimer!EndAdd, Reclaimer!Local
<1>2. /\ ShapeInv /\ QueueInv /\ NodeInv /\ HeldInv /\ rTh[t] \in ReclaimerLocals
  BY DEF ReclaimerInv, ShapeInv
<1>3. /\ r \in ReclaimerLocals /\ r.pc = "in" /\ r.p = rTh[t].p /\ r.node = rTh[t].node
      /\ r.held = rTh[t].held
  BY <1>2 DEF ReclaimerLocals
<1> HIDE DEF r
<1>4. /\ rTh'[t] = r /\ \A u \in Threads : u # t => rTh'[u] = rTh[u]
      /\ rTh' \in [Threads -> ReclaimerLocals]
  BY <1>1, <1>3, ReclaimerLocalStep
<1>5. CountInv' /\ rStamp' \in Nat
  <2>1. CheckedOut(t, r)
    BY <1>1, <1>3 DEF CheckedOut
  <2> QED
    BY <2>1, CountStep
<1>6. ShapeInv'
  BY <1>1, <1>2, <1>3, <1>4, <1>5 DEF ShapeInv
<1>7. QueueInv'
  BY <1>1, <1>2, <1>3, <1>4 DEF QueueInv, Reclaimer!QueueOfOne
<1>8. NodeInv'
  <2>1. \A u \in Threads : rTh'[u].node = rTh[u].node
    BY <1>3, <1>4
  <2> QED
    BY <1>1, <1>2, <2>1 DEF NodeInv
<1>9. HeldInv'
  BY <1>1, <1>2, <1>3, <1>4 DEF HeldInv
<1>10. GoneInv'
  BY <1>1, NotGone DEF GoneInv
<1> QED
  BY <1>5, <1>6, <1>7, <1>8, <1>9, <1>10 DEF ReclaimerInv, ReclaimerGiven

LEMMA RemoveCheckoutInv ==
    ASSUME ReclaimerInv, NEW t \in Threads, Reclaimer!RemoveCheckout(t)
    PROVE  ReclaimerInv'
<1> DEFINE r == IF rStamp = 1 THEN [Reclaimer!Out EXCEPT !.pc = "exchange", !.p = rCurrent]
                             ELSE [Reclaimer!Out EXCEPT !.pc = "leave"]
<1>1. /\ rTh[t].pc = "in" /\ rTh' = [rTh EXCEPT ![t] = r]
      /\ UNCHANGED <<rCurrent, rStamp, rPending, rLinked, rFreed, rDestroyed>>
  BY DEF Reclaimer!RemoveCheckout, Reclaimer!Local
<1>2. /\ ShapeInv /\ QueueInv /\ NodeInv /\ HeldInv
      /\ rCurrent \in Queues /\ rPending \in [Queues -> SUBSET Unlinkable] /\ rFreed \in SUBSET Unlinkable
  BY DEF ReclaimerInv, ShapeInv
<1>3. /\ r \in ReclaimerLocals /\ r.pc \in {"exchange", "leave"} /\ r.node = Nothing /\ r.held = {}
      /\ r.pc = "exchange" => r.p \in Queues
  BY <1>2 DEF ReclaimerLocals, Reclaimer!Out
<1> HIDE DEF r
<1>4. Turns(t, r)
  BY <1>1, <1>3 DEF Turns
<1>5. /\ rTh'[t] = r /\ \A u \in Threads : u # t => rTh'[u] = rTh[u]
      /\ \A u \in Threads : rTh'[u].node = rTh[u].node
      /\ ShapeInv' /\ CountInv' /\ GoneInv'
  BY <1>1, <1>2, <1>4, TurnStep
<1>6. QueueInv'
  BY <1>1, <1>2, <1>3, <1>5 DEF QueueInv, Reclaimer!QueueOfOne
<1>7. NodeInv'
  BY <1>1, <1>2, <1>5 DEF NodeInv
<1>8. HeldInv'
  BY <1>1, <1>2, <1>3, <1>5 DEF HeldInv
<1> QED
  BY <1>5, <1>6, <1>7, <1>8 DEF ReclaimerInv, ReclaimerGiven

LEMMA ExchangeInv ==
    ASSUME ReclaimerInv, NEW t \in Threads, Reclaimer!Exchange(t)
    PROVE  ReclaimerInv'
<1>1. /\ rTh[t].pc = "exchange" /\ UNCHANGED <<rStamp, rPending, rLinked, rFreed, rDestroyed>>
  BY DEF Reclaimer!Exchange
<1>2. /\ ShapeInv /\ QueueInv /\ NodeInv /\ HeldInv /\ rTh[t] \in ReclaimerLocals
      /\ rCurrent \in Queues /\ rPending \in [Queues -> SUBSET Unlinkable] /\ rFreed \in SUBSET Unlinkable
  BY DEF ReclaimerInv, ShapeInv
<1>3. rTh[t].node = Nothing /\ rTh[t].held = {} /\ rTh[t].p \in Queues
  BY <1>1, <1>2 DEF ShapeInv
<1>4. CASE Reclaimer!Alone(rTh[t].p)
  <2> DEFINE r == [rTh[t] EXCEPT !.pc = "run"]
  <2>1. rCurrent' \in Queues \ Reclaimer!InUse /\ rTh' = [rTh EXCEPT ![t] = r]
    BY <1>4 DEF Reclaimer!Exchange, Reclaimer!Local
  <2>2. /\ r \in ReclaimerLocals /\ r.pc = "run" /\ r.p = rTh[t].p /\ r.node = Nothing /\ r.held = {}
    BY <1>2, <1>3 DEF ReclaimerLocals
  <2> HIDE DEF r
  <2>3. Turns(t, r)
    BY <1>1, <1>3, <2>1, <2>2 DEF Turns
  <2>4. /\ rTh'[t] = r /\ \A u \in Threads : u # t => rTh'[u] = rTh[u]
        /\ \A u \in Threads : rTh'[u].node = rTh[u].node
        /\ ShapeInv' /\ CountInv' /\ GoneInv'
    BY <1>1, <1>2, <2>1, <2>3, TurnStep
  <2>5. rTh[t].p = rCurrent /\ \A u \in Threads : u # t => rTh[u].pc = "out"
    BY <1>1, <1>4, OneIsAlone DEF Reclaimer!Alone
  <2>6. \A u \in Threads : rTh'[u].held = {} /\ (u # t => rTh'[u].pc = "out")
    BY <1>2, <2>2, <2>4, <2>5 DEF ShapeInv
  <2>7. QueueInv'
    <3>1. rCurrent' # rCurrent
      BY <2>1 DEF Reclaimer!InUse
    <3>2. Reclaimer!QueueOfOne'
      BY <2>2, <2>4, <2>5, <2>6, <3>1 DEF Reclaimer!QueueOfOne
    <3>3. ASSUME NEW q \in Queues, rPending[q] # {} PROVE q = rCurrent
      BY <1>1, <1>2, <2>5, <3>3 DEF QueueInv
    <3> QED
      BY <1>1, <2>2, <2>4, <2>5, <3>2, <3>3 DEF QueueInv
  <2>8. NodeInv'
    BY <1>1, <1>2, <2>4 DEF NodeInv
  <2>9. HeldInv'
    BY <2>6 DEF HeldInv
  <2> QED
    BY <2>4, <2>7, <2>8, <2>9 DEF ReclaimerInv, ReclaimerGiven
<1>5. CASE ~Reclaimer!Alone(rTh[t].p)
  <2> DEFINE r == [rTh[t] EXCEPT !.pc = "leave", !.p = Nothing]
  <2>1. rCurrent' = rCurrent /\ rTh' = [rTh EXCEPT ![t] = r]
    BY <1>5 DEF Reclaimer!Exchange, Reclaimer!Local
  <2>2. /\ r \in ReclaimerLocals /\ r.pc = "leave" /\ r.node = Nothing /\ r.held = {}
    BY <1>2, <1>3 DEF ReclaimerLocals
  <2> HIDE DEF r
  <2>3. Turns(t, r)
    BY <1>1, <2>1, <2>2 DEF Turns
  <2>4. /\ rTh'[t] = r /\ \A u \in Threads : u # t => rTh'[u] = rTh[u]
        /\ \A u \in Threads : rTh'[u].node = rTh[u].node
        /\ ShapeInv' /\ CountInv' /\ GoneInv'
    BY <1>1, <1>2, <2>1, <2>3, TurnStep
  <2>5. QueueInv'
    BY <1>1, <1>2, <2>1, <2>2, <2>4 DEF QueueInv, Reclaimer!QueueOfOne
  <2>6. NodeInv'
    BY <1>1, <1>2, <2>4 DEF NodeInv
  <2>7. HeldInv'
    BY <1>1, <1>2, <2>2, <2>4 DEF HeldInv
  <2> QED
    BY <2>4, <2>5, <2>6, <2>7 DEF ReclaimerInv, ReclaimerGiven
<1> QED
  BY <1>4, <1>5

\* A function of the old queue is run.
LEMMA FreeOneInv ==
    ASSUME ReclaimerInv, NEW t \in Threads, rTh[t].pc = "run", NEW n \in rPending[rTh[t].p],
           rFreed' = rFreed \cup {n},
           rPending' = [rPending EXCEPT ![rTh[t].p] = @ \ {n}],
           UNCHANGED <<rCurrent, rStamp, rLinked, rTh, rDestroyed>>
    PROVE  ReclaimerInv'
<1>1. /\ ShapeInv /\ QueueInv /\ NodeInv /\ HeldInv /\ rTh[t].p \in Queues
      /\ rPending \in [Queues -> SUBSET Unlinkable]
  BY DEF ReclaimerInv, ShapeInv
<1>2. n \in Unlinkable
  BY <1>1
<1>3. /\ rPending' \in [Queues -> SUBSET Unlinkable] /\ rPending'[rTh[t].p] = rPending[rTh[t].p] \ {n}
      /\ \A q \in Queues : q # rTh[t].p => rPending'[q] = rPending[q]
  BY <1>1
<1>4. CountInv' /\ rStamp' \in Nat
  BY CountStays
<1>5. ShapeInv'
  BY <1>1, <1>2, <1>3, <1>4 DEF ShapeInv
<1>6. QueueInv'
  <2>1. \A q \in Queues : rPending'[q] # {} => rPending[q] # {}
    BY <1>3
  <2> QED
    BY <1>1, <2>1 DEF QueueInv, Reclaimer!QueueOfOne
<1>7. NodeInv'
  <2>1. /\ n \notin rLinked /\ n \notin rFreed /\ \A u \in Threads : rTh[u].node # n
        /\ \A q \in Queues : n \in rPending[q] => q = rTh[t].p
    BY <1>1, <1>2 DEF NodeInv
  <2>2. \A q \in Queues : n \notin rPending'[q]
    BY <1>3, <2>1
  <2>3. ASSUME NEW m \in Unlinkable, m # n
        PROVE  /\ \A q \in Queues : m \in rPending'[q] <=> m \in rPending[q]
               /\ m \in rFreed' <=> m \in rFreed
    BY <1>3, <2>3
  <2> QED
    BY <1>1, <1>2, <2>1, <2>2, <2>3 DEF NodeInv
<1>8. HeldInv'
  <2>1. \A u \in Threads : n \notin rTh[u].held
    BY <1>1 DEF HeldInv
  <2>2. \A q \in Queues : rPending'[q] \subseteq rPending[q]
    BY <1>3
  <2>3. \A u \in Threads : rTh[u].pc = "run" => rTh[u].p \in Queues
    BY <1>1 DEF ShapeInv
  <2> QED
    BY <1>1, <2>1, <2>2, <2>3 DEF HeldInv
<1>9. GoneInv'
  BY NotGone DEF GoneInv
<1> QED
  BY <1>4, <1>5, <1>6, <1>7, <1>8, <1>9 DEF ReclaimerInv, ReclaimerGiven

LEMMA RunInv ==
    ASSUME ReclaimerInv, NEW t \in Threads, Reclaimer!Run(t)
    PROVE  ReclaimerInv'
<1>1. rTh[t].pc = "run" /\ UNCHANGED <<rCurrent, rStamp, rLinked, rDestroyed>>
  BY DEF Reclaimer!Run
<1>2. ASSUME NEW n \in rPending[rTh[t].p], rFreed' = rFreed \cup {n}, UNCHANGED rTh,
             rPending' = [rPending EXCEPT ![rTh[t].p] = @ \ Reclaimer!Drained(rTh[t].p, n)]
      PROVE  ReclaimerInv'
  <2>1. rPending' = [rPending EXCEPT ![rTh[t].p] = @ \ {n}]
    BY <1>2 DEF Reclaimer!Drained
  <2> QED
    BY <1>1, <1>2, <2>1, FreeOneInv
<1>3. CASE rPending[rTh[t].p] = {} /\ Reclaimer!Local(t, [Reclaimer!Out EXCEPT !.pc = "leave"]) /\ UNCHANGED <<rPending, rFreed>>
  <2> DEFINE r == [Reclaimer!Out EXCEPT !.pc = "leave"]
  <2>1. /\ ShapeInv /\ QueueInv /\ NodeInv /\ HeldInv
        /\ rCurrent \in Queues /\ rPending \in [Queues -> SUBSET Unlinkable] /\ rFreed \in SUBSET Unlinkable
    BY DEF ReclaimerInv, ShapeInv
  <2>2. r \in ReclaimerLocals /\ r.pc = "leave" /\ r.node = Nothing /\ r.held = {}
    BY DEF ReclaimerLocals, Reclaimer!Out
  <2>3. Turns(t, r)
    BY <1>1, <1>3, <2>2 DEF Turns, Reclaimer!Local
  <2> HIDE DEF r
  <2>4. /\ rTh'[t] = r /\ \A u \in Threads : u # t => rTh'[u] = rTh[u]
        /\ \A u \in Threads : rTh'[u].node = rTh[u].node
        /\ ShapeInv' /\ CountInv' /\ GoneInv'
    BY <1>1, <1>3, <2>1, <2>3, TurnStep
  <2>5. QueueInv'
    <3>1. Reclaimer!QueueOfOne'
      BY <1>1, <2>1, <2>2, <2>4 DEF QueueInv, Reclaimer!QueueOfOne
    <3>2. ASSUME NEW q \in Queues, rPending[q] # {}
          PROVE  q = rCurrent \/ \E u \in Threads : rTh'[u].pc = "run" /\ rTh'[u].p = q
      <4>1. CASE q = rCurrent
        BY <4>1
      <4>2. ASSUME NEW u \in Threads, rTh[u].pc = "run", rTh[u].p = q
            PROVE  rTh'[u].pc = "run" /\ rTh'[u].p = q
        <5>1. u # t
          BY <1>3, <3>2, <4>2
        <5> QED
          BY <2>4, <4>2, <5>1
      <4> QED
        BY <2>1, <3>2, <4>1, <4>2 DEF QueueInv
    <3> QED
      BY <1>1, <1>3, <3>1, <3>2 DEF QueueInv
  <2>6. NodeInv'
    BY <1>1, <1>3, <2>1, <2>4 DEF NodeInv
  <2>7. HeldInv'
    BY <1>1, <1>3, <2>1, <2>2, <2>4 DEF HeldInv
  <2> QED
    BY <2>4, <2>5, <2>6, <2>7 DEF ReclaimerInv, ReclaimerGiven
<1> QED
  BY <1>2, <1>3 DEF Reclaimer!Run

LEMMA LeaveInv ==
    ASSUME ReclaimerInv, NEW t \in Threads, Reclaimer!Leave(t)
    PROVE  ReclaimerInv'
<1>1. /\ rTh[t].pc = "leave" /\ rStamp' = rStamp - 1 /\ rTh' = [rTh EXCEPT ![t] = Reclaimer!Out]
      /\ UNCHANGED <<rCurrent, rPending, rLinked, rFreed, rDestroyed>>
  BY DEF Reclaimer!Leave, Reclaimer!Local
<1>2. ShapeInv /\ QueueInv /\ NodeInv /\ HeldInv
  BY DEF ReclaimerInv
<1>3. Reclaimer!Out \in ReclaimerLocals /\ Reclaimer!Out.pc = "out" /\ Reclaimer!Out.node = Nothing /\ Reclaimer!Out.held = {}
  BY DEF ReclaimerLocals, Reclaimer!Out
<1>4. /\ rTh'[t] = Reclaimer!Out /\ \A u \in Threads : u # t => rTh'[u] = rTh[u]
      /\ rTh' \in [Threads -> ReclaimerLocals]
  BY <1>1, <1>3, ReclaimerLocalStep
<1>5. CountInv' /\ rStamp' \in Nat
  <2>1. CheckedOut(t, Reclaimer!Out)
    BY <1>1, <1>3 DEF CheckedOut
  <2> QED
    BY <2>1, CountStep
<1>6. ShapeInv'
  BY <1>1, <1>2, <1>3, <1>4, <1>5 DEF ShapeInv
<1>7. QueueInv'
  BY <1>1, <1>2, <1>3, <1>4 DEF QueueInv, Reclaimer!QueueOfOne
<1>8. NodeInv'
  <2>1. \A u \in Threads : rTh'[u].node = rTh[u].node
    BY <1>1, <1>2, <1>3, <1>4 DEF ShapeInv
  <2> QED
    BY <1>1, <1>2, <2>1 DEF NodeInv
<1>9. HeldInv'
  BY <1>1, <1>2, <1>3, <1>4 DEF HeldInv
<1>10. GoneInv'
  BY <1>1, NotGone DEF GoneInv
<1> QED
  BY <1>5, <1>6, <1>7, <1>8, <1>9, <1>10 DEF ReclaimerInv, ReclaimerGiven

\* quiesce and the destructor.
LEMMA DrainInv ==
    ASSUME ReclaimerInv, Reclaimer!Drain
    PROVE  ReclaimerInv'
<1>1. /\ \A t \in Threads : rTh[t].pc = "out"
      /\ rFreed' = rFreed \cup rPending[rCurrent] /\ rPending' = [rPending EXCEPT ![rCurrent] = {}]
      /\ UNCHANGED <<rCurrent, rStamp, rLinked, rTh>>
  BY DEF Reclaimer!Drain, Reclaimer!AllOut
<1>2. /\ ShapeInv /\ QueueInv /\ NodeInv /\ rCurrent \in Queues
      /\ rPending \in [Queues -> SUBSET Unlinkable]
  BY DEF ReclaimerInv, ShapeInv
<1>3. /\ rPending' \in [Queues -> SUBSET Unlinkable] /\ rPending'[rCurrent] = {}
      /\ \A q \in Queues : q # rCurrent => rPending'[q] = rPending[q]
  BY <1>1, <1>2
<1>4. \A q \in Queues : rPending'[q] = {} /\ (q # rCurrent => rPending[q] = {})
  BY <1>1, <1>2, <1>3 DEF QueueInv
<1>5. CountInv' /\ rStamp' \in Nat
  BY <1>1, CountStays
<1>6. ShapeInv'
  BY <1>1, <1>2, <1>3, <1>5 DEF ShapeInv
<1>7. QueueInv'
  BY <1>1, <1>2, <1>4 DEF QueueInv, Reclaimer!QueueOfOne
<1>8. NodeInv'
  BY <1>1, <1>2, <1>4 DEF NodeInv
<1>9. HeldInv'
  BY <1>1, <1>2 DEF HeldInv, ShapeInv
<1>10. GoneInv'
  BY <1>1, <1>4 DEF GoneInv, Reclaimer!AllOut
<1> QED
  BY <1>5, <1>6, <1>7, <1>8, <1>9, <1>10 DEF ReclaimerInv, ReclaimerGiven

LEMMA NextReclaimerInv == ReclaimerInv /\ [Reclaimer!Next]_(Reclaimer!vars) => ReclaimerInv'
<1> SUFFICES ASSUME ReclaimerInv, [Reclaimer!Next]_(Reclaimer!vars) PROVE ReclaimerInv'
  OBVIOUS
<1>1. CASE UNCHANGED Reclaimer!vars
  BY <1>1 DEF Reclaimer!vars, ReclaimerInv, ReclaimerGiven, ShapeInv, CountInv, Inside, Adding, QueueInv,
              Reclaimer!QueueOfOne, NodeInv, HeldInv, GoneInv, Reclaimer!AllOut
<1>2. ASSUME NEW t \in Threads,
             \/ Reclaimer!AddCheckout(t) \/ Reclaimer!Find(t) \/ Reclaimer!UnlinkAndAdd(t) \/ Reclaimer!Enqueue(t) \/ Reclaimer!EndAdd(t)
             \/ Reclaimer!RemoveCheckout(t) \/ Reclaimer!Exchange(t) \/ Reclaimer!Run(t) \/ Reclaimer!Leave(t)
      PROVE  ReclaimerInv'
  BY <1>2, AddCheckoutInv, FindInv, UnlinkAndAddInv, EnqueueInv, EndAddInv, RemoveCheckoutInv,
     ExchangeInv, RunInv, LeaveInv
<1>3. CASE Reclaimer!Quiesce \/ Reclaimer!Destroy
  BY <1>3, DrainInv DEF Reclaimer!Quiesce, Reclaimer!Destroy
<1> QED
  BY <1>1, <1>2, <1>3 DEF Reclaimer!Next

LEMMA ReclaimerHolds == Spec => []ReclaimerInv
<1>1. ReclaimerGiven
  BY ReclaimerAssumption DEF Reclaimer!ReclaimerAssumption, ReclaimerGiven, Reclaimer!IsFiniteSet, IsFiniteSet
<1>2. Init => ReclaimerInv
  BY <1>1, InitReclaimerInv DEF Init
<1>3. [Next]_vars => [Reclaimer!Next]_(Reclaimer!vars)
  BY DEF Next, Of, Others, vars, reclaimerVars, Reclaimer!vars
<1>4. ReclaimerInv /\ [Reclaimer!Next]_(Reclaimer!vars) => ReclaimerInv'
  BY NextReclaimerInv
<1> QED
  BY <1>2, <1>3, <1>4, PTL DEF Spec

\* Every variable keeps its type.
THEOREM ReclaimerTypeCorrect == Spec => []Reclaimer!TypeOK
<1>1. ReclaimerInv => Reclaimer!TypeOK
  BY DEF ReclaimerInv, ShapeInv, ReclaimerLocals, Reclaimer!TypeOK
<1> QED
  BY <1>1, ReclaimerHolds, PTL

\* No node is freed while a thread that is checked out has found it.
THEOREM FreesNothingHeld == Spec => []Reclaimer!HeldNotFreed
<1>1. ReclaimerInv => Reclaimer!HeldNotFreed
  BY DEF ReclaimerInv, HeldInv, Reclaimer!HeldNotFreed
<1> QED
  BY <1>1, ReclaimerHolds, PTL

\* A queue is enqueued to by the checked out or run by one thread.
THEOREM QueuesHaveOneRunner == Spec => []Reclaimer!QueueOfOne
<1>1. ReclaimerInv => Reclaimer!QueueOfOne
  BY DEF ReclaimerInv, QueueInv
<1> QED
  BY <1>1, ReclaimerHolds, PTL

\* The assertions on the stamp hold.
THEOREM StampIsRight == Spec => []Reclaimer!StampAsserted
<1>1. ASSUME ReclaimerInv PROVE Reclaimer!StampAsserted
  <2>1. /\ IsFiniteSet(Inside) /\ IsFiniteSet(Adding)
        /\ Cardinality(Inside) \in Nat /\ Cardinality(Adding) \in Nat
        /\ rStamp = Cardinality(Inside) + Cardinality(Adding)
    BY <1>1, Counts DEF ReclaimerInv, CountInv
  <2>2. ASSUME NEW t \in Threads, rTh[t].pc # "out" PROVE rStamp > 0
    <3>1. Inside # {}
      BY <2>2 DEF Inside
    <3>2. Cardinality(Inside) # 0
      BY <2>1, <3>1, FS_EmptySet
    <3> QED
      BY <2>1, <3>2
  <2>3. ASSUME Reclaimer!AllOut PROVE rStamp = 0
    <3>1. Inside = {} /\ Adding = {}
      BY <2>3 DEF Reclaimer!AllOut, Inside, Adding
    <3> QED
      BY <2>1, <3>1, FS_EmptySet
  <2> QED
    BY <2>2, <2>3 DEF Reclaimer!StampAsserted
<1> QED
  BY <1>1, ReclaimerHolds, PTL

\* Disjoint parts of a finite set.
LEMMA TwoParts ==
    ASSUME NEW A, NEW B, IsFiniteSet(A), IsFiniteSet(B), A \cap B = {}
    PROVE  IsFiniteSet(A \cup B) /\ Cardinality(A \cup B) = Cardinality(A) + Cardinality(B)
<1>1. /\ IsFiniteSet(A \cup B)
      /\ Cardinality(A \cup B) = Cardinality(A) + Cardinality(B) - Cardinality(A \cap B)
  BY FS_Union
<1>2. Cardinality(A \cap B) = 0
  BY FS_EmptySet
<1>3. Cardinality(A) \in Nat /\ Cardinality(B) \in Nat
  BY FS_CardinalityType
<1> QED
  BY <1>1, <1>2, <1>3

LEMMA FourParts ==
    ASSUME NEW N, IsFiniteSet(N), NEW A \in SUBSET N, NEW B \in SUBSET N,
           NEW C \in SUBSET N, NEW D \in SUBSET N, A \cup B \cup C \cup D = N,
           A \cap B = {}, A \cap C = {}, A \cap D = {}, B \cap C = {}, B \cap D = {}, C \cap D = {}
    PROVE  Cardinality(A) + Cardinality(B) + Cardinality(C) + Cardinality(D) = Cardinality(N)
<1>1. /\ IsFiniteSet(A) /\ IsFiniteSet(B) /\ IsFiniteSet(C) /\ IsFiniteSet(D)
  BY FS_Subset
<1> DEFINE AB == A \cup B
           ABC == AB \cup C
<1>2. AB \cap C = {} /\ ABC \cap D = {} /\ ABC \cup D = N
  OBVIOUS
<1>3. IsFiniteSet(AB) /\ Cardinality(AB) = Cardinality(A) + Cardinality(B)
  BY <1>1, TwoParts
<1> HIDE DEF AB
<1>4. IsFiniteSet(ABC) /\ Cardinality(ABC) = Cardinality(AB) + Cardinality(C)
  BY <1>1, <1>2, <1>3, TwoParts
<1> HIDE DEF ABC
<1>5. Cardinality(ABC \cup D) = Cardinality(ABC) + Cardinality(D)
  BY <1>1, <1>2, <1>4, TwoParts
<1> QED
  BY <1>2, <1>3, <1>4, <1>5

\* Every node that is given to add() is freed, or waits in a queue that will be
\* run; none is freed twice, and the destructor leaves none.
THEOREM LosesNoNode == Spec => []Reclaimer!UnlinkedNotLost
<1>1. ASSUME ReclaimerInv PROVE Reclaimer!UnlinkedNotLost
  <2> DEFINE under == {n \in Unlinkable : \E t \in Threads : rTh[t].node = n}
             kept == {q \in Queues : q \in Reclaimer!InUse}
             queued == UNION {rPending[q] : q \in kept}
  <2>1. ShapeInv /\ QueueInv /\ NodeInv /\ GoneInv /\ ReclaimerGiven
    BY <1>1 DEF ReclaimerInv
  <2>2. \A q \in Queues : rPending[q] # {} => q \in kept
    BY <2>1 DEF QueueInv, Reclaimer!InUse
  <2>3. \A n : n \in queued <=> \E q \in Queues : n \in rPending[q]
    BY <2>2
  <2>4. /\ rLinked \in SUBSET Unlinkable /\ under \in SUBSET Unlinkable /\ rFreed \in SUBSET Unlinkable
        /\ queued \in SUBSET Unlinkable
    BY <2>1, <2>3 DEF ShapeInv
  <2>5. rDestroyed => under \cup queued = {}
    BY <2>1, <2>3 DEF GoneInv, Reclaimer!AllOut, ShapeInv, ReclaimerGiven
  <2>6. \A n : n \in under <=> n \in Unlinkable /\ \E t \in Threads : rTh[t].node = n
    OBVIOUS
  <2> HIDE DEF under, queued, kept
  <2>7. rLinked \cup under \cup queued \cup rFreed = Unlinkable
    BY <2>1, <2>3, <2>4, <2>6 DEF NodeInv
  <2>8. /\ rLinked \cap under = {} /\ rLinked \cap queued = {} /\ rLinked \cap rFreed = {}
        /\ under \cap queued = {} /\ under \cap rFreed = {} /\ queued \cap rFreed = {}
    BY <2>1, <2>3, <2>4, <2>6 DEF NodeInv
  <2>9. Cardinality(rLinked) + Cardinality(under) + Cardinality(queued) + Cardinality(rFreed)
          = Cardinality(Unlinkable)
    BY <2>1, <2>4, <2>7, <2>8, FourParts DEF ReclaimerGiven
  <2>10. \A S : Reclaimer!Cardinality(S) = Cardinality(S)
    BY DEF Reclaimer!Cardinality, Cardinality
  <2> QED
    BY <2>5, <2>7, <2>9, <2>10 DEF Reclaimer!UnlinkedNotLost, under, queued, kept
<1> QED
  BY <1>1, ReclaimerHolds, PTL

\* ref_count_memory_reclaimer keeps its contract, for any finite number of
\* threads and of nodes, and any number of checkouts.
THEOREM ReclaimerKeepsContract == Spec => []ReclaimerContract
  BY FreesNothingHeld, QueuesHaveOneRunner, LosesNoNode, StampIsRight, PTL DEF ReclaimerContract

-----------------------------------------------------------------------------
(* The skip list.                                                          *)

SP == INSTANCE SkipListProofs WITH
    node <- lNode, size <- lSize, th <- lTh, retired <- lRetired, deleted <- lDeleted,
    calls <- lCalls, present <- lPresent, seen <- lSeen, Threads <- Pair,
    MaxCalls <- MaxListCalls

\* The walks of both instances are the same.
LEMMA SameWalks ==
    /\ \A n, l : List!Unmarked(n, l) = SP!Unmarked(n, l)
    /\ List!Live = SP!Live
<1>1. \A n, l : List!Unmarked(n, l) = SP!Unmarked(n, l)
  BY DEF List!Unmarked, SP!Unmarked, List!Nodes, SP!Nodes, List!Nil, SP!Nil, List!Next0, SP!Next0
<1>2. \A l : List!OnLevel(l) = SP!OnLevel(l)
  BY DEF List!OnLevel, SP!OnLevel, List!Nodes, SP!Nodes, List!Nil, SP!Nil, List!Next0, SP!Next0,
         List!Head, SP!Head
<1>3. List!Live = SP!Live
  BY <1>2 DEF List!Live, SP!Live, List!Next0, SP!Next0
<1> QED
  BY <1>1, <1>3

LEMMA IsList == Spec => SP!Spec
<1>1. Init => SP!Init
  BY DEF Init, List!Init, SP!Init, List!NewNode, SP!NewNode, List!Link, SP!Link, List!Idle, SP!Idle,
         List!Levels, SP!Levels, List!Head, SP!Head, List!Nil, SP!Nil
<1>2. ASSUME NEW t \in Pair
      PROVE  /\ List!Insert(t) => SP!Insert(t)
             /\ List!Erase(t) => SP!Erase(t)
             /\ List!FindKey(t) => SP!FindKey(t)
             /\ List!Contains(t) => SP!Contains(t)
             /\ List!FindCurr(t) => SP!FindCurr(t)
             /\ List!FindSucc(t) => SP!FindSucc(t)
             /\ List!Snip(t) => SP!Snip(t)
             /\ List!InsertFound(t) => SP!InsertFound(t)
             /\ List!InsertBottom(t) => SP!InsertBottom(t)
             /\ List!InsertLevel(t) => SP!InsertLevel(t)
             /\ List!InsertCount(t) => SP!InsertCount(t)
             /\ List!EraseFound(t) => SP!EraseFound(t)
             /\ List!EraseMark(t) => SP!EraseMark(t)
             /\ List!EraseBottom(t) => SP!EraseBottom(t)
             /\ List!EraseFlag(t) => SP!EraseFlag(t)
             /\ List!EraseCount(t) => SP!EraseCount(t)
             /\ List!FindReturn(t) => SP!FindReturn(t)
             /\ List!Return(t) => SP!Return(t)
  <2>0. ASSUME NEW op, NEW k, NEW top, List!Call(t, op, k, top) PROVE SP!Call(t, op, k, top)
    <3>1. List!Idle = SP!Idle
      BY DEF List!Idle, SP!Idle, List!Head, SP!Head, List!Nil, SP!Nil, List!Levels, SP!Levels
    <3>2. \A r : List!StartFind(r) = SP!StartFind(r)
      BY DEF List!StartFind, SP!StartFind, List!Head, SP!Head
    <3> QED
      BY <2>0, <3>1, <3>2 DEF List!Call, SP!Call, List!Local, SP!Local
  <2>1. List!Insert(t) => SP!Insert(t)
    <3>1. List!Nodes = SP!Nodes /\ List!Nil = SP!Nil /\ \A S : List!Cardinality(S) = SP!Cardinality(S)
      BY DEF List!Nodes, SP!Nodes, List!Nil, SP!Nil, List!Cardinality, SP!Cardinality
    <3>2. List!Keys = SP!Keys /\ List!Levels = SP!Levels
      BY DEF List!Keys, SP!Keys, List!Levels, SP!Levels
    <3> QED
      BY <2>0, <3>1, <3>2 DEF List!Insert, SP!Insert
  <2>2. List!Erase(t) => SP!Erase(t)
    BY <2>0 DEF List!Erase, SP!Erase, List!Keys, SP!Keys
  <2>3. List!FindKey(t) => SP!FindKey(t)
    BY <2>0 DEF List!FindKey, SP!FindKey, List!Keys, SP!Keys
  <2>4. List!Contains(t) => SP!Contains(t)
    BY <2>0 DEF List!Contains, SP!Contains, List!Keys, SP!Keys
  <2>5. List!FindCurr(t) => SP!FindCurr(t)
    BY DEF List!FindCurr, List!Next0, List!At, List!Nil, List!Down, List!Head, List!Found,
           List!Reply, List!Idle, List!Levels, List!Last, List!Local, SP!FindCurr, SP!Next0,
           SP!At, SP!Nil, SP!Down, SP!Head, SP!Found, SP!Reply, SP!Idle, SP!Levels, SP!Last,
           SP!Local
  <2>6. List!FindSucc(t) => SP!FindSucc(t)
    BY DEF List!FindSucc, List!Down, List!Head, List!Found, List!Nil, List!Reply, List!Idle,
           List!Levels, List!Last, List!At, List!Less, List!OnMarked, List!Local, List!Next0,
           SP!FindSucc, SP!Down, SP!Head, SP!Found, SP!Nil, SP!Reply, SP!Idle, SP!Levels,
           SP!Last, SP!At, SP!Less, SP!OnMarked, SP!Local, SP!Next0
  <2>7. List!Snip(t) => SP!Snip(t)
    BY DEF List!Snip, List!StartFind, List!Head, List!Local, List!Link, List!Finds, List!Next0,
           SP!Snip, SP!StartFind, SP!Head, SP!Local, SP!Link, SP!Finds, SP!Next0
  <2>8. List!InsertFound(t) => SP!InsertFound(t)
    BY DEF List!InsertFound, List!Reply, List!Idle, List!Nil, List!Levels, List!Head, List!Local,
           List!Found, SP!InsertFound, SP!Reply, SP!Idle, SP!Nil, SP!Levels, SP!Head, SP!Local,
           SP!Found
  <2>9. List!InsertBottom(t) => SP!InsertBottom(t)
    BY DEF List!InsertBottom, List!StartFind, List!Head, List!Local, List!Observe, List!Link,
           List!NewNode, List!Nodes, List!MayLink, List!Finds, List!Next0, List!Found, List!Nil,
           List!Cardinality, SP!InsertBottom, SP!StartFind, SP!Head, SP!Local, SP!Observe,
           SP!Link, SP!NewNode, SP!Nodes, SP!MayLink, SP!Finds, SP!Next0, SP!Found, SP!Nil,
           SP!Cardinality
  <2>10. List!InsertLevel(t) => SP!InsertLevel(t)
    BY DEF List!InsertLevel, List!StartFind, List!Head, List!Local, List!Link, List!SetLink,
           List!MayLink, List!Finds, List!Next0, List!Nil, SP!InsertLevel, SP!StartFind, SP!Head,
           SP!Local, SP!Link, SP!SetLink, SP!MayLink, SP!Finds, SP!Next0, SP!Nil
  <2>11. List!InsertCount(t) => SP!InsertCount(t)
    BY DEF List!InsertCount, List!Reply, List!Idle, List!Nil, List!Levels, List!Head, List!Local,
           SP!InsertCount, SP!Reply, SP!Idle, SP!Nil, SP!Levels, SP!Head, SP!Local
  <2>12. List!EraseFound(t) => SP!EraseFound(t)
    BY DEF List!EraseFound, List!Reply, List!Idle, List!Nil, List!Levels, List!Head, List!Found,
           List!Local, SP!EraseFound, SP!Reply, SP!Idle, SP!Nil, SP!Levels, SP!Head, SP!Found,
           SP!Local
  <2>13. List!EraseMark(t) => SP!EraseMark(t)
    BY DEF List!EraseMark, List!Local, SP!EraseMark, SP!Local
  <2>14. List!EraseBottom(t) => SP!EraseBottom(t)
    BY DEF List!EraseBottom, List!Reply, List!Idle, List!Nil, List!Levels, List!Head, List!Local,
           List!Observe, List!MayMark, List!Next0, SP!EraseBottom, SP!Reply, SP!Idle, SP!Nil,
           SP!Levels, SP!Head, SP!Local, SP!Observe, SP!MayMark, SP!Next0
  <2>15. List!EraseFlag(t) => SP!EraseFlag(t)
    BY DEF List!EraseFlag, List!StartFind, List!Head, List!Local, SP!EraseFlag, SP!StartFind,
           SP!Head, SP!Local
  <2>16. List!EraseCount(t) => SP!EraseCount(t)
    BY DEF List!EraseCount, List!Reply, List!Idle, List!Nil, List!Levels, List!Head, List!Local,
           SP!EraseCount, SP!Reply, SP!Idle, SP!Nil, SP!Levels, SP!Head, SP!Local
  <2>17. List!FindReturn(t) => SP!FindReturn(t)
    BY DEF List!FindReturn, List!Found, List!Nil, List!Reply, List!Idle, List!Levels, List!Head,
           List!Local, SP!FindReturn, SP!Found, SP!Nil, SP!Reply, SP!Idle, SP!Levels, SP!Head,
           SP!Local
  <2>18. List!Return(t) => SP!Return(t)
    BY DEF List!Return, List!Idle, List!Nil, List!Levels, List!Head, List!Local, SP!Return,
           SP!Idle, SP!Nil, SP!Levels, SP!Head, SP!Local
  <2> QED
    BY <2>1, <2>2, <2>3, <2>4, <2>5, <2>6, <2>7, <2>8, <2>9,
       <2>10, <2>11, <2>12, <2>13, <2>14, <2>15, <2>16, <2>17, <2>18
<1>4. List!Quiesce => SP!Quiesce
  <2>1. \A n : List!ScanUnlink(n) = SP!ScanUnlink(n)
    BY SameWalks DEF List!ScanUnlink, SP!ScanUnlink, List!Link, SP!Link
  <2> QED
    BY <2>1 DEF List!Quiesce, SP!Quiesce, List!Nodes, SP!Nodes
<1>5. List!Next => SP!Next
  BY <1>2, <1>4 DEF List!Next, List!Search, List!Inserting, List!Erasing,
                    SP!Next, SP!Search, SP!Inserting, SP!Erasing
<1>6. [Next]_vars => [SP!Next]_(SP!vars)
  <2>1. Next => List!Next \/ UNCHANGED listVars
    BY DEF Next, Of, Others
  <2>2. UNCHANGED vars => UNCHANGED listVars
    BY DEF vars
  <2>3. UNCHANGED listVars => UNCHANGED SP!vars
    BY DEF listVars, SP!vars
  <2> QED
    BY <1>5, <2>1, <2>2, <2>3
<1> QED
  BY <1>1, <1>6, PTL DEF Spec, SP!Spec

LEMMA ListConstants == SP!ListAssumption
  BY ListAssumption DEF List!ListAssumption, SP!ListAssumption, List!IsFiniteSet, SP!IsFiniteSet

\* THEOREM: for every number of threads, keys and levels, and whatever the bounds
\* on the operations, lock_free_concurrent_skip_list is a set: no insertion or
\* removal is lost, levels are sorted, every answer was true during its call, and
\* at rest size() is the number of keys.
THEOREM SetKeepsContract == Spec => []SetContract
<1>1. SP!Spec => [](SP!AbstractSet /\ SP!LevelsSorted)
  BY ListConstants, SP!SetIsKept
<1>2. SP!Spec => [](SP!AnswersLinearize /\ SP!SizeAtRest)
  BY ListConstants, SP!AnswersAreRight
<1>3. SP!AbstractSet => List!AbstractSet
  BY SameWalks DEF SP!AbstractSet, List!AbstractSet, SP!Head, List!Head
<1>4. SP!LevelsSorted => List!LevelsSorted
  BY DEF SP!LevelsSorted, List!LevelsSorted, SP!Nodes, List!Nodes, SP!Next0, List!Next0, SP!Nil, List!Nil
<1>5. SP!AnswersLinearize => List!AnswersLinearize
  BY DEF SP!AnswersLinearize, List!AnswersLinearize
<1>6. SP!SizeAtRest => List!SizeAtRest
  BY DEF SP!SizeAtRest, List!SizeAtRest, SP!Cardinality, List!Cardinality
<1> QED
  BY IsList, <1>1, <1>2, <1>3, <1>4, <1>5, <1>6, PTL DEF SetContract

\* THEOREM: quiesce of the skip list frees no node to which a link of a node in
\* the set leads, at any level, although insert may link a node again after it
\* was taken out.
THEOREM ReclaimIsSafe == Spec => []ReclaimSafe
<1>1. SP!Spec => []SP!ReclaimSafe
  BY ListConstants, SP!FreesNothingLinked
<1>2. SP!ReclaimSafe => ReclaimSafe
  BY SameWalks DEF ReclaimSafe, SP!ReclaimSafe, List!ReclaimSafe, SP!Next0, List!Next0
<1> QED
  BY IsList, <1>1, <1>2, PTL

-----------------------------------------------------------------------------
(* The vector.  A slot never gets back what it held before a push wrote it, *)
(* so whoever helps with a descriptor of long ago finds it done; and only   *)
(* the last descriptor may still have to be written.                        *)

LEMMA VectorConstants == FirstBucket \in Nat \ {0} /\ Nothing \notin Items
  BY VectorAssumption DEF Vector!VectorAssumption

\* 2^k counts the subsets of 1 .. k.
LEMMA SubsetsOfInterval ==
    ASSUME NEW k \in Nat
    PROVE  IsFiniteSet(SUBSET (1 .. k)) /\ Cardinality(SUBSET (1 .. k)) = 2^k
<1>1. IsFiniteSet(1 .. k) /\ Cardinality(1 .. k) = k
  BY FS_Interval
<1> QED
  BY <1>1, FS_SUBSET

\* Each power of two is twice the one before: the subsets of 1 .. k + 1 are those
\* without k + 1 and, as many, those with it.
LEMMA PowersDouble ==
    ASSUME NEW k \in Nat
    PROVE  2^k \in Nat /\ 2^k # 0 /\ 2^(k + 1) = 2 * 2^k
<1> DEFINE S == SUBSET (1 .. k)
           T == {A \in SUBSET (1 .. (k + 1)) : k + 1 \in A}
           f == [A \in S |-> A \cup {k + 1}]
<1>1. IsFiniteSet(S) /\ Cardinality(S) = 2^k
  BY SubsetsOfInterval
<1>2. IsFiniteSet(SUBSET (1 .. (k + 1))) /\ Cardinality(SUBSET (1 .. (k + 1))) = 2^(k + 1)
  BY SubsetsOfInterval
<1>3. 1 .. (k + 1) = (1 .. k) \cup {k + 1} /\ k + 1 \notin 1 .. k
  OBVIOUS
<1>4. SUBSET (1 .. (k + 1)) = S \cup T /\ S \cap T = {}
  BY <1>3
<1>5. f \in Bijection(S, T)
  <2>1. f \in [S -> T]
    BY <1>3
  <2>2. \A A, B \in S : f[A] = f[B] => A = B
    <3> SUFFICES ASSUME NEW A \in S, NEW B \in S, A \cup {k + 1} = B \cup {k + 1} PROVE A = B
      OBVIOUS
    <3> QED
      BY <1>3
  <2>3. \A C \in T : \E A \in S : f[A] = C
    <3> SUFFICES ASSUME NEW C \in T PROVE C \ {k + 1} \in S /\ f[C \ {k + 1}] = C
      OBVIOUS
    <3>1. C \ {k + 1} \in S
      BY <1>3
    <3>2. (C \ {k + 1}) \cup {k + 1} = C
      OBVIOUS
    <3> QED
      BY <3>1, <3>2
  <2> HIDE DEF f, S, T
  <2> QED
    BY <2>1, <2>2, <2>3 DEF Bijection, Injection, Surjection, IsInjective
<1> HIDE DEF f, S, T
<1>6. IsFiniteSet(T) /\ Cardinality(T) = Cardinality(S)
  BY <1>1, <1>5, FS_Bijection DEF ExistsBijection
<1>7. Cardinality(S \cup T) = Cardinality(S) + Cardinality(T)
  <2>1. Cardinality(S \cup T) = Cardinality(S) + Cardinality(T) - Cardinality(S \cap T)
    BY <1>1, <1>6, FS_Union
  <2>2. Cardinality(S \cap T) = 0
    BY <1>4, FS_EmptySet
  <2>3. Cardinality(S) \in Nat /\ Cardinality(T) \in Nat
    BY <1>1, <1>6, FS_CardinalityType
  <2> QED
    BY <2>1, <2>2, <2>3
<1>8. {} \in S
  BY DEF S
<1>9. Cardinality(S) \in Nat /\ Cardinality(S) # 0
  BY <1>1, <1>8, FS_CardinalityType, FS_EmptySet
<1>10. Cardinality(S \cup T) = 2 * Cardinality(S)
  BY <1>6, <1>7, <1>9
<1>11. 2^(k + 1) = Cardinality(S \cup T) /\ 2^k = Cardinality(S)
  BY <1>1, <1>2, <1>4
<1> QED
  BY <1>9, <1>10, <1>11, Zenon

LEMMA SlotsGrow ==
    ASSUME NEW k \in Nat
    PROVE  Vector!Slots(k) \in Nat /\ Vector!Slots(k + 1) \in Nat /\ Vector!Slots(k) < Vector!Slots(k + 1)
<1>1. PICK p \in Nat : p = 2^k /\ p # 0 /\ 2^(k + 1) = 2 * p
  BY PowersDouble
<1>2. PICK f \in Nat : f = FirstBucket /\ f # 0
  BY VectorConstants
<1>3. Vector!Slots(k) = f * (p - 1) /\ Vector!Slots(k + 1) = f * (2 * p - 1)
  BY <1>1, <1>2 DEF Vector!Slots
<1>4. f * (2 * p - 1) = f * (p - 1) + f * p
  OBVIOUS
<1>5. f * p \in Nat /\ f * p # 0 /\ f * (p - 1) \in Nat
  BY <1>1, <1>2
<1> QED
  BY <1>3, <1>4, <1>5

Descs == [size : Nat, old : Items \cup {Nothing}, new : Items \cup {Nothing}, loc : Nat,
          state : {"read", "write_pending", "write_complete"}]

Locals == [pc : {"idle", "help", "write", "set_state", "prepare", "grow", "read", "publish"},
           op : {"none", "push", "pop", "finish"}, cur : Nat,
           node : Items \cup {Nothing}, old : Items \cup {Nothing}, saw : Nat]

SharedOK ==
    /\ vDesc \in Seq(Descs) /\ Len(vDesc) # 0
    /\ vBuckets \in Nat
    /\ vSlot \in [0 .. Vector!Slots(vBuckets) - 1 -> Items \cup {Nothing}]
    /\ vTh \in [Pair -> Locals]
    /\ vFresh \subseteq Items /\ vRetired \subseteq Items

\* A descriptor of a push has the slot before its size, and the bucket of that
\* slot exists.
DescOK(d) ==
    /\ d.new = Nothing <=> d.state = "read"
    /\ d.new # Nothing => d.size = d.loc + 1
    /\ d.size <= Vector!Slots(vBuckets)

\* The push of descriptor d has been written to its slot: nobody can write it
\* again, as the slot never gets back what it held before.
Done(d) == d.new # Nothing => vSlot[d.loc] # d.old

DescInv ==
    /\ \A k \in 1 .. Len(vDesc) : DescOK(vDesc[k])
    /\ \A k \in 1 .. Len(vDesc) : vDesc[k].new \notin vFresh
    /\ \A j, k \in 1 .. Len(vDesc) : vDesc[j].new = vDesc[k].new /\ vDesc[j].new # Nothing => j = k
    /\ \A k \in 1 .. Len(vDesc) : vDesc[k].old # Nothing =>
          \E j \in 1 .. Len(vDesc) : j < k /\ vDesc[j].new = vDesc[k].old
    /\ \A k \in 1 .. Len(vDesc) : k # Len(vDesc) => Done(vDesc[k])
    /\ \A k \in 1 .. Len(vDesc) : vDesc[k].state = "write_complete" => Done(vDesc[k])

\* What is in a slot was pushed there; that of the last push is written or not.
SlotInv ==
    /\ \A i \in DOMAIN vSlot : vSlot[i] # Nothing =>
          \E j \in 1 .. Len(vDesc) : vDesc[j].new = vSlot[i] /\ vDesc[j].loc = i
    /\ vDesc[Len(vDesc)].new # Nothing =>
          vSlot[vDesc[Len(vDesc)].loc] \in {vDesc[Len(vDesc)].old, vDesc[Len(vDesc)].new}
    /\ \A n \in vRetired : \E k \in 1 .. Len(vDesc) : vDesc[k].new = n

\* The element at index i.
Elem(i) ==
    LET d == vDesc[Len(vDesc)]
    IN  IF d.new # Nothing /\ i = d.loc THEN d.new ELSE vSlot[i]

ElemInv ==
    \A i \in 0 .. vDesc[Len(vDesc)].size - 1 : Elem(i) \in Items /\ Elem(i) \notin vRetired

\* What a thread with the local variables r relies on.
ThreadInv(r) ==
    /\ r.pc = "idle" => r.op = "none"
    /\ r.pc # "idle" => r.cur \in 1 .. Len(vDesc) /\ r.op # "none"
    /\ r.cur <= Len(vDesc)
    /\ r.op = "push" => /\ r.node \in Items \ vFresh
                        /\ \A k \in 1 .. Len(vDesc) : vDesc[k].new # r.node
    /\ r.op = "finish" => r.pc \in {"help", "write", "set_state"}
    /\ r.pc \in {"write", "set_state"} => vDesc[r.cur].new # Nothing
    /\ r.pc \in {"set_state", "prepare", "grow", "read", "publish"} => Done(vDesc[r.cur])
    /\ r.pc = "grow" => r.op = "push" /\ (r.saw = vBuckets \/ vDesc[r.cur].size < Vector!Slots(vBuckets))
    /\ r.pc \in {"read", "publish"} =>
          IF r.op = "push" THEN vDesc[r.cur].size < Vector!Slots(vBuckets) ELSE vDesc[r.cur].size # 0
    /\ r.pc = "publish" /\ r.op = "push" =>
          /\ r.old # Nothing => \E j \in 1 .. Len(vDesc) : vDesc[j].new = r.old
          /\ r.cur = Len(vDesc) => r.old = vSlot[vDesc[r.cur].size]
    /\ r.pc = "publish" /\ r.op = "pop" /\ r.cur = Len(vDesc) =>
          r.node = vSlot[vDesc[r.cur].size - 1]

\* A node is pushed by one thread.
Owners ==
    \A t, u \in Pair :
       vTh[t].op = "push" /\ vTh[u].op = "push" /\ vTh[t].node = vTh[u].node => t = u

\* A push that size() does not count yet is in the hands of a thread that
\* will complete it.
Completes(r) ==
    LET d == vDesc[Len(vDesc)]
    IN  /\ r.cur = Len(vDesc)
        /\ IF vSlot[d.loc] = d.old THEN r.op = "finish" /\ r.pc \in {"help", "write"}
                                  ELSE r.pc = "set_state"

PendingInv ==
    vDesc[Len(vDesc)].state = "write_pending" => \E t \in Pair : Completes(vTh[t])

VectorInv ==
    /\ SharedOK /\ DescInv /\ SlotInv /\ ElemInv /\ Owners /\ PendingInv
    /\ \A t \in Pair : ThreadInv(vTh[t])

-----------------------------------------------------------------------------
\* The node that a push writes is not what any slot held before it.
LEMMA OldNotNew ==
    ASSUME SharedOK, DescInv, NEW j \in 1 .. Len(vDesc), NEW k \in 1 .. Len(vDesc), j <= k,
           vDesc[k].new # Nothing
    PROVE  vDesc[j].old # vDesc[k].new
<1>1. Len(vDesc) \in Nat
  BY LenProperties DEF SharedOK
<1> SUFFICES ASSUME vDesc[j].old = vDesc[k].new PROVE FALSE
  OBVIOUS
<1>2. PICK i \in 1 .. Len(vDesc) : i < j /\ vDesc[i].new = vDesc[j].old
  BY DEF DescInv
<1>3. i = k
  BY <1>2 DEF DescInv
<1> QED
  BY <1>1, <1>2, <1>3

\* A step that changes the local variables of one thread only.
LEMMA LocalStep ==
    ASSUME VectorInv, UNCHANGED <<vDesc, vSlot, vBuckets, vRetired>>, vFresh' \subseteq vFresh,
           NEW t \in Pair, NEW r \in Locals, vTh' = [vTh EXCEPT ![t] = r],
           ThreadInv(r)',
           r.op = "push" => \/ vTh[t].op = "push" /\ vTh[t].node = r.node
                            \/ r.node \in vFresh,
           Completes(vTh[t]) /\ vDesc[Len(vDesc)].state = "write_pending" => Completes(r)
    PROVE  VectorInv'
<1>1. vTh'[t] = r /\ \A u \in Pair \ {t} : vTh'[u] = vTh[u]
  BY DEF VectorInv, SharedOK
<1>2. SharedOK'
  BY DEF VectorInv, SharedOK
<1>3. DescInv'
  BY DEF VectorInv, DescInv, DescOK, Done
<1>4. SlotInv' /\ ElemInv'
  BY DEF VectorInv, SlotInv, ElemInv, Elem
<1>5. ASSUME NEW u \in Pair PROVE ThreadInv(vTh[u])'
  <2>1. CASE u = t
    BY <1>1, <2>1 DEF ThreadInv, Done
  <2>2. CASE u # t
    BY <1>1, <2>2 DEF VectorInv, ThreadInv, Done
  <2> QED
    BY <2>1, <2>2
<1>6. Owners'
  <2> SUFFICES ASSUME NEW u \in Pair, NEW v \in Pair, u # v,
                      vTh'[u].op = "push", vTh'[v].op = "push", vTh'[u].node = vTh'[v].node
               PROVE  FALSE
    BY DEF Owners
  <2>1. \A w \in Pair : ThreadInv(vTh[w])
    BY DEF VectorInv
  <2>2. \A w \in Pair \ {t} : vTh[w].op = "push" => vTh[w].node \notin vFresh
    BY <2>1 DEF ThreadInv
  <2> QED
    BY <1>1, <2>2 DEF VectorInv, Owners
<1>7. PendingInv'
  <2> SUFFICES ASSUME vDesc[Len(vDesc)].state = "write_pending"
               PROVE  \E u \in Pair : Completes(vTh'[u])
    BY DEF PendingInv, Completes
  <2>1. PICK u \in Pair : Completes(vTh[u])
    BY DEF VectorInv, PendingInv
  <2>2. CASE u = t
    BY <1>1, <2>1, <2>2
  <2>3. CASE u # t
    BY <1>1, <2>1, <2>3
  <2> QED
    BY <2>2, <2>3
<1> QED
  BY <1>2, <1>3, <1>4, <1>5, <1>6, <1>7 DEF VectorInv

LEMMA LocalTypes ==
    ASSUME VectorInv, NEW t \in Pair
    PROVE  /\ vTh[t] \in Locals /\ ThreadInv(vTh[t]) /\ Len(vDesc) \in Nat /\ Len(vDesc) # 0
           /\ \A k \in 1 .. Len(vDesc) : vDesc[k] \in Descs /\ DescOK(vDesc[k])
           /\ vBuckets \in Nat /\ vSlot \in [0 .. Vector!Slots(vBuckets) - 1 -> Items \cup {Nothing}]
<1>1. vDesc \in Seq(Descs) /\ Len(vDesc) # 0 /\ vTh \in [Pair -> Locals]
      /\ vBuckets \in Nat /\ vSlot \in [0 .. Vector!Slots(vBuckets) - 1 -> Items \cup {Nothing}]
  BY DEF VectorInv, SharedOK
<1>2. Len(vDesc) \in Nat /\ \A k \in 1 .. Len(vDesc) : vDesc[k] \in Descs
  BY <1>1, ElementOfSeq, LenProperties
<1>3. \A k \in 1 .. Len(vDesc) : DescOK(vDesc[k])
  BY DEF VectorInv, DescInv
<1> QED
  BY <1>1, <1>2, <1>3 DEF VectorInv

LEMMA IdleFacts ==
    Vector!Idle \in Locals /\ Vector!Idle.pc = "idle" /\ Vector!Idle.op = "none" /\ Vector!Idle.cur = 0
  BY DEF Vector!Idle, Locals

LEMMA IdleInv == ASSUME VectorInv PROVE ThreadInv(Vector!Idle)
<1>1. Len(vDesc) \in Nat
  BY LenProperties DEF VectorInv, SharedOK
<1> QED
  BY <1>1, IdleFacts DEF ThreadInv

\* The same, when the allocator is not asked either.
LEMMA LocalStay ==
    ASSUME VectorInv, UNCHANGED <<vDesc, vSlot, vBuckets, vRetired, vFresh>>,
           NEW t \in Pair, NEW r \in Locals, vTh' = [vTh EXCEPT ![t] = r],
           ThreadInv(r),
           r.op = "push" => vTh[t].op = "push" /\ vTh[t].node = r.node,
           Completes(vTh[t]) /\ vDesc[Len(vDesc)].state = "write_pending" => Completes(r)
    PROVE  VectorInv'
<1>1. ThreadInv(r)'
  BY DEF ThreadInv, Done
<1> QED
  BY <1>1, LocalStep

LEMMA BeginStep ==
    ASSUME VectorInv, NEW t \in Pair, Vector!PushBack(t) \/ Vector!PopBack(t)
    PROVE  VectorInv'
<1>1. /\ Len(vDesc) \in Nat /\ Len(vDesc) # 0 /\ vTh[t] \in Locals
      /\ \A k \in 1 .. Len(vDesc) : vDesc[k].new \notin vFresh
      /\ vFresh \subseteq Items
  BY LocalTypes DEF VectorInv, DescInv, SharedOK
<1>2. vTh[t].pc = "idle" /\ UNCHANGED <<vDesc, vSlot, vBuckets, vRetired>>
  BY DEF Vector!PushBack, Vector!PopBack, Vector!Begin
<1>3. ~Completes(vTh[t])
  BY <1>2 DEF Completes
<1>4. CASE Vector!PushBack(t)
  <2>1. PICK n \in vFresh : Vector!Begin(t, "push", n) /\ vFresh' = vFresh \ {n}
    BY <1>4 DEF Vector!PushBack
  <2>2. PICK r : /\ r = [Vector!Idle EXCEPT !.pc = "help", !.op = "push", !.node = n, !.cur = Len(vDesc)]
                 /\ vTh' = [vTh EXCEPT ![t] = r]
    BY <2>1 DEF Vector!Begin, Vector!Local, Vector!Current
  <2>3. /\ r \in Locals /\ r.pc = "help" /\ r.op = "push" /\ r.node = n /\ r.cur = Len(vDesc)
    BY <1>1, <2>2 DEF Locals, Vector!Idle
  <2>4. ThreadInv(r)'
    BY <1>1, <1>2, <2>1, <2>3 DEF ThreadInv
  <2>5. r.node \in vFresh
    BY <2>3
  <2> QED
    BY <1>2, <1>3, <2>1, <2>2, <2>3, <2>4, <2>5, LocalStep
<1>5. CASE Vector!PopBack(t)
  <2>1. PICK r : /\ r = [Vector!Idle EXCEPT !.pc = "help", !.op = "pop", !.node = Nothing, !.cur = Len(vDesc)]
                 /\ vTh' = [vTh EXCEPT ![t] = r] /\ vFresh' = vFresh
    BY <1>5 DEF Vector!PopBack, Vector!Begin, Vector!Local, Vector!Current
  <2>2. r \in Locals /\ r.pc = "help" /\ r.op = "pop" /\ r.cur = Len(vDesc)
    BY <1>1, <2>1 DEF Locals, Vector!Idle
  <2>3. ThreadInv(r)
    BY <1>1, <1>2, <2>2 DEF ThreadInv
  <2> QED
    BY <1>2, <1>3, <2>1, <2>2, <2>3, LocalStay
<1> QED
  BY <1>4, <1>5

\* What a thread goes on with, once the descriptor it has read is done.
LEMMA HelpedInv ==
    ASSUME VectorInv, NEW t \in Pair, vTh[t].pc \in {"help", "write", "set_state"},
           Done(vDesc[vTh[t].cur])
    PROVE  /\ Vector!Helped(vTh[t]) \in Locals /\ ThreadInv(Vector!Helped(vTh[t]))
           /\ Vector!Helped(vTh[t]).op = "push" => vTh[t].op = "push" /\ vTh[t].node = Vector!Helped(vTh[t]).node
           /\ Vector!Helped(vTh[t]).pc \in {"idle", "prepare"}
<1>1. vTh[t] \in Locals /\ ThreadInv(vTh[t]) /\ Len(vDesc) \in Nat
  BY LocalTypes
<1>2. CASE vTh[t].op = "finish"
  BY <1>1, <1>2, IdleFacts, IdleInv DEF Vector!Helped
<1>3. CASE vTh[t].op # "finish"
  <2>1. Vector!Helped(vTh[t]) = [vTh[t] EXCEPT !.pc = "prepare"]
    BY <1>3 DEF Vector!Helped
  <2>2. /\ Vector!Helped(vTh[t]) \in Locals
        /\ Vector!Helped(vTh[t]).pc = "prepare" /\ Vector!Helped(vTh[t]).op = vTh[t].op
        /\ Vector!Helped(vTh[t]).cur = vTh[t].cur /\ Vector!Helped(vTh[t]).node = vTh[t].node
    BY <1>1, <2>1 DEF Locals
  <2>3. ThreadInv(Vector!Helped(vTh[t]))
    BY <1>1, <1>3, <2>2 DEF ThreadInv
  <2> QED
    BY <2>2, <2>3
<1> QED
  BY <1>2, <1>3

LEMMA ReadStateStep ==
    ASSUME VectorInv, NEW t \in Pair, Vector!ReadState(t)
    PROVE  VectorInv'
<1>1. /\ vTh[t] \in Locals /\ ThreadInv(vTh[t]) /\ vTh[t].pc = "help"
      /\ UNCHANGED <<vDesc, vSlot, vBuckets, vRetired, vFresh>>
      /\ vTh[t].cur \in 1 .. Len(vDesc) /\ Len(vDesc) \in Nat
      /\ vDesc[vTh[t].cur] \in Descs /\ DescOK(vDesc[vTh[t].cur])
  BY LocalTypes DEF Vector!ReadState, ThreadInv
<1>2. CASE vDesc[vTh[t].cur].state = "write_pending"
  <2>1. PICK r : r = [vTh[t] EXCEPT !.pc = "write"] /\ vTh' = [vTh EXCEPT ![t] = r]
    BY <1>2 DEF Vector!ReadState, Vector!Local
  <2>2. /\ r \in Locals /\ r.pc = "write" /\ r.op = vTh[t].op /\ r.cur = vTh[t].cur
        /\ r.node = vTh[t].node
    BY <1>1, <2>1 DEF Locals
  <2>3. ThreadInv(r)
    BY <1>1, <1>2, <2>2 DEF ThreadInv, DescOK
  <2>4. Completes(vTh[t]) => Completes(r)
    BY <1>1, <2>2 DEF Completes
  <2> QED
    BY <1>1, <2>1, <2>2, <2>3, <2>4, LocalStay
<1>3. CASE vDesc[vTh[t].cur].state # "write_pending"
  <2>1. Done(vDesc[vTh[t].cur])
    <3>1. vDesc[vTh[t].cur].state \in {"read", "write_complete"}
      BY <1>1, <1>3 DEF Descs
    <3> QED
      BY <1>1, <3>1 DEF Done, DescOK, VectorInv, DescInv
  <2>2. PICK r : r = Vector!Helped(vTh[t]) /\ vTh' = [vTh EXCEPT ![t] = r]
    BY <1>3 DEF Vector!ReadState, Vector!Local
  <2>3. r \in Locals /\ ThreadInv(r) /\ (r.op = "push" => vTh[t].op = "push" /\ vTh[t].node = r.node)
    BY <1>1, <2>1, <2>2, HelpedInv
  <2>4. vDesc[Len(vDesc)].state = "write_pending" => ~Completes(vTh[t])
    BY <1>1, <1>3 DEF Completes
  <2> QED
    BY <1>1, <2>2, <2>3, <2>4, LocalStay
<1> QED
  BY <1>2, <1>3

LEMMA PrepareStep ==
    ASSUME VectorInv, NEW t \in Pair, Vector!Prepare(t)
    PROVE  VectorInv'
<1>1. /\ vTh[t] \in Locals /\ ThreadInv(vTh[t]) /\ vTh[t].pc = "prepare"
      /\ UNCHANGED <<vDesc, vSlot, vBuckets, vRetired, vFresh>>
      /\ vTh[t].cur \in 1 .. Len(vDesc) /\ Len(vDesc) \in Nat
      /\ vDesc[vTh[t].cur] \in Descs /\ DescOK(vDesc[vTh[t].cur])
      /\ vBuckets \in Nat /\ Vector!Slots(vBuckets) \in Nat
  BY LocalTypes, SlotsGrow DEF Vector!Prepare, ThreadInv
<1>2. ~Completes(vTh[t])
  BY <1>1 DEF Completes
<1>3. ASSUME NEW r \in Locals, vTh' = [vTh EXCEPT ![t] = r], ThreadInv(r),
             r.op = "push" => vTh[t].op = "push" /\ vTh[t].node = r.node
      PROVE  VectorInv'
  BY <1>1, <1>2, <1>3, LocalStay
<1>4. vDesc[vTh[t].cur].size \in Nat
  BY <1>1 DEF Descs
<1>5. CASE vTh[t].op = "pop"
  <2>1. CASE vDesc[vTh[t].cur].size = 0
    BY <1>3, <1>5, <2>1, IdleInv, IdleFacts DEF Vector!Prepare, Vector!Local
  <2>2. CASE vDesc[vTh[t].cur].size # 0
    <3>1. PICK r : r = [vTh[t] EXCEPT !.pc = "read"] /\ vTh' = [vTh EXCEPT ![t] = r]
      BY <1>5, <2>2 DEF Vector!Prepare, Vector!Local
    <3>2. r \in Locals /\ r.pc = "read" /\ r.op = "pop" /\ r.cur = vTh[t].cur
      BY <1>1, <1>5, <3>1 DEF Locals
    <3>3. ThreadInv(r)
      BY <1>1, <2>2, <3>2 DEF ThreadInv
    <3> QED
      BY <1>3, <3>1, <3>2, <3>3
  <2> QED
    BY <2>1, <2>2
<1>6. CASE vTh[t].op # "pop"
  <2>1. vTh[t].op = "push"
    BY <1>1, <1>6 DEF ThreadInv, Locals
  <2>2. PICK r : /\ r = [vTh[t] EXCEPT !.pc = IF vDesc[vTh[t].cur].size < Vector!Slots(vBuckets) THEN "read" ELSE "grow",
                                        !.saw = vBuckets]
                 /\ vTh' = [vTh EXCEPT ![t] = r]
    BY <1>6 DEF Vector!Prepare, Vector!Local
  <2>3. /\ r \in Locals /\ r.op = "push" /\ r.cur = vTh[t].cur /\ r.node = vTh[t].node
        /\ r.saw = vBuckets
        /\ r.pc = IF vDesc[vTh[t].cur].size < Vector!Slots(vBuckets) THEN "read" ELSE "grow"
    BY <1>1, <2>1, <2>2 DEF Locals
  <2>4. ThreadInv(r)
    BY <1>1, <2>1, <2>3 DEF ThreadInv
  <2> QED
    BY <1>3, <2>1, <2>2, <2>3, <2>4
<1> QED
  BY <1>5, <1>6

LEMMA ReadSlotStep ==
    ASSUME VectorInv, NEW t \in Pair, Vector!ReadSlot(t)
    PROVE  VectorInv'
<1>1. /\ vTh[t] \in Locals /\ ThreadInv(vTh[t]) /\ vTh[t].pc = "read"
      /\ UNCHANGED <<vDesc, vSlot, vBuckets, vRetired, vFresh>>
      /\ vTh[t].cur \in 1 .. Len(vDesc) /\ Len(vDesc) \in Nat
      /\ vDesc[vTh[t].cur] \in Descs /\ DescOK(vDesc[vTh[t].cur])
      /\ vBuckets \in Nat /\ Vector!Slots(vBuckets) \in Nat
      /\ vSlot \in [0 .. Vector!Slots(vBuckets) - 1 -> Items \cup {Nothing}]
  BY LocalTypes, SlotsGrow DEF Vector!ReadSlot, ThreadInv
<1>2. ~Completes(vTh[t])
  BY <1>1 DEF Completes
<1>3. PICK s \in Nat : s = vDesc[vTh[t].cur].size /\ s <= Vector!Slots(vBuckets)
  BY <1>1 DEF Descs, DescOK
<1>4. CASE vTh[t].op = "push"
  <2>1. s < Vector!Slots(vBuckets)
    BY <1>1, <1>3, <1>4 DEF ThreadInv
  <2>2. s \in DOMAIN vSlot /\ vSlot[s] \in Items \cup {Nothing}
    BY <1>1, <2>1
  <2>3. PICK r : /\ r = [vTh[t] EXCEPT !.pc = "publish", !.old = vSlot[s], !.saw = 0]
                 /\ vTh' = [vTh EXCEPT ![t] = r]
    BY <1>3, <1>4 DEF Vector!ReadSlot, Vector!SlotOf, Vector!Local
  <2>4. /\ r \in Locals /\ r.op = "push" /\ r.cur = vTh[t].cur /\ r.node = vTh[t].node
        /\ r.pc = "publish" /\ r.old = vSlot[s]
    BY <1>1, <1>4, <2>2, <2>3 DEF Locals
  <2>5. vSlot[s] # Nothing => \E j \in 1 .. Len(vDesc) : vDesc[j].new = vSlot[s]
    BY <2>2 DEF VectorInv, SlotInv
  <2>6. ThreadInv(r)
    BY <1>1, <1>3, <1>4, <2>4, <2>5 DEF ThreadInv
  <2> QED
    BY <1>1, <1>2, <1>4, <2>3, <2>4, <2>6, LocalStay
<1>5. CASE vTh[t].op # "push"
  <2>1. s # 0 /\ vTh[t].op = "pop"
    BY <1>1, <1>3, <1>5 DEF ThreadInv, Locals
  <2>2. s - 1 \in DOMAIN vSlot /\ vSlot[s - 1] \in Items \cup {Nothing}
    <3>1. s - 1 \in 0 .. Vector!Slots(vBuckets) - 1
      BY <1>1, <1>3, <2>1
    <3> QED
      BY <1>1, <3>1
  <2>3. PICK r : r = [vTh[t] EXCEPT !.pc = "publish", !.node = vSlot[s - 1]] /\ vTh' = [vTh EXCEPT ![t] = r]
    BY <1>3, <1>5 DEF Vector!ReadSlot, Vector!SlotOf, Vector!Local
  <2>4. /\ r \in Locals /\ r.op = "pop" /\ r.cur = vTh[t].cur /\ r.node = vSlot[s - 1]
        /\ r.pc = "publish"
    BY <1>1, <2>1, <2>2, <2>3 DEF Locals
  <2>5. ThreadInv(r)
    BY <1>1, <1>3, <2>1, <2>4 DEF ThreadInv
  <2> QED
    BY <1>1, <1>2, <2>3, <2>4, <2>5, LocalStay
<1> QED
  BY <1>4, <1>5

\* The slot of a push that is written stays different from what it held.
LEMMA WriteStep ==
    ASSUME VectorInv, NEW t \in Pair, Vector!WriteSlot(t)
    PROVE  VectorInv'
<1>1. /\ vTh[t] \in Locals /\ ThreadInv(vTh[t]) /\ vTh[t].pc = "write"
      /\ UNCHANGED <<vDesc, vBuckets, vRetired, vFresh>>
      /\ vTh[t].cur \in 1 .. Len(vDesc) /\ Len(vDesc) \in Nat
      /\ vDesc[vTh[t].cur] \in Descs /\ DescOK(vDesc[vTh[t].cur]) /\ vDesc[vTh[t].cur].new # Nothing
      /\ vBuckets \in Nat /\ Vector!Slots(vBuckets) \in Nat
      /\ vSlot \in [0 .. Vector!Slots(vBuckets) - 1 -> Items \cup {Nothing}]
  BY LocalTypes, SlotsGrow DEF Vector!WriteSlot, ThreadInv
<1>2. PICK d : d = vDesc[vTh[t].cur] /\ d \in Descs /\ d.new # Nothing /\ d.size = d.loc + 1
  BY <1>1 DEF DescOK
<1>3. CASE vSlot[d.loc] # d.old
  <2>1. Done(vDesc[vTh[t].cur])
    BY <1>2, <1>3 DEF Done
  <2>2. PICK r : r = Vector!Helped(vTh[t]) /\ vTh' = [vTh EXCEPT ![t] = r] /\ UNCHANGED vSlot
    BY <1>2, <1>3 DEF Vector!WriteSlot, Vector!Local, Vector!MayWrite
  <2>3. r \in Locals /\ ThreadInv(r) /\ (r.op = "push" => vTh[t].op = "push" /\ vTh[t].node = r.node)
    BY <1>1, <2>1, <2>2, HelpedInv
  <2>4. ~Completes(vTh[t])
    BY <1>1, <1>2, <1>3 DEF Completes
  <2> QED
    BY <1>1, <2>2, <2>3, <2>4, LocalStay
<1>4. CASE vSlot[d.loc] = d.old
  <2>1. PICK r : /\ r = [vTh[t] EXCEPT !.pc = "set_state"] /\ vTh' = [vTh EXCEPT ![t] = r]
                 /\ vSlot' = [vSlot EXCEPT ![d.loc] = d.new]
    BY <1>2, <1>4 DEF Vector!WriteSlot, Vector!Local, Vector!MayWrite
  <2>2. /\ r \in Locals /\ r.pc = "set_state" /\ r.op = vTh[t].op /\ r.cur = vTh[t].cur
        /\ r.node = vTh[t].node
    BY <1>1, <2>1 DEF Locals
  <2>3. vTh[t].cur = Len(vDesc) /\ d = vDesc[Len(vDesc)]
    BY <1>1, <1>2, <1>4 DEF VectorInv, DescInv, Done
  <2>4. /\ d.loc \in 0 .. Vector!Slots(vBuckets) - 1 /\ d.new \in Items \cup {Nothing}
        /\ d.loc \in Nat /\ d.size \in Nat
    BY <1>1, <1>2 DEF Descs, DescOK
  <2>5. /\ vSlot' \in [0 .. Vector!Slots(vBuckets) - 1 -> Items \cup {Nothing}]
        /\ vSlot'[d.loc] = d.new
        /\ \A i \in DOMAIN vSlot : i # d.loc => vSlot'[i] = vSlot[i]
    BY <1>1, <2>1, <2>4
  <2>6. vTh'[t] = r /\ \A u \in Pair \ {t} : vTh'[u] = vTh[u]
    BY <2>1 DEF VectorInv, SharedOK
  <2>7. SharedOK'
    BY <1>1, <2>1, <2>2, <2>5 DEF VectorInv, SharedOK
  <2>8. ASSUME NEW k \in 1 .. Len(vDesc) PROVE Done(vDesc[k])'
    <3> SUFFICES ASSUME vDesc[k].new # Nothing PROVE vSlot'[vDesc[k].loc] # vDesc[k].old
      BY <1>1 DEF Done
    <3>1. vDesc[k].loc \in DOMAIN vSlot
      <4>1. vDesc[k] \in Descs /\ DescOK(vDesc[k])
        BY LocalTypes
      <4> QED
        BY <1>1, <4>1 DEF Descs, DescOK
    <3>2. CASE vDesc[k].loc = d.loc
      <4>1. vDesc[k].old # vDesc[Len(vDesc)].new
        BY <1>1, <1>2, <2>3, OldNotNew DEF VectorInv
      <4> QED
        BY <2>3, <2>5, <3>2, <4>1
    <3>3. CASE vDesc[k].loc # d.loc
      <4>1. k # Len(vDesc)
        BY <2>3, <3>3
      <4>2. Done(vDesc[k])
        BY <4>1 DEF VectorInv, DescInv
      <4> QED
        BY <2>5, <3>1, <3>3, <4>2 DEF Done
    <3> QED
      BY <3>2, <3>3
  <2>9. DescInv'
    BY <1>1, <2>8 DEF VectorInv, DescInv, DescOK
  <2>10. SlotInv'
    <3>1. ASSUME NEW i \in DOMAIN vSlot', vSlot'[i] # Nothing
          PROVE  \E j \in 1 .. Len(vDesc) : vDesc[j].new = vSlot'[i] /\ vDesc[j].loc = i
      <4>1. CASE i = d.loc
        BY <1>1, <2>3, <2>5, <4>1
      <4>2. CASE i # d.loc
        BY <1>1, <2>5, <3>1, <4>2 DEF VectorInv, SlotInv
      <4> QED
        BY <4>1, <4>2
    <3> QED
      BY <1>1, <2>3, <2>5, <3>1 DEF VectorInv, SlotInv
  <2>11. ElemInv'
    <3>1. ASSUME NEW i \in 0 .. d.size - 1 PROVE Elem(i)' = Elem(i)
      <4>1. i \in DOMAIN vSlot
        BY <1>1, <1>2, <2>4 DEF DescOK
      <4> QED
        BY <1>1, <1>2, <2>3, <2>5, <4>1 DEF Elem
    <3> QED
      BY <1>1, <2>3, <3>1 DEF VectorInv, ElemInv
  <2>12. ASSUME NEW u \in Pair PROVE ThreadInv(vTh[u])'
    <3>1. CASE u = t
      BY <1>1, <1>2, <2>2, <2>6, <2>8, <3>1 DEF ThreadInv
    <3>2. CASE u # t
      <4>1. vTh'[u] = vTh[u] /\ ThreadInv(vTh[u]) /\ vTh[u] \in Locals
        BY <2>6, <3>2, LocalTypes
      <4>2. ~(vTh[u].pc = "publish" /\ vTh[u].cur = Len(vDesc))
        BY <1>2, <1>4, <2>3, <4>1 DEF ThreadInv, Done
      <4>3. \A k \in 1 .. Len(vDesc) : Done(vDesc[k])'
        BY <2>8
      <4> QED
        BY <1>1, <4>1, <4>2, <4>3 DEF ThreadInv
    <3> QED
      BY <3>1, <3>2
  <2>13. Owners'
    BY <2>2, <2>6 DEF VectorInv, Owners
  <2>14. PendingInv'
    <3>1. d.new # d.old
      BY <1>1, <1>2, <2>3, OldNotNew DEF VectorInv
    <3>2. Completes(vTh[t])'
      BY <1>1, <2>2, <2>3, <2>5, <2>6, <3>1 DEF Completes
    <3> QED
      BY <3>2 DEF PendingInv
  <2> QED
    BY <2>7, <2>9, <2>10, <2>11, <2>12, <2>13, <2>14 DEF VectorInv
<1> QED
  BY <1>3, <1>4

LEMMA SetStateStep ==
    ASSUME VectorInv, NEW t \in Pair, Vector!SetState(t)
    PROVE  VectorInv'
<1>1. /\ vTh[t] \in Locals /\ ThreadInv(vTh[t]) /\ vTh[t].pc = "set_state"
      /\ UNCHANGED <<vSlot, vBuckets, vRetired, vFresh>>
      /\ vTh[t].cur \in 1 .. Len(vDesc) /\ Len(vDesc) \in Nat /\ Len(vDesc) # 0
      /\ vDesc[vTh[t].cur] \in Descs /\ DescOK(vDesc[vTh[t].cur]) /\ vDesc[vTh[t].cur].new # Nothing
      /\ Done(vDesc[vTh[t].cur])
  BY LocalTypes DEF Vector!SetState, ThreadInv
<1>2. PICK c \in 1 .. Len(vDesc) : c = vTh[t].cur
  BY <1>1
<1>3. PICK e : e = [vDesc[c] EXCEPT !.state = "write_complete"] /\ vDesc' = [vDesc EXCEPT ![c] = e]
  BY <1>2 DEF Vector!SetState
<1>4. /\ e \in Descs /\ e.state = "write_complete" /\ e.size = vDesc[c].size
      /\ e.old = vDesc[c].old /\ e.new = vDesc[c].new /\ e.loc = vDesc[c].loc
  BY <1>1, <1>2, <1>3 DEF Descs
<1>5. vDesc \in Seq(Descs)
  BY DEF VectorInv, SharedOK
<1>6. /\ vDesc' \in Seq(Descs) /\ Len(vDesc') = Len(vDesc)
      /\ vDesc'[c] = e /\ \A k \in 1 .. Len(vDesc) : k # c => vDesc'[k] = vDesc[k]
  BY <1>3, <1>4, <1>5, ExceptSeq
<1>7. \A k \in 1 .. Len(vDesc) :
         /\ vDesc'[k].size = vDesc[k].size /\ vDesc'[k].old = vDesc[k].old
         /\ vDesc'[k].new = vDesc[k].new /\ vDesc'[k].loc = vDesc[k].loc
         /\ k # c => vDesc'[k].state = vDesc[k].state
  BY <1>4, <1>6
<1>8. \A k \in 1 .. Len(vDesc) : Done(vDesc[k])' <=> Done(vDesc[k])
  BY <1>1, <1>7 DEF Done
<1>9. PICK r : r = Vector!Helped(vTh[t]) /\ vTh' = [vTh EXCEPT ![t] = r]
  BY DEF Vector!SetState, Vector!Local
<1>10. /\ r \in Locals /\ ThreadInv(r)
       /\ r.op = "push" => vTh[t].op = "push" /\ vTh[t].node = r.node
  BY <1>1, <1>9, HelpedInv
<1>11. vTh'[t] = r /\ \A u \in Pair \ {t} : vTh'[u] = vTh[u]
  BY <1>9 DEF VectorInv, SharedOK
<1>12. SharedOK'
  BY <1>1, <1>6, <1>9, <1>10 DEF VectorInv, SharedOK
<1>13. DescInv'
  <2>1. \A k \in 1 .. Len(vDesc) : DescOK(vDesc[k])'
    BY <1>1, <1>2, <1>4, <1>6, <1>7 DEF VectorInv, DescInv, DescOK
  <2>2. \A k \in 1 .. Len(vDesc) : vDesc'[k].state = "write_complete" => Done(vDesc[k])'
    BY <1>1, <1>2, <1>7, <1>8 DEF VectorInv, DescInv
  <2>3. \A k \in 1 .. Len(vDesc) : k # Len(vDesc) => Done(vDesc[k])'
    BY <1>8 DEF VectorInv, DescInv
  <2>4. \A k \in 1 .. Len(vDesc) : vDesc'[k].old # Nothing =>
           \E j \in 1 .. Len(vDesc) : j < k /\ vDesc'[j].new = vDesc'[k].old
    BY <1>7 DEF VectorInv, DescInv
  <2>5. \A k \in 1 .. Len(vDesc) : vDesc'[k].new \notin vFresh'
    BY <1>1, <1>7 DEF VectorInv, DescInv
  <2>6. \A j, k \in 1 .. Len(vDesc) : vDesc'[j].new = vDesc'[k].new /\ vDesc'[j].new # Nothing => j = k
    BY <1>7 DEF VectorInv, DescInv
  <2> QED
    BY <1>6, <2>1, <2>2, <2>3, <2>4, <2>5, <2>6 DEF DescInv
<1>14. Len(vDesc) \in 1 .. Len(vDesc)
  BY <1>1
<1>15. SlotInv'
  BY <1>1, <1>6, <1>7, <1>14, SMTT(40) DEF VectorInv, SlotInv
<1>16. ElemInv'
  BY <1>1, <1>6, <1>7, <1>14 DEF VectorInv, ElemInv, Elem
<1>17. ASSUME NEW x \in Locals, ThreadInv(x) PROVE ThreadInv(x)'
  <2>1. x.cur \in 1 .. Len(vDesc) => /\ vDesc'[x.cur].new = vDesc[x.cur].new
                                     /\ vDesc'[x.cur].size = vDesc[x.cur].size
                                     /\ Done(vDesc[x.cur])' <=> Done(vDesc[x.cur])
    BY <1>7, <1>8
  <2>2. x.pc = "publish" /\ x.op = "push" => (x.old # Nothing => \E j \in 1 .. Len(vDesc) : vDesc'[j].new = x.old)
    BY <1>7, <1>17 DEF ThreadInv
  <2>3. x.op = "push" => \A k \in 1 .. Len(vDesc) : vDesc'[k].new # x.node
    BY <1>7, <1>17 DEF ThreadInv
  <2> QED
    BY <1>1, <1>6, <1>17, <2>1, <2>2, <2>3 DEF ThreadInv
<1>18. ASSUME NEW u \in Pair PROVE ThreadInv(vTh[u])'
  <2>1. PICK x \in Locals : x = vTh'[u] /\ ThreadInv(x)
    <3>1. CASE u = t
      BY <1>10, <1>11, <3>1
    <3>2. CASE u # t
      BY <1>11, <3>2, LocalTypes
    <3> QED
      BY <3>1, <3>2
  <2>2. ThreadInv(x)'
    BY <1>17, <2>1
  <2> QED
    BY <2>1, <2>2 DEF ThreadInv, Done
<1>19. Owners'
  BY <1>10, <1>11 DEF VectorInv, Owners
<1>20. PendingInv'
  <2> SUFFICES ASSUME vDesc'[Len(vDesc)].state = "write_pending"
               PROVE  \E u \in Pair : Completes(vTh[u])'
    BY <1>6 DEF PendingInv
  <2>1. Len(vDesc) # c /\ vDesc[Len(vDesc)].state = "write_pending"
    BY <1>4, <1>6, <1>14
  <2>2. PICK u \in Pair : Completes(vTh[u])
    BY <2>1 DEF VectorInv, PendingInv
  <2>3. u # t
    BY <1>2, <2>1, <2>2 DEF Completes
  <2>4. Completes(vTh[u])'
    BY <1>1, <1>6, <1>7, <1>11, <1>14, <2>2, <2>3 DEF Completes
  <2> QED
    BY <2>4
<1> QED
  BY <1>12, <1>13, <1>15, <1>16, <1>18, <1>19, <1>20 DEF VectorInv

\* A bucket more: the slots that there were keep what they hold.
LEMMA AllocateStep ==
    ASSUME VectorInv, NEW t \in Pair, Vector!AllocateBucket(t)
    PROVE  VectorInv'
<1>1. /\ vTh[t] \in Locals /\ ThreadInv(vTh[t]) /\ vTh[t].pc = "grow"
      /\ UNCHANGED <<vDesc, vRetired, vFresh>>
      /\ vTh[t].cur \in 1 .. Len(vDesc) /\ Len(vDesc) \in Nat /\ Len(vDesc) # 0
      /\ vDesc[vTh[t].cur] \in Descs /\ DescOK(vDesc[vTh[t].cur])
      /\ vTh[t].op = "push"
      /\ vBuckets \in Nat
      /\ vSlot \in [0 .. Vector!Slots(vBuckets) - 1 -> Items \cup {Nothing}]
  BY LocalTypes DEF Vector!AllocateBucket, ThreadInv
<1>2. /\ Vector!Slots(vBuckets) \in Nat /\ Vector!Slots(vBuckets + 1) \in Nat
      /\ Vector!Slots(vBuckets) < Vector!Slots(vBuckets + 1)
  BY <1>1, SlotsGrow
<1>3. PICK r : r = [vTh[t] EXCEPT !.pc = "read", !.saw = 0] /\ vTh' = [vTh EXCEPT ![t] = r]
  BY DEF Vector!AllocateBucket, Vector!Local
<1>4. /\ r \in Locals /\ r.pc = "read" /\ r.op = "push" /\ r.cur = vTh[t].cur
      /\ r.node = vTh[t].node
  BY <1>1, <1>3 DEF Locals
<1>5. ~Completes(vTh[t])
  BY <1>1 DEF Completes
<1>6. vDesc[vTh[t].cur].size \in Nat /\ vDesc[vTh[t].cur].size <= Vector!Slots(vBuckets)
  BY <1>1 DEF Descs, DescOK
<1>7. CASE vBuckets # vTh[t].saw
  <2>1. UNCHANGED <<vBuckets, vSlot>>
    BY <1>7 DEF Vector!AllocateBucket
  <2>2. ThreadInv(r)
    BY <1>1, <1>4, <1>7 DEF ThreadInv
  <2> QED
    BY <1>1, <1>3, <1>4, <1>5, <2>1, <2>2, LocalStay
<1>8. CASE vBuckets = vTh[t].saw
  <2>1. /\ vBuckets' = vBuckets + 1
        /\ vSlot' = [i \in 0 .. Vector!Slots(vBuckets + 1) - 1 |-> IF i \in DOMAIN vSlot THEN vSlot[i] ELSE Nothing]
    BY <1>8 DEF Vector!AllocateBucket
  <2>2. Vector!Slots(vBuckets)' = Vector!Slots(vBuckets + 1)
    BY <2>1 DEF Vector!Slots
  <2>3. /\ vSlot' \in [0 .. Vector!Slots(vBuckets + 1) - 1 -> Items \cup {Nothing}]
        /\ \A i \in DOMAIN vSlot : vSlot'[i] = vSlot[i]
        /\ \A i \in DOMAIN vSlot' : i \in DOMAIN vSlot \/ vSlot'[i] = Nothing
    BY <1>1, <1>2, <2>1
  <2>4. vTh'[t] = r /\ \A u \in Pair \ {t} : vTh'[u] = vTh[u]
    BY <1>3 DEF VectorInv, SharedOK
  <2>5. SharedOK'
    BY <1>1, <1>2, <1>3, <1>4, <2>1, <2>2, <2>3 DEF VectorInv, SharedOK
  <2>6. ASSUME NEW k \in 1 .. Len(vDesc)
        PROVE  /\ vDesc[k] \in Descs /\ DescOK(vDesc[k])
               /\ vDesc[k].size \in Nat /\ vDesc[k].size <= Vector!Slots(vBuckets)
               /\ vDesc[k].new # Nothing => vSlot'[vDesc[k].loc] = vSlot[vDesc[k].loc]
               /\ Done(vDesc[k])' <=> Done(vDesc[k])
               /\ DescOK(vDesc[k])'
    <3>1. vDesc[k] \in Descs /\ DescOK(vDesc[k])
      BY LocalTypes
    <3>2. vDesc[k].size \in Nat /\ vDesc[k].loc \in Nat /\ vDesc[k].size <= Vector!Slots(vBuckets)
      BY <3>1 DEF Descs, DescOK
    <3>3. vDesc[k].new # Nothing => vDesc[k].loc \in DOMAIN vSlot
      BY <1>1, <1>2, <3>1, <3>2 DEF DescOK
    <3>4. vDesc[k].new # Nothing => vSlot'[vDesc[k].loc] = vSlot[vDesc[k].loc]
      BY <2>3, <3>3
    <3>5. Done(vDesc[k])' <=> Done(vDesc[k])
      BY <1>1, <3>4 DEF Done
    <3>6. DescOK(vDesc[k])'
      BY <1>1, <1>2, <2>2, <3>1, <3>2 DEF DescOK
    <3> QED
      BY <3>1, <3>2, <3>4, <3>5, <3>6
  <2>7. DescInv'
    BY <1>1, <2>6 DEF VectorInv, DescInv
  <2>8. Len(vDesc) \in 1 .. Len(vDesc)
    BY <1>1
  <2>9. SlotInv'
    BY <1>1, <2>3, <2>6, <2>8 DEF VectorInv, SlotInv
  <2>10. ElemInv'
    <3>1. vDesc[Len(vDesc)].size \in Nat /\ vDesc[Len(vDesc)].size <= Vector!Slots(vBuckets)
      BY <2>6, <2>8
    <3>2. ASSUME NEW i \in 0 .. vDesc[Len(vDesc)].size - 1 PROVE Elem(i)' = Elem(i)
      <4>1. i \in DOMAIN vSlot
        BY <1>1, <1>2, <3>1
      <4> QED
        BY <1>1, <2>3, <4>1 DEF Elem
    <3> QED
      BY <1>1, <3>2 DEF VectorInv, ElemInv
  <2>11. ASSUME NEW u \in Pair PROVE ThreadInv(vTh[u])'
    <3>1. CASE u = t
      <4>1. vDesc[r.cur].size < Vector!Slots(vBuckets)'
        BY <1>2, <1>4, <1>6, <2>2
      <4>2. Done(vDesc[r.cur])'
        <5>1. Done(vDesc[vTh[t].cur])
          BY <1>1 DEF ThreadInv
        <5>2. vSlot'[vDesc[vTh[t].cur].loc] = vSlot[vDesc[vTh[t].cur].loc] \/ vDesc[vTh[t].cur].new = Nothing
          BY <1>1, <2>6
        <5> QED
          BY <1>1, <1>4, <5>1, <5>2 DEF Done
      <4>3. r.node \in Items \ vFresh /\ \A k \in 1 .. Len(vDesc) : vDesc[k].new # r.node
        BY <1>1, <1>4 DEF ThreadInv
      <4> QED
        BY <1>1, <1>4, <2>4, <3>1, <4>1, <4>2, <4>3 DEF ThreadInv, Done
    <3>2. CASE u # t
      <4>1. vTh'[u] = vTh[u] /\ ThreadInv(vTh[u]) /\ vTh[u] \in Locals
        BY <2>4, <3>2, LocalTypes
      <4>2. ASSUME vTh[u].pc # "idle"
            PROVE  /\ vTh[u].cur \in 1 .. Len(vDesc)
                   /\ vDesc[vTh[u].cur].size \in Nat /\ vDesc[vTh[u].cur].size <= Vector!Slots(vBuckets)
                   /\ vDesc[vTh[u].cur].size < Vector!Slots(vBuckets)'
                   /\ Done(vDesc[vTh[u].cur])' <=> Done(vDesc[vTh[u].cur])
        <5>1. vTh[u].cur \in 1 .. Len(vDesc)
          BY <4>1, <4>2 DEF ThreadInv
        <5>2. vDesc[vTh[u].cur].size \in Nat /\ vDesc[vTh[u].cur].size <= Vector!Slots(vBuckets)
          BY <2>6, <5>1
        <5>3. vDesc[vTh[u].cur].size < Vector!Slots(vBuckets)'
          BY <1>2, <2>2, <5>2
        <5>4. Done(vDesc[vTh[u].cur])' <=> Done(vDesc[vTh[u].cur])
          <6>1. \A k \in 1 .. Len(vDesc) : Done(vDesc[k])' <=> Done(vDesc[k])
            BY <2>6
          <6> QED
            BY <1>1, <4>1, <5>1, <6>1 DEF Done
        <5> QED
          BY <5>1, <5>2, <5>3, <5>4
      <4>3. ASSUME vTh[u].pc = "publish", vTh[u].op = "push"
            PROVE  vSlot'[vDesc[vTh[u].cur].size] = vSlot[vDesc[vTh[u].cur].size]
        <5>1. vDesc[vTh[u].cur].size \in DOMAIN vSlot
          BY <1>1, <1>2, <4>1, <4>2, <4>3 DEF ThreadInv
        <5> QED
          BY <2>3, <5>1
      <4>4. ASSUME vTh[u].pc = "publish", vTh[u].op = "pop"
            PROVE  vSlot'[vDesc[vTh[u].cur].size - 1] = vSlot[vDesc[vTh[u].cur].size - 1]
        <5>1. vDesc[vTh[u].cur].size # 0
          BY <4>1, <4>4 DEF ThreadInv
        <5>2. PICK s \in Nat : s = vDesc[vTh[u].cur].size /\ s <= Vector!Slots(vBuckets)
          BY <4>2, <4>4
        <5>3. s - 1 \in 0 .. Vector!Slots(vBuckets) - 1
          BY <1>2, <5>1, <5>2
        <5> QED
          BY <1>1, <2>3, <5>2, <5>3
      <4> QED
        BY <1>1, <4>1, <4>2, <4>3, <4>4 DEF ThreadInv
    <3> QED
      BY <3>1, <3>2
  <2>12. Owners'
    BY <1>1, <1>4, <2>4 DEF VectorInv, Owners
  <2>13. PendingInv'
    <3> SUFFICES ASSUME vDesc[Len(vDesc)].state = "write_pending"
                 PROVE  \E u \in Pair : Completes(vTh[u])'
      BY <1>1 DEF PendingInv
    <3>1. PICK u \in Pair : Completes(vTh[u])
      BY DEF VectorInv, PendingInv
    <3>2. u # t
      BY <1>5, <3>1
    <3>3. vDesc[Len(vDesc)].new # Nothing
      BY <2>6, <2>8 DEF DescOK
    <3>4. vSlot'[vDesc[Len(vDesc)].loc] = vSlot[vDesc[Len(vDesc)].loc]
      BY <2>6, <2>8, <3>3
    <3>5. Completes(vTh[u])'
      BY <1>1, <2>4, <3>1, <3>2, <3>4 DEF Completes
    <3> QED
      BY <3>5
  <2> QED
    BY <2>5, <2>7, <2>9, <2>10, <2>11, <2>12, <2>13 DEF VectorInv
<1> QED
  BY <1>7, <1>8

LEMMA QuiesceStep ==
    ASSUME VectorInv, Vector!Quiesce
    PROVE  VectorInv'
<1>1. UNCHANGED <<vDesc, vSlot, vBuckets, vTh, vFresh>> /\ vRetired' = {}
  BY DEF Vector!Quiesce
<1>2. SharedOK' /\ Owners'
  BY <1>1 DEF VectorInv, SharedOK, Owners
<1>3. DescInv'
  BY <1>1 DEF VectorInv, DescInv, DescOK, Done
<1>4. SlotInv' /\ ElemInv'
  BY <1>1 DEF VectorInv, SlotInv, ElemInv, Elem
<1>5. \A t \in Pair : ThreadInv(vTh[t])'
  BY <1>1 DEF VectorInv, ThreadInv, Done
<1>6. PendingInv'
  BY <1>1 DEF VectorInv, PendingInv, Completes
<1> QED
  BY <1>2, <1>3, <1>4, <1>5, <1>6 DEF VectorInv

\* The exchange of m_descriptor succeeds: what every thread relies on outlives
\* a further descriptor, as the slot that the last one is about is written.
LEMMA AppendDesc ==
    ASSUME VectorInv, NEW d \in Descs, vDesc' = Append(vDesc, d), UNCHANGED <<vSlot, vBuckets, vFresh>>
    PROVE  /\ vDesc' \in Seq(Descs) /\ Len(vDesc) \in Nat /\ Len(vDesc') = Len(vDesc) + 1
           /\ vDesc'[Len(vDesc) + 1] = d
           /\ \A k \in 1 .. Len(vDesc) : vDesc'[k] = vDesc[k]
           /\ \A k \in 1 .. Len(vDesc) : Done(vDesc[k])' <=> Done(vDesc[k])
           /\ \A x \in Locals : ThreadInv(x) /\ (x.op = "push" => x.node # d.new) => ThreadInv(x)'
<1>1. vDesc \in Seq(Descs) /\ Len(vDesc) \in Nat
  BY LenProperties DEF VectorInv, SharedOK
<1>2. /\ vDesc' \in Seq(Descs) /\ Len(vDesc') = Len(vDesc) + 1 /\ vDesc'[Len(vDesc) + 1] = d
      /\ \A k \in 1 .. Len(vDesc) : vDesc'[k] = vDesc[k]
  BY <1>1, AppendProperties
<1>3. \A k \in 1 .. Len(vDesc) : Done(vDesc[k])' <=> Done(vDesc[k])
  BY <1>2 DEF Done
<1>4. ASSUME NEW x \in Locals, ThreadInv(x), x.op = "push" => x.node # d.new
      PROVE  ThreadInv(x)'
  <2>1. x.cur \in Nat /\ x.cur <= Len(vDesc) /\ x.cur # Len(vDesc')
    BY <1>1, <1>2, <1>4 DEF ThreadInv, Locals
  <2>2. x.pc # "idle" => /\ x.cur \in 1 .. Len(vDesc) /\ x.cur \in 1 .. Len(vDesc')
                         /\ vDesc'[x.cur] = vDesc[x.cur]
                         /\ Done(vDesc[x.cur])' <=> Done(vDesc[x.cur])
    BY <1>1, <1>2, <1>3, <1>4 DEF ThreadInv
  <2>3. x.op = "push" => \A k \in 1 .. Len(vDesc') : vDesc'[k].new # x.node
    BY <1>1, <1>2, <1>4 DEF ThreadInv
  <2>4. x.pc = "publish" /\ x.op = "push" => (x.old # Nothing => \E j \in 1 .. Len(vDesc') : vDesc'[j].new = x.old)
    BY <1>1, <1>2, <1>4 DEF ThreadInv
  <2> QED
    BY <1>1, <1>2, <1>4, <2>1, <2>2, <2>3, <2>4 DEF ThreadInv
<1> QED
  BY <1>1, <1>2, <1>3, <1>4

\* Once the last push is written, its element is in its slot like the others.
LEMMA ElemInSlot ==
    ASSUME VectorInv, Done(vDesc[Len(vDesc)]), NEW i
    PROVE  Elem(i) = vSlot[i]
  BY DEF Elem, Done, VectorInv, SlotInv

\* No element is in two slots.
LEMMA SlotsDiffer ==
    ASSUME VectorInv, NEW i \in DOMAIN vSlot, NEW j \in DOMAIN vSlot, vSlot[i] = vSlot[j], vSlot[i] # Nothing
    PROVE  i = j
<1>1. PICK k \in 1 .. Len(vDesc) : vDesc[k].new = vSlot[i] /\ vDesc[k].loc = i
  BY DEF VectorInv, SlotInv
<1>2. PICK l \in 1 .. Len(vDesc) : vDesc[l].new = vSlot[j] /\ vDesc[l].loc = j
  BY DEF VectorInv, SlotInv
<1> QED
  BY <1>1, <1>2 DEF VectorInv, DescInv

\* What a thread that may exchange m_descriptor knows.
LEMMA PublishFacts ==
    ASSUME VectorInv, NEW t \in Pair, vTh[t].pc = "publish", vTh[t].cur = Len(vDesc)
    PROVE  /\ vTh[t] \in Locals /\ ThreadInv(vTh[t]) /\ Done(vDesc[Len(vDesc)])
           /\ Len(vDesc) \in Nat /\ Len(vDesc) \in 1 .. Len(vDesc)
           /\ vBuckets \in Nat /\ Vector!Slots(vBuckets) \in Nat
           /\ vSlot \in [0 .. Vector!Slots(vBuckets) - 1 -> Items \cup {Nothing}]
           /\ vDesc[Len(vDesc)].size \in Nat /\ vDesc[Len(vDesc)].size <= Vector!Slots(vBuckets)
           /\ vTh[t].op \in {"push", "pop"}
           /\ vTh[t].op = "push" => /\ vDesc[Len(vDesc)].size < Vector!Slots(vBuckets)
                                    /\ vTh[t].old = vSlot[vDesc[Len(vDesc)].size]
           /\ vTh[t].op = "pop" => /\ vDesc[Len(vDesc)].size # 0
                                   /\ vTh[t].node = vSlot[vDesc[Len(vDesc)].size - 1]
<1>1. /\ vTh[t] \in Locals /\ ThreadInv(vTh[t]) /\ Len(vDesc) \in Nat /\ Len(vDesc) # 0
      /\ vBuckets \in Nat /\ Vector!Slots(vBuckets) \in Nat
      /\ vSlot \in [0 .. Vector!Slots(vBuckets) - 1 -> Items \cup {Nothing}]
      /\ \A k \in 1 .. Len(vDesc) : vDesc[k] \in Descs /\ DescOK(vDesc[k])
  BY LocalTypes, SlotsGrow
<1>2. Len(vDesc) \in 1 .. Len(vDesc)
  BY <1>1
<1>3. vDesc[Len(vDesc)].size \in Nat /\ vDesc[Len(vDesc)].size <= Vector!Slots(vBuckets)
  BY <1>1, <1>2 DEF Descs, DescOK
<1> QED
  BY <1>1, <1>2, <1>3 DEF ThreadInv, Locals

LEMMA PublishPush ==
    ASSUME VectorInv, NEW t \in Pair, vTh[t].pc = "publish", vTh[t].cur = Len(vDesc),
           vTh[t].op = "push",
           vDesc' = Append(vDesc, Vector!Write(vDesc[Len(vDesc)].size, vTh[t].old, vTh[t].node)),
           Vector!Local(t, Vector!Pushed), UNCHANGED <<vSlot, vBuckets, vFresh, vRetired>>
    PROVE  VectorInv'
<1>1. PICK s \in Nat : /\ s = vDesc[Len(vDesc)].size /\ s < Vector!Slots(vBuckets) /\ s \in DOMAIN vSlot
                       /\ vTh[t].old = vSlot[s] /\ vSlot[s] \in Items \cup {Nothing}
  BY PublishFacts
<1>2. /\ vTh[t] \in Locals /\ ThreadInv(vTh[t]) /\ Done(vDesc[Len(vDesc)])
      /\ Len(vDesc) \in Nat /\ Len(vDesc) \in 1 .. Len(vDesc) /\ Vector!Slots(vBuckets) \in Nat
      /\ vSlot \in [0 .. Vector!Slots(vBuckets) - 1 -> Items \cup {Nothing}]
  BY PublishFacts
<1>3. PICK n : /\ n = vTh[t].node /\ n \in Items \ vFresh /\ n # Nothing
               /\ \A k \in 1 .. Len(vDesc) : vDesc[k].new # n
  BY <1>2, VectorConstants DEF ThreadInv
<1>4. PICK d : /\ d = Vector!Write(s, vSlot[s], n) /\ d \in Descs /\ vDesc' = Append(vDesc, d)
               /\ d.size = s + 1 /\ d.old = vSlot[s] /\ d.new = n /\ d.loc = s
               /\ d.state = "write_pending"
  BY <1>1, <1>3 DEF Vector!Write, Descs
<1>5. PICK r : /\ r \in Locals /\ r.pc = "help" /\ r.op = "finish" /\ r.cur = Len(vDesc) + 1
               /\ vTh' = [vTh EXCEPT ![t] = r]
  <2>1. PICK c \in Nat : c = Len(vDesc) + 1
    BY <1>2
  <2>2. PICK i \in Locals : Vector!Pushed = [i EXCEPT !.pc = "help", !.op = "finish", !.cur = c]
    BY <2>1, IdleFacts DEF Vector!Pushed, Vector!Current
  <2>3. /\ Vector!Pushed \in Locals /\ Vector!Pushed.pc = "help" /\ Vector!Pushed.op = "finish"
        /\ Vector!Pushed.cur = Len(vDesc) + 1
    BY <2>1, <2>2 DEF Locals
  <2> QED
    BY <2>3 DEF Vector!Local
<1>6. vTh'[t] = r /\ \A u \in Pair \ {t} : vTh'[u] = vTh[u]
  BY <1>5 DEF VectorInv, SharedOK
<1>7. /\ vDesc' \in Seq(Descs) /\ Len(vDesc') = Len(vDesc) + 1
      /\ vDesc'[Len(vDesc) + 1] = d
      /\ \A k \in 1 .. Len(vDesc) : vDesc'[k] = vDesc[k]
      /\ \A k \in 1 .. Len(vDesc) : Done(vDesc[k])' <=> Done(vDesc[k])
      /\ \A x \in Locals : ThreadInv(x) /\ (x.op = "push" => x.node # d.new) => ThreadInv(x)'
  BY <1>4, AppendDesc
<1>8. 1 .. Len(vDesc') = 1 .. Len(vDesc) \cup {Len(vDesc) + 1}
  BY <1>2, <1>7
<1>9. SharedOK'
  BY <1>2, <1>5, <1>7 DEF VectorInv, SharedOK
<1>10. DescInv'
  <2>1. \A k \in 1 .. Len(vDesc') : DescOK(vDesc[k])'
    <3>1. \A k \in 1 .. Len(vDesc) : DescOK(vDesc[k])'
      BY <1>7 DEF VectorInv, DescInv, DescOK
    <3>2. s + 1 <= Vector!Slots(vBuckets)
      BY <1>1, <1>2
    <3>3. DescOK(d)'
      BY <1>2, <1>3, <1>4, <1>7, <3>2 DEF DescOK
    <3> QED
      BY <1>7, <1>8, <3>1, <3>3 DEF DescOK
  <2>2. \A k \in 1 .. Len(vDesc') : vDesc'[k].new \notin vFresh'
    BY <1>3, <1>4, <1>7, <1>8 DEF VectorInv, DescInv
  <2>3. \A j, k \in 1 .. Len(vDesc') : vDesc'[j].new = vDesc'[k].new /\ vDesc'[j].new # Nothing => j = k
    BY <1>3, <1>4, <1>7, <1>8 DEF VectorInv, DescInv
  <2>4. \A k \in 1 .. Len(vDesc') : vDesc'[k].old # Nothing =>
           \E j \in 1 .. Len(vDesc') : j < k /\ vDesc'[j].new = vDesc'[k].old
    <3>1. vSlot[s] # Nothing => \E j \in 1 .. Len(vDesc) : vDesc[j].new = vSlot[s]
      BY <1>1 DEF VectorInv, SlotInv
    <3>2. \A j \in 1 .. Len(vDesc) : j < Len(vDesc) + 1
      BY <1>2
    <3> QED
      BY <1>4, <1>7, <1>8, <3>1, <3>2 DEF VectorInv, DescInv
  <2>5. \A k \in 1 .. Len(vDesc') : k # Len(vDesc') => Done(vDesc[k])'
    BY <1>2, <1>7, <1>8 DEF VectorInv, DescInv
  <2>6. \A k \in 1 .. Len(vDesc') : vDesc'[k].state = "write_complete" => Done(vDesc[k])'
    BY <1>2, <1>4, <1>7, <1>8, <2>5
  <2> QED
    BY <2>1, <2>2, <2>3, <2>4, <2>5, <2>6 DEF DescInv
<1>11. SlotInv'
  BY <1>4, <1>7, <1>8 DEF VectorInv, SlotInv
<1>12. ElemInv'
  <2>1. \A i \in 0 .. s - 1 : Elem(i) = vSlot[i] /\ vSlot[i] \in Items /\ vSlot[i] \notin vRetired
    BY <1>1, <1>2, ElemInSlot DEF VectorInv, ElemInv
  <2>2. n \notin vRetired
    BY <1>3 DEF VectorInv, SlotInv
  <2>3. \A i \in 0 .. s : Elem(i)' = IF i = s THEN n ELSE vSlot[i]
    BY <1>3, <1>4, <1>7 DEF Elem
  <2>4. (s + 1) - 1 = s /\ 0 .. s = 0 .. s - 1 \cup {s}
    OBVIOUS
  <2> QED
    BY <1>3, <1>4, <1>7, <2>1, <2>2, <2>3, <2>4 DEF ElemInv
<1>13. ASSUME NEW u \in Pair PROVE ThreadInv(vTh[u])'
  <2>1. CASE u = t
    <3>1. ThreadInv(r)'
      BY <1>2, <1>5, <1>7, SMTT(40) DEF ThreadInv
    <3> QED
      BY <1>6, <2>1, <3>1, SMTT(40) DEF ThreadInv, Done
  <2>2. CASE u # t
    <3>1. PICK x \in Locals : x = vTh[u] /\ ThreadInv(x)
      BY LocalTypes
    <3>2. x.op = "push" => x.node # n
      BY <1>3, <2>2, <3>1 DEF VectorInv, Owners
    <3>3. ThreadInv(x)'
      BY <1>4, <1>7, <3>1, <3>2
    <3> QED
      BY <1>6, <2>2, <3>1, <3>3 DEF ThreadInv, Done
  <2> QED
    BY <2>1, <2>2
<1>14. Owners'
  BY <1>5, <1>6 DEF VectorInv, Owners
<1>15. PendingInv'
  <2>1. Completes(vTh[t])'
    BY <1>1, <1>4, <1>5, <1>6, <1>7 DEF Completes
  <2> QED
    BY <2>1 DEF PendingInv
<1> QED
  BY <1>9, <1>10, <1>11, <1>12, <1>13, <1>14, <1>15 DEF VectorInv

LEMMA PublishPop ==
    ASSUME VectorInv, NEW t \in Pair, vTh[t].pc = "publish", vTh[t].cur = Len(vDesc),
           vTh[t].op # "push",
           vDesc' = Append(vDesc, Vector!Read(vDesc[Len(vDesc)].size - 1)),
           vRetired' = vRetired \cup {vTh[t].node},
           Vector!Local(t, Vector!Idle), UNCHANGED <<vSlot, vBuckets, vFresh>>
    PROVE  VectorInv'
<1>1. PICK s \in Nat : /\ s = vDesc[Len(vDesc)].size /\ s # 0 /\ s <= Vector!Slots(vBuckets)
                       /\ s - 1 \in Nat /\ s - 1 \in DOMAIN vSlot
                       /\ vTh[t].node = vSlot[s - 1]
  BY PublishFacts
<1>2. /\ Done(vDesc[Len(vDesc)])
      /\ Len(vDesc) \in Nat /\ Len(vDesc) \in 1 .. Len(vDesc) /\ Vector!Slots(vBuckets) \in Nat
      /\ vSlot \in [0 .. Vector!Slots(vBuckets) - 1 -> Items \cup {Nothing}]
  BY PublishFacts
<1>3. \A i \in 0 .. s - 1 : 
         Elem(i) = vSlot[i] /\ vSlot[i] \in Items /\ vSlot[i] \notin vRetired /\ i \in DOMAIN vSlot
  <2>1. \A i \in 0 .. s - 1 : Elem(i) = vSlot[i]
    BY <1>2, ElemInSlot
  <2>2. \A i \in 0 .. s - 1 : Elem(i) \in Items /\ Elem(i) \notin vRetired
    BY <1>1 DEF VectorInv, ElemInv
  <2>3. \A i \in 0 .. s - 1 : i \in 0 .. Vector!Slots(vBuckets) - 1
    BY <1>1, <1>2
  <2> QED
    BY <1>2, <2>1, <2>2, <2>3
<1>4. PICK n \in Items : n = vSlot[s - 1] /\ n = vTh[t].node /\ n # Nothing
  BY <1>1, <1>3, VectorConstants
<1>5. PICK d : /\ d \in Descs /\ vDesc' = Append(vDesc, d)
               /\ d.size = s - 1 /\ d.old = Nothing /\ d.new = Nothing /\ d.state = "read"
  BY <1>1 DEF Vector!Read, Descs
<1>6. vTh'[t] = Vector!Idle /\ (\A u \in Pair \ {t} : vTh'[u] = vTh[u]) /\ vTh' \in [Pair -> Locals]
  BY IdleFacts DEF Vector!Local, VectorInv, SharedOK
<1>7. /\ vDesc' \in Seq(Descs) /\ Len(vDesc') = Len(vDesc) + 1
      /\ vDesc'[Len(vDesc) + 1] = d
      /\ \A k \in 1 .. Len(vDesc) : vDesc'[k] = vDesc[k]
      /\ \A k \in 1 .. Len(vDesc) : Done(vDesc[k])' <=> Done(vDesc[k])
      /\ \A x \in Locals : ThreadInv(x) /\ (x.op = "push" => x.node # d.new) => ThreadInv(x)'
  BY <1>5, AppendDesc
<1>8. 1 .. Len(vDesc') = 1 .. Len(vDesc) \cup {Len(vDesc) + 1}
  BY <1>2, <1>7
<1>9. SharedOK'
  BY <1>2, <1>4, <1>6, <1>7 DEF VectorInv, SharedOK
<1>10. DescInv'
  <2>1. \A k \in 1 .. Len(vDesc') : DescOK(vDesc[k])'
    <3>1. \A k \in 1 .. Len(vDesc) : DescOK(vDesc[k])'
      BY <1>7 DEF VectorInv, DescInv, DescOK
    <3>2. s - 1 <= Vector!Slots(vBuckets)
      BY <1>1, <1>2
    <3>3. DescOK(d)'
      BY <1>2, <1>5, <1>7, <3>2 DEF DescOK
    <3> QED
      BY <1>7, <1>8, <3>1, <3>3 DEF DescOK
  <2>2. \A k \in 1 .. Len(vDesc') : vDesc'[k].new \notin vFresh'
    <3>1. Nothing \notin vFresh
      BY VectorConstants DEF VectorInv, SharedOK
    <3> QED
      BY <1>5, <1>7, <1>8, <3>1 DEF VectorInv, DescInv
  <2>3. \A j, k \in 1 .. Len(vDesc') : vDesc'[j].new = vDesc'[k].new /\ vDesc'[j].new # Nothing => j = k
    BY <1>5, <1>7, <1>8 DEF VectorInv, DescInv
  <2>4. \A k \in 1 .. Len(vDesc') : vDesc'[k].old # Nothing =>
           \E j \in 1 .. Len(vDesc') : j < k /\ vDesc'[j].new = vDesc'[k].old
    BY <1>5, <1>7, <1>8 DEF VectorInv, DescInv
  <2>5. \A k \in 1 .. Len(vDesc') : k # Len(vDesc') => Done(vDesc[k])'
    BY <1>2, <1>7, <1>8 DEF VectorInv, DescInv
  <2>6. \A k \in 1 .. Len(vDesc') : vDesc'[k].state = "write_complete" => Done(vDesc[k])'
    BY <1>2, <1>5, <1>7, <1>8, <2>5
  <2> QED
    BY <2>1, <2>2, <2>3, <2>4, <2>5, <2>6 DEF DescInv
<1>11. SlotInv'
  <2>1. \E k \in 1 .. Len(vDesc) : vDesc[k].new = n
    BY <1>1, <1>4 DEF VectorInv, SlotInv
  <2> QED
    BY <1>4, <1>5, <1>7, <1>8, <2>1 DEF VectorInv, SlotInv
<1>12. ElemInv'
  <2>1. \A i \in 0 .. (s - 1) - 1 : i \in 0 .. s - 1 /\ i # s - 1
    BY <1>1
  <2>2. \A i \in 0 .. (s - 1) - 1 : vSlot[i] # n
    BY <1>1, <1>3, <1>4, <2>1, SlotsDiffer
  <2>3. \A i : Elem(i)' = vSlot[i]
    BY <1>5, <1>7, SMTT(40) DEF Elem
  <2> QED
    BY <1>3, <1>4, <1>5, <1>7, <2>1, <2>2, <2>3 DEF ElemInv
<1>13. ASSUME NEW u \in Pair PROVE ThreadInv(vTh[u])'
  <2>1. PICK x \in Locals : x = vTh'[u] /\ ThreadInv(x)
    <3>1. CASE u = t
      BY <1>6, <3>1, IdleFacts, IdleInv
    <3>2. CASE u # t
      BY <1>6, <3>2, LocalTypes
    <3> QED
      BY <3>1, <3>2
  <2>2. x.op = "push" => x.node # Nothing
    BY <2>1, VectorConstants DEF ThreadInv
  <2>3. ThreadInv(x)'
    BY <1>5, <1>7, <2>1, <2>2
  <2> QED
    BY <2>1, <2>3 DEF ThreadInv, Done
<1>14. Owners'
  BY <1>6, IdleFacts DEF VectorInv, Owners
<1>15. PendingInv'
  BY <1>5, <1>7 DEF PendingInv
<1> QED
  BY <1>9, <1>10, <1>11, <1>12, <1>13, <1>14, <1>15 DEF VectorInv

LEMMA PublishStep ==
    ASSUME VectorInv, NEW t \in Pair, Vector!Publish(t)
    PROVE  VectorInv'
<1>1. /\ vTh[t] \in Locals /\ ThreadInv(vTh[t]) /\ vTh[t].pc = "publish"
      /\ UNCHANGED <<vSlot, vBuckets, vFresh>>
      /\ Len(vDesc) \in Nat /\ Len(vDesc) # 0
  BY LocalTypes DEF Vector!Publish
<1>2. CASE /\ Vector!MayPublish(vTh[t]) /\ vTh[t].op = "push"
           /\ vDesc' = Append(vDesc, Vector!Write(vDesc[vTh[t].cur].size, vTh[t].old, vTh[t].node))
           /\ Vector!Local(t, Vector!Pushed) /\ UNCHANGED vRetired
  BY <1>1, <1>2, PublishPush DEF Vector!MayPublish, Vector!Current
<1>3. CASE /\ Vector!MayPublish(vTh[t]) /\ vTh[t].op # "push"
           /\ vDesc' = Append(vDesc, Vector!Read(vDesc[vTh[t].cur].size - 1))
           /\ vRetired' = vRetired \cup {vTh[t].node} /\ Vector!Local(t, Vector!Idle)
  BY <1>1, <1>3, PublishPop DEF Vector!MayPublish, Vector!Current
<1>4. CASE /\ Vector!Local(t, [vTh[t] EXCEPT !.pc = "help", !.cur = Vector!Current, !.old = Nothing,
                                     !.node = IF vTh[t].op = "push" THEN @ ELSE Nothing])
           /\ UNCHANGED <<vDesc, vRetired>>
  <2>1. PICK r : /\ r = [vTh[t] EXCEPT !.pc = "help", !.cur = Len(vDesc), !.old = Nothing,
                                      !.node = IF vTh[t].op = "push" THEN @ ELSE Nothing]
                 /\ vTh' = [vTh EXCEPT ![t] = r]
    BY <1>4 DEF Vector!Local, Vector!Current
  <2>2. /\ r \in Locals /\ r.pc = "help" /\ r.op = vTh[t].op /\ r.cur = Len(vDesc)
        /\ vTh[t].op = "push" => r.node = vTh[t].node
    BY <1>1, <2>1 DEF Locals
  <2>3. ThreadInv(r)
    BY <1>1, <2>2 DEF ThreadInv
  <2>4. ~Completes(vTh[t])
    BY <1>1 DEF Completes
  <2> QED
    BY <1>1, <1>4, <2>1, <2>2, <2>3, <2>4, LocalStay
<1> QED
  BY <1>2, <1>3, <1>4 DEF Vector!Publish

LEMMA InitVectorInv == Vector!Init => VectorInv
<1> SUFFICES ASSUME Vector!Init PROVE VectorInv
  OBVIOUS
<1>1. PICK n \in Nat : n = Vector!Slots(1)
  <2>1. Vector!Slots(0 + 1) \in Nat
    BY SlotsGrow
  <2> QED
    BY <2>1
<1>2. /\ Vector!Read(0) \in Descs /\ Vector!Read(0).new = Nothing 
      /\ Vector!Read(0).old = Nothing /\ Vector!Read(0).state = "read"
      /\ Vector!Read(0).size = 0
  BY DEF Vector!Read, Descs
<1>3. vDesc \in Seq(Descs) /\ Len(vDesc) = 1 /\ vDesc[1] = Vector!Read(0)
  BY <1>2 DEF Vector!Init
<1>4. vSlot = [i \in 0 .. n - 1 |-> Nothing] /\ vBuckets = 1 /\ vFresh = Items /\ vRetired = {}
  BY <1>1 DEF Vector!Init
<1>5. vTh \in [Pair -> Locals] /\ \A t \in Pair : vTh[t] = Vector!Idle
  BY IdleFacts DEF Vector!Init
<1>6. SharedOK
  BY <1>1, <1>3, <1>4, <1>5 DEF SharedOK
<1>7. DescInv
  BY <1>1, <1>2, <1>3, <1>4, VectorConstants DEF DescInv, DescOK, Done
<1>8. SlotInv /\ ElemInv
  BY <1>2, <1>3, <1>4 DEF SlotInv, ElemInv
<1>9. Owners /\ \A t \in Pair : ThreadInv(vTh[t])
  BY <1>3, <1>5, IdleFacts DEF Owners, ThreadInv
<1>10. PendingInv
  BY <1>2, <1>3 DEF PendingInv
<1> QED
  BY <1>6, <1>7, <1>8, <1>9, <1>10 DEF VectorInv

LEMMA NextVectorInv == VectorInv /\ [Vector!Next]_(Vector!vars) => VectorInv'
<1> SUFFICES ASSUME VectorInv, [Vector!Next]_(Vector!vars) PROVE VectorInv'
  OBVIOUS
<1>1. ASSUME NEW t \in Pair, Vector!PushBack(t) \/ Vector!PopBack(t) PROVE VectorInv'
  BY <1>1, BeginStep
<1>2. ASSUME NEW t \in Pair, Vector!Help(t) PROVE VectorInv'
  BY <1>2, ReadStateStep, WriteStep, SetStateStep DEF Vector!Help
<1>3. ASSUME NEW t \in Pair, Vector!Loop(t) PROVE VectorInv'
  BY <1>3, PrepareStep, AllocateStep, ReadSlotStep, PublishStep DEF Vector!Loop
<1>4. CASE UNCHANGED Vector!vars
  <2>1. UNCHANGED <<vDesc, vSlot, vBuckets, vTh, vFresh, vRetired>>
    BY <1>4 DEF Vector!vars
  <2>2. SharedOK' /\ Owners'
    BY <2>1 DEF VectorInv, SharedOK, Owners
  <2>3. DescInv'
    BY <2>1 DEF VectorInv, DescInv, DescOK, Done
  <2>4. SlotInv' /\ ElemInv'
    BY <2>1 DEF VectorInv, SlotInv, ElemInv, Elem
  <2>5. \A t \in Pair : ThreadInv(vTh[t])'
    BY <2>1 DEF VectorInv, ThreadInv, Done
  <2>6. PendingInv'
    BY <2>1 DEF VectorInv, PendingInv, Completes
  <2> QED
    BY <2>2, <2>3, <2>4, <2>5, <2>6 DEF VectorInv
<1> QED
  BY <1>1, <1>2, <1>3, <1>4, QuiesceStep DEF Vector!Next

-----------------------------------------------------------------------------
\* The elements, one by one.
ContentsOK ==
    /\ vDesc[Len(vDesc)].size \in Nat /\ Vector!Contents \in Seq(Items)
    /\ Len(Vector!Contents) = vDesc[Len(vDesc)].size
    /\ \A i \in 1 .. vDesc[Len(vDesc)].size :
          Vector!Contents[i] = Elem(i - 1) /\ i - 1 \in 0 .. vDesc[Len(vDesc)].size - 1

LEMMA ContentsAre == VectorInv => ContentsOK
<1> SUFFICES ASSUME VectorInv PROVE ContentsOK
  OBVIOUS
<1>1. vDesc \in Seq(Descs) /\ Len(vDesc) # 0
  BY DEF VectorInv, SharedOK
<1>2. Len(vDesc) \in 1 .. Len(vDesc) /\ vDesc[Len(vDesc)] \in Descs /\ DescOK(vDesc[Len(vDesc)])
  BY <1>1, LenProperties, ElementOfSeq DEF VectorInv, DescInv
<1>3. PICK d \in Descs : d = vDesc[Len(vDesc)]
  BY <1>2
<1>4. d.size \in Nat /\ d.loc \in Nat
  BY <1>3 DEF Descs
<1>5. Vector!Contents = [i \in 1 .. d.size |-> IF d.new # Nothing /\ i = d.loc + 1 THEN d.new ELSE vSlot[i - 1]]
  BY <1>3 DEF Vector!Contents, Vector!Current
<1>6. \A i \in 1 .. d.size : Vector!Contents[i] = Elem(i - 1) /\ i - 1 \in 0 .. d.size - 1
  BY <1>3, <1>4, <1>5 DEF Elem
<1>7. \A i \in 1 .. d.size : Vector!Contents[i] \in Items
  BY <1>3, <1>6 DEF VectorInv, ElemInv
<1>8. Vector!Contents \in [1 .. d.size -> Items]
  BY <1>5, <1>7
<1>9. Vector!Contents \in Seq(Items) /\ Len(Vector!Contents) = d.size
  BY <1>4, <1>8
<1> QED
  BY <1>3, <1>4, <1>6, <1>9 DEF ContentsOK

\* Steps that publish nothing leave the elements alone.
LEMMA SameElements ==
    ASSUME VectorInv, VectorInv', vDesc'[Len(vDesc')].size = vDesc[Len(vDesc)].size,
           \A i \in 0 .. vDesc[Len(vDesc)].size - 1 : Elem(i)' = Elem(i)
    PROVE  Vector!Contents' = Vector!Contents
<1>1. PICK n \in Nat : /\ n = vDesc[Len(vDesc)].size
                       /\ Vector!Contents \in Seq(Items) /\ Len(Vector!Contents) = n
                       /\ \A i \in 1 .. n : Vector!Contents[i] = Elem(i - 1) /\ i - 1 \in 0 .. n - 1
  BY ContentsAre DEF ContentsOK
<1>2. ContentsOK'
  BY ContentsAre, PTL
<1>3. /\ Vector!Contents' \in Seq(Items) /\ Len(Vector!Contents') = n
      /\ \A i \in 1 .. n : Vector!Contents'[i] = Elem(i - 1)'
  BY <1>1, <1>2 DEF ContentsOK
<1> QED
  BY <1>1, <1>3, SeqEqual

LEMMA WriteContents ==
    ASSUME VectorInv, VectorInv', NEW t \in Pair, Vector!WriteSlot(t)
    PROVE  Vector!Contents' = Vector!Contents
<1>1. /\ vTh[t] \in Locals /\ ThreadInv(vTh[t]) /\ vTh[t].pc = "write" /\ UNCHANGED vDesc
      /\ vTh[t].cur \in 1 .. Len(vDesc) /\ Len(vDesc) \in Nat
      /\ vDesc[vTh[t].cur] \in Descs /\ DescOK(vDesc[vTh[t].cur]) /\ vDesc[vTh[t].cur].new # Nothing
      /\ vSlot \in [0 .. Vector!Slots(vBuckets) - 1 -> Items \cup {Nothing}] /\ Vector!Slots(vBuckets) \in Nat
  BY LocalTypes, SlotsGrow DEF Vector!WriteSlot, ThreadInv
<1>2. PICK d \in Descs : /\ d = vDesc[vTh[t].cur]
                         /\ d.new # Nothing /\ d.size = d.loc + 1 /\ d.size <= Vector!Slots(vBuckets)
  BY <1>1 DEF DescOK
<1>3. CASE vSlot[d.loc] # d.old
  BY <1>1, <1>2, <1>3 DEF Vector!WriteSlot, Vector!MayWrite, Vector!Contents, Vector!Current
<1>4. CASE vSlot[d.loc] = d.old
  <2>1. vSlot' = [vSlot EXCEPT ![d.loc] = d.new]
    BY <1>2, <1>4 DEF Vector!WriteSlot, Vector!MayWrite
  <2>2. d = vDesc[Len(vDesc)]
    BY <1>1, <1>2, <1>4 DEF VectorInv, DescInv, Done
  <2>3. d.size \in Nat /\ d.loc \in Nat
    BY DEF Descs
  <2>4. \A i \in 0 .. d.size - 1 : i \in DOMAIN vSlot
    BY <1>1, <1>2, <2>3, SMTT(40)
  <2>5. \A i \in 0 .. d.size - 1 : Elem(i)' = Elem(i)
    BY <1>1, <1>2, <2>1, <2>2, <2>4 DEF Elem
  <2> QED
    BY <1>1, <2>2, <2>5, SameElements
<1> QED
  BY <1>3, <1>4

LEMMA SetStateContents ==
    ASSUME VectorInv, VectorInv', NEW t \in Pair, Vector!SetState(t)
    PROVE  Vector!Contents' = Vector!Contents
<1>1. PICK c \in 1 .. Len(vDesc) : c = vTh[t].cur
  BY LocalTypes DEF Vector!SetState, ThreadInv
<1>2. /\ vDesc \in Seq(Descs) /\ Len(vDesc) \in Nat /\ Len(vDesc) # 0
      /\ vDesc[c] \in Descs /\ UNCHANGED vSlot
  BY LocalTypes DEF VectorInv, SharedOK, Vector!SetState
<1>3. PICK e : e = [vDesc[c] EXCEPT !.state = "write_complete"] /\ vDesc' = [vDesc EXCEPT ![c] = e]
  BY <1>1 DEF Vector!SetState
<1>4. e \in Descs /\ e.size = vDesc[c].size /\ e.new = vDesc[c].new /\ e.loc = vDesc[c].loc
  BY <1>2, <1>3 DEF Descs
<1>5. /\ Len(vDesc') = Len(vDesc) /\ vDesc'[c] = e
      /\ \A k \in 1 .. Len(vDesc) : k # c => vDesc'[k] = vDesc[k]
  BY <1>2, <1>3, <1>4, ExceptSeq
<1>6. Len(vDesc) \in 1 .. Len(vDesc)
  BY <1>2
<1>7. /\ vDesc'[Len(vDesc')].size = vDesc[Len(vDesc)].size
      /\ vDesc'[Len(vDesc')].new = vDesc[Len(vDesc)].new
      /\ vDesc'[Len(vDesc')].loc = vDesc[Len(vDesc)].loc
  BY <1>4, <1>5, <1>6
<1>8. \A i : Elem(i)' = Elem(i)
  BY <1>2, <1>7 DEF Elem
<1> QED
  BY <1>7, <1>8, SameElements

LEMMA AllocateContents ==
    ASSUME VectorInv, VectorInv', NEW t \in Pair, Vector!AllocateBucket(t)
    PROVE  Vector!Contents' = Vector!Contents
<1>1. /\ UNCHANGED vDesc /\ Len(vDesc) \in Nat /\ Len(vDesc) # 0 /\ vBuckets \in Nat
      /\ vSlot \in [0 .. Vector!Slots(vBuckets) - 1 -> Items \cup {Nothing}]
      /\ \A k \in 1 .. Len(vDesc) : vDesc[k] \in Descs /\ DescOK(vDesc[k])
  BY LocalTypes DEF Vector!AllocateBucket
<1>2. /\ Vector!Slots(vBuckets) \in Nat /\ Vector!Slots(vBuckets + 1) \in Nat
      /\ Vector!Slots(vBuckets) < Vector!Slots(vBuckets + 1)
  BY <1>1, SlotsGrow
<1>3. Len(vDesc) \in 1 .. Len(vDesc)
  BY <1>1
<1>4. vDesc[Len(vDesc)].size \in Nat /\ vDesc[Len(vDesc)].size <= Vector!Slots(vBuckets)
  BY <1>1, <1>3 DEF Descs, DescOK
<1>5. \A i \in DOMAIN vSlot : vSlot'[i] = vSlot[i]
  BY <1>1, <1>2 DEF Vector!AllocateBucket
<1>6. \A i \in 0 .. vDesc[Len(vDesc)].size - 1 : i \in DOMAIN vSlot
  BY <1>1, <1>2, <1>4
<1>7. \A i \in 0 .. vDesc[Len(vDesc)].size - 1 : Elem(i)' = Elem(i)
  BY <1>1, <1>5, <1>6 DEF Elem
<1> QED
  BY <1>1, <1>7, SameElements

LEMMA PublishContents ==
    ASSUME VectorInv, VectorInv', NEW t \in Pair, Vector!Publish(t)
    PROVE  /\ [Vector!Stack!Next]_(Vector!Contents)
           /\ \A n \in vRetired' \ vRetired : n = Vector!Contents[Len(Vector!Contents)]
<1>1. vTh[t].pc = "publish" /\ UNCHANGED vSlot
  BY DEF Vector!Publish
<1>2. CASE UNCHANGED <<vDesc, vRetired>>
  BY <1>1, <1>2 DEF Vector!Contents, Vector!Current
<1>3. PICK s \in Nat : /\ s = vDesc[Len(vDesc)].size
                       /\ Vector!Contents \in Seq(Items) /\ Len(Vector!Contents) = s
                       /\ \A i \in 1 .. s : Vector!Contents[i] = Elem(i - 1)
  BY ContentsAre DEF ContentsOK
<1>4. ContentsOK'
  BY ContentsAre, PTL
<1>5. vDesc \in Seq(Descs)
  BY DEF VectorInv, SharedOK
<1>6. CASE /\ Vector!MayPublish(vTh[t]) /\ vTh[t].op = "push"
           /\ vDesc' = Append(vDesc, Vector!Write(vDesc[vTh[t].cur].size, vTh[t].old, vTh[t].node))
           /\ UNCHANGED vRetired
  <2>1. vTh[t].cur = Len(vDesc) /\ Done(vDesc[Len(vDesc)]) /\ vTh[t].node \in Items
        /\ vTh[t].old \in Items \cup {Nothing}
    BY <1>1, <1>6, PublishFacts DEF Vector!MayPublish, Vector!Current, ThreadInv, Locals
  <2>2. PICK n \in Items : n = vTh[t].node /\ n # Nothing
    BY <2>1, VectorConstants
  <2>3. PICK d : /\ d \in Descs /\ vDesc' = Append(vDesc, d)
                 /\ d.size = s + 1 /\ d.new = n /\ d.loc = s
    BY <1>3, <1>6, <2>1, <2>2, SMTT(40) DEF Vector!Write, Descs
  <2>4. vDesc'[Len(vDesc')] = d
    BY <1>5, <2>3, AppendProperties
  <2>5. /\ Vector!Contents' \in Seq(Items) /\ Len(Vector!Contents') = s + 1
        /\ \A i \in 1 .. s + 1 : Vector!Contents'[i] = Elem(i - 1)'
    BY <1>4, <2>3, <2>4 DEF ContentsOK
  <2>6. \A i \in 1 .. s : Elem(i - 1)' = vSlot[i - 1]
    BY <1>1, <2>3, <2>4 DEF Elem
  <2>7. Elem((s + 1) - 1)' = n
    BY <2>2, <2>3, <2>4 DEF Elem
  <2>8. \A i \in 1 .. s : Vector!Contents'[i] = Vector!Contents[i]
    <3>1. \A i : Elem(i) = vSlot[i]
      BY <2>1, ElemInSlot
    <3>2. \A i \in 1 .. s : i \in 1 .. s + 1
      OBVIOUS
    <3> QED
      BY <1>3, <2>5, <2>6, <3>1, <3>2
  <2>9. PICK a : /\ a = Append(Vector!Contents, n) /\ a \in Seq(Items) /\ Len(a) = s + 1
                 /\ a[s + 1] = n /\ \A i \in 1 .. s : a[i] = Vector!Contents[i]
    <3>1. /\ Append(Vector!Contents, n) \in Seq(Items)
          /\ Len(Append(Vector!Contents, n)) = Len(Vector!Contents) + 1
          /\ \A i \in 1 .. Len(Vector!Contents) : Append(Vector!Contents, n)[i] = Vector!Contents[i]
          /\ Append(Vector!Contents, n)[Len(Vector!Contents) + 1] = n
      BY <1>3, AppendProperties
    <3> QED
      BY <1>3, <3>1
  <2>10. Vector!Contents'[s + 1] = n
    BY <2>5, <2>7
  <2>11. \A i \in 1 .. s + 1 : Vector!Contents'[i] = a[i]
    BY <2>8, <2>9, <2>10
  <2>12. Vector!Contents' = a
    BY <2>5, <2>9, <2>11, SeqEqual
  <2> QED
    BY <1>6, <2>9, <2>12 DEF Vector!Stack!Next, Vector!Stack!Push
<1>7. CASE /\ Vector!MayPublish(vTh[t]) /\ vTh[t].op # "push"
           /\ vDesc' = Append(vDesc, Vector!Read(vDesc[vTh[t].cur].size - 1))
           /\ vRetired' = vRetired \cup {vTh[t].node}
  <2>1. /\ vTh[t].cur = Len(vDesc) /\ Done(vDesc[Len(vDesc)]) /\ s # 0 /\ s - 1 \in Nat
        /\ vTh[t].node = vSlot[s - 1]
    BY <1>1, <1>3, <1>7, PublishFacts DEF Vector!MayPublish, Vector!Current
  <2>2. PICK d : /\ d \in Descs /\ vDesc' = Append(vDesc, d) /\ d.size = s - 1 /\ d.new = Nothing
    BY <1>3, <1>7, <2>1, SMTT(40) DEF Vector!Read, Descs
  <2>3. vDesc'[Len(vDesc')] = d
    BY <1>5, <2>2, AppendProperties
  <2>4. /\ Vector!Contents' \in Seq(Items) /\ Len(Vector!Contents') = s - 1
        /\ \A i \in 1 .. s - 1 : Vector!Contents'[i] = Elem(i - 1)'
    BY <1>4, <2>2, <2>3 DEF ContentsOK
  <2>5. \A i : Elem(i)' = vSlot[i] /\ Elem(i) = vSlot[i]
    BY <1>1, <2>1, <2>2, <2>3, ElemInSlot DEF Elem
  <2>6. \A i \in 1 .. s - 1 : i \in 1 .. s /\ Vector!Contents'[i] = Vector!Contents[i]
    BY <1>3, <2>4, <2>5, SMTT(40)
  <2>7. \A i \in 1 .. s : Vector!Contents[i] \in Items
    BY <1>3, ElementOfSeq
  <2>8. PICK a : /\ a = SubSeq(Vector!Contents, 1, s - 1) /\ a \in Seq(Items) /\ Len(a) = s - 1
                 /\ \A i \in 1 .. s - 1 : a[i] = Vector!Contents[i]
    <3>1. s - 1 \in Int /\ \A i \in 1 .. s - 1 : Vector!Contents[i] \in Items
      BY <2>1, <2>6, <2>7
    <3>2. /\ SubSeq(Vector!Contents, 1, s - 1) \in Seq(Items)
          /\ Len(SubSeq(Vector!Contents, 1, s - 1)) = IF 1 <= s - 1 THEN (s - 1) - 1 + 1 ELSE 0
          /\ \A i \in 1 .. (s - 1) - 1 + 1 : SubSeq(Vector!Contents, 1, s - 1)[i] = Vector!Contents[1 + i - 1]
      BY <3>1, SubSeqProperties
    <3>3. (s - 1) - 1 + 1 = s - 1 /\ \A i \in 1 .. s - 1 : 1 + i - 1 = i
      BY <2>1
    <3>4. (1 <= s - 1) \/ s - 1 = 0
      BY <2>1
    <3> QED
      BY <3>2, <3>3, <3>4
  <2>9. Vector!Contents' = a
    BY <2>4, <2>6, <2>8, SeqEqual
  <2>10. Vector!Contents # <<>>
    BY <1>3, <2>1, EmptySeq
  <2>11. Vector!Contents[s] = vTh[t].node
    BY <1>3, <2>1, <2>5
  <2> QED
    BY <1>3, <1>7, <2>8, <2>9, <2>10, <2>11 DEF Vector!Stack!Next, Vector!Stack!Pop
<1> QED
  BY <1>2, <1>6, <1>7 DEF Vector!Publish

LEMMA InitContents == Vector!Init => Vector!Stack!Init
  BY DEF Vector!Init, Vector!Stack!Init, Vector!Contents, Vector!Current, Vector!Read

\* Every step is one of the stack's, and a pop takes the last element.
LEMMA StackStep ==
    VectorInv /\ VectorInv' /\ [Vector!Next]_(Vector!vars) =>
              /\ [Vector!Stack!Next]_(Vector!Contents)
              /\ \A n \in vRetired' \ vRetired : n = Vector!Contents[Len(Vector!Contents)]
<1> SUFFICES ASSUME VectorInv, VectorInv', [Vector!Next]_(Vector!vars)
             PROVE  /\ [Vector!Stack!Next]_(Vector!Contents)
                    /\ \A n \in vRetired' \ vRetired : n = Vector!Contents[Len(Vector!Contents)]
  OBVIOUS
<1>1. CASE UNCHANGED <<vDesc, vSlot>> /\ vRetired' \subseteq vRetired
  BY <1>1 DEF Vector!Contents, Vector!Current
<1>2. ASSUME NEW t \in Pair,
             Vector!PushBack(t) \/ Vector!PopBack(t) \/ Vector!ReadState(t) \/ Vector!Prepare(t) \/ Vector!ReadSlot(t)
      PROVE  UNCHANGED <<vDesc, vSlot>> /\ vRetired' \subseteq vRetired
  BY <1>2 DEF Vector!PushBack, Vector!PopBack, Vector!Begin, Vector!ReadState, Vector!Prepare, Vector!ReadSlot
<1>3. ASSUME NEW t \in Pair, Vector!WriteSlot(t) PROVE UNCHANGED vRetired /\ Vector!Contents' = Vector!Contents
  BY <1>3, WriteContents DEF Vector!WriteSlot
<1>4. ASSUME NEW t \in Pair, Vector!SetState(t) PROVE UNCHANGED vRetired /\ Vector!Contents' = Vector!Contents
  BY <1>4, SetStateContents DEF Vector!SetState
<1>5. ASSUME NEW t \in Pair, Vector!AllocateBucket(t) PROVE UNCHANGED vRetired /\ Vector!Contents' = Vector!Contents
  BY <1>5, AllocateContents DEF Vector!AllocateBucket
<1>6. Vector!Quiesce \/ UNCHANGED Vector!vars => UNCHANGED <<vDesc, vSlot>> /\ vRetired' \subseteq vRetired
  BY DEF Vector!Quiesce, Vector!vars
<1> QED
  BY <1>1, <1>2, <1>3, <1>4, <1>5, <1>6, PublishContents DEF Vector!Next, Vector!Help, Vector!Loop

LEMMA VectorFacts ==
    VectorInv => Vector!ElementsLive /\ Vector!VectorSizeAtRest
<1> SUFFICES ASSUME VectorInv PROVE Vector!ElementsLive /\ Vector!VectorSizeAtRest
  OBVIOUS
<1>1. ContentsOK
  BY ContentsAre
<1>2. PICK s \in Nat : /\ s = vDesc[Len(vDesc)].size
                       /\ DOMAIN Vector!Contents = 1 .. s /\ Len(Vector!Contents) = s
                       /\ \A i \in 1 .. s : Vector!Contents[i] = Elem(i - 1) /\ i - 1 \in 0 .. s - 1
  BY <1>1, LenProperties DEF ContentsOK
<1>3. ASSUME NEW i \in 0 .. s - 1
      PROVE  /\ Elem(i) \in Items \ (vRetired \cup vFresh)
             /\ \E k \in 1 .. Len(vDesc) : vDesc[k].new = Elem(i) /\ vDesc[k].loc = i
  <2>1. Elem(i) \in Items /\ Elem(i) \notin vRetired /\ Elem(i) # Nothing
    BY <1>2, VectorConstants DEF VectorInv, ElemInv
  <2>2. /\ Len(vDesc) \in 1 .. Len(vDesc)
        /\ vDesc[Len(vDesc)].size <= Vector!Slots(vBuckets) /\ Vector!Slots(vBuckets) \in Int
        /\ vSlot \in [0 .. Vector!Slots(vBuckets) - 1 -> Items \cup {Nothing}]
    <3>1. Len(vDesc) \in Nat /\ Len(vDesc) # 0
      BY LenProperties DEF VectorInv, SharedOK
    <3> QED
      BY <3>1, VectorConstants DEF VectorInv, SharedOK, DescInv, DescOK, Vector!Slots
  <2>3. \E k \in 1 .. Len(vDesc) : vDesc[k].new = Elem(i) /\ vDesc[k].loc = i
    <3>1. CASE vDesc[Len(vDesc)].new # Nothing /\ i = vDesc[Len(vDesc)].loc
      BY <2>2, <3>1 DEF Elem
    <3>2. CASE ~(vDesc[Len(vDesc)].new # Nothing /\ i = vDesc[Len(vDesc)].loc)
      <4>1. Elem(i) = vSlot[i] /\ i \in DOMAIN vSlot
        BY <1>2, <2>2, <3>2 DEF Elem
      <4> QED
        BY <2>1, <4>1 DEF VectorInv, SlotInv
    <3> QED
      BY <3>1, <3>2
  <2> QED
    BY <2>1, <2>3 DEF VectorInv, DescInv
<1>4. Vector!ElementsLive
  <2>1. ASSUME NEW i \in 1 .. s, NEW k \in 1 .. s, Vector!Contents[k] = Vector!Contents[i] PROVE k = i
    <3>1. Elem(i - 1) = Elem(k - 1) /\ Elem(i - 1) # Nothing /\ i - 1 \in 0 .. s - 1 /\ k - 1 \in 0 .. s - 1
      BY <1>2, <1>3, <2>1, VectorConstants
    <3>2. i - 1 = k - 1
      <4>1. PICK x \in 1 .. Len(vDesc) : vDesc[x].new = Elem(i - 1) /\ vDesc[x].loc = i - 1
        BY <1>3, <3>1
      <4>2. PICK y \in 1 .. Len(vDesc) : vDesc[y].new = Elem(k - 1) /\ vDesc[y].loc = k - 1
        BY <1>3, <3>1
      <4>3. x = y
        BY <3>1, <4>1, <4>2 DEF VectorInv, DescInv
      <4> QED
        BY <4>1, <4>2, <4>3
    <3> QED
      BY <3>2
  <2> QED
    BY <1>2, <1>3, <2>1, SMTT(40) DEF Vector!ElementsLive
<1>5. Vector!VectorSizeAtRest
  <2> SUFFICES ASSUME \A t \in Pair : vTh[t].pc = "idle"
               PROVE  vDesc[Len(vDesc)].state # "write_pending"
    BY <1>2 DEF Vector!VectorSizeAtRest, Vector!Current
  <2> QED
    BY DEF VectorInv, PendingInv, Completes
<1> QED
  BY <1>4, <1>5

\* THEOREM: for every number of threads, every set of addresses and every size of
\* the first bucket, concurrent_vector is a stack whose calls take effect when
\* they exchange m_descriptor: a pop takes the last element also when its slot is
\* not written yet, no element is freed or there twice, and at rest size() is
\* their number.  Addresses are not used again.
THEOREM VectorKeepsContract == Spec => VectorContract
<1>1. Init => VectorInv /\ Vector!Stack!Init
  BY InitVectorInv, InitContents DEF Init
<1>2. [Next]_vars => [Vector!Next]_(Vector!vars)
  BY DEF Next, Of, Others, vars, vectorVars, Vector!vars
<1>3. VectorInv /\ [Vector!Next]_(Vector!vars) => VectorInv'
  BY NextVectorInv
<1>4. VectorInv /\ VectorInv' /\ [Vector!Next]_(Vector!vars) => [Vector!Stack!Next]_(Vector!Contents)
  BY StackStep
<1>5. VectorInv /\ VectorInv' /\ [Vector!Next]_(Vector!vars) =>
         [\A n \in vRetired' \ vRetired : n = Vector!Contents[Len(Vector!Contents)]]_(Vector!vars)
  BY StackStep
<1>6. VectorInv => Vector!ElementsLive /\ Vector!VectorSizeAtRest
  BY VectorFacts
<1> QED
  BY <1>1, <1>2, <1>3, <1>4, <1>5, <1>6, PTL
  DEF Spec, VectorContract, Vector!ImplementsStack, Vector!Stack!Spec, Vector!PopsLast

-----------------------------------------------------------------------------
(* partition_work.                                                         *)

Rest == wTotal - wNum * Work!Portion

\* The chunks that are made: all of the portion, the first ones of an item more.
ChunksInv ==
    /\ wChunks \in Seq(Nat \X Nat) /\ Len(wChunks) = wI
    /\ \A k \in 1 .. wI :
          /\ wChunks[k][2] - wChunks[k][1] \in {Work!Portion, Work!Portion + 1}
          /\ wChunks[k][1] < wChunks[k][2] /\ wChunks[k][2] <= wPortionEnd
          /\ wChunks[k][1] = IF k = 1 THEN 0 ELSE wChunks[k - 1][2]
    /\ wPortionEnd = IF wI = 0 THEN 0 ELSE wChunks[wI][2]

\* Where the loop is.
LoopInv ==
    /\ wTotal \in Nat /\ wNum \in Nat \ {0} /\ wI \in 0 .. wNum
    /\ wRemainder \in Int /\ wPc \in {"loop", "done"}
    /\ wPc = "loop" => wRemainder = Rest - wI
    /\ wPortionEnd = wI * Work!Portion + (IF wI <= Rest THEN wI ELSE Rest)
    /\ wPc = "done" => wPortionEnd = wTotal

WorkInv == LoopInv /\ ChunksInv

LEMMA Division ==
    ASSUME wTotal \in Nat, wNum \in Nat \ {0}
    PROVE  Work!Portion \in Nat /\ Rest \in Nat /\ Rest < wNum /\ wTotal = wNum * Work!Portion + Rest
<1>1. wTotal = wNum * (wTotal \div wNum) + (wTotal % wNum) /\ wTotal % wNum \in 0 .. wNum - 1
      /\ wTotal \div wNum \in Int
  OBVIOUS
<1>2. wTotal \div wNum >= 0
  BY <1>1
<1> QED
  BY <1>1, <1>2 DEF Work!Portion, Rest

LEMMA WorkInit == Init => WorkInv
<1> SUFFICES ASSUME Init PROVE WorkInv
  OBVIOUS
<1>1. /\ wTotal \in Nat /\ wNum \in Nat \ {0} /\ wI = 0 /\ wRemainder = Rest
      /\ wPortionEnd = 0 /\ wChunks = <<>> /\ wPc = "loop"
  BY WorkAssumption DEF Init, Work!Init, Rest
<1>2. Work!Portion \in Nat /\ Rest \in Nat
  BY <1>1, Division
<1>3. LoopInv
  BY <1>1, <1>2 DEF LoopInv
<1>4. ChunksInv
  BY <1>1 DEF ChunksInv
<1> QED
  BY <1>3, <1>4 DEF WorkInv

\* An iteration of the loop.
LEMMA ChunkStep ==
    ASSUME WorkInv, Work!Chunk
    PROVE  WorkInv'
<1> DEFINE P == Work!Portion
           e == wPortionEnd + Work!Portion + Work!Extra
<1>1. /\ wPc = "loop" /\ wI < wNum /\ wRemainder' = wRemainder - 1 /\ wPortionEnd' = e
      /\ UNCHANGED <<wTotal, wNum>>
  BY DEF Work!Chunk
<1>2. /\ wTotal \in Nat /\ wNum \in Nat \ {0} /\ wI \in 0 .. wNum /\ wRemainder \in Int
      /\ wRemainder = Rest - wI
      /\ wPortionEnd = wI * Work!Portion + (IF wI <= Rest THEN wI ELSE Rest)
  BY <1>1 DEF WorkInv, LoopInv
<1>3. P \in Nat /\ Rest \in Nat /\ Rest < wNum /\ wTotal = wNum * P + Rest
  BY <1>2, Division
<1>4. UNCHANGED <<Work!Portion, Rest>>
  BY <1>1 DEF Work!Portion, Rest
<1>5. Work!Extra = (IF wI < Rest THEN 1 ELSE 0) /\ Work!Extra \in 0 .. 1
  BY <1>2, <1>3 DEF Work!Extra
<1>6. wI * P \in Nat /\ (wI + 1) * P = wI * P + P /\ wPortionEnd \in Nat
  BY <1>2, <1>3
<1>7. e = (wI + 1) * P + (IF wI + 1 <= Rest THEN wI + 1 ELSE Rest)
  BY <1>2, <1>3, <1>5, <1>6
<1>8. e \in Nat /\ e - wPortionEnd \in {P, P + 1} /\ wPortionEnd <= e
  BY <1>3, <1>5, <1>6
<1>9. CASE e # wPortionEnd
  <2>1. wChunks' = Append(wChunks, <<wPortionEnd, e>>) /\ wI' = wI + 1 /\ wPc' = wPc
    BY <1>9 DEF Work!Chunk
  <2>2. LoopInv'
    BY <1>1, <1>2, <1>3, <1>4, <1>7, <2>1 DEF LoopInv
  <2>3. /\ wChunks \in Seq(Nat \X Nat) /\ Len(wChunks) = wI
        /\ \A k \in 1 .. wI :
              /\ wChunks[k][2] - wChunks[k][1] \in {Work!Portion, Work!Portion + 1}
              /\ wChunks[k][1] < wChunks[k][2] /\ wChunks[k][2] <= wPortionEnd
              /\ wChunks[k][1] = IF k = 1 THEN 0 ELSE wChunks[k - 1][2]
        /\ wPortionEnd = IF wI = 0 THEN 0 ELSE wChunks[wI][2]
    BY DEF WorkInv, ChunksInv
  <2>4. <<wPortionEnd, e>> \in Nat \X Nat
    BY <1>6, <1>8
  <2> HIDE DEF e
  <2>5. /\ wChunks' \in Seq(Nat \X Nat) /\ Len(wChunks') = wI + 1
        /\ \A k \in 1 .. wI : wChunks'[k] = wChunks[k]
        /\ wChunks'[wI + 1] = <<wPortionEnd, e>>
    BY <2>1, <2>3, <2>4, AppendProperties
  <2>6. ASSUME NEW k \in 1 .. wI + 1
        PROVE  /\ wChunks'[k][2] - wChunks'[k][1] \in {Work!Portion, Work!Portion + 1}
               /\ wChunks'[k][1] < wChunks'[k][2] /\ wChunks'[k][2] <= e
               /\ wChunks'[k][1] = IF k = 1 THEN 0 ELSE wChunks'[k - 1][2]
    <3>1. CASE k = wI + 1
      <4>1. wChunks'[k][1] = wPortionEnd /\ wChunks'[k][2] = e
        BY <2>5, <3>1
      <4>2. CASE k = 1
        BY <1>2, <1>6, <1>8, <1>9, <2>3, <3>1, <4>1, <4>2
      <4>3. CASE k # 1
        <5>1. k - 1 = wI /\ wI \in 1 .. wI /\ wI # 0
          BY <1>2, <3>1, <4>3
        <5> QED
          BY <1>6, <1>8, <1>9, <2>3, <2>5, <4>1, <4>3, <5>1
      <4> QED
        BY <4>2, <4>3
    <3>2. CASE k \in 1 .. wI
      <4>1. wChunks'[k] = wChunks[k] /\ wChunks[k] \in Nat \X Nat
        BY <1>2, <2>3, <2>5, <3>2
      <4>2. k # 1 => k - 1 \in 1 .. wI
        BY <1>2, <3>2
      <4>3. k # 1 => wChunks'[k - 1] = wChunks[k - 1]
        BY <2>5, <4>2
      <4>4. wChunks'[k][2] <= e
        BY <1>6, <1>8, <2>3, <3>2, <4>1
      <4> QED
        BY <2>3, <3>2, <4>1, <4>3, <4>4
    <3> QED
      BY <1>2, <3>1, <3>2
  <2>7. ChunksInv'
    <3>1. wI' = wI + 1 /\ wPortionEnd' = e /\ (Work!Portion)' = Work!Portion
      BY <1>1, <1>4, <2>1
    <3>2. wChunks' \in Seq(Nat \X Nat) /\ Len(wChunks') = wI'
      BY <2>5, <3>1
    <3>3. \A k \in 1 .. wI' :
             /\ wChunks'[k][2] - wChunks'[k][1] \in {(Work!Portion)', (Work!Portion)' + 1}
             /\ wChunks'[k][1] < wChunks'[k][2] /\ wChunks'[k][2] <= wPortionEnd'
             /\ wChunks'[k][1] = IF k = 1 THEN 0 ELSE wChunks'[k - 1][2]
      BY <2>6, <3>1
    <3>4. wPortionEnd' = IF wI' = 0 THEN 0 ELSE wChunks'[wI'][2]
      BY <1>2, <2>5, <3>1
    <3> QED
      BY <3>2, <3>3, <3>4 DEF ChunksInv
  <2> QED
    BY <2>2, <2>7 DEF WorkInv
<1>10. CASE e = wPortionEnd
  <2>1. wPc' = "done" /\ UNCHANGED <<wChunks, wI>>
    BY <1>10 DEF Work!Chunk
  <2>2. P = 0 /\ wI >= Rest
    BY <1>2, <1>3, <1>5, <1>6, <1>10
  <2>3. wPortionEnd = wTotal
    BY <1>2, <1>3, <2>2
  <2>4. LoopInv'
    BY <1>1, <1>2, <1>3, <1>4, <1>10, <2>1, <2>3 DEF LoopInv
  <2>5. ChunksInv'
    BY <1>1, <1>4, <1>10, <2>1 DEF WorkInv, ChunksInv
  <2> QED
    BY <2>4, <2>5 DEF WorkInv
<1> QED
  BY <1>9, <1>10

LEMMA WorkNext == WorkInv /\ [Next]_vars => WorkInv'
<1> SUFFICES ASSUME WorkInv, [Next]_vars PROVE WorkInv'
  OBVIOUS
<1>1. CASE Work!Return
  <2>1. /\ wI = wNum /\ wPc' = "done" /\ wPc = "loop"
        /\ UNCHANGED <<wTotal, wNum, wI, wRemainder, wPortionEnd, wChunks>>
    BY <1>1 DEF Work!Return
  <2>2. UNCHANGED <<Work!Portion, Rest>>
    BY <2>1 DEF Work!Portion, Rest
  <2>3. /\ wTotal \in Nat /\ wNum \in Nat \ {0}
        /\ wPortionEnd = wI * Work!Portion + (IF wI <= Rest THEN wI ELSE Rest)
    BY DEF WorkInv, LoopInv
  <2>4. Rest \in Nat /\ Rest < wNum /\ wTotal = wNum * Work!Portion + Rest
    BY <2>3, Division
  <2>5. wPortionEnd = wTotal
    BY <2>1, <2>3, <2>4
  <2>6. LoopInv'
    BY <2>1, <2>2, <2>5 DEF WorkInv, LoopInv
  <2>7. ChunksInv'
    BY <2>1, <2>2 DEF WorkInv, ChunksInv
  <2> QED
    BY <2>6, <2>7 DEF WorkInv
<1>2. CASE UNCHANGED workVars
  BY <1>2 DEF workVars, WorkInv, LoopInv, ChunksInv, Rest, Work!Portion
<1>3. Work!Next \/ UNCHANGED workVars
  BY DEF Next, Of, Others, vars
<1> QED
  BY <1>1, <1>2, <1>3, ChunkStep DEF Work!Next

\* partition_work covers its range once with even chunks, for every size of the
\* range and every number of chunks.
THEOREM PartitionKeepsContract == Spec => []PartitionContract
<1>1. ASSUME WorkInv PROVE PartitionContract
  <2>1. /\ wTotal \in Nat /\ wNum \in Nat \ {0} /\ wI \in 0 .. wNum
        /\ wPc = "done" => wPortionEnd = wTotal
    BY <1>1 DEF WorkInv, LoopInv
  <2>2. Work!Portion \in Nat
    BY <2>1, Division
  <2>3. /\ wChunks \in Seq(Nat \X Nat) /\ Len(wChunks) = wI
        /\ \A k \in 1 .. wI :
              /\ wChunks[k][2] - wChunks[k][1] \in {Work!Portion, Work!Portion + 1}
              /\ wChunks[k][1] < wChunks[k][2]
              /\ wChunks[k][1] = IF k = 1 THEN 0 ELSE wChunks[k - 1][2]
        /\ wPortionEnd = IF wI = 0 THEN 0 ELSE wChunks[wI][2]
    BY <1>1 DEF WorkInv, ChunksInv
  <2>4. DOMAIN wChunks = 1 .. wI /\ \A k \in 1 .. wI : wChunks[k] \in Nat \X Nat
    BY <2>1, <2>3
  <2>5. Work!CoversOnce
    BY <2>1, <2>3, <2>4 DEF Work!CoversOnce
  <2>6. ASSUME NEW k \in 1 .. wI, NEW l \in 1 .. wI
        PROVE  /\ wChunks[k][2] - wChunks[k][1] > 0
               /\ (wChunks[k][2] - wChunks[k][1]) - (wChunks[l][2] - wChunks[l][1]) \in -1 .. 1
    <3>1. /\ wChunks[k][1] \in Nat /\ wChunks[k][2] \in Nat
          /\ wChunks[l][1] \in Nat /\ wChunks[l][2] \in Nat
      BY <2>4
    <3>2. /\ wChunks[k][2] - wChunks[k][1] \in {Work!Portion, Work!Portion + 1}
          /\ wChunks[l][2] - wChunks[l][1] \in {Work!Portion, Work!Portion + 1}
          /\ wChunks[k][1] < wChunks[k][2]
      BY <2>3
    <3> QED
      BY <2>2, <3>1, <3>2, SMTT(40)
  <2>7. Work!EvenChunks
    BY <2>4, <2>6 DEF Work!EvenChunks
  <2> QED
    BY <2>5, <2>7 DEF PartitionContract
<1> QED
  BY <1>1, WorkInit, WorkNext, PTL DEF Spec

-----------------------------------------------------------------------------
(* Types.                                                                  *)

LEMMA QueueTypes == Spec => []Queue!TypeOK
<1>1. QP!CapacityAssumption
  BY QueueAssumption DEF Queue!CapacityAssumption, QP!CapacityAssumption
<1>2. QP!Spec => []QP!TypeOK
  BY <1>1, QP!QueueTypeCorrect
<1>3. QP!TypeOK => Queue!TypeOK
  BY DEF QP!TypeOK, Queue!TypeOK, QP!Cells, Queue!Cells, QP!Pushing, Queue!Pushing, QP!Popping, Queue!Popping
<1> QED
  BY IsQueue, <1>2, <1>3, PTL

LEMMA SetTypes == Spec => []List!TypeOK
<1>1. SP!Spec => []SP!TypeOK
  BY ListConstants, SP!ListTypeCorrect
<1>2. SP!TypeOK => List!TypeOK
  BY DEF SP!TypeOK, List!TypeOK, SP!Nodes, List!Nodes, SP!Levels, List!Levels, SP!Nil, List!Nil,
         SP!Keys, List!Keys
<1> QED
  BY IsList, <1>1, <1>2, PTL

LEMMA VectorTypes == Spec => []Vector!TypeOK
<1>1. Init => VectorInv
  BY InitVectorInv DEF Init
<1>2. [Next]_vars => [Vector!Next]_(Vector!vars)
  BY DEF Next, Of, Others, vars, vectorVars, Vector!vars
<1>3. VectorInv /\ [Vector!Next]_(Vector!vars) => VectorInv'
  BY NextVectorInv
<1>4. ASSUME VectorInv PROVE Vector!TypeOK
  <2>1. SharedOK /\ \A t \in Pair : vTh[t] \in Locals /\ vTh[t].cur <= Len(vDesc)
    BY <1>4 DEF VectorInv, SharedOK, ThreadInv
  <2>2. \A k \in 1 .. Len(vDesc) : vDesc[k] \in Descs
    BY <2>1, ElementOfSeq DEF SharedOK
  <2>3. \A k \in 1 .. Len(vDesc) : /\ vDesc[k].size \in Nat
                                   /\ {vDesc[k].old, vDesc[k].new} \subseteq Items \cup {Nothing}
    BY <2>2 DEF Descs
  <2>4. \A t \in Pair : vTh[t].cur \in 0 .. Len(vDesc) /\ vTh[t].node \in Items \cup {Nothing}
    <3>1. Len(vDesc) \in Nat
      BY <2>1, LenProperties DEF SharedOK
    <3> QED
      BY <2>1, <3>1 DEF Locals
  <2> QED
    BY <2>1, <2>3, <2>4 DEF SharedOK, Vector!TypeOK
<1> QED
  BY <1>1, <1>2, <1>3, <1>4, PTL DEF Spec

LEMMA WorkTypes == Spec => []Work!TypeOK
<1>1. ASSUME WorkInv PROVE Work!TypeOK
  <2>1. LoopInv /\ ChunksInv
    BY <1>1 DEF WorkInv
  <2>2. PICK p \in Nat : p = Work!Portion /\ Rest \in Nat /\ wTotal = wNum * p + Rest
    BY <2>1, Division DEF LoopInv
  <2>3. wI * p + (wNum - wI) * p = wNum * p /\ (wNum - wI) * p \in Nat /\ wI * p \in Nat
    BY <2>1, <2>2 DEF LoopInv
  <2>4. wPortionEnd \in 0 .. wTotal /\ wTotal \in Nat /\ wI \in Nat
    <3>1. PICK x \in Nat, y \in Nat, z \in Nat : x = wI * p /\ y = (wNum - wI) * p /\ z = wNum * p /\ x + y = z
      BY <2>1, <2>2, <2>3 DEF LoopInv
    <3>2. wPortionEnd = x + (IF wI <= Rest THEN wI ELSE Rest) /\ wTotal = z + Rest /\ wI \in Nat
      BY <2>1, <2>2, <3>1 DEF LoopInv
    <3> QED
      BY <2>2, <3>1, <3>2
  <2>5. \A k \in 1 .. wI : wChunks[k] \in (0 .. wTotal) \X (0 .. wTotal)
    <3> SUFFICES ASSUME NEW k \in 1 .. wI PROVE wChunks[k] \in (0 .. wTotal) \X (0 .. wTotal)
      OBVIOUS
    <3>1. wChunks[k] \in Nat \X Nat /\ wChunks[k][1] < wChunks[k][2] /\ wChunks[k][2] <= wPortionEnd
      BY <2>1, ElementOfSeq DEF ChunksInv
    <3>2. wChunks[k][1] \in 0 .. wTotal /\ wChunks[k][2] \in 0 .. wTotal
      BY <2>4, <3>1
    <3> QED
      BY <3>1, <3>2
  <2>6. wChunks \in Seq((0 .. wTotal) \X (0 .. wTotal))
    <3>1. wChunks \in Seq(Nat \X Nat) /\ Len(wChunks) = wI
      BY <2>1 DEF ChunksInv
    <3>2. DOMAIN wChunks = 1 .. wI /\ wChunks = [k \in 1 .. wI |-> wChunks[k]]
      BY <3>1, LenProperties
    <3> QED
      BY <2>4, <2>5, <3>2, SMTT(40)
  <2> QED
    BY <2>1, <2>4, <2>6 DEF LoopInv, Work!TypeOK
<1> QED
  BY <1>1, WorkInit, WorkNext, PTL DEF Spec

\* THEOREM: every variable of the containers, of the reclaimer and of the
\* partition keeps its type, for every value of the constants.
THEOREM ContainersTypes == Spec => []TypeOK
  BY QueueTypes, SetTypes, VectorTypes, ReclaimerTypeCorrect, WorkTypes, PTL DEF TypeOK
=============================================================================
