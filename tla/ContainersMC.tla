---------------------------- MODULE ContainersMC ----------------------------
(***************************************************************************)
(* The lock-free containers, the reclaimer that counts checkouts and the   *)
(* partition of a range, side by side.  They share nothing; a behaviour is *)
(* one of the component that subject names, and the variables of the       *)
(* others keep their initial values.                                       *)
(***************************************************************************)
EXTENDS Integers, FiniteSets, TLC

CONSTANTS
    Threads,     \* the threads of the queue and of the reclaimer
    Pair,        \* the two of them that use the skip list and the vector
    Items,       \* values in the queue, addresses of nodes in the vector
    Unlinkable,  \* the nodes that the reclaimer is given
    Queues,      \* addresses of the reclaimer's queues
    Nothing,     \* no value, no node, no queue
    Capacity,    \* the size of the queue's buffer
    MaxKey,      \* the greatest key of the skip list, and its highest level
    MaxLevel,
    MaxInserts,  \* bounds: its insertions, and its calls
    MaxListCalls,
    FirstBucket, \* the size of the vector's first bucket
    MaxVectorCalls, \* bound: the number of calls of the vector
    MaxCheckouts,\* bound: the number of checkouts of the reclaimer
    Totals,      \* the sizes of the ranges that are partitioned
    Nums         \* the numbers of chunks asked for

VARIABLES
    subject,
    qSequence, qData, qEnqueuePos, qDequeuePos, qPc, qPos, qVal, qClaimed,
    lNode, lSize, lTh, lRetired, lDeleted, lCalls, lPresent, lSeen,
    vDesc, vSlot, vBuckets, vTh, vFresh, vRetired, vCalls,
    rCurrent, rStamp, rPending, rLinked, rFreed, rTh, rCheckouts, rDestroyed,
    wTotal, wNum, wI, wRemainder, wPortionEnd, wChunks, wPc

Queue == INSTANCE VyukovQueue WITH
    sequence <- qSequence, data <- qData, enqueuePos <- qEnqueuePos,
    dequeuePos <- qDequeuePos, pc <- qPc, pos <- qPos, val <- qVal, claimed <- qClaimed,
    Values <- Items, NoValue <- Nothing

List == INSTANCE SkipList WITH
    node <- lNode, size <- lSize, th <- lTh, retired <- lRetired, deleted <- lDeleted,
    calls <- lCalls, present <- lPresent, seen <- lSeen, Threads <- Pair,
    MaxCalls <- MaxListCalls

Vector == INSTANCE ConcurrentVector WITH
    desc <- vDesc, slot <- vSlot, buckets <- vBuckets, th <- vTh, fresh <- vFresh,
    retired <- vRetired, calls <- vCalls, Threads <- Pair, Nodes <- Items,
    Nil <- Nothing, Reuse <- FALSE, MaxCalls <- MaxVectorCalls

Reclaimer == INSTANCE RefCountReclaimer WITH
    current <- rCurrent, stamp <- rStamp, pending <- rPending, linked <- rLinked,
    freed <- rFreed, th <- rTh, checkouts <- rCheckouts, destroyed <- rDestroyed,
    Nodes <- Unlinkable

Work == INSTANCE PartitionWork WITH
    total <- wTotal, num <- wNum, i <- wI, remainder <- wRemainder,
    portionEnd <- wPortionEnd, chunks <- wChunks, pc <- wPc

ASSUME QueueAssumption == Queue!CapacityAssumption
ASSUME ListAssumption == List!ListAssumption
ASSUME VectorAssumption == Vector!VectorAssumption
ASSUME ReclaimerAssumption == Reclaimer!ReclaimerAssumption
ASSUME WorkAssumption == Totals \subseteq Nat /\ Nums \subseteq Nat \ {0}

queueVars == <<qSequence, qData, qEnqueuePos, qDequeuePos, qPc, qPos, qVal, qClaimed>>
listVars == <<lNode, lSize, lTh, lRetired, lDeleted, lCalls, lPresent, lSeen>>
vectorVars == <<vDesc, vSlot, vBuckets, vTh, vFresh, vRetired, vCalls>>
reclaimerVars == <<rCurrent, rStamp, rPending, rLinked, rFreed, rTh, rCheckouts, rDestroyed>>
workVars == <<wTotal, wNum, wI, wRemainder, wPortionEnd, wChunks, wPc>>

Others(c) ==
    /\ UNCHANGED subject
    /\ IF c = "queue" THEN TRUE ELSE UNCHANGED queueVars
    /\ IF c = "list" THEN TRUE ELSE UNCHANGED listVars
    /\ IF c = "vector" THEN TRUE ELSE UNCHANGED vectorVars
    /\ IF c = "reclaimer" THEN TRUE ELSE UNCHANGED reclaimerVars
    /\ IF c = "work" THEN TRUE ELSE UNCHANGED workVars

\* A step of component c.
Of(c, Step) == subject = c /\ Step /\ Others(c)

\* The sizes of a partition vary only where it is the subject.
Init ==
    /\ subject \in {"queue", "list", "vector", "reclaimer", "work"}
    /\ Queue!Init
    /\ List!Init
    /\ Vector!Init
    /\ Reclaimer!Init
    /\ Work!Init
    /\ subject = "work" \/ \A m \in Totals, n \in Nums : wTotal <= m /\ wNum <= n

Next ==
    \/ Of("queue", Queue!Next)
    \/ Of("list", List!Next)
    \/ Of("vector", Vector!Next)
    \/ Of("reclaimer", Reclaimer!Next)
    \/ Of("work", Work!Next)

vars == <<subject, queueVars, listVars, vectorVars, reclaimerVars, workVars>>

Spec == Init /\ [][Next]_vars

\* The threads of the pair do the same in every component.
Symmetry == Permutations(Pair)

-----------------------------------------------------------------------------
(* What each component promises: the conjunction of the properties that its *)
(* own module states.                                                       *)

\* Every variable has its type, in each component.
TypeOK ==
    /\ Queue!TypeOK
    /\ List!TypeOK
    /\ Vector!TypeOK
    /\ Reclaimer!TypeOK
    /\ Work!TypeOK

\* vyukov_mpmc_bounded_queue implements a bounded FIFO; a cell belongs to one
\* thread at a time, a pop takes what was pushed at its position, and calls
\* fail only when the queue is full, or empty, or a thread ahead is not done.
QueueContract ==
    /\ []Queue!CellOwnedByOne
    /\ []Queue!PopsWhatWasPushed
    /\ Queue!FailsOnlyWhenBlocked
    /\ Queue!ImplementsFifo

\* The unmarked nodes at the bottom of the skip list are the keys of the set
\* and every level is sorted; each answer was right at a moment of its call,
\* and at rest the size is the number of keys.
SetContract ==
    /\ List!AbstractSet
    /\ List!LevelsSorted
    /\ List!AnswersLinearize
    /\ List!SizeAtRest

\* quiesce of the skip list frees no node that a link still leads to, although
\* an insertion may link a node again at a level from which it was taken out.
ReclaimSafe == List!ReclaimSafe

\* concurrent_vector implements a stack: a pop takes the last element also
\* when it is not in its slot yet, no element is freed or there twice, and at
\* rest size() is their number, whoever helped with which descriptor.
VectorContract ==
    /\ Vector!ImplementsStack
    /\ Vector!PopsLast
    /\ []Vector!ElementsLive
    /\ []Vector!VectorSizeAtRest

\* ref_count_memory_reclaimer frees no node that a thread which is checked out
\* has found, gives a queue to one thread only, loses no node, and its stamp
\* is what its assertions say, although threads come and go between the load
\* of the stamp and the exchange.
ReclaimerContract ==
    /\ Reclaimer!HeldNotFreed
    /\ Reclaimer!QueueOfOne
    /\ Reclaimer!UnlinkedNotLost
    /\ Reclaimer!StampAsserted

\* partition_work covers its range once, with chunks that are not empty and
\* differ by one item at most.
PartitionContract ==
    /\ Work!CoversOnce
    /\ Work!EvenChunks
=============================================================================
