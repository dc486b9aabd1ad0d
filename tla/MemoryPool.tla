----------------------------- MODULE MemoryPool -----------------------------
(***************************************************************************)
(* memory_pool: allocate, expand and deallocate of any number of threads.  *)
(* Nodes wait in a concurrent queue (external: a set that threads take     *)
(* from and add to atomically); the thread that finds it empty first       *)
(* expands the pool, the others wait until it has done so.                 *)
(*                                                                         *)
(* Nodes are the numbers 1, 2, ... in the order of their blocks.           *)
(***************************************************************************)
EXTENDS Integers, FiniteSets

CONSTANTS
    Threads,
    InitialSize,       \* growth_policy().initial_size()
    Growth(_),         \* growth_policy().growth_factor
    MaxCalls,          \* bound: the calls of allocate and deallocate
    Nobody

VARIABLES
    free,          \* m_q
    lastBlock,     \* m_blocks.back().size()
    total,         \* m_totalElements
    nodes,         \* the number of nodes in all blocks
    isExpanding,   \* m_isExpanding
    mutex,         \* the thread that holds m_loadMutex
    pc,            \* where each thread is
    holder,        \* who has a node: pool is set while somebody has
    calls          \* how many calls were made

vars == <<free, lastBlock, total, nodes, isExpanding, mutex, pc, holder, calls>>

Init ==
    /\ free = 1 .. InitialSize
    /\ lastBlock = InitialSize /\ total = InitialSize /\ nodes = InitialSize
    /\ isExpanding = FALSE
    /\ mutex = Nobody
    /\ pc = [t \in Threads |-> "ready"]
    /\ holder = [n \in 1 .. InitialSize |-> Nobody]
    /\ calls = 0

Goto(t, l) == pc' = [pc EXCEPT ![t] = l]

Allocate(t) ==
    /\ pc[t] = "ready" /\ calls < MaxCalls
    /\ calls' = calls + 1
    /\ Goto(t, "dequeue")
    /\ UNCHANGED <<free, lastBlock, total, nodes, isExpanding, mutex, holder>>

TryDequeue(t) ==
    /\ pc[t] = "dequeue"
    /\ \/ \E n \in free :
            /\ free' = free \ {n}
            /\ holder' = [holder EXCEPT ![n] = t]
            /\ Goto(t, "ready")
       \/ free = {} /\ Goto(t, "expand") /\ UNCHANGED <<free, holder>>
    /\ UNCHANGED <<lastBlock, total, nodes, isExpanding, mutex, calls>>

-----------------------------------------------------------------------------
(* expand *)

\* Faulty: the flag is read and set in two accesses, so every thread expands.
MayExpandFaulty == TRUE

MayExpand == ~isExpanding

ExchangeExpanding(t) ==
    /\ pc[t] = "expand"
    /\ isExpanding' = TRUE
    /\ Goto(t, IF MayExpand THEN "size" ELSE "lock")
    /\ UNCHANGED <<free, lastBlock, total, nodes, mutex, holder, calls>>

\* size_approx() is exact here.
CheckSize(t) ==
    /\ pc[t] = "size"
    /\ Goto(t, IF free = {} THEN "grow" ELSE "store")
    /\ UNCHANGED <<free, lastBlock, total, nodes, isExpanding, mutex, holder, calls>>

\* Faulty: the generator begins one node before the block.
NewBlockFaulty == nodes .. nodes + Growth(lastBlock) - 1

NewBlock == nodes + 1 .. nodes + Growth(lastBlock)

\* A new block, all of whose nodes are queued.
Grow(t) ==
    /\ pc[t] = "grow"
    /\ lastBlock' = Growth(lastBlock)
    /\ nodes' = nodes + Growth(lastBlock)
    /\ free' = free \cup NewBlock
    /\ holder' = [n \in 1 .. nodes' |-> IF n <= nodes THEN holder[n] ELSE Nobody]
    /\ Goto(t, "count")
    /\ UNCHANGED <<total, isExpanding, mutex, calls>>

\* Faulty: the size of the block before is counted.
CountedFaulty == total + lastBlock \div 2

Counted == total + lastBlock

CountElements(t) ==
    /\ pc[t] = "count"
    /\ total' = Counted
    /\ Goto(t, "store")
    /\ UNCHANGED <<free, lastBlock, nodes, isExpanding, mutex, holder, calls>>

Sleepers == {u \in Threads : pc[u] = "asleep"}

StoreExpanding(t) ==
    /\ pc[t] = "store"
    /\ isExpanding' = FALSE
    /\ Goto(t, "notify_all")
    /\ UNCHANGED <<free, lastBlock, total, nodes, mutex, holder, calls>>

\* Faulty: notify_one.
WokenFaulty == {CHOOSE u \in Threads : Sleepers # {} => u \in Sleepers} \cap Sleepers

Woken == Sleepers

\* notify_all, without the mutex.
NotifyAll(t) ==
    /\ pc[t] = "notify_all"
    /\ pc' = [u \in Threads |-> IF u = t THEN "dequeue" ELSE IF u \in Woken THEN "lock" ELSE pc[u]]
    /\ UNCHANGED <<free, lastBlock, total, nodes, isExpanding, mutex, holder, calls>>

\* A thread that lost the exchange, or was woken, takes the mutex.
Lock(t) ==
    /\ pc[t] = "lock" /\ mutex = Nobody
    /\ mutex' = t
    /\ Goto(t, "check")
    /\ UNCHANGED <<free, lastBlock, total, nodes, isExpanding, holder, calls>>

\* doneExpanding, while it spins and then as the predicate of the wait.
CheckDone(t) ==
    /\ pc[t] = "check"
    /\ Goto(t, IF isExpanding THEN "sleep" ELSE "dequeue")
    /\ mutex' = IF isExpanding THEN t ELSE Nobody
    /\ UNCHANGED <<free, lastBlock, total, nodes, isExpanding, holder, calls>>

Sleep(t) ==
    /\ pc[t] = "sleep"
    /\ mutex' = Nobody
    /\ Goto(t, "asleep")
    /\ UNCHANGED <<free, lastBlock, total, nodes, isExpanding, holder, calls>>

-----------------------------------------------------------------------------
(* deallocate *)

\* Any thread may give back a node, since the node knows its pool.
Deallocate(t, n) ==
    /\ pc[t] = "ready" /\ holder[n] # Nobody /\ calls < MaxCalls
    /\ calls' = calls + 1
    /\ holder' = [holder EXCEPT ![n] = Nobody]
    /\ free' = free \cup {n}
    /\ Goto(t, "notify_one")
    /\ UNCHANGED <<lastBlock, total, nodes, isExpanding, mutex>>

NotifyOne(t) ==
    /\ pc[t] = "notify_one"
    /\ \/ Sleepers = {} /\ Goto(t, "ready")
       \/ \E u \in Sleepers : pc' = [pc EXCEPT ![t] = "ready", ![u] = "lock"]
    /\ UNCHANGED <<free, lastBlock, total, nodes, isExpanding, mutex, holder, calls>>

-----------------------------------------------------------------------------
Expand(t) ==
    \/ ExchangeExpanding(t) \/ CheckSize(t) \/ Grow(t) \/ CountElements(t)
    \/ StoreExpanding(t) \/ NotifyAll(t) \/ Lock(t) \/ CheckDone(t) \/ Sleep(t)

\* What a call that has begun goes on to do.
Go(t) == TryDequeue(t) \/ Expand(t) \/ NotifyOne(t)

GiveBack(t) == \E n \in DOMAIN holder : Deallocate(t, n)

Next == \E t \in Threads : Allocate(t) \/ Go(t) \/ GiveBack(t)

Spec == Init /\ [][Next]_vars

-----------------------------------------------------------------------------
(* Properties. *)

\* The type of every variable.
TypeOK ==
    /\ {lastBlock, total, nodes, calls} \subseteq Nat
    /\ free \subseteq 1 .. nodes
    /\ isExpanding \in BOOLEAN
    /\ mutex \in Threads \cup {Nobody}
    /\ holder \in [1 .. nodes -> Threads \cup {Nobody}]

\* A node is free or somebody's, never both and never neither.
NodesConserved == \A n \in 1 .. nodes : (n \in free) = (holder[n] = Nobody)

\* One thread at a time changes the blocks, as the race detector of expand
\* asserts.
OneExpander ==
    \A t, u \in Threads :
       pc[t] \in {"size", "grow", "count"} /\ pc[u] \in {"size", "grow", "count"} => t = u

\* size_elements() is the number of nodes unless a block is being added.
ElementsCounted == (\A t \in Threads : pc[t] # "count") => total = nodes

\* A thread that sleeps while the pool expands is woken by the end of it.
SleepersWake == \A t \in Threads : pc[t] = "asleep" /\ isExpanding ~> pc[t] # "asleep"
=============================================================================
