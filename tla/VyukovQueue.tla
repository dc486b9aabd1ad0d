---------------------------- MODULE VyukovQueue ----------------------------
(***************************************************************************)
(* vyukov_mpmc_bounded_queue: try_push and try_pop of any number of        *)
(* threads, one step for each access to shared memory.                     *)
(*                                                                         *)
(* A position is a count that never wraps (size_t has 64 bits); the number *)
(* of pushes is bounded by the set of values, each of which is pushed at   *)
(* most once.                                                              *)
(***************************************************************************)
EXTENDS Integers, Sequences

CONSTANTS
    Threads,
    Values,
    NoValue,     \* what a cell holds before the first push
    Capacity     \* buffer_size, a power of 2 that is at least 2

\* The constructor asserts a power of 2 that is at least 2; that it is a power of
\* 2 only makes the mask a remainder.
CapacityAssumption == Capacity \in Nat /\ Capacity >= 2

VARIABLES
    sequence,    \* sequence_ of each cell
    data,        \* data_ of each cell
    enqueuePos,  \* enqueue_pos_
    dequeuePos,  \* dequeue_pos_
    pc,          \* where each thread is
    pos,         \* local variable pos of each thread
    val,         \* the value a thread pushes, or has popped
    claimed      \* history: the values in the order of their positions

vars == <<sequence, data, enqueuePos, dequeuePos, pc, pos, val, claimed>>

Cells == 0 .. Capacity - 1

\* &buffer_[pos & buffer_mask_]
Cell(p) == p % Capacity

Pushing == {"push_seq", "push_cas", "push_load", "push_data", "push_publish"}
Popping == {"pop_seq", "pop_cas", "pop_load", "pop_data", "pop_publish"}

Init ==
    /\ sequence = [i \in Cells |-> i]
    /\ data = [i \in Cells |-> NoValue]
    /\ enqueuePos = 0
    /\ dequeuePos = 0
    /\ pc = [t \in Threads |-> "idle"]
    /\ pos = [t \in Threads |-> 0]
    /\ val = [t \in Threads |-> NoValue]
    /\ claimed = <<>>

Goto(t, l) == pc' = [pc EXCEPT ![t] = l]

\* Where the loop goes on after it has read the cell's sequence number: dif is
\* its distance from the one that the operation waits for.
AfterSequence(dif, cas, load) ==
    IF dif = 0 THEN cas ELSE IF dif < 0 THEN "failed" ELSE load

-----------------------------------------------------------------------------
(* try_push *)

\* The value is one that no thread has pushed or is pushing.
Fresh(v) ==
    /\ \A i \in 1 .. Len(claimed) : claimed[i] # v
    /\ \A t \in Threads : pc[t] \in Pushing => val[t] # v

TryPush(t, v) ==
    /\ pc[t] = "idle" /\ Fresh(v)
    /\ pos' = [pos EXCEPT ![t] = enqueuePos]
    /\ val' = [val EXCEPT ![t] = v]
    /\ Goto(t, "push_seq")
    /\ UNCHANGED <<sequence, data, enqueuePos, dequeuePos, claimed>>

\* Faulty: a cell that was not yet popped is taken for a free one.
PushDifFaulty(t) ==
    IF sequence[Cell(pos[t])] > pos[t] THEN 1 ELSE 0

PushDif(t) == sequence[Cell(pos[t])] - pos[t]

PushSequence(t) ==
    /\ pc[t] = "push_seq"
    /\ Goto(t, AfterSequence(PushDif(t), "push_cas", "push_load"))
    /\ UNCHANGED <<sequence, data, enqueuePos, dequeuePos, pos, val, claimed>>

\* The weak exchange fails when another thread was faster, or for no reason;
\* it then loads the position.
PushCas(t) ==
    /\ pc[t] = "push_cas"
    /\ \/ /\ enqueuePos = pos[t]
          /\ enqueuePos' = pos[t] + 1
          /\ claimed' = Append(claimed, val[t])
          /\ Goto(t, "push_data")
          /\ UNCHANGED pos
       \/ /\ pos' = [pos EXCEPT ![t] = enqueuePos]
          /\ Goto(t, "push_seq")
          /\ UNCHANGED <<enqueuePos, claimed>>
    /\ UNCHANGED <<sequence, data, dequeuePos, val>>

PushLoad(t) ==
    /\ pc[t] = "push_load"
    /\ pos' = [pos EXCEPT ![t] = enqueuePos]
    /\ Goto(t, "push_seq")
    /\ UNCHANGED <<sequence, data, enqueuePos, dequeuePos, val, claimed>>

PushData(t) ==
    /\ pc[t] = "push_data"
    /\ data' = [data EXCEPT ![Cell(pos[t])] = val[t]]
    /\ Goto(t, "push_publish")
    /\ UNCHANGED <<sequence, enqueuePos, dequeuePos, pos, val, claimed>>

PushPublish(t) ==
    /\ pc[t] = "push_publish"
    /\ sequence' = [sequence EXCEPT ![Cell(pos[t])] = pos[t] + 1]
    /\ Goto(t, "idle")
    /\ UNCHANGED <<data, enqueuePos, dequeuePos, pos, val, claimed>>

-----------------------------------------------------------------------------
(* try_pop *)

TryPop(t) ==
    /\ pc[t] = "idle"
    /\ pos' = [pos EXCEPT ![t] = dequeuePos]
    /\ val' = [val EXCEPT ![t] = NoValue]
    /\ Goto(t, "pop_seq")
    /\ UNCHANGED <<sequence, data, enqueuePos, dequeuePos, claimed>>

PopSequence(t) ==
    /\ pc[t] = "pop_seq"
    /\ Goto(t, AfterSequence(sequence[Cell(pos[t])] - (pos[t] + 1), "pop_cas", "pop_load"))
    /\ UNCHANGED <<sequence, data, enqueuePos, dequeuePos, pos, val, claimed>>

PopCas(t) ==
    /\ pc[t] = "pop_cas"
    /\ \/ /\ dequeuePos = pos[t]
          /\ dequeuePos' = pos[t] + 1
          /\ Goto(t, "pop_data")
          /\ UNCHANGED pos
       \/ /\ pos' = [pos EXCEPT ![t] = dequeuePos]
          /\ Goto(t, "pop_seq")
          /\ UNCHANGED dequeuePos
    /\ UNCHANGED <<sequence, data, enqueuePos, val, claimed>>

PopLoad(t) ==
    /\ pc[t] = "pop_load"
    /\ pos' = [pos EXCEPT ![t] = dequeuePos]
    /\ Goto(t, "pop_seq")
    /\ UNCHANGED <<sequence, data, enqueuePos, dequeuePos, val, claimed>>

PopData(t) ==
    /\ pc[t] = "pop_data"
    /\ val' = [val EXCEPT ![t] = data[Cell(pos[t])]]
    /\ Goto(t, "pop_publish")
    /\ UNCHANGED <<sequence, data, enqueuePos, dequeuePos, pos, claimed>>

\* Faulty: the cell is released for the position after the popped one.
ReleasedFaulty(p) == p + 1

\* pos + buffer_mask_ + 1: the position that uses the cell next.
Released(p) == p + (Capacity - 1) + 1

PopPublish(t) ==
    /\ pc[t] = "pop_publish"
    /\ sequence' = [sequence EXCEPT ![Cell(pos[t])] = Released(pos[t])]
    /\ Goto(t, "idle")
    /\ UNCHANGED <<data, enqueuePos, dequeuePos, pos, val, claimed>>

\* An operation that found the queue full, or empty, returns false.
ReturnFalse(t) ==
    /\ pc[t] = "failed"
    /\ Goto(t, "idle")
    /\ UNCHANGED <<sequence, data, enqueuePos, dequeuePos, pos, val, claimed>>

-----------------------------------------------------------------------------
Push(t) ==
    \/ \E v \in Values : TryPush(t, v)
    \/ PushSequence(t) \/ PushCas(t) \/ PushLoad(t) \/ PushData(t) \/ PushPublish(t)

Pop(t) ==
    TryPop(t) \/ PopSequence(t) \/ PopCas(t) \/ PopLoad(t) \/ PopData(t) \/ PopPublish(t)

Next == \E t \in Threads : Push(t) \/ Pop(t) \/ ReturnFalse(t)

Spec == Init /\ [][Next]_vars

-----------------------------------------------------------------------------
(* Properties. *)

\* The type of every variable.
TypeOK ==
    /\ sequence \in [Cells -> Nat]
    /\ data \in [Cells -> Values \cup {NoValue}]
    /\ enqueuePos \in Nat /\ dequeuePos \in Nat
    /\ pc \in [Threads -> Pushing \cup Popping \cup {"idle", "failed"}]
    /\ pos \in [Threads -> Nat]
    /\ val \in [Threads -> Values \cup {NoValue}]
    /\ claimed \in Seq(Values)

\* No two threads use the data_ of a cell at the same time: a claim of a
\* position gives the cell to one thread until it publishes it.
CellOwnedByOne ==
    \A t, u \in Threads :
       /\ t # u
       /\ pc[t] \in {"push_data", "push_publish", "pop_data", "pop_publish"}
       /\ pc[u] \in {"push_data", "push_publish", "pop_data", "pop_publish"}
       => Cell(pos[t]) # Cell(pos[u])

\* A pop gets the value that was pushed at the position it claimed.
PopsWhatWasPushed ==
    \A t \in Threads : pc[t] = "pop_publish" => val[t] = claimed[pos[t] + 1]

\* try_push returns false only if Capacity values are in the queue or a pop
\* has not yet released its cell, try_pop only if no value is there or a push
\* has not yet published its own.
FailsOnlyWhenBlocked ==
    [][\A t \in Threads : pc[t] # "failed" /\ pc'[t] = "failed" =>
         IF pc[t] = "push_seq"
           THEN \/ enqueuePos - dequeuePos = Capacity
                \/ \E u \in Threads : pc[u] \in {"pop_data", "pop_publish"}
           ELSE \/ enqueuePos = dequeuePos
                \/ \E u \in Threads : pc[u] \in {"push_data", "push_publish"}]_vars

\* The queue implements a bounded FIFO queue whose operations take effect when
\* they claim their position.
Fifo == INSTANCE BoundedFifo WITH fifo <- SubSeq(claimed, dequeuePos + 1, enqueuePos)

ImplementsFifo == Fifo!Spec
=============================================================================
