---------------------------- MODULE BoundedFifo ----------------------------
(***************************************************************************)
(* What a bounded multi-producer, multi-consumer queue promises: values    *)
(* leave in the order in which they came, and it never holds more than     *)
(* Capacity of them.                                                       *)
(***************************************************************************)
EXTENDS Naturals, Sequences

CONSTANTS Values, Capacity

VARIABLE fifo

Init == fifo = <<>>

Enqueue ==
    /\ Len(fifo) < Capacity
    /\ \E v \in Values : fifo' = Append(fifo, v)

Dequeue ==
    /\ fifo # <<>>
    /\ fifo' = Tail(fifo)

Next == Enqueue \/ Dequeue

Spec == Init /\ [][Next]_fifo
=============================================================================
