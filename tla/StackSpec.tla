------------------------------ MODULE StackSpec ------------------------------
(***************************************************************************)
(* What concurrent_vector promises of push_back and pop_back: the elements *)
(* are a stack, and each call takes effect at one moment.                  *)
(***************************************************************************)
EXTENDS Naturals, Sequences

CONSTANT Elements

VARIABLE stack

Init == stack = <<>>

Push == \E e \in Elements : stack' = Append(stack, e)

Pop == stack # <<>> /\ stack' = SubSeq(stack, 1, Len(stack) - 1)

Next == Push \/ Pop

Spec == Init /\ [][Next]_stack
=============================================================================
