--------------------------- MODULE PartitionWork ---------------------------
(***************************************************************************)
(* partition_work: the loop that cuts a range of Total items into at most  *)
(* Num chunks.  The four overloads differ in how a chunk is given to the   *)
(* caller.  The parallel calls of the pools send one task per chunk.       *)
(***************************************************************************)
EXTENDS Integers, Sequences

CONSTANTS
    Totals,      \* the sizes of ranges
    Nums         \* the numbers of chunks asked for, not 0

VARIABLES
    total,
    num,
    i,
    remainder,
    portionEnd,
    chunks,      \* pairs: where a chunk begins and where it ends
    pc

vars == <<total, num, i, remainder, portionEnd, chunks, pc>>

Portion == total \div num

Init ==
    /\ total \in Totals /\ num \in Nums
    /\ i = 0
    /\ remainder = total - num * Portion
    /\ portionEnd = 0
    /\ chunks = <<>>
    /\ pc = "loop"

\* Faulty: the remainder is counted down after it is tested.
ExtraFaulty == IF remainder >= 0 THEN 1 ELSE 0

\* Faulty: the last chunk gets the whole remainder.
ExtraAtEndFaulty == IF i = num - 1 THEN total - num * Portion ELSE 0

\* --remainder >= 0 ? 1 : 0
Extra == IF remainder - 1 >= 0 THEN 1 ELSE 0

\* An empty chunk ends the loop.
Chunk ==
    LET end == portionEnd + Portion + Extra
    IN  /\ pc = "loop" /\ i < num
        /\ remainder' = remainder - 1
        /\ portionEnd' = end
        /\ IF end # portionEnd
             THEN chunks' = Append(chunks, <<portionEnd, end>>) /\ i' = i + 1 /\ UNCHANGED pc
             ELSE pc' = "done" /\ UNCHANGED <<chunks, i>>
        /\ UNCHANGED <<total, num>>

Return ==
    /\ pc = "loop" /\ i = num
    /\ pc' = "done"
    /\ UNCHANGED <<total, num, i, remainder, portionEnd, chunks>>

Next == Chunk \/ Return

Spec == Init /\ [][Next]_vars

-----------------------------------------------------------------------------
(* Properties. *)

\* The type of every variable.
TypeOK ==
    /\ total \in Nat /\ num \in Nat \ {0} /\ i \in 0 .. num
    /\ remainder \in Int /\ portionEnd \in 0 .. total
    /\ chunks \in Seq((0 .. total) \X (0 .. total))
    /\ pc \in {"loop", "done"}

\* When the loop ends the chunks follow one another from the first item to the
\* last: parallel calls handle every item once.
CoversOnce ==
    pc = "done" =>
        /\ portionEnd = total
        /\ \A k \in DOMAIN chunks :
              chunks[k][1] = IF k = 1 THEN 0 ELSE chunks[k - 1][2]
        /\ total # 0 => chunks # <<>> /\ chunks[Len(chunks)][2] = total

\* No chunk is empty and no two differ by more than one item, so the first
\* empty one is a reason to stop.
EvenChunks ==
    \A k, l \in DOMAIN chunks :
        LET size(c) == chunks[c][2] - chunks[c][1]
        IN  size(k) > 0 /\ size(k) - size(l) \in -1 .. 1
=============================================================================
