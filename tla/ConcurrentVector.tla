-------------------------- MODULE ConcurrentVector --------------------------
(***************************************************************************)
(* concurrent_vector: push_back (emplace_back), pop_back and quiesce.  The *)
(* vector is swung from one descriptor to the next; the descriptor of a    *)
(* push says which slot must still be written, and every thread that finds *)
(* such a descriptor helps to write it (complete_write).                   *)
(*                                                                         *)
(* Descriptors are numbered in the order in which m_descriptor held them:  *)
(* they are freed only while no call is under way, so no two that a thread *)
(* compares have the same address.  A node is the address of an element.   *)
(* Reuse says whether the allocator hands out freed addresses again.       *)
(***************************************************************************)
EXTENDS Integers, Sequences, FiniteSets

CONSTANTS
    Threads,
    Nodes,         \* addresses of nodes
    Nil,           \* what a slot holds before it is written
    FirstBucket,   \* first_bucket_size
    Reuse,         \* whether addresses are used again
    MaxCalls       \* bound: the number of calls

VectorAssumption == FirstBucket \in Nat \ {0} /\ Nil \notin Nodes

VARIABLES
    desc,          \* every descriptor so far; the last is m_descriptor
    slot,          \* the slots of all buckets
    buckets,       \* how many buckets there are: the stamp of m_array
    th,            \* the local variables of each thread
    fresh,         \* addresses that the allocator may hand out
    retired,       \* nodes that are registered for deletion
    calls

vars == <<desc, slot, buckets, th, fresh, retired, calls>>

Idle == [pc |-> "idle", op |-> "none", cur |-> 0, node |-> Nil, old |-> Nil, saw |-> 0]

Read(s) == [size |-> s, old |-> Nil, new |-> Nil, loc |-> 0, state |-> "read"]
Write(s, old, new) == [size |-> s + 1, old |-> old, new |-> new, loc |-> s, state |-> "write_pending"]

\* Buckets double in size.
Slots(k) == FirstBucket * (2^k - 1)

\* The constructor allocates the first bucket.
Init ==
    /\ desc = <<Read(0)>>
    /\ buckets = 1
    /\ slot = [i \in 0 .. Slots(1) - 1 |-> Nil]
    /\ th = [t \in Threads |-> Idle]
    /\ fresh = Nodes /\ retired = {}
    /\ calls = 0

Local(t, r) == th' = [th EXCEPT ![t] = r]

Current == Len(desc)

-----------------------------------------------------------------------------
(* Calls. *)

Begin(t, op, n) ==
    /\ th[t].pc = "idle" /\ calls < MaxCalls
    /\ calls' = calls + 1
    /\ Local(t, [Idle EXCEPT !.pc = "help", !.op = op, !.node = n, !.cur = Current])
    /\ UNCHANGED <<desc, slot, buckets, retired>>

PushBack(t) ==
    \E n \in fresh : Begin(t, "push", n) /\ fresh' = fresh \ {n}

PopBack(t) == Begin(t, "pop", Nil) /\ UNCHANGED fresh

-----------------------------------------------------------------------------
(* complete_write of the descriptor that the thread has read, or of its    *)
(* own once it is published.                                               *)

Helped(r) == IF r.op = "finish" THEN Idle ELSE [r EXCEPT !.pc = "prepare"]

ReadState(t) ==
    LET r == th[t]
    IN  /\ r.pc = "help"
        /\ Local(t, IF desc[r.cur].state = "write_pending" THEN [r EXCEPT !.pc = "write"] ELSE Helped(r))
        /\ UNCHANGED <<desc, slot, buckets, fresh, retired, calls>>

\* Faulty: the slot is stored to without a look at what it holds.
MayWriteFaulty(d) == TRUE

MayWrite(d) == slot[d.loc] = d.old

WriteSlot(t) ==
    LET r == th[t]
        d == desc[r.cur]
    IN  /\ r.pc = "write"
        /\ IF MayWrite(d)
             THEN slot' = [slot EXCEPT ![d.loc] = d.new] /\ Local(t, [r EXCEPT !.pc = "set_state"])
             ELSE Local(t, Helped(r)) /\ UNCHANGED slot
        /\ UNCHANGED <<desc, buckets, fresh, retired, calls>>

SetState(t) ==
    LET r == th[t]
    IN  /\ r.pc = "set_state"
        /\ desc' = [desc EXCEPT ![r.cur].state = "write_complete"]
        /\ Local(t, Helped(r))
        /\ UNCHANGED <<slot, buckets, fresh, retired, calls>>

-----------------------------------------------------------------------------
(* The loop of emplace_back and of pop_back. *)

\* A push looks whether the bucket of its slot is there; a pop from an empty
\* vector returns.
Prepare(t) ==
    LET r == th[t]
        s == desc[r.cur].size
    IN  /\ r.pc = "prepare"
        /\ Local(t, IF r.op = "pop" THEN IF s = 0 THEN Idle ELSE [r EXCEPT !.pc = "read"]
                    ELSE [r EXCEPT !.pc = IF s < Slots(buckets) THEN "read" ELSE "grow",
                                   !.saw = buckets])
        /\ UNCHANGED <<desc, slot, buckets, fresh, retired, calls>>

\* allocate_bucket; a bucket that another thread has added meanwhile is used.
AllocateBucket(t) ==
    LET r == th[t]
    IN  /\ r.pc = "grow"
        /\ IF buckets = r.saw
             THEN /\ buckets' = buckets + 1
                  /\ slot' = [i \in 0 .. Slots(buckets + 1) - 1 |->
                                IF i \in DOMAIN slot THEN slot[i] ELSE Nil]
             ELSE UNCHANGED <<buckets, slot>>
        /\ Local(t, [r EXCEPT !.pc = "read", !.saw = 0])
        /\ UNCHANGED <<desc, fresh, retired, calls>>

SlotOf(op, s) == IF op = "push" THEN s ELSE s - 1

\* A push remembers what its slot holds, a pop the node that it takes.
ReadSlot(t) ==
    LET r == th[t]
        n == slot[SlotOf(r.op, desc[r.cur].size)]
    IN  /\ r.pc = "read"
        /\ Local(t, IF r.op = "push" THEN [r EXCEPT !.pc = "publish", !.old = n, !.saw = 0]
                                     ELSE [r EXCEPT !.pc = "publish", !.node = n])
        /\ UNCHANGED <<desc, slot, buckets, fresh, retired, calls>>

\* Faulty: the exchange ignores that another descriptor was published.
MayPublishFaulty(r) == TRUE

MayPublish(r) == r.cur = Current

\* Faulty: a push leaves its slot to the next call.
PushedFaulty == Idle

\* A push that has published its descriptor completes it.
Pushed == [Idle EXCEPT !.pc = "help", !.op = "finish", !.cur = Current + 1]

\* The exchange of m_descriptor, which may also fail for no reason; the new
\* descriptor of a pop needs nothing more, that of a push its slot written.
Publish(t) ==
    LET r == th[t]
        s == desc[r.cur].size
    IN  /\ r.pc = "publish"
        /\ \/ /\ MayPublish(r)
              /\ IF r.op = "push"
                   THEN /\ desc' = Append(desc, Write(s, r.old, r.node))
                        /\ Local(t, Pushed)
                        /\ UNCHANGED retired
                   ELSE /\ desc' = Append(desc, Read(s - 1))
                        /\ retired' = retired \cup {r.node}
                        /\ Local(t, Idle)
           \/ /\ Local(t, [r EXCEPT !.pc = "help", !.cur = Current, !.old = Nil,
                                    !.node = IF r.op = "push" THEN @ ELSE Nil])
              /\ UNCHANGED <<desc, retired>>
        /\ UNCHANGED <<slot, buckets, fresh, calls>>

\* quiesce frees what was registered, while no call is under way.
Quiesce ==
    /\ \A t \in Threads : th[t].pc = "idle"
    /\ retired # {}
    /\ retired' = {}
    /\ fresh' = IF Reuse THEN fresh \cup retired ELSE fresh
    /\ UNCHANGED <<desc, slot, buckets, th, calls>>

-----------------------------------------------------------------------------
Help(t) == ReadState(t) \/ WriteSlot(t) \/ SetState(t)

Loop(t) == Prepare(t) \/ AllocateBucket(t) \/ ReadSlot(t) \/ Publish(t)

Next ==
    \/ \E t \in Threads : PushBack(t) \/ PopBack(t) \/ Help(t) \/ Loop(t)
    \/ Quiesce

Spec == Init /\ [][Next]_vars

-----------------------------------------------------------------------------
(* Properties. *)

\* The type of every variable.
TypeOK ==
    /\ \A i \in 1 .. Len(desc) : /\ desc[i].size \in Nat
                                 /\ {desc[i].old, desc[i].new} \subseteq Nodes \cup {Nil}
    /\ buckets \in Nat
    /\ slot \in [0 .. Slots(buckets) - 1 -> Nodes \cup {Nil}]
    /\ \A t \in Threads : th[t].cur \in 0 .. Len(desc) /\ th[t].node \in Nodes \cup {Nil}
    /\ fresh \cup retired \subseteq Nodes

\* The elements: the last one may still be in the descriptor.
Contents ==
    LET d == desc[Current]
    IN  [i \in 1 .. d.size |-> IF d.new # Nil /\ i = d.loc + 1 THEN d.new ELSE slot[i - 1]]

\* The vector implements a stack whose operations take effect when they
\* publish their descriptor: no element is lost, doubled or exchanged by
\* threads that help with descriptors of long ago.
Stack == INSTANCE StackSpec WITH Elements <- Nodes, stack <- Contents

ImplementsStack == Stack!Spec

\* pop_back takes the last element, also when that is not yet in its slot.
PopsLast ==
    [][\A n \in retired' \ retired : n = Contents[Len(Contents)]]_vars

\* No element of the vector is registered for deletion or freed, and none is
\* there twice.
ElementsLive ==
    \A i \in DOMAIN Contents :
        /\ Contents[i] \in Nodes \ (retired \cup fresh)
        /\ \A k \in DOMAIN Contents : Contents[k] = Contents[i] => k = i

\* size() subtracts a push whose slot is not written; with no call under way
\* it is the number of elements, as the concurrency test expects.
VectorSizeAtRest ==
    (\A t \in Threads : th[t].pc = "idle") =>
       desc[Current].size - (IF desc[Current].state = "write_pending" THEN 1 ELSE 0) = Len(Contents)
=============================================================================
