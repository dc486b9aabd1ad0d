------------------------- MODULE RefCountReclaimer -------------------------
(***************************************************************************)
(* ref_count_memory_reclaimer: threads check out before they touch a       *)
(* shared structure, give the nodes they have unlinked to add(), and the   *)
(* thread that finds itself alone in remove_checkout exchanges the queue   *)
(* for an empty one and runs what the old one holds.  m_queue is a pointer *)
(* with a stamp, which counts the checkouts.                               *)
(*                                                                         *)
(* The loops that only repeat an exchange until it succeeds are one step;  *)
(* the exchange that gives up when it fails is a step after its load.      *)
(* The structure itself is the caller's: nodes that are linked or not.     *)
(***************************************************************************)
EXTENDS Integers, FiniteSets

CONSTANTS
    Threads,
    Nodes,
    Queues,        \* addresses of queues
    Nothing,       \* no queue, no node
    MaxCheckouts   \* bound: the number of checkouts

\* Finitely many threads and nodes, and an address for the first queue.
ReclaimerAssumption ==
    /\ IsFiniteSet(Threads) /\ IsFiniteSet(Nodes)
    /\ Queues # {} /\ Nothing \notin Nodes

VARIABLES
    current,       \* the pointer of m_queue
    stamp,         \* its stamp
    pending,       \* what each queue holds
    linked,        \* nodes that can be reached in the structure
    freed,
    th,            \* the local variables of each thread
    checkouts,
    destroyed

vars == <<current, stamp, pending, linked, freed, th, checkouts, destroyed>>

Out == [pc |-> "out", p |-> Nothing, node |-> Nothing, held |-> {}]

Init ==
    /\ current = CHOOSE q \in Queues : TRUE
    /\ stamp = 0
    /\ pending = [q \in Queues |-> {}]
    /\ linked = Nodes /\ freed = {}
    /\ th = [t \in Threads |-> Out]
    /\ checkouts = 0 /\ destroyed = FALSE

Local(t, r) == th' = [th EXCEPT ![t] = r]

-----------------------------------------------------------------------------
(* add_checkout, and what a thread does while it is checked out. *)

\* Faulty: the stamp is too narrow for the checkouts.
CountUpFaulty == (stamp + 1) % 2

CountUp == stamp + 1

AddCheckout(t) ==
    /\ th[t].pc = "out" /\ ~destroyed /\ checkouts < MaxCheckouts
    /\ checkouts' = checkouts + 1
    /\ stamp' = CountUp
    /\ Local(t, [Out EXCEPT !.pc = "in"])
    /\ UNCHANGED <<current, pending, linked, freed, destroyed>>

Find(t) ==
    /\ th[t].pc = "in"
    /\ \E n \in linked \ th[t].held : Local(t, [th[t] EXCEPT !.held = @ \cup {n}])
    /\ UNCHANGED <<current, stamp, pending, linked, freed, checkouts, destroyed>>

\* The thread unlinks a node and calls add(), which checks out once more.
UnlinkAndAdd(t) ==
    /\ th[t].pc = "in"
    /\ \E n \in linked :
          /\ linked' = linked \ {n}
          /\ Local(t, [th[t] EXCEPT !.pc = "enqueue", !.p = current, !.node = n])
    /\ stamp' = CountUp
    /\ UNCHANGED <<current, pending, freed, checkouts, destroyed>>

Enqueue(t) ==
    LET r == th[t]
    IN  /\ r.pc = "enqueue"
        /\ pending' = [pending EXCEPT ![r.p] = @ \cup {r.node}]
        /\ Local(t, [r EXCEPT !.pc = "added", !.p = Nothing, !.node = Nothing])
        /\ UNCHANGED <<current, stamp, linked, freed, checkouts, destroyed>>

\* The end of add() only counts down.
EndAdd(t) ==
    /\ th[t].pc = "added"
    /\ stamp' = stamp - 1
    /\ Local(t, [th[t] EXCEPT !.pc = "in"])
    /\ UNCHANGED <<current, pending, linked, freed, checkouts, destroyed>>

-----------------------------------------------------------------------------
(* remove_checkout *)

\* The load: a thread that reads a stamp above 1 just counts down.
RemoveCheckout(t) ==
    /\ th[t].pc = "in"
    /\ Local(t, IF stamp = 1 THEN [Out EXCEPT !.pc = "exchange", !.p = current]
                             ELSE [Out EXCEPT !.pc = "leave"])
    /\ UNCHANGED <<current, stamp, pending, linked, freed, checkouts, destroyed>>

\* Faulty: only the pointer is compared.
AloneFaulty(p) == p = current

Alone(p) == p = current /\ stamp = 1

InUse == {current} \cup {th[t].p : t \in Threads}

Exchange(t) ==
    LET r == th[t]
    IN  /\ r.pc = "exchange"
        /\ IF Alone(r.p)
             THEN /\ current' \in Queues \ InUse
                  /\ Local(t, [r EXCEPT !.pc = "run"])
             ELSE Local(t, [r EXCEPT !.pc = "leave", !.p = Nothing]) /\ UNCHANGED current
        /\ UNCHANGED <<stamp, pending, linked, freed, checkouts, destroyed>>

\* Faulty: one function is run, and the others are dropped with their queue.
DrainedFaulty(q, n) == pending[q]

\* What leaves the queue with a function that is run.
Drained(q, n) == {n}

\* try_dequeue until the old queue is empty; then it is deleted.
Run(t) ==
    LET r == th[t]
    IN  /\ r.pc = "run"
        /\ \/ \E n \in pending[r.p] :
                /\ freed' = freed \cup {n}
                /\ pending' = [pending EXCEPT ![r.p] = @ \ Drained(r.p, n)]
                /\ UNCHANGED th
           \/ /\ pending[r.p] = {}
              /\ Local(t, [Out EXCEPT !.pc = "leave"])
              /\ UNCHANGED <<pending, freed>>
        /\ UNCHANGED <<current, stamp, linked, checkouts, destroyed>>

Leave(t) ==
    /\ th[t].pc = "leave"
    /\ stamp' = stamp - 1
    /\ Local(t, Out)
    /\ UNCHANGED <<current, pending, linked, freed, checkouts, destroyed>>

-----------------------------------------------------------------------------
(* quiesce and the destructor, which callers make when nobody is checked   *)
(* out.                                                                    *)

AllOut == \A t \in Threads : th[t].pc = "out"

Drain ==
    /\ AllOut /\ ~destroyed
    /\ freed' = freed \cup pending[current]
    /\ pending' = [pending EXCEPT ![current] = {}]
    /\ UNCHANGED <<current, stamp, linked, th, checkouts>>

Quiesce == pending[current] # {} /\ Drain /\ UNCHANGED destroyed

Destroy == Drain /\ destroyed' = TRUE

-----------------------------------------------------------------------------
Next ==
    \/ \E t \in Threads :
          \/ AddCheckout(t) \/ Find(t) \/ UnlinkAndAdd(t) \/ Enqueue(t) \/ EndAdd(t)
          \/ RemoveCheckout(t) \/ Exchange(t) \/ Run(t) \/ Leave(t)
    \/ Quiesce \/ Destroy

Spec == Init /\ [][Next]_vars

-----------------------------------------------------------------------------
(* Properties. *)

\* The type of every variable.
TypeOK ==
    /\ current \in Queues /\ stamp \in Nat
    /\ pending \in [Queues -> SUBSET Nodes]
    /\ linked \subseteq Nodes /\ freed \subseteq Nodes
    /\ \A t \in Threads :
          /\ th[t].p \in Queues \cup {Nothing} /\ th[t].node \in Nodes \cup {Nothing}
          /\ th[t].held \subseteq Nodes

\* No node is freed while a thread that found it is still checked out, although
\* threads come and go between the load of the stamp and the exchange.
HeldNotFreed == \A t \in Threads : th[t].held \cap freed = {}

\* A queue is exchanged and run by one thread only, and never while another is
\* about to enqueue to it.
QueueOfOne ==
    \A t \in Threads :
        /\ th[t].pc = "enqueue" => th[t].p = current
        /\ th[t].pc = "run" => /\ th[t].p # current
                               /\ \A u \in Threads \ {t} : th[u].pc = "run" => th[u].p # th[t].p

\* Every node is linked, on its way to a queue, in a queue that will be run, or
\* freed, and in one of these only; after the destructor none is left.
UnlinkedNotLost ==
    LET under == {n \in Nodes : \E t \in Threads : th[t].node = n}
        kept == {q \in Queues : q \in InUse}
        queued == UNION {pending[q] : q \in kept}
    IN  /\ linked \cup under \cup queued \cup freed = Nodes
        /\ Cardinality(linked) + Cardinality(under) + Cardinality(queued) + Cardinality(freed)
             = Cardinality(Nodes)
        /\ destroyed => under \cup queued = {}

\* The assertions of remove_checkout, quiesce and the destructor: the stamp is
\* positive for a thread that leaves and zero when nobody is checked out.
StampAsserted ==
    /\ \A t \in Threads : th[t].pc # "out" => stamp > 0
    /\ AllOut => stamp = 0
=============================================================================
