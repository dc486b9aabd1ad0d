------------------------------ MODULE SkipList ------------------------------
(***************************************************************************)
(* lock_free_concurrent_skip_list: insert, erase, find and contains of any *)
(* number of threads, one step for each access to a link, and quiesce,     *)
(* which the program calls while no other operation is under way.          *)
(*                                                                         *)
(* A link is a pointer with a mark (atomic_markable_ptr); a node whose     *)
(* link is marked is removed at that level.  Loops that only retry an      *)
(* exchange until it sets the mark are one step.                           *)
(***************************************************************************)
EXTENDS Integers, FiniteSets

CONSTANTS
    Threads,
    MaxKey,      \* the keys are 1 .. MaxKey
    MaxLevel,    \* max_level
    MaxCalls,    \* bound: the number of operations
    MaxInserts   \* bound: the number of insertions among them

VARIABLES
    node,        \* the nodes that were created: key, topLevel, num_links, flag, links
    size,        \* m_size
    th,          \* the local variables of each thread
    retired,     \* nodes given to the reclaimer
    deleted,     \* nodes whose memory is freed
    calls,       \* how many operations were called
    present,     \* history: the keys in the set, by the steps that take effect
    seen         \* history: whether the key of a call was present, at any time since the call

\* The constants of a list: the keys, the levels and finitely many threads.
ListAssumption == MaxKey \in Nat /\ MaxLevel \in Nat /\ IsFiniteSet(Threads)

vars == <<node, size, th, retired, deleted, calls, present, seen>>

Head == 0
Nil == -1
Keys == 1 .. MaxKey
Levels == 0 .. MaxLevel
Nodes == DOMAIN node

Link(p, m) == [ptr |-> p, mark |-> m]

Idle == [pc |-> "idle", op |-> "none", key |-> 0, top |-> 0, lvl |-> 0, pred |-> Head,
         curr |-> Nil, succ |-> Nil, preds |-> [l \in Levels |-> Head],
         succs |-> [l \in Levels |-> Nil], mine |-> Nil, at |-> 0, says |-> "none"]

\* create_node: num_links counts a link for each level.
NewNode(k, top, succs) ==
    [key |-> k, top |-> top, links |-> top + 1, removed |-> FALSE,
     next |-> [l \in 0 .. top |-> Link(succs[l], FALSE)]]

Init ==
    /\ node = [n \in {Head} |-> NewNode(0, MaxLevel, [l \in Levels |-> Nil])]
    /\ size = 0
    /\ th = [t \in Threads |-> Idle]
    /\ retired = {} /\ deleted = {}
    /\ calls = 0
    /\ present = {}
    /\ seen = [t \in Threads |-> {}]

Next0(n, l) == node[n].next[l]

\* Faulty: a node with the key itself counts as less.
LessFaulty(n, k) == node[n].key <= k

\* Head is less than every key.
Less(n, k) == node[n].key < k

SetLink(n, l, link) == node' = [node EXCEPT ![n].next[l] = link]

Local(t, r) == th' = [th EXCEPT ![t] = r]

\* The operation has what it returns: it says that its key is in the set, that
\* it is not, or that the operation itself has changed the set.
Reply(r, what) ==
    [Idle EXCEPT !.pc = "reply", !.op = r.op, !.key = r.key, !.says = what]

\* compare_exchange_strong on a link succeeds.
Finds(n, l, link) == Next0(n, l) = link

-----------------------------------------------------------------------------
(* Calls. *)

StartFind(r) == [r EXCEPT !.pc = "find", !.lvl = MaxLevel, !.pred = Head]

Call(t, op, k, top) ==
    /\ th[t].pc = "idle" /\ calls < MaxCalls
    /\ calls' = calls + 1
    /\ seen' = [seen EXCEPT ![t] = {b \in BOOLEAN : b <=> k \in present}]
    /\ Local(t, StartFind([Idle EXCEPT !.op = op, !.key = k, !.top = top]))
    /\ UNCHANGED <<node, size, retired, deleted, present>>

\* The level of a new node is random (m_selector).
Insert(t) ==
    /\ Cardinality(Nodes) + Cardinality({u \in Threads : th[u].op = "insert" /\ th[u].mine = Nil})
         <= MaxInserts
    /\ \E k \in Keys, top \in Levels : Call(t, "insert", k, top)

Erase(t) == \E k \in Keys : Call(t, "erase", k, 0)

FindKey(t) == \E k \in Keys : Call(t, "find", k, 0)

Contains(t) == \E k \in Keys : Call(t, "contains", k, 0)

-----------------------------------------------------------------------------
(* find(key, preds, succs) finds the place of a key at every level, and    *)
(* takes nodes that are marked out of the list on the way.  contains makes *)
(* the same walk without them: it passes over marked nodes.                *)

Found(r) == r.curr # Nil /\ node[r.curr].key = r.key

\* Faulty: the search does not stop at the bottom.
LastFaulty(l) == l < 0

Last(l) == l = 0

\* The search goes down a level, or ends.
Down(r) ==
    LET s == [r EXCEPT !.preds[r.lvl] = r.pred, !.succs[r.lvl] = r.curr]
    IN  IF ~Last(r.lvl) THEN [s EXCEPT !.pc = "find", !.lvl = r.lvl - 1]
        ELSE IF r.op = "contains" THEN Reply(r, IF Found(r) THEN "in" ELSE "out")
        ELSE [s EXCEPT !.pc = "found", !.pred = Head]

\* curr becomes n.
At(r, n) == IF n = Nil THEN Down([r EXCEPT !.curr = Nil]) ELSE [r EXCEPT !.pc = "succ", !.curr = n]

FindCurr(t) ==
    /\ th[t].pc = "find"
    /\ Local(t, At(th[t], Next0(th[t].pred, th[t].lvl).ptr))
    /\ UNCHANGED <<node, size, retired, deleted, calls, present, seen>>

\* Faulty: contains takes a marked node for one that is in the set.
OnMarkedFaulty(r, succ) ==
    IF r.op = "contains" THEN Down(r) ELSE [r EXCEPT !.pc = "snip", !.succ = succ]

OnMarked(r, succ) ==
    IF r.op = "contains" THEN At(r, succ) ELSE [r EXCEPT !.pc = "snip", !.succ = succ]

FindSucc(t) ==
    LET r == th[t]
        link == Next0(r.curr, r.lvl)
    IN  /\ r.pc = "succ"
        /\ Local(t, IF link.mark THEN OnMarked(r, link.ptr)
                    ELSE IF Less(r.curr, r.key) THEN At([r EXCEPT !.pred = r.curr], link.ptr)
                    ELSE Down(r))
        /\ UNCHANGED <<node, size, retired, deleted, calls, present, seen>>

\* A marked node is taken out of its level; the thread that takes out the last
\* of its links retires it.  The loop then reads the node again, finds it
\* marked as before and tries again; when the exchange fails the search starts
\* anew.
Snip(t) ==
    LET r == th[t]
    IN  /\ r.pc = "snip"
        /\ IF Finds(r.pred, r.lvl, Link(r.curr, FALSE))
             THEN /\ node' = [node EXCEPT ![r.pred].next[r.lvl] = Link(r.succ, FALSE),
                                          ![r.curr].links = @ - 1]
                  /\ retired' = IF node[r.curr].links = 1 THEN retired \cup {r.curr} ELSE retired
                  /\ UNCHANGED th
             ELSE /\ Local(t, StartFind(r))
                  /\ UNCHANGED <<node, retired>>
        /\ UNCHANGED <<size, deleted, calls, present, seen>>

-----------------------------------------------------------------------------
(* add_or_update *)

\* The calls that see the key of a call that takes effect.
Observe(k, b) ==
    seen' = [t \in Threads |-> IF th[t].pc # "idle" /\ th[t].key = k
                                 THEN seen[t] \cup {b} ELSE seen[t]]

\* The key is there: insert returns false.
InsertFound(t) ==
    LET r == th[t]
    IN  /\ r.pc = "found" /\ r.op = "insert" /\ r.mine = Nil /\ Found(r)
        /\ Local(t, Reply(r, "in"))
        /\ UNCHANGED <<node, size, retired, deleted, calls, present, seen>>

\* Faulty: the exchange does not compare the mark of the predecessor's link.
MayLinkFaulty(r, l) == Next0(r.preds[l], l).ptr = r.succs[l]

MayLink(r, l) == Finds(r.preds[l], l, Link(r.succs[l], FALSE))

\* The node is created with the links that find has found and linked at the
\* bottom; a node that cannot be linked is deleted and the search repeated.
InsertBottom(t) ==
    LET r == th[t]
        n == Cardinality(Nodes)
    IN  /\ r.pc = "found" /\ r.op = "insert" /\ r.mine = Nil /\ ~Found(r)
        /\ IF MayLink(r, 0)
             THEN /\ node' = [m \in Nodes \cup {n} |->
                                IF m = n THEN NewNode(r.key, r.top, r.succs)
                                ELSE IF m = r.preds[0]
                                  THEN [node[m] EXCEPT !.next[0] = Link(n, FALSE)]
                                ELSE node[m]]
                  /\ Local(t, [r EXCEPT !.mine = n, !.at = 1])
                  /\ present' = present \cup {r.key}
                  /\ Observe(r.key, TRUE)
             ELSE /\ Local(t, StartFind(r))
                  /\ UNCHANGED <<node, present, seen>>
        /\ UNCHANGED <<size, retired, deleted, calls>>

\* At an upper level the search is repeated until the link is set; the link of
\* the new node itself stays as it was when the node was created.
InsertLevel(t) ==
    LET r == th[t]
    IN  /\ r.pc = "found" /\ r.op = "insert" /\ r.mine # Nil /\ r.at <= r.top
        /\ IF MayLink(r, r.at)
             THEN /\ SetLink(r.preds[r.at], r.at, Link(r.mine, FALSE))
                  /\ Local(t, [r EXCEPT !.at = r.at + 1])
             ELSE /\ Local(t, StartFind(r))
                  /\ UNCHANGED node
        /\ UNCHANGED <<size, retired, deleted, calls, present, seen>>

\* increment_size
InsertCount(t) ==
    LET r == th[t]
    IN  /\ r.pc = "found" /\ r.op = "insert" /\ r.mine # Nil /\ r.at > r.top
        /\ size' = size + 1
        /\ Local(t, Reply(r, "changed"))
        /\ UNCHANGED <<node, retired, deleted, calls, present, seen>>

-----------------------------------------------------------------------------
(* erase *)

EraseFound(t) ==
    LET r == th[t]
    IN  /\ r.pc = "found" /\ r.op = "erase" /\ r.mine = Nil
        /\ Local(t, IF Found(r) THEN [r EXCEPT !.pc = "mark", !.mine = r.curr,
                                              !.at = node[r.curr].top]
                               ELSE Reply(r, "out"))
        /\ UNCHANGED <<node, size, retired, deleted, calls, present, seen>>

\* The links are marked from the top down to level 1, whoever else marks them.
EraseMark(t) ==
    LET r == th[t]
    IN  /\ r.pc = "mark" /\ r.at > 0
        /\ node' = [node EXCEPT ![r.mine].next[r.at].mark = TRUE]
        /\ Local(t, [r EXCEPT !.at = r.at - 1])
        /\ UNCHANGED <<size, retired, deleted, calls, present, seen>>

\* Faulty: marking a link that is marked already counts as a removal.
MayMarkFaulty(n) == n # Nil

\* The exchange that marks the bottom link expects it unmarked.
MayMark(n) == ~Next0(n, 0).mark

\* The thread that marks the bottom link has removed the node.
EraseBottom(t) ==
    LET r == th[t]
    IN  /\ r.pc = "mark" /\ r.at = 0
        /\ IF MayMark(r.mine)
             THEN /\ node' = [node EXCEPT ![r.mine].next[0].mark = TRUE]
                  /\ Local(t, [r EXCEPT !.pc = "flag"])
                  /\ present' = present \ {r.key}
                  /\ Observe(r.key, FALSE)
             ELSE /\ Local(t, Reply(r, "out"))
                  /\ UNCHANGED <<node, present, seen>>
        /\ UNCHANGED <<size, retired, deleted, calls>>

\* set_marked_for_removal; then find takes the node out of the list.
EraseFlag(t) ==
    LET r == th[t]
    IN  /\ r.pc = "flag"
        /\ node' = [node EXCEPT ![r.mine].removed = TRUE]
        /\ Local(t, StartFind(r))
        /\ UNCHANGED <<size, retired, deleted, calls, present, seen>>

\* decrement_size
EraseCount(t) ==
    LET r == th[t]
    IN  /\ r.pc = "found" /\ r.op = "erase" /\ r.mine # Nil
        /\ size' = size - 1
        /\ Local(t, Reply(r, "changed"))
        /\ UNCHANGED <<node, retired, deleted, calls, present, seen>>

-----------------------------------------------------------------------------
(* The public find, the return of an operation, and quiesce. *)

FindReturn(t) ==
    LET r == th[t]
    IN  /\ r.pc = "found" /\ r.op = "find"
        /\ Local(t, Reply(r, IF Found(r) /\ ~node[r.curr].removed THEN "in" ELSE "out"))
        /\ UNCHANGED <<node, size, retired, deleted, calls, present, seen>>

Return(t) ==
    /\ th[t].pc = "reply"
    /\ Local(t, Idle)
    /\ seen' = [seen EXCEPT ![t] = {}]
    /\ UNCHANGED <<node, size, retired, deleted, calls, present>>

\* The first node from n on that is not marked at level l.
Unmarked(n, l) ==
    LET skip[m \in Nodes \cup {Nil}] ==
          IF m = Nil THEN Nil
          ELSE IF l <= node[m].top /\ Next0(m, l).mark THEN skip[Next0(m, l).ptr] ELSE m
    IN  skip[n]

\* The nodes that a walk along the links of level l visits, from head.
OnLevel(l) ==
    LET walk[n \in Nodes \cup {Nil}] ==
          IF n = Nil THEN {} ELSE {n} \cup walk[Next0(n, l).ptr]
    IN  walk[Head]

\* The nodes of the bottom level that are not marked.
Live == {n \in OnLevel(0) : ~Next0(n, 0).mark}

\* Faulty: nothing is taken out.
ScanUnlinkFaulty(n) == node[n]

\* scan_unlink takes the marked nodes out of every level of the nodes that stay.
ScanUnlink(n) ==
    IF n \in Live
      THEN [node[n] EXCEPT !.next = [l \in DOMAIN @ |-> Link(Unmarked(@[l].ptr, l), FALSE)]]
      ELSE node[n]

\* quiesce, which must not run beside another operation, takes out what is
\* marked and frees what was retired.
Quiesce ==
    /\ \A t \in Threads : th[t].pc = "idle"
    /\ retired # {}
    /\ node' = [n \in Nodes |-> ScanUnlink(n)]
    /\ deleted' = deleted \cup retired
    /\ retired' = {}
    /\ UNCHANGED <<size, th, calls, present, seen>>

-----------------------------------------------------------------------------
Search(t) == FindCurr(t) \/ FindSucc(t) \/ Snip(t)

Inserting(t) == InsertFound(t) \/ InsertBottom(t) \/ InsertLevel(t) \/ InsertCount(t)

Erasing(t) ==
    EraseFound(t) \/ EraseMark(t) \/ EraseBottom(t) \/ EraseFlag(t) \/ EraseCount(t)

Next ==
    \/ \E t \in Threads :
         \/ Insert(t) \/ Erase(t) \/ FindKey(t) \/ Contains(t)
         \/ Search(t) \/ Inserting(t) \/ Erasing(t) \/ FindReturn(t) \/ Return(t)
    \/ Quiesce

Spec == Init /\ [][Next]_vars

-----------------------------------------------------------------------------
(* Properties. *)

\* The type of the shared variables.
TypeOK ==
    /\ \A n \in Nodes :
         /\ node[n].top \in Levels
         /\ DOMAIN node[n].next = 0 .. node[n].top
         /\ \A l \in 0 .. node[n].top : node[n].next[l] \in [ptr : Nodes \cup {Nil}, mark : BOOLEAN]
    /\ size \in Int /\ present \subseteq Keys
    /\ retired \subseteq Nodes /\ deleted \subseteq Nodes
    /\ \A t \in Threads : /\ {th[t].pred, th[t].curr, th[t].mine} \subseteq Nodes \cup {Nil}
                          /\ th[t].lvl \in Levels

\* The set is what a walk along the bottom links finds unmarked: no insertion
\* or removal is lost, and none happens twice.
AbstractSet ==
    /\ present = {node[n].key : n \in Live \ {Head}}
    /\ \A m, n \in Live : node[m].key = node[n].key => m = n

\* Every link leads to a greater key, or to a removed node with the same key:
\* whatever was linked meanwhile, a search never goes back or round in a circle.
LevelsSorted ==
    \A n \in Nodes : \A l \in 0 .. node[n].top :
       LET m == Next0(n, l).ptr
       IN  \/ m = Nil
           \/ node[n].key < node[m].key
           \/ node[n].key = node[m].key /\ Next0(m, l).mark

\* What an operation says of its key was true at some time while it ran.
AnswersLinearize ==
    \A t \in Threads : th[t].pc = "reply" =>
       /\ th[t].says = "in" => TRUE \in seen[t]
       /\ th[t].says = "out" => FALSE \in seen[t]

\* When no operation is under way, size() is the number of keys.
SizeAtRest == (\A t \in Threads : th[t].pc = "idle") => size = Cardinality(present)

\* No freed node can be reached, at any level, from a node that is in the set.
ReclaimSafe ==
    \A n \in Live : \A l \in 0 .. node[n].top : Next0(n, l).ptr \notin deleted
=============================================================================
