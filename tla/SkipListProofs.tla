--------------------------- MODULE SkipListProofs ---------------------------
(***************************************************************************)
(* Proofs about SkipList, for every number of threads, of keys and of      *)
(* levels, and whatever the bounds on the operations are.                  *)
(*                                                                         *)
(* A search may stand on a node that was removed, or that insert has       *)
(* linked again at a level from which it was taken out.  Three things make *)
(* it right all the same: the link of a node does not change any more once *)
(* it is marked; the bottom links lead on from wherever a search stands to *)
(* the node of its key, unless the key was absent at some time since the   *)
(* call; and no link or local variable leads from the nodes that are kept  *)
(* to one that is freed.                                                   *)
(***************************************************************************)
EXTENDS SkipList, FiniteSetTheorems, WellFoundedInduction, TLAPS

-----------------------------------------------------------------------------
(* The inductive invariant.                                                *)

\* What a node holds.
Key(n) == node[n].key
Top(n) == node[n].top
Ptr(n, l) == node[n].next[l].ptr
Mark(n, l) == node[n].next[l].mark

\* A node of the set: its bottom link is not marked.
Unremoved(n) == ~Mark(n, 0)

NodeRec(top) ==
    [key : 0 .. MaxKey, top : {top}, links : Int, removed : BOOLEAN,
     next : [0 .. top -> [ptr : Int, mark : BOOLEAN]]]

ListLocals ==
    [pc : {"idle", "find", "succ", "snip", "found", "mark", "flag", "reply"},
     op : {"none", "insert", "erase", "find", "contains"}, key : 0 .. MaxKey, top : Levels,
     lvl : Levels, pred : Int, curr : Int, succ : Int, preds : [Levels -> Int],
     succs : [Levels -> Int], mine : Int, at : Int, says : {"none", "in", "out", "changed"}]

ListTypes ==
    /\ ListAssumption
    /\ \E n \in Nat : Nodes = 0 .. n
    /\ node = [n \in Nodes |-> node[n]]
    /\ \A n \in Nodes : Top(n) \in Levels /\ node[n] \in NodeRec(Top(n))
    /\ size \in Int
    /\ th \in [Threads -> ListLocals]
    /\ retired \subseteq Nodes /\ deleted \subseteq Nodes
    /\ present \subseteq Keys
    /\ seen \in [Threads -> SUBSET BOOLEAN]

\* A link of level l may lead from n to m: to a greater key, or to an older
\* node with the same key that is removed there.
Before(n, m, l) ==
    \/ Key(n) < Key(m)
    \/ Key(n) = Key(m) /\ m < n /\ l > 0 /\ Mark(m, l)

OnList(m, l) == m \in Nodes /\ l <= Top(m)

LinkInv ==
    /\ Key(Head) = 0 /\ Top(Head) = MaxLevel
    /\ \A n \in Nodes : n # Head => Key(n) # 0
    /\ \A l \in Levels : ~Mark(Head, l)
    /\ \A n \in Nodes : \A l \in 0 .. Top(n) :
          Ptr(n, l) # Nil => OnList(Ptr(n, l), l) /\ Before(n, Ptr(n, l), l)
    \* the bottom link is marked last
    /\ \A n \in Nodes : Mark(n, 0) => \A l \in 0 .. Top(n) : Mark(n, l)
    /\ \A n \in Nodes : node[n].removed => Mark(n, 0)

\* R are the nodes on the bottom level: a chain sorted by keys in which every
\* node is that is not removed.
Chain(R) ==
    /\ R \subseteq Nodes /\ Head \in R
    /\ \A n \in Nodes : Unremoved(n) => n \in R
    /\ \A n \in R : Ptr(n, 0) # Nil => Ptr(n, 0) \in R
    /\ \A m, n \in R : Key(m) = Key(n) => m = n
    /\ \A m, n \in R : Key(m) < Key(n) => Ptr(m, 0) # Nil /\ Key(Ptr(m, 0)) <= Key(n)

ChainInv == \E R \in SUBSET Nodes : Chain(R)

Holds(k) == \E n \in Nodes : Unremoved(n) /\ Key(n) = k

PresentInv == \A k \in Keys : k \in present <=> Holds(k)

\* Along the bottom links n leads to the node of the set with key k.
Leading(S, k) ==
    /\ S \subseteq Nodes
    /\ \A n \in S : /\ Key(n) < k /\ Ptr(n, 0) \in Nodes
                    /\ Ptr(n, 0) \in S \/ (Key(Ptr(n, 0)) = k /\ Unremoved(Ptr(n, 0)))

Leads(n, k) == \E S \in SUBSET Nodes : n \in S /\ Leading(S, k)

LeadsOrIs(n, k) == n \in Nodes /\ (Leads(n, k) \/ (Key(n) = k /\ Unremoved(n)))

Searching == {"find", "succ", "snip"}

\* The nodes to which a thread has pointers.
Points(r) ==
    {r.pred, r.curr, r.succ, r.mine} \cup {r.preds[l] : l \in Levels} \cup {r.succs[l] : l \in Levels}

\* What the search of a thread relies on.
SearchInv(r) ==
    /\ r.pc \in Searching \cup {"found", "mark", "flag"} =>
          /\ r.op # "none" /\ r.key # 0
          /\ \A l \in Levels : /\ OnList(r.preds[l], l) /\ Key(r.preds[l]) < r.key
                               /\ r.succs[l] # Nil => OnList(r.succs[l], l) /\ r.key <= Key(r.succs[l])
    /\ r.pc \in Searching => OnList(r.pred, r.lvl) /\ Key(r.pred) < r.key
    /\ r.pc \in {"succ", "snip"} => OnList(r.curr, r.lvl)
    /\ r.pc = "snip" => Mark(r.curr, r.lvl) /\ Ptr(r.curr, r.lvl) = r.succ
    /\ r.pc = "found" => r.op # "contains" /\ r.curr = r.succs[0]
    /\ r.pc \in {"idle", "reply"} => r.mine = Nil /\ Points(r) \subseteq {Head, Nil}

\* The node that an insertion has created, or an erasure has found.
MineInv(r) ==
    /\ r.mine # Nil => /\ r.mine \in Nodes \ {Head} /\ Key(r.mine) = r.key
                       /\ r.op \in {"insert", "erase"}
    /\ r.mine # Nil /\ r.op = "insert" => Top(r.mine) = r.top /\ r.at \in 1 .. r.top + 1
    /\ r.pc \in {"mark", "flag"} => r.op = "erase" /\ r.mine # Nil
    /\ r.pc = "mark" => /\ r.at \in 0 .. Top(r.mine)
                        /\ \A l \in 0 .. Top(r.mine) : l > r.at => Mark(r.mine, l)
    /\ r.pc = "flag" => Mark(r.mine, 0)

\* What a thread may say of its key.
AnswerInv(r, s) ==
    /\ r.pc # "idle" => (r.key \in present => TRUE \in s) /\ (r.key \notin present => FALSE \in s)
    /\ r.pc = "reply" => (r.says = "in" => TRUE \in s) /\ (r.says = "out" => FALSE \in s)
    /\ r.pc = "found" =>
          IF Found(r) THEN TRUE \in s /\ (Mark(r.curr, 0) => FALSE \in s) ELSE FALSE \in s
    /\ r.pc = "mark" => (Mark(r.mine, 0) => FALSE \in s)
    /\ r.pc \in Searching /\ FALSE \notin s => Leads(r.pred, r.key)
    /\ r.pc \in {"succ", "snip"} /\ r.lvl = 0 /\ FALSE \notin s => LeadsOrIs(r.curr, r.key)

ThreadsInv ==
    \A t \in Threads : SearchInv(th[t]) /\ MineInv(th[t]) /\ AnswerInv(th[t], seen[t])

\* The insertions and erasures that m_size does not count yet.
Inserted == {t \in Threads : th[t].op = "insert" /\ th[t].mine # Nil}
Erased == {t \in Threads : th[t].op = "erase" /\ th[t].mine # Nil /\ th[t].pc # "mark"}

SizeInv == size + Cardinality(Inserted) = Cardinality(present) + Cardinality(Erased)

\* A node with a marked link is removed, or a thread is about to remove it.
MarkInv ==
    /\ \A n \in Nodes : \A l \in 0 .. Top(n) :
          Mark(n, l) => Mark(n, 0) \/ \E t \in Threads : th[t].pc = "mark" /\ th[t].mine = n
    /\ \A n \in retired : \E l \in 0 .. Top(n) : Mark(n, l)

\* G are nodes that are not freed: those of the set and all to which their
\* links and the threads lead.
Kept(G) ==
    /\ G \subseteq Nodes \ deleted
    /\ \A n \in Nodes : Unremoved(n) => n \in G
    /\ \A n \in G : \A l \in 0 .. Top(n) : Ptr(n, l) # Nil => Ptr(n, l) \in G
    /\ \A t \in Threads : Points(th[t]) \subseteq G \cup {Nil}

KeptInv == \E G \in SUBSET Nodes : Kept(G)

ListInv ==
    /\ ListTypes /\ LinkInv /\ ChainInv /\ PresentInv /\ ThreadsInv /\ SizeInv /\ MarkInv /\ KeptInv

-----------------------------------------------------------------------------
\* A set of naturals has a least element.
LEMMA LeastNumber ==
    ASSUME NEW T, T \subseteq Nat, T # {}
    PROVE  \E n \in T : \A m \in T : n <= m
<1>1. PICK n \in T : \A m \in T : ~(<<m, n>> \in OpToRel(<, Nat))
  BY WFMin, NatLessThanWellFounded
<1>2. \A m \in T : ~(m < n)
  BY <1>1 DEF OpToRel
<1> QED
  BY <1>2

\* The constants.
LEMMA ListGiven ==
    ASSUME ListTypes
    PROVE  ListAssumption /\ MaxKey \in Nat /\ MaxLevel \in Nat /\ IsFiniteSet(Threads)
  BY DEF ListTypes, ListAssumption

LEMMA InvGiven ==
    ASSUME ListInv
    PROVE  ListAssumption
  BY DEF ListInv, ListTypes

\* The types of what a node holds.
LEMMA NodeTypes ==
    ASSUME ListTypes
    PROVE  /\ Head \in Nodes /\ Nil \notin Nodes /\ \A n \in Nodes : n \in Nat
           /\ \A n \in Nodes : /\ Key(n) \in 0 .. MaxKey /\ Top(n) \in Levels /\ Top(n) \in Nat
                               /\ 0 \in 0 .. Top(n) /\ 0 .. Top(n) \subseteq Levels
                               /\ node[n].links \in Int /\ node[n].removed \in BOOLEAN
                               /\ node[n].next \in [0 .. Top(n) -> [ptr : Int, mark : BOOLEAN]]
           /\ \A n \in Nodes : \A l \in 0 .. Top(n) : Ptr(n, l) \in Int /\ Mark(n, l) \in BOOLEAN
<1>1. Head \in Nodes /\ Nil \notin Nodes /\ \A n \in Nodes : n \in Nat
  BY DEF ListTypes, Head, Nil
<1>2. ASSUME NEW n \in Nodes
      PROVE  /\ Key(n) \in 0 .. MaxKey /\ Top(n) \in Levels /\ Top(n) \in Nat
             /\ 0 \in 0 .. Top(n) /\ 0 .. Top(n) \subseteq Levels
             /\ node[n].links \in Int /\ node[n].removed \in BOOLEAN
             /\ node[n].next \in [0 .. Top(n) -> [ptr : Int, mark : BOOLEAN]]
  <2>1. Top(n) \in Levels /\ node[n] \in NodeRec(Top(n))
    BY DEF ListTypes
  <2>2. Top(n) \in Nat /\ 0 \in 0 .. Top(n) /\ 0 .. Top(n) \subseteq Levels
    BY <2>1, ListGiven DEF Levels
  <2> QED
    BY <2>1, <2>2 DEF NodeRec, Key
<1>3. ASSUME NEW n \in Nodes, NEW l \in 0 .. Top(n) PROVE Ptr(n, l) \in Int /\ Mark(n, l) \in BOOLEAN
  <2>1. node[n].next[l] \in [ptr : Int, mark : BOOLEAN]
    BY <1>2
  <2> QED
    BY <2>1 DEF Ptr, Mark
<1> QED
  BY <1>1, <1>2, <1>3

\* One link of one node is set.
LEMMA LinkSet ==
    ASSUME ListTypes, NEW p \in Nodes, NEW l \in 0 .. Top(p), NEW x \in Int, NEW b \in BOOLEAN,
           node' = [node EXCEPT ![p].next[l] = Link(x, b)]
    PROVE  /\ Nodes' = Nodes /\ node' = [n \in Nodes' |-> node'[n]]
           /\ \A n \in Nodes : /\ Key(n)' = Key(n) /\ Top(n)' = Top(n)
                               /\ node'[n].removed = node[n].removed
                               /\ node'[n] \in NodeRec(Top(n)')
           /\ Ptr(p, l)' = x /\ Mark(p, l)' = b
           /\ \A n \in Nodes : \A j \in 0 .. Top(n) :
                 n # p \/ j # l => Ptr(n, j)' = Ptr(n, j) /\ Mark(n, j)' = Mark(n, j)
<1>1. PICK r : r = node[p] /\ r \in NodeRec(Top(p)) /\ Top(p) = r.top
  BY DEF ListTypes, Top
<1>2. r.next \in [0 .. Top(p) -> [ptr : Int, mark : BOOLEAN]]
  BY <1>1 DEF NodeRec
<1>3. PICK f : f = [r.next EXCEPT ![l] = Link(x, b)]
  OBVIOUS
<1>4. /\ f \in [0 .. Top(p) -> [ptr : Int, mark : BOOLEAN]]
      /\ f[l] = Link(x, b) /\ \A j \in 0 .. Top(p) : j # l => f[j] = r.next[j]
  BY <1>2, <1>3 DEF Link
<1>5. PICK q : q = [r EXCEPT !.next = f]
  OBVIOUS
<1>6. /\ q \in NodeRec(Top(p)) /\ q.next = f /\ q.key = r.key /\ q.top = r.top
      /\ q.removed = r.removed
  BY <1>1, <1>4, <1>5 DEF NodeRec
<1>7. node' = [node EXCEPT ![p] = q]
  BY <1>1, <1>3, <1>5
<1>8. node = [n \in Nodes |-> node[n]]
  BY DEF ListTypes
<1>9. /\ Nodes' = Nodes /\ node' = [n \in Nodes' |-> node'[n]]
      /\ node'[p] = q /\ \A n \in Nodes : n # p => node'[n] = node[n]
  BY <1>7, <1>8 DEF Nodes
<1>10. \A n \in Nodes : /\ Key(n)' = Key(n) /\ Top(n)' = Top(n)
                        /\ node'[n].removed = node[n].removed
  BY <1>1, <1>6, <1>9 DEF Key, Top
<1>11. \A n \in Nodes : node'[n] \in NodeRec(Top(n)')
  BY <1>1, <1>6, <1>9, <1>10 DEF ListTypes
<1>12. Ptr(p, l)' = x /\ Mark(p, l)' = b
  <2>1. node'[p].next[l] = Link(x, b)
    BY <1>4, <1>6, <1>9
  <2>2. Link(x, b).ptr = x /\ Link(x, b).mark = b
    BY DEF Link
  <2>3. Ptr(p, l)' = node'[p].next[l].ptr /\ Mark(p, l)' = node'[p].next[l].mark
    BY DEF Ptr, Mark
  <2> QED
    BY <2>1, <2>2, <2>3
<1>13. \A n \in Nodes : \A j \in 0 .. Top(n) :
          n # p \/ j # l => Ptr(n, j)' = Ptr(n, j) /\ Mark(n, j)' = Mark(n, j)
  BY <1>1, <1>4, <1>6, <1>9 DEF Ptr, Mark
<1> QED
  BY <1>9, <1>10, <1>11, <1>12, <1>13

\* Nodes keep their keys and levels, a marked link stays as it is.
Grows ==
    /\ Nodes \subseteq Nodes'
    /\ \A n \in Nodes : Key(n)' = Key(n) /\ Top(n)' = Top(n)
    /\ \A n \in Nodes : \A l \in 0 .. Top(n) : Mark(n, l) => Mark(n, l)' /\ Ptr(n, l)' = Ptr(n, l)

-----------------------------------------------------------------------------
(* What outlives the steps of other threads.                               *)

\* What is on a level stays there, with its key.
LEMMA OnListStable ==
    ASSUME Grows, NEW m, NEW l, OnList(m, l)
    PROVE  OnList(m, l)' /\ Key(m)' = Key(m) /\ Top(m)' = Top(m)
  BY DEF Grows, OnList

\* The types of the local variables.
LEMMA LocalsTypes ==
    ASSUME ListAssumption, NEW r \in ListLocals
    PROVE  /\ r.key \in 0 .. MaxKey /\ r.lvl \in Levels /\ r.lvl \in Nat /\ r.top \in Levels /\ r.top \in Nat
           /\ r.pred \in Int /\ r.curr \in Int /\ r.succ \in Int /\ r.mine \in Int /\ r.at \in Int
           /\ \A l \in Levels : l \in Nat /\ r.preds[l] \in Int /\ r.succs[l] \in Int
           /\ 0 \in Levels
  BY SMTT(40) DEF ListLocals, Levels, ListAssumption

\* What a search relies on outlives the steps of others.
LEMMA SearchStable ==
    ASSUME ListTypes, Grows, NEW r \in ListLocals, SearchInv(r)
    PROVE  SearchInv(r)'
<1>1. ASSUME NEW l \in Levels, r.pc \in Searching \cup {"found", "mark", "flag"}
      PROVE  /\ OnList(r.preds[l], l)' /\ Key(r.preds[l])' < r.key
             /\ r.succs[l] # Nil => OnList(r.succs[l], l)' /\ r.key <= Key(r.succs[l])'
  BY <1>1, OnListStable DEF SearchInv
<1>2. r.pc \in Searching => OnList(r.pred, r.lvl)' /\ Key(r.pred)' < r.key
  BY OnListStable DEF SearchInv
<1>3. r.pc \in {"succ", "snip"} => OnList(r.curr, r.lvl)'
  BY OnListStable DEF SearchInv
<1>4. r.pc = "snip" => Mark(r.curr, r.lvl)' /\ Ptr(r.curr, r.lvl)' = r.succ
  <2> SUFFICES ASSUME r.pc = "snip" PROVE Mark(r.curr, r.lvl)' /\ Ptr(r.curr, r.lvl)' = r.succ
    OBVIOUS
  <2>1. r.curr \in Nodes /\ r.lvl \in 0 .. Top(r.curr)
    BY LocalsTypes, ListGiven, InvGiven, NodeTypes DEF SearchInv, OnList
  <2> QED
    BY <2>1 DEF SearchInv, Grows
<1> QED
  BY <1>1, <1>2, <1>3, <1>4 DEF SearchInv

\* So does what is known of the node of an operation.
LEMMA MineStable ==
    ASSUME ListTypes, Grows, NEW r \in ListLocals, MineInv(r)
    PROVE  MineInv(r)'
<1>1. r.mine # Nil => r.mine \in Nodes /\ r.mine \in Nodes' /\ Key(r.mine)' = Key(r.mine) /\ Top(r.mine)' = Top(r.mine)
  BY DEF MineInv, Grows
<1>2. r.mine # Nil => \A l \in 0 .. Top(r.mine) : Mark(r.mine, l) => Mark(r.mine, l)'
  BY <1>1 DEF Grows
<1>3. r.mine # Nil => 0 \in 0 .. Top(r.mine)
  BY <1>1, NodeTypes
<1>4. r.mine # Nil => /\ r.mine \in Nodes' \ {Head} /\ Key(r.mine)' = r.key
                      /\ r.op \in {"insert", "erase"}
  BY <1>1 DEF MineInv
<1>5. r.mine # Nil /\ r.op = "insert" => Top(r.mine)' = r.top /\ r.at \in 1 .. r.top + 1
  BY <1>1 DEF MineInv
<1>6. r.pc = "mark" => /\ r.at \in 0 .. Top(r.mine)'
                       /\ \A l \in 0 .. Top(r.mine)' : l > r.at => Mark(r.mine, l)'
  BY <1>1, <1>2 DEF MineInv
<1>7. r.pc = "flag" => Mark(r.mine, 0)'
  BY <1>2, <1>3 DEF MineInv
<1>8. r.pc \in {"mark", "flag"} => r.op = "erase" /\ r.mine # Nil
  BY DEF MineInv
<1> QED
  BY <1>4, <1>5, <1>6, <1>7, <1>8 DEF MineInv

\* What a thread may say outlives a step of another one, when the thread sees
\* what becomes of its key.
LEMMA AnswerStable ==
    ASSUME ListTypes, Grows, NEW r \in ListLocals, SearchInv(r), MineInv(r), NEW s, NEW z, s \subseteq z,
           AnswerInv(r, s),
           r.pc # "idle" /\ r.key \in present' => TRUE \in z,
           r.pc # "idle" /\ r.key \notin present' => FALSE \in z,
           \A n \in Nodes : r.pc # "idle" /\ Key(n) = r.key /\ Mark(n, 0)' /\ ~Mark(n, 0) => FALSE \in z,
           r.pc \in Searching /\ FALSE \notin z => \A n \in Nodes : Leads(n, r.key) => Leads(n, r.key)'
    PROVE  AnswerInv(r, z)'
<1>0. r.pc \in Searching => r.pc # "idle"
  BY DEF Searching
<1>2. r.pc = "reply" => (r.says = "in" => TRUE \in z) /\ (r.says = "out" => FALSE \in z)
  BY DEF AnswerInv
<1>3. r.pc = "found" => IF Found(r)' THEN TRUE \in z /\ (Mark(r.curr, 0)' => FALSE \in z) ELSE FALSE \in z
  <2> SUFFICES ASSUME r.pc = "found"
               PROVE  IF Found(r)' THEN TRUE \in z /\ (Mark(r.curr, 0)' => FALSE \in z) ELSE FALSE \in z
    OBVIOUS
  <2>1. Found(r)' <=> Found(r)
    <3>1. r.curr # Nil => r.curr \in Nodes /\ Key(r.curr)' = Key(r.curr)
      BY OnListStable, LocalsTypes, ListGiven, InvGiven DEF SearchInv, OnList
    <3> QED
      BY <3>1 DEF Found, Key
  <2>2. Found(r) => r.curr \in Nodes /\ Key(r.curr) = r.key
    BY LocalsTypes, ListGiven, InvGiven DEF SearchInv, OnList, Found, Key
  <2> QED
    BY <2>1, <2>2 DEF AnswerInv
<1>4. r.pc = "mark" => (Mark(r.mine, 0)' => FALSE \in z)
  BY DEF AnswerInv, MineInv
<1>5. r.pc \in Searching /\ FALSE \notin z => Leads(r.pred, r.key)'
  BY DEF AnswerInv, SearchInv, OnList
<1>6. r.pc \in {"succ", "snip"} /\ r.lvl = 0 /\ FALSE \notin z => LeadsOrIs(r.curr, r.key)'
  <2> SUFFICES ASSUME r.pc \in {"succ", "snip"}, r.lvl = 0, FALSE \notin z
               PROVE  LeadsOrIs(r.curr, r.key)'
    OBVIOUS
  <2>1. OnList(r.curr, 0) /\ r.pc \in Searching
    BY DEF SearchInv, Searching
  <2>2. LeadsOrIs(r.curr, r.key)
    BY DEF AnswerInv
  <2>3. r.curr \in Nodes' /\ Key(r.curr)' = Key(r.curr)
    BY <2>1, OnListStable DEF OnList
  <2>4. CASE Leads(r.curr, r.key)
    BY <2>1, <2>3, <2>4 DEF LeadsOrIs, OnList
  <2>5. CASE Key(r.curr) = r.key /\ Unremoved(r.curr)
    <3>1. ~Mark(r.curr, 0)'
      BY <2>1, <2>5 DEF OnList, Unremoved
    <3> QED
      BY <2>3, <2>5, <3>1 DEF LeadsOrIs, Unremoved
  <2> QED
    BY <2>2, <2>4, <2>5 DEF LeadsOrIs
<1> QED
  BY <1>2, <1>3, <1>4, <1>5, <1>6 DEF AnswerInv

\* A thread with the local variables x sees what a step does to its key.
Sees(x, s, z) ==
    /\ s \subseteq z
    /\ x.pc # "idle" /\ x.key \in present' => TRUE \in z
    /\ x.pc # "idle" /\ x.key \notin present' => FALSE \in z
    /\ \A n \in Nodes : x.pc # "idle" /\ Key(n) = x.key /\ Mark(n, 0)' /\ ~Mark(n, 0) => FALSE \in z
    /\ x.pc \in Searching /\ FALSE \notin z => \A n \in Nodes : Leads(n, x.key) => Leads(n, x.key)'

\* A thread that takes no step keeps its invariants, whatever the step is, if its
\* history sees what it must.
LEMMA ThreadStable ==
    ASSUME ListTypes, ThreadsInv, Grows, NEW u \in Threads, NEW x, x = th[u], NEW z, Sees(x, seen[u], z)
    PROVE  x \in ListLocals /\ SearchInv(x)' /\ MineInv(x)' /\ AnswerInv(x, z)'
<1>1. x \in ListLocals /\ SearchInv(x) /\ MineInv(x)
  BY DEF ListTypes, ThreadsInv
<1>2. PICK s : s = seen[u] /\ AnswerInv(x, s) /\ Sees(x, s, z)
  BY DEF ThreadsInv
<1>3. AnswerInv(x, z)'
  BY <1>1, <1>2, AnswerStable DEF Sees
<1> QED
  BY <1>1, <1>3, SearchStable, MineStable

\* The invariant of the threads, for names of what they hold.
ThreadsOK ==
    \A u \in Threads : \A x, s : x = th[u] /\ s = seen[u] => SearchInv(x) /\ MineInv(x) /\ AnswerInv(x, s)

LEMMA ThreadsAre == ThreadsOK <=> ThreadsInv
  BY DEF ThreadsOK, ThreadsInv

\* To prove it of the next state, for constants that name what a thread holds.
LEMMA ThreadsLater ==
    ASSUME \A u \in Threads : \A x, z : x = th'[u] /\ z = seen'[u] =>
              SearchInv(x)' /\ MineInv(x)' /\ AnswerInv(x, z)'
    PROVE  ThreadsInv'
<1>1. ThreadsOK'
  BY Zenon DEF ThreadsOK
<1>2. (ThreadsOK <=> ThreadsInv)'
  BY ThreadsAre, PTL
<1> QED
  BY <1>1, <1>2

\* The threads, after a step of t.
LEMMA ThreadsStep ==
    ASSUME ListTypes, ThreadsInv, Grows, NEW t \in Threads, NEW r \in ListLocals,
           th' = [th EXCEPT ![t] = r], seen' \in [Threads -> SUBSET BOOLEAN],
           SearchInv(r)', MineInv(r)', NEW y, y = seen'[t], AnswerInv(r, y)',
           \A u \in Threads \ {t} : \A x, z : x = th[u] /\ z = seen'[u] => Sees(x, seen[u], z)
    PROVE  ThreadsInv' /\ th' \in [Threads -> ListLocals]
<1>1. th'[t] = r /\ (\A u \in Threads \ {t} : th'[u] = th[u]) /\ th' \in [Threads -> ListLocals]
  BY DEF ListTypes
<1>2. ASSUME NEW u \in Threads, NEW x, NEW z, x = th'[u], z = seen'[u]
      PROVE  SearchInv(x)' /\ MineInv(x)' /\ AnswerInv(x, z)'
  <2>1. CASE u = t
    BY <1>1, <1>2, <2>1
  <2>2. CASE u # t
    <3>1. x = th[u] /\ Sees(x, seen[u], z)
      BY <1>1, <1>2, <2>2
    <3> QED
      BY <3>1, ThreadStable
  <2> QED
    BY <2>1, <2>2
<1>3. ThreadsInv'
  BY <1>2, ThreadsLater
<1> QED
  BY <1>1, <1>3

\* The nodes do not change.
LEMMA SameNodes ==
    ASSUME UNCHANGED node
    PROVE  /\ Grows /\ Nodes' = Nodes
           /\ \A n : Key(n)' = Key(n) /\ Top(n)' = Top(n) /\ (Unremoved(n)' <=> Unremoved(n))
           /\ \A n, l : /\ Ptr(n, l)' = Ptr(n, l) /\ Mark(n, l)' = Mark(n, l)
                        /\ (OnList(n, l)' <=> OnList(n, l))
           /\ \A n, k : Leads(n, k)' <=> Leads(n, k)
           /\ LinkInv => LinkInv'
           /\ ChainInv => ChainInv'
<1>1. /\ Nodes' = Nodes
      /\ \A n : Key(n)' = Key(n) /\ Top(n)' = Top(n) /\ (Unremoved(n)' <=> Unremoved(n))
      /\ \A n, l : /\ Ptr(n, l)' = Ptr(n, l) /\ Mark(n, l)' = Mark(n, l)
                   /\ (OnList(n, l)' <=> OnList(n, l))
  BY DEF Nodes, Key, Top, Ptr, Mark, Unremoved, OnList
<1>2. Grows
  BY <1>1 DEF Grows
<1>3. \A n, k : Leads(n, k)' <=> Leads(n, k)
  BY <1>1 DEF Leads, Leading
<1>4. LinkInv => LinkInv'
  BY <1>1 DEF LinkInv, Before
<1>5. ChainInv => ChainInv'
  BY <1>1 DEF ChainInv, Chain
<1> QED
  BY <1>1, <1>2, <1>3, <1>4, <1>5

\* What the invariant says of one thread.
LEMMA ListFacts ==
    ASSUME ListInv, NEW t \in Threads
    PROVE  /\ ListTypes /\ LinkInv /\ ThreadsInv
           /\ th[t] \in ListLocals /\ SearchInv(th[t]) /\ MineInv(th[t]) /\ AnswerInv(th[t], seen[t])
           /\ seen[t] \subseteq BOOLEAN
  BY DEF ListInv, ListTypes, ThreadsInv

\* A step that changes the local variables of one thread only.
LEMMA LocalSearch ==
    ASSUME ListInv, UNCHANGED <<node, size, retired, deleted, present, seen>>,
           NEW t \in Threads, NEW r \in ListLocals, th' = [th EXCEPT ![t] = r],
           SearchInv(r), MineInv(r), AnswerInv(r, seen[t]),
           (r.op = "insert" /\ r.mine # Nil) <=> t \in Inserted,
           (r.op = "erase" /\ r.mine # Nil /\ r.pc # "mark") <=> t \in Erased,
           th[t].pc = "mark" => (r.pc = "mark" /\ r.mine = th[t].mine) \/ Mark(th[t].mine, 0),
           \A G \in SUBSET Nodes : Kept(G) => Points(r) \subseteq G \cup {Nil}
    PROVE  ListInv'
<1>1. /\ Grows /\ Nodes' = Nodes
      /\ \A n : Key(n)' = Key(n) /\ Top(n)' = Top(n) /\ (Unremoved(n)' <=> Unremoved(n))
      /\ \A n, l : Ptr(n, l)' = Ptr(n, l) /\ Mark(n, l)' = Mark(n, l)
      /\ \A n, k : Leads(n, k)' <=> Leads(n, k)
      /\ LinkInv' /\ ChainInv'
  BY SameNodes DEF ListInv
<1>2. th'[t] = r /\ (\A u \in Threads \ {t} : th'[u] = th[u])
  BY DEF ListInv, ListTypes
<1>3. \A u \in Threads : \A x, z : x = th[u] /\ z = seen[u] => Sees(x, seen[u], z)
  <2> SUFFICES ASSUME NEW u \in Threads, NEW x, NEW z, x = th[u], z = seen[u]
               PROVE  Sees(x, seen[u], z)
    OBVIOUS
  <2>1. AnswerInv(x, z)
    BY ListFacts
  <2> QED
    BY <1>1, <2>1 DEF Sees, AnswerInv
<1>4. SearchInv(r)' /\ MineInv(r)'
  BY <1>1, SearchStable, MineStable DEF ListInv
<1>5. PICK y : y = seen[t] /\ y = seen'[t]
  OBVIOUS
<1>6. AnswerInv(r, y)'
  <2>1. AnswerInv(r, y)
    BY <1>5
  <2> QED
    BY <1>1, <2>1, AnswerStable DEF ListInv, AnswerInv
<1>7. ThreadsInv' /\ th' \in [Threads -> ListLocals]
  BY <1>1, <1>3, <1>4, <1>5, <1>6, ThreadsStep DEF ListInv, ListTypes
<1>8. ListTypes'
  <2>1. \A n \in Nodes : NodeRec(Top(n))' = NodeRec(Top(n))
    BY <1>1 DEF NodeRec
  <2> QED
    BY <1>1, <1>7, <2>1 DEF ListInv, ListTypes
<1>9. PresentInv'
  BY <1>1 DEF ListInv, PresentInv, Holds
<1>10. Inserted' = Inserted /\ Erased' = Erased
  <2>1. \A u \in Threads : u \in Inserted' <=> u \in Inserted
    BY <1>2 DEF Inserted
  <2>2. \A u \in Threads : u \in Erased' <=> u \in Erased
    BY <1>2 DEF Erased
  <2>3. Inserted' \subseteq Threads /\ Inserted \subseteq Threads /\ Erased' \subseteq Threads /\ Erased \subseteq Threads
    BY DEF Inserted, Erased
  <2> QED
    BY <2>1, <2>2, <2>3
<1>11. SizeInv'
  BY <1>10 DEF ListInv, SizeInv
<1>12. MarkInv'
  <2>1. ASSUME NEW n \in Nodes, NEW l \in 0 .. Top(n), Mark(n, l), ~Mark(n, 0)
        PROVE  \E u \in Threads : th'[u].pc = "mark" /\ th'[u].mine = n
    <3>1. PICK u \in Threads : th[u].pc = "mark" /\ th[u].mine = n
      BY <2>1 DEF ListInv, MarkInv
    <3> QED
      BY <1>2, <2>1, <3>1
  <2> QED
    BY <1>1, <2>1 DEF ListInv, MarkInv
<1>13. KeptInv'
  <2>1. PICK G \in SUBSET Nodes : Kept(G)
    BY DEF ListInv, KeptInv
  <2>2. \A u \in Threads : Points(th[u])' \subseteq G \cup {Nil}
    <3>1. \A u \in Threads \ {t} : Points(th[u]) \subseteq G \cup {Nil}
      BY <2>1 DEF Kept
    <3>2. Points(r) \subseteq G \cup {Nil}
      BY <2>1
    <3> QED
      BY <1>2, <3>1, <3>2 DEF Points
  <2>3. Kept(G)'
    BY <1>1, <2>1, <2>2 DEF Kept
  <2> QED
    BY <1>1, <2>3 DEF KeptInv
<1> QED
  BY <1>1, <1>7, <1>8, <1>9, <1>11, <1>12, <1>13 DEF ListInv

\* While a key is in the set, every node of the set with a smaller key leads to
\* it.
LEMMA UnremovedLeads ==
    ASSUME ListTypes, ChainInv, PresentInv, NEW n \in Nodes, Unremoved(n), NEW k \in Keys, Key(n) < k, k \in present
    PROVE  Leads(n, k)
<1>1. PICK R \in SUBSET Nodes : Chain(R)
  BY DEF ChainInv
<1>2. PICK m \in Nodes : Unremoved(m) /\ Key(m) = k
  BY DEF PresentInv, Holds
<1>3. m \in R /\ n \in R
  BY <1>1, <1>2 DEF Chain
<1>4. PICK S : S = {x \in R : Key(x) < k}
  OBVIOUS
<1>5. ASSUME NEW x \in S
      PROVE  /\ Key(x) < k /\ Ptr(x, 0) \in Nodes
             /\ Ptr(x, 0) \in S \/ (Key(Ptr(x, 0)) = k /\ Unremoved(Ptr(x, 0)))
  <2>1. x \in R /\ Key(x) < k
    BY <1>4
  <2>2. Ptr(x, 0) # Nil /\ Key(Ptr(x, 0)) <= k
    BY <1>1, <1>2, <1>3, <2>1 DEF Chain
  <2>3. Ptr(x, 0) \in R
    BY <1>1, <2>1, <2>2 DEF Chain
  <2>4. Key(Ptr(x, 0)) = k => Ptr(x, 0) = m
    BY <1>1, <1>2, <1>3, <2>3 DEF Chain
  <2>5. Key(Ptr(x, 0)) \in Nat /\ k \in Nat
    BY <2>3, NodeTypes DEF Keys
  <2> QED
    BY <1>2, <1>4, <2>1, <2>2, <2>3, <2>4, <2>5
<1>6. Leading(S, k)
  BY <1>4, <1>5 DEF Leading
<1> QED
  BY <1>3, <1>4, <1>6 DEF Leads

\* One link on along a chain that leads to a key.
LEMMA LeadsNext ==
    ASSUME NEW n, NEW k, Leads(n, k)
    PROVE  Ptr(n, 0) \in Nodes /\ LeadsOrIs(Ptr(n, 0), k) /\ Key(n) < k
  BY DEF Leads, Leading, LeadsOrIs

\* The head.
LEMMA HeadFacts ==
    ASSUME ListTypes, LinkInv
    PROVE  Head \in Nodes /\ Unremoved(Head) /\ Key(Head) = 0 /\ \A l \in Levels : OnList(Head, l)
<1>1. Head \in Nodes /\ 0 \in Levels
  BY NodeTypes, ListGiven DEF Levels
<1> QED
  BY <1>1, ListGiven DEF LinkInv, Unremoved, OnList, Levels

\* The local variables r are ones that thread t may go on with.
GoodLocal(t, r) ==
    /\ r \in ListLocals
    /\ SearchInv(r) /\ MineInv(r) /\ AnswerInv(r, seen[t])
    /\ (r.op = "insert" /\ r.mine # Nil) <=> t \in Inserted
    /\ (r.op = "erase" /\ r.mine # Nil /\ r.pc # "mark") <=> t \in Erased
    /\ th[t].pc = "mark" => (r.pc = "mark" /\ r.mine = th[t].mine) \/ Mark(th[t].mine, 0)
    /\ \A G \in SUBSET Nodes : Kept(G) => Points(r) \subseteq G \cup {Nil}

-----------------------------------------------------------------------------
(* Steps that change only local variables.                                 *)

\* A step that changes only local variables, to good ones.
LEMMA GoodStep ==
    ASSUME ListInv, UNCHANGED <<node, size, retired, deleted, present, seen>>,
           NEW t \in Threads, NEW r, GoodLocal(t, r), Local(t, r)
    PROVE  ListInv'
<1>1. th' = [th EXCEPT ![t] = r] /\ r \in ListLocals
  BY DEF Local, GoodLocal
<1> QED
  BY <1>1, LocalSearch DEF GoodLocal

\* x is a place in the search of thread t.
Walk(t, x) ==
    /\ x \in ListLocals
    /\ x.op = th[t].op /\ x.key = th[t].key /\ x.mine = th[t].mine /\ x.top = th[t].top
    /\ x.at = th[t].at
    /\ \A l \in Levels : /\ OnList(x.preds[l], l) /\ Key(x.preds[l]) < x.key
                         /\ x.succs[l] # Nil => OnList(x.succs[l], l) /\ x.key <= Key(x.succs[l])
    /\ \A G \in SUBSET Nodes : Kept(G) => Points(x) \subseteq G \cup {Nil}

WalkAt(t, x) ==
    /\ OnList(x.pred, x.lvl) /\ Key(x.pred) < x.key
    /\ FALSE \notin seen[t] => Leads(x.pred, x.key)

\* A walk that is in order makes good local variables.
LEMMA WalkGood ==
    ASSUME ListInv, NEW t \in Threads, th[t].pc \in Searching \cup {"found", "flag"}, NEW x, Walk(t, x),
           x.pc \in Searching \cup {"found"},
           x.pc \in Searching => WalkAt(t, x),
           x.pc \in {"succ", "snip"} => OnList(x.curr, x.lvl),
           x.pc \in {"succ", "snip"} /\ x.lvl = 0 /\ FALSE \notin seen[t] => LeadsOrIs(x.curr, x.key),
           x.pc = "snip" => Mark(x.curr, x.lvl) /\ Ptr(x.curr, x.lvl) = x.succ,
           x.pc = "found" => /\ x.op # "contains" /\ x.curr = x.succs[0]
                             /\ IF Found(x) THEN TRUE \in seen[t] /\ ~Mark(x.curr, 0) ELSE FALSE \in seen[t]
    PROVE  GoodLocal(t, x)
<1>1. /\ th[t] \in ListLocals /\ SearchInv(th[t]) /\ MineInv(th[t]) /\ AnswerInv(th[t], seen[t])
      /\ th[t].pc \notin {"idle", "reply", "mark"}
      /\ x.pc \notin {"idle", "reply", "mark", "flag"}
  BY ListFacts DEF Searching
<1>2. SearchInv(x)
  BY <1>1 DEF SearchInv, Walk, WalkAt
<1>3. MineInv(x)
  BY <1>1 DEF MineInv, Walk
<1>4. AnswerInv(x, seen[t])
  BY <1>1 DEF AnswerInv, Walk, WalkAt
<1>5. /\ (x.op = "insert" /\ x.mine # Nil) <=> t \in Inserted
      /\ (x.op = "erase" /\ x.mine # Nil /\ x.pc # "mark") <=> t \in Erased
  BY <1>1 DEF Inserted, Erased, Walk
<1> QED
  BY <1>1, <1>2, <1>3, <1>4, <1>5 DEF GoodLocal, Walk

\* The head is never freed.
LEMMA KeptHead ==
    ASSUME ListTypes, LinkInv, NEW G \in SUBSET Nodes, Kept(G)
    PROVE  Head \in G
  BY HeadFacts DEF Kept

\* A thread that is idle.
LEMMA IdleList ==
    ASSUME ListAssumption
    PROVE  /\ Idle \in ListLocals /\ Idle.pc = "idle" /\ Idle.op = "none" /\ Idle.mine = Nil
           /\ Idle.says = "none" /\ Points(Idle) \subseteq {Head, Nil}
<1>1. Idle \in ListLocals
  <2>1. 0 \in Levels /\ MaxLevel \in Levels
    BY DEF Levels, ListAssumption
  <2>2. [l \in Levels |-> Head] \in [Levels -> Int] /\ [l \in Levels |-> Nil] \in [Levels -> Int]
    BY DEF Head, Nil
  <2>3. 0 \in 0 .. MaxKey /\ Head \in Int /\ Nil \in Int
    BY DEF Head, Nil, ListAssumption
  <2> QED
    BY <2>1, <2>2, <2>3 DEF Idle, ListLocals
<1>2. /\ Idle.pc = "idle" /\ Idle.op = "none" /\ Idle.mine = Nil /\ Idle.says = "none"
      /\ Idle.pred = Head /\ Idle.curr = Nil /\ Idle.succ = Nil
      /\ \A l \in Levels : Idle.preds[l] = Head /\ Idle.succs[l] = Nil
  BY DEF Idle
<1> QED
  BY <1>1, <1>2 DEF Points

\* A thread that has its answer.
LEMMA ReplyIs ==
    ASSUME ListAssumption, NEW r \in ListLocals, NEW what \in {"in", "out", "changed"}
    PROVE  /\ Reply(r, what) \in ListLocals /\ Reply(r, what).pc = "reply" /\ Reply(r, what).op = r.op
           /\ Reply(r, what).key = r.key /\ Reply(r, what).says = what /\ Reply(r, what).mine = Nil
           /\ Points(Reply(r, what)) \subseteq {Head, Nil}
<1>1. PICK i \in ListLocals : i = Idle
  BY IdleList
<1>2. PICK x : x = [i EXCEPT !.pc = "reply", !.op = r.op, !.key = r.key, !.says = what] /\ x = Reply(r, what)
  BY <1>1 DEF Reply
<1>3. /\ x \in ListLocals /\ x.pc = "reply" /\ x.op = r.op /\ x.key = r.key /\ x.says = what
      /\ x.mine = i.mine /\ x.pred = i.pred /\ x.curr = i.curr /\ x.succ = i.succ
      /\ x.preds = i.preds /\ x.succs = i.succs
  BY <1>2, ZenonT(60) DEF ListLocals
<1>4. Points(x) = Points(i)
  BY <1>3 DEF Points
<1> QED
  BY <1>1, <1>2, <1>3, <1>4, IdleList

\* An operation that has not changed the set says what it knows.
LEMMA ReplyGood ==
    ASSUME ListInv, NEW t \in Threads, th[t].pc # "idle", NEW what \in {"in", "out"},
           what = "in" => TRUE \in seen[t], what = "out" => FALSE \in seen[t],
           t \notin Inserted, t \notin Erased, th[t].pc = "mark" => Mark(th[t].mine, 0)
    PROVE  GoodLocal(t, Reply(th[t], what))
<1>1. th[t] \in ListLocals /\ AnswerInv(th[t], seen[t]) /\ ListTypes /\ LinkInv
  BY ListFacts
<1>2. PICK x : x = Reply(th[t], what)
  OBVIOUS
<1>3. /\ x \in ListLocals /\ x.pc = "reply" /\ x.op = th[t].op /\ x.key = th[t].key /\ x.says = what
      /\ x.mine = Nil /\ Points(x) \subseteq {Head, Nil}
  BY <1>1, <1>2, ReplyIs, ListGiven, InvGiven
<1>4. SearchInv(x) /\ MineInv(x)
  BY <1>3 DEF SearchInv, MineInv, Searching
<1>5. AnswerInv(x, seen[t])
  BY <1>1, <1>3 DEF AnswerInv, Searching
<1>6. \A G \in SUBSET Nodes : Kept(G) => Points(x) \subseteq G \cup {Nil}
  BY <1>1, <1>3, KeptHead
<1> QED
  BY <1>2, <1>3, <1>4, <1>5, <1>6 DEF GoodLocal

\* A search that starts anew.
LEMMA StartGood ==
    ASSUME ListInv, NEW t \in Threads, th[t].pc \in Searching \cup {"found", "flag"}
    PROVE  GoodLocal(t, StartFind(th[t]))
<1>1. /\ ListTypes /\ LinkInv /\ th[t] \in ListLocals /\ SearchInv(th[t]) /\ MineInv(th[t])
      /\ AnswerInv(th[t], seen[t]) /\ th[t].pc # "idle" /\ th[t].pc # "reply"
  BY ListFacts DEF Searching
<1>2. PICK x : x = [th[t] EXCEPT !.pc = "find", !.lvl = MaxLevel, !.pred = Head] /\ x = StartFind(th[t])
  BY DEF StartFind
<1>3. Head \in Int /\ MaxLevel \in Levels
  BY <1>1, ListGiven DEF Head, Levels
<1>4. /\ x \in ListLocals /\ x.pc = "find" /\ x.lvl = MaxLevel /\ x.pred = Head
      /\ x.op = th[t].op /\ x.key = th[t].key /\ x.mine = th[t].mine /\ x.top = th[t].top
      /\ x.at = th[t].at /\ x.preds = th[t].preds /\ x.succs = th[t].succs /\ x.curr = th[t].curr
      /\ x.succ = th[t].succ
  BY <1>1, <1>2, <1>3, ZenonT(60) DEF ListLocals
<1>5. ASSUME NEW G \in SUBSET Nodes, Kept(G) PROVE Points(x) \subseteq G \cup {Nil}
  <2>1. Points(th[t]) \subseteq G \cup {Nil} /\ Head \in G
    BY <1>1, <1>5, KeptHead DEF Kept
  <2>2. Points(x) \subseteq Points(th[t]) \cup {Head}
    BY <1>4 DEF Points
  <2> QED
    BY <2>1, <2>2
<1>6. Walk(t, x)
  BY <1>1, <1>4, <1>5 DEF Walk, SearchInv
<1>7. WalkAt(t, x)
  <2>1. x.key \in Keys /\ 0 < x.key
    BY <1>1, <1>4, LocalsTypes, ListGiven, InvGiven DEF SearchInv, Keys
  <2>2. Key(Head) < x.key /\ OnList(Head, MaxLevel)
    BY <1>1, <1>3, <2>1, HeadFacts
  <2>3. FALSE \notin seen[t] => x.key \in present
    BY <1>1, <1>4 DEF AnswerInv
  <2>4. FALSE \notin seen[t] => Leads(Head, x.key)
    BY <1>1, <2>1, <2>2, <2>3, HeadFacts, UnremovedLeads DEF ListInv
  <2> QED
    BY <1>4, <2>2, <2>4 DEF WalkAt
<1>8. GoodLocal(t, x)
  BY <1>4, <1>6, <1>7, WalkGood DEF Searching
<1> QED
  BY <1>2, <1>8

\* The search goes down a level, or ends.
LEMMA DownGood ==
    ASSUME ListInv, NEW t \in Threads, th[t].pc \in Searching, NEW x, Walk(t, x), WalkAt(t, x),
           x.curr # Nil => OnList(x.curr, x.lvl) /\ x.key <= Key(x.curr),
           x.lvl = 0 => IF Found(x) THEN TRUE \in seen[t] /\ ~Mark(x.curr, 0) ELSE FALSE \in seen[t],
           x.op = "contains" => th[t].mine = Nil
    PROVE  GoodLocal(t, Down(x))
<1>1. /\ ListTypes /\ LinkInv /\ th[t] \in ListLocals /\ x \in ListLocals /\ th[t].pc # "idle" /\ th[t].pc # "mark"
      /\ th[t].mine = x.mine
  BY ListFacts DEF Searching, Walk
<1>2. PICK f, g : /\ f = [x.preds EXCEPT ![x.lvl] = x.pred]
                  /\ g = [x.succs EXCEPT ![x.lvl] = x.curr]
  OBVIOUS
<1>3. /\ f \in [Levels -> Int] /\ g \in [Levels -> Int] /\ x.lvl \in Levels
      /\ f[x.lvl] = x.pred /\ g[x.lvl] = x.curr
      /\ \A l \in Levels : l # x.lvl => f[l] = x.preds[l] /\ g[l] = x.succs[l]
  BY <1>1, <1>2 DEF ListLocals
<1>4. PICK s : s = [x EXCEPT !.preds = f, !.succs = g]
  OBVIOUS
<1>5. /\ s \in ListLocals /\ s.preds = f /\ s.succs = g /\ s.op = x.op /\ s.key = x.key
      /\ s.mine = x.mine /\ s.top = x.top /\ s.at = x.at /\ s.pred = x.pred /\ s.curr = x.curr
      /\ s.succ = x.succ /\ s.lvl = x.lvl
  BY <1>1, <1>3, <1>4 DEF ListLocals
<1>6. Points(s) \subseteq Points(x)
  BY <1>3, <1>5 DEF Points
<1>7. \A l \in Levels : /\ OnList(f[l], l) /\ Key(f[l]) < x.key
                        /\ g[l] # Nil => OnList(g[l], l) /\ x.key <= Key(g[l])
  BY <1>3 DEF Walk, WalkAt
<1>8. /\ ~Last(x.lvl) => Down(x) = [s EXCEPT !.pc = "find", !.lvl = x.lvl - 1]
      /\ Last(x.lvl) /\ x.op = "contains" => Down(x) = Reply(x, IF Found(x) THEN "in" ELSE "out")
      /\ Last(x.lvl) /\ x.op # "contains" => Down(x) = [s EXCEPT !.pc = "found", !.pred = Head]
  BY <1>2, <1>4 DEF Down
<1>9. CASE ~Last(x.lvl)
  <2>1. x.lvl - 1 \in Levels /\ x.lvl - 1 \in Int
    BY <1>1, <1>9, LocalsTypes, ListGiven DEF Last, Levels
  <2>2. PICK y : y = [s EXCEPT !.pc = "find", !.lvl = x.lvl - 1] /\ y = Down(x)
    BY <1>8, <1>9
  <2>3. /\ y \in ListLocals /\ y.pc = "find" /\ y.lvl = x.lvl - 1
        /\ y.preds = f /\ y.succs = g /\ y.op = x.op /\ y.key = x.key
        /\ y.mine = x.mine /\ y.top = x.top /\ y.at = x.at /\ y.pred = x.pred /\ y.curr = x.curr
        /\ y.succ = x.succ
    BY <1>5, <2>1, <2>2, ZenonT(60) DEF ListLocals
  <2>4. Points(y) = Points(s)
    BY <1>5, <2>3 DEF Points
  <2>5. Walk(t, y)
    BY <1>6, <1>7, <2>3, <2>4 DEF Walk
  <2>6. OnList(x.pred, x.lvl - 1)
    <3>1. OnList(x.pred, x.lvl) /\ x.lvl \in Int
      BY <1>1, <1>3, LocalsTypes, ListGiven DEF WalkAt
    <3> QED
      BY <1>1, <3>1, NodeTypes DEF OnList
  <2>7. WalkAt(t, y)
    BY <2>3, <2>6 DEF WalkAt
  <2>8. GoodLocal(t, y)
    BY <2>3, <2>5, <2>7, WalkGood DEF Searching
  <2> QED
    BY <2>2, <2>8
<1>10. CASE Last(x.lvl) /\ x.op = "contains"
  <2>1. PICK what \in {"in", "out"} : what = (IF Found(x) THEN "in" ELSE "out")
    OBVIOUS
  <2>2. (what = "in" => TRUE \in seen[t]) /\ (what = "out" => FALSE \in seen[t])
    BY <1>10, <2>1 DEF Last
  <2>3. t \notin Inserted /\ t \notin Erased
    BY <1>1, <1>10 DEF Inserted, Erased
  <2>4. GoodLocal(t, Reply(th[t], what))
    BY <1>1, <2>2, <2>3, ReplyGood
  <2>5. Reply(x, what) = Reply(th[t], what)
    BY DEF Walk, Reply
  <2> QED
    BY <1>8, <1>10, <2>1, <2>4, <2>5
<1>11. CASE Last(x.lvl) /\ x.op # "contains"
  <2>1. PICK y : y = [s EXCEPT !.pc = "found", !.pred = Head] /\ y = Down(x)
    BY <1>8, <1>11
  <2>2. /\ y \in ListLocals /\ y.pc = "found" /\ y.pred = Head
        /\ y.preds = f /\ y.succs = g /\ y.op = x.op /\ y.key = x.key
        /\ y.mine = x.mine /\ y.top = x.top /\ y.at = x.at /\ y.curr = x.curr
        /\ y.succ = x.succ
    <3>1. Head \in Int
      BY DEF Head
    <3> QED
      BY <1>5, <2>1, <3>1, ZenonT(60) DEF ListLocals
  <2>3. Points(y) \subseteq Points(s) \cup {Head}
    BY <1>5, <2>2 DEF Points
  <2>4. \A G \in SUBSET Nodes : Kept(G) => Points(y) \subseteq G \cup {Nil}
    BY <1>1, <1>6, <2>3, KeptHead DEF Walk
  <2>5. Walk(t, y)
    BY <1>7, <2>2, <2>4 DEF Walk
  <2>6. Found(y) <=> Found(x)
    BY <2>2 DEF Found
  <2>7. y.curr = y.succs[0] /\ x.lvl = 0
    BY <1>3, <1>11, <2>2 DEF Last
  <2>8. GoodLocal(t, y)
    BY <1>11, <2>2, <2>5, <2>6, <2>7, WalkGood DEF Searching
  <2> QED
    BY <2>1, <2>8
<1> QED
  BY <1>9, <1>10, <1>11

\* The search comes to node n.
LEMMA AtGood ==
    ASSUME ListInv, NEW t \in Threads, th[t].pc \in Searching, NEW x, Walk(t, x), WalkAt(t, x),
           NEW n \in Int, n # Nil => OnList(n, x.lvl),
           x.lvl = 0 /\ FALSE \notin seen[t] => n \in Nodes /\ LeadsOrIs(n, x.key),
           \A G \in SUBSET Nodes : Kept(G) => n \in G \cup {Nil}
    PROVE  GoodLocal(t, At(x, n))
<1>1. /\ ListTypes /\ x \in ListLocals /\ Nil \notin Nodes /\ Nil \in Int
      /\ x.op = "contains" => th[t].mine = Nil
  <2>1. ListTypes /\ x \in ListLocals /\ MineInv(th[t]) /\ x.op = th[t].op
    BY ListFacts DEF Walk
  <2>2. x.op = "contains" => th[t].mine = Nil
    BY <2>1 DEF MineInv
  <2>3. Nil \notin Nodes
    BY <2>1, NodeTypes
  <2> QED
    BY <2>1, <2>2, <2>3 DEF Nil
<1>2. CASE n = Nil
  <2>1. PICK y : y = [x EXCEPT !.curr = Nil] /\ At(x, n) = Down(y)
    BY <1>2 DEF At
  <2>2. /\ y \in ListLocals /\ y.curr = Nil /\ y.pc = x.pc /\ y.op = x.op /\ y.key = x.key
        /\ y.mine = x.mine /\ y.top = x.top /\ y.at = x.at /\ y.pred = x.pred /\ y.lvl = x.lvl
        /\ y.succ = x.succ /\ y.preds = x.preds /\ y.succs = x.succs
    BY <1>1, <2>1 DEF ListLocals
  <2>3. Points(y) \subseteq Points(x) \cup {Nil}
    BY <2>2 DEF Points
  <2>4. Walk(t, y) /\ WalkAt(t, y)
    BY <2>2, <2>3 DEF Walk, WalkAt
  <2>5. ~Found(y)
    BY <2>2 DEF Found
  <2>6. y.lvl = 0 => FALSE \in seen[t]
    BY <1>1, <1>2, <2>2
  <2> QED
    BY <1>1, <2>1, <2>2, <2>4, <2>5, <2>6, DownGood, ZenonT(60)
<1>3. CASE n # Nil
  <2>1. PICK y : y = [x EXCEPT !.pc = "succ", !.curr = n] /\ At(x, n) = y
    BY <1>3 DEF At
  <2>2. /\ y \in ListLocals /\ y.curr = n /\ y.pc = "succ" /\ y.op = x.op /\ y.key = x.key
        /\ y.mine = x.mine /\ y.top = x.top /\ y.at = x.at /\ y.pred = x.pred /\ y.lvl = x.lvl
        /\ y.succ = x.succ /\ y.preds = x.preds /\ y.succs = x.succs
    BY <1>1, <2>1, ZenonT(60) DEF ListLocals
  <2>3. Points(y) \subseteq Points(x) \cup {n}
    BY <2>2 DEF Points
  <2>4. Walk(t, y) /\ WalkAt(t, y)
    BY <2>2, <2>3 DEF Walk, WalkAt
  <2> QED
    BY <1>3, <2>1, <2>2, <2>4, WalkGood DEF Searching
<1> QED
  BY <1>2, <1>3

\* Where a link that a thread reads leads.
LEMMA LinkLeads ==
    ASSUME ListInv, NEW m, NEW l \in Nat, OnList(m, l)
    PROVE  /\ Ptr(m, l) \in Int /\ Mark(m, l) \in BOOLEAN
           /\ Ptr(m, l) # Nil => OnList(Ptr(m, l), l) /\ Before(m, Ptr(m, l), l)
           /\ \A G \in SUBSET Nodes : Kept(G) /\ m \in G => Ptr(m, l) \in G \cup {Nil}
<1>1. m \in Nodes /\ l \in 0 .. Top(m)
  BY NodeTypes DEF ListInv, OnList
<1> QED
  BY <1>1, NodeTypes DEF ListInv, LinkInv, Kept

\* The thread is at the place that its local variables say.
LEMMA IsWalk ==
    ASSUME ListInv, NEW t \in Threads, th[t].pc \in Searching
    PROVE  Walk(t, th[t]) /\ WalkAt(t, th[t])
<1>1. th[t] \in ListLocals /\ SearchInv(th[t]) /\ AnswerInv(th[t], seen[t])
  BY ListFacts
<1>2. \A G \in SUBSET Nodes : Kept(G) => Points(th[t]) \subseteq G \cup {Nil}
  BY DEF Kept
<1> QED
  BY <1>1, <1>2 DEF Walk, WalkAt, SearchInv, AnswerInv

\* The steps of a search.
LEMMA FindCurrStep ==
    ASSUME ListInv, NEW t \in Threads, FindCurr(t)
    PROVE  ListInv'
<1>1. /\ th[t].pc = "find" /\ th[t].pc \in Searching /\ Local(t, At(th[t], Ptr(th[t].pred, th[t].lvl)))
      /\ UNCHANGED <<node, size, retired, deleted, present, seen>>
  BY DEF FindCurr, Next0, Ptr, Searching
<1>2. /\ ListTypes /\ th[t] \in ListLocals /\ SearchInv(th[t]) /\ AnswerInv(th[t], seen[t])
      /\ th[t].lvl \in Nat /\ Walk(t, th[t]) /\ WalkAt(t, th[t])
  BY <1>1, ListFacts, LocalsTypes, ListGiven, InvGiven, IsWalk
<1>3. PICK n : n = Ptr(th[t].pred, th[t].lvl)
  OBVIOUS
<1>4. OnList(th[t].pred, th[t].lvl) /\ th[t].pred \in Nodes
  BY <1>2 DEF WalkAt, OnList
<1>5. n \in Int /\ (n # Nil => OnList(n, th[t].lvl))
  BY <1>2, <1>3, <1>4, LinkLeads
<1>6. th[t].lvl = 0 /\ FALSE \notin seen[t] => n \in Nodes /\ LeadsOrIs(n, th[t].key)
  BY <1>2, <1>3, LeadsNext DEF WalkAt
<1>7. ASSUME NEW G \in SUBSET Nodes, Kept(G) PROVE n \in G \cup {Nil}
  <2>1. Nil \notin Nodes /\ th[t].pred \in Points(th[t])
    BY <1>2, NodeTypes DEF Points
  <2>2. th[t].pred \in G
    BY <1>4, <1>7, <2>1 DEF Kept
  <2> QED
    BY <1>2, <1>3, <1>4, <1>7, <2>2, LinkLeads
<1>8. GoodLocal(t, At(th[t], n))
  BY <1>1, <1>2, <1>5, <1>6, <1>7, AtGood
<1> QED
  BY <1>1, <1>3, <1>8, GoodStep

LEMMA FindSuccStep ==
    ASSUME ListInv, NEW t \in Threads, FindSucc(t)
    PROVE  ListInv'
<1>1. PICK r : r = th[t]
  OBVIOUS
<1>2. /\ r.pc = "succ" /\ r.pc \in Searching
      /\ UNCHANGED <<node, size, retired, deleted, present, seen>>
  BY <1>1 DEF FindSucc, Searching
<1>3. /\ ListTypes /\ LinkInv /\ r \in ListLocals /\ SearchInv(r) /\ AnswerInv(r, seen[t]) /\ MineInv(r)
      /\ r.lvl \in Nat /\ r.key \in Nat /\ r.key \in 0 .. MaxKey /\ Walk(t, r) /\ WalkAt(t, r)
  BY <1>1, <1>2, ListFacts, LocalsTypes, ListGiven, InvGiven, IsWalk
<1>4. PICK n, b : n = Ptr(r.curr, r.lvl) /\ b = Mark(r.curr, r.lvl)
  OBVIOUS
<1>5. OnList(r.curr, r.lvl) /\ r.curr \in Nodes /\ Key(r.curr) \in Nat /\ r.lvl \in 0 .. Top(r.curr) /\ r.key # 0
  BY <1>2, <1>3, NodeTypes DEF SearchInv, OnList
<1>6. n \in Int /\ (n # Nil => OnList(n, r.lvl))
  BY <1>3, <1>4, <1>5, LinkLeads
<1>7. ASSUME NEW G \in SUBSET Nodes, Kept(G) PROVE r.curr \in G /\ n \in G \cup {Nil}
  <2>1. Nil \notin Nodes /\ r.curr \in Points(r)
    BY <1>3, NodeTypes DEF Points
  <2>2. r.curr \in G
    BY <1>1, <1>5, <1>7, <2>1, SMTT(40) DEF Kept
  <2> QED
    BY <1>3, <1>4, <1>5, <1>7, <2>2, LinkLeads
<1>8. /\ b => Local(t, OnMarked(r, n))
      /\ ~b /\ Less(r.curr, r.key) => Local(t, At([r EXCEPT !.pred = r.curr], n))
      /\ ~b /\ ~Less(r.curr, r.key) => Local(t, Down(r))
  BY <1>1, <1>4 DEF FindSucc, Next0, Ptr, Mark
<1>9. CASE b
  <2>1. r.lvl = 0 /\ FALSE \notin seen[t] => Leads(r.curr, r.key)
    BY <1>2, <1>3, <1>4, <1>9 DEF AnswerInv, LeadsOrIs, Unremoved
  <2>2. CASE r.op = "contains"
    <3>1. r.lvl = 0 /\ FALSE \notin seen[t] => n \in Nodes /\ LeadsOrIs(n, r.key)
      BY <1>4, <2>1, LeadsNext
    <3>2. GoodLocal(t, At(r, n))
      BY <1>1, <1>2, <1>3, <1>6, <1>7, <3>1, AtGood
    <3> QED
      BY <1>2, <1>8, <1>9, <2>2, <3>2, GoodStep DEF OnMarked
  <2>3. CASE r.op # "contains"
    <3>1. PICK y : y = [r EXCEPT !.pc = "snip", !.succ = n] /\ Local(t, y)
      BY <1>8, <1>9, <2>3 DEF OnMarked
    <3>2. /\ y \in ListLocals /\ y.curr = r.curr /\ y.pc = "snip" /\ y.op = r.op /\ y.key = r.key
          /\ y.mine = r.mine /\ y.top = r.top /\ y.at = r.at /\ y.pred = r.pred /\ y.lvl = r.lvl
          /\ y.succ = n /\ y.preds = r.preds /\ y.succs = r.succs
      BY <1>3, <1>6, <3>1 DEF ListLocals
    <3>3. Points(y) \subseteq Points(r) \cup {n}
      BY <3>2 DEF Points
    <3>4. Walk(t, y) /\ WalkAt(t, y)
      BY <1>3, <1>7, <3>2, <3>3 DEF Walk, WalkAt
    <3>5. GoodLocal(t, y)
      BY <1>1, <1>2, <1>3, <1>4, <1>5, <1>9, <2>1, <3>2, <3>4, WalkGood DEF Searching, LeadsOrIs
    <3> QED
      BY <1>2, <3>1, <3>5, GoodStep
  <2> QED
    BY <2>2, <2>3
<1>10. CASE ~b
  <2>1. Unremoved(r.curr)
    BY <1>3, <1>4, <1>5, <1>10 DEF LinkInv, Unremoved
  <2>2. CASE Less(r.curr, r.key)
    <3>1. Key(r.curr) < r.key
      BY <2>2 DEF Less, Key
    <3>2. PICK y : y = [r EXCEPT !.pred = r.curr] /\ Local(t, At(y, n))
      BY <1>8, <1>10, <2>2
    <3>3. /\ y \in ListLocals /\ y.curr = r.curr /\ y.pc = r.pc /\ y.op = r.op /\ y.key = r.key
          /\ y.mine = r.mine /\ y.top = r.top /\ y.at = r.at /\ y.pred = r.curr /\ y.lvl = r.lvl
          /\ y.succ = r.succ /\ y.preds = r.preds /\ y.succs = r.succs
      BY <1>3, <3>2 DEF ListLocals
    <3>4. Points(y) \subseteq Points(r)
      BY <3>3 DEF Points
    <3>5. Walk(t, y)
      BY <1>3, <3>3, <3>4 DEF Walk
    <3>6. FALSE \notin seen[t] => Leads(r.curr, r.key)
      <4>1. r.key \in Keys
        BY <1>3, <1>5 DEF Keys
      <4>2. FALSE \notin seen[t] => r.key \in present
        BY <1>2, <1>3 DEF AnswerInv
      <4> QED
        BY <1>5, <2>1, <3>1, <4>1, <4>2, UnremovedLeads DEF ListInv
    <3>7. WalkAt(t, y)
      BY <1>5, <3>1, <3>3, <3>6 DEF WalkAt
    <3>8. y.lvl = 0 /\ FALSE \notin seen[t] => n \in Nodes /\ LeadsOrIs(n, y.key)
      BY <1>4, <3>3, <3>6, LeadsNext
    <3>9. GoodLocal(t, At(y, n))
      BY <1>1, <1>2, <1>6, <1>7, <3>3, <3>5, <3>7, <3>8, AtGood
    <3> QED
      BY <1>2, <3>2, <3>9, GoodStep
  <2>3. CASE ~Less(r.curr, r.key)
    <3>1. r.key <= Key(r.curr)
      BY <1>3, <1>5, <2>3 DEF Less, Key
    <3>2. Found(r) <=> Key(r.curr) = r.key
      BY <1>3, <1>5, NodeTypes DEF Found, Key
    <3>3. r.lvl = 0 => IF Found(r) THEN TRUE \in seen[t] /\ ~Mark(r.curr, 0) ELSE FALSE \in seen[t]
      <4>1. CASE Key(r.curr) = r.key
        <5>1. r.key \in present
          BY <1>3, <1>5, <2>1, <4>1 DEF ListInv, PresentInv, Holds, Keys
        <5> QED
          BY <1>2, <1>3, <2>1, <3>2, <4>1, <5>1 DEF AnswerInv, Unremoved
      <4>2. CASE Key(r.curr) # r.key
        <5>1. ~Leads(r.curr, r.key)
          BY <1>3, <1>5, <3>1, LeadsNext
        <5>2. ~LeadsOrIs(r.curr, r.key)
          BY <4>2, <5>1 DEF LeadsOrIs
        <5>3. r.lvl = 0 => FALSE \in seen[t]
          BY <1>2, <1>3, <5>2 DEF AnswerInv
        <5> QED
          BY <3>2, <4>2, <5>3
      <4> QED
        BY <4>1, <4>2
    <3>4. r.op = "contains" => th[t].mine = Nil
      BY <1>1, <1>3 DEF MineInv
    <3>5. GoodLocal(t, Down(r))
      BY <1>1, <1>2, <1>3, <1>5, <3>1, <3>3, <3>4, DownGood
    <3> QED
      BY <1>2, <1>8, <1>10, <2>3, <3>5, GoodStep
  <2> QED
    BY <2>2, <2>3
<1> QED
  BY <1>9, <1>10

\* An operation that has not changed the set and has nothing of its own.
LEMMA NotCounted ==
    ASSUME NEW t \in Threads, th[t].mine = Nil
    PROVE  t \notin Inserted /\ t \notin Erased
  BY DEF Inserted, Erased

\* Exchanges that fail, and answers.
LEMMA SnipFails ==
    ASSUME ListInv, NEW t \in Threads, Snip(t), ~Finds(th[t].pred, th[t].lvl, Link(th[t].curr, FALSE))
    PROVE  ListInv'
<1>1. /\ th[t].pc \in Searching /\ Local(t, StartFind(th[t]))
      /\ UNCHANGED <<node, size, retired, deleted, present, seen>>
  BY DEF Snip, Searching
<1> QED
  BY <1>1, StartGood, GoodStep

LEMMA InsertFoundStep ==
    ASSUME ListInv, NEW t \in Threads, InsertFound(t)
    PROVE  ListInv'
<1>1. /\ th[t].pc = "found" /\ th[t].mine = Nil /\ Found(th[t]) /\ Local(t, Reply(th[t], "in"))
      /\ UNCHANGED <<node, size, retired, deleted, present, seen>>
  BY DEF InsertFound
<1>2. TRUE \in seen[t]
  BY <1>1, ListFacts DEF AnswerInv
<1>3. GoodLocal(t, Reply(th[t], "in"))
  BY <1>1, <1>2, NotCounted, ReplyGood
<1> QED
  BY <1>1, <1>3, GoodStep

LEMMA InsertBottomFails ==
    ASSUME ListInv, NEW t \in Threads, InsertBottom(t), ~MayLink(th[t], 0)
    PROVE  ListInv'
<1>1. /\ th[t].pc = "found" /\ Local(t, StartFind(th[t]))
      /\ UNCHANGED <<node, size, retired, deleted, present, seen>>
  BY DEF InsertBottom
<1> QED
  BY <1>1, StartGood, GoodStep

LEMMA InsertLevelFails ==
    ASSUME ListInv, NEW t \in Threads, InsertLevel(t), ~MayLink(th[t], th[t].at)
    PROVE  ListInv'
<1>1. /\ th[t].pc = "found" /\ Local(t, StartFind(th[t]))
      /\ UNCHANGED <<node, size, retired, deleted, present, seen>>
  BY DEF InsertLevel
<1> QED
  BY <1>1, StartGood, GoodStep

LEMMA EraseBottomFails ==
    ASSUME ListInv, NEW t \in Threads, EraseBottom(t), ~MayMark(th[t].mine)
    PROVE  ListInv'
<1>1. /\ th[t].pc = "mark" /\ Local(t, Reply(th[t], "out")) /\ Mark(th[t].mine, 0)
      /\ UNCHANGED <<node, size, retired, deleted, present, seen>>
  BY DEF EraseBottom, MayMark, Next0, Mark
<1>2. FALSE \in seen[t] /\ th[t].op = "erase"
  BY <1>1, ListFacts DEF AnswerInv, MineInv
<1>3. t \notin Inserted /\ t \notin Erased
  BY <1>1, <1>2 DEF Inserted, Erased
<1>4. GoodLocal(t, Reply(th[t], "out"))
  BY <1>1, <1>2, <1>3, ReplyGood
<1> QED
  BY <1>1, <1>4, GoodStep

LEMMA FindReturnStep ==
    ASSUME ListInv, NEW t \in Threads, FindReturn(t)
    PROVE  ListInv'
<1>1. PICK r, what : /\ r = th[t] /\ what = (IF Found(r) /\ ~node[r.curr].removed THEN "in" ELSE "out")
                     /\ r.pc = "found" /\ r.op = "find" /\ Local(t, Reply(r, what))
                     /\ UNCHANGED <<node, size, retired, deleted, present, seen>>
  BY DEF FindReturn
<1>2. /\ ListTypes /\ LinkInv /\ r \in ListLocals /\ SearchInv(r) /\ MineInv(r) /\ AnswerInv(r, seen[t])
  BY <1>1, ListFacts
<1>3. Found(r) => r.curr \in Nodes
  BY <1>1, <1>2, LocalsTypes, ListGiven, InvGiven DEF Found, SearchInv, OnList
<1>4. Found(r) /\ node[r.curr].removed => Mark(r.curr, 0)
  BY <1>2, <1>3 DEF LinkInv
<1>5. (what = "in" => TRUE \in seen[t]) /\ (what = "out" => FALSE \in seen[t]) /\ what \in {"in", "out"}
  BY <1>1, <1>2, <1>4 DEF AnswerInv
<1>6. t \notin Inserted /\ t \notin Erased
  BY <1>1 DEF Inserted, Erased
<1>7. GoodLocal(t, Reply(th[t], what))
  BY <1>1, <1>5, <1>6, ReplyGood
<1> QED
  BY <1>1, <1>7, GoodStep

LEMMA EraseFoundStep ==
    ASSUME ListInv, NEW t \in Threads, EraseFound(t)
    PROVE  ListInv'
<1>1. PICK r : /\ r = th[t] /\ r.pc = "found" /\ r.op = "erase" /\ r.mine = Nil
               /\ UNCHANGED <<node, size, retired, deleted, present, seen>>
  BY DEF EraseFound
<1>2. /\ ListTypes /\ LinkInv /\ r \in ListLocals /\ SearchInv(r) /\ MineInv(r) /\ AnswerInv(r, seen[t])
  BY <1>1, ListFacts
<1>3. CASE ~Found(r)
  <2>1. Local(t, Reply(th[t], "out")) /\ FALSE \in seen[t]
    BY <1>1, <1>2, <1>3 DEF EraseFound, AnswerInv
  <2>2. GoodLocal(t, Reply(th[t], "out"))
    BY <1>1, <2>1, NotCounted, ReplyGood
  <2> QED
    BY <1>1, <2>1, <2>2, GoodStep
<1>4. CASE Found(r)
  <2>1. PICK y : y = [r EXCEPT !.pc = "mark", !.mine = r.curr, !.at = Top(r.curr)] /\ Local(t, y)
    BY <1>1, <1>4 DEF EraseFound, Top
  <2>2. r.curr # Nil /\ Key(r.curr) = r.key /\ r.curr \in Nodes /\ r.curr = r.succs[0]
    BY <1>1, <1>2, <1>4, LocalsTypes, ListGiven, InvGiven DEF Found, SearchInv, OnList, Key
  <2>3. Top(r.curr) \in Int /\ Top(r.curr) \in 0 .. Top(r.curr) /\ r.curr \in Int
    BY <1>2, <2>2, NodeTypes
  <2>4. /\ y \in ListLocals /\ y.pc = "mark" /\ y.mine = r.curr /\ y.at = Top(r.curr) /\ y.op = "erase"
        /\ y.key = r.key /\ y.top = r.top /\ y.pred = r.pred /\ y.curr = r.curr /\ y.succ = r.succ
        /\ y.preds = r.preds /\ y.succs = r.succs /\ y.lvl = r.lvl
    BY <1>1, <1>2, <2>1, <2>3 DEF ListLocals
  <2>5. SearchInv(y)
    BY <1>1, <1>2, <2>4 DEF SearchInv, Searching
  <2>6. r.key # 0 /\ Head # r.curr
    BY <1>1, <1>2, <2>2 DEF SearchInv, LinkInv
  <2>7. MineInv(y)
    <3>1. \A l \in 0 .. Top(r.curr) : ~(l > Top(r.curr))
      BY <2>3
    <3> QED
      BY <2>2, <2>3, <2>4, <2>6, <3>1 DEF MineInv
  <2>8. AnswerInv(y, seen[t])
    BY <1>1, <1>2, <1>4, <2>4 DEF AnswerInv, Searching
  <2>9. Points(y) \subseteq Points(r)
    BY <2>4 DEF Points
  <2>10. t \notin Inserted /\ t \notin Erased
    BY <1>1, NotCounted
  <2>11. \A G \in SUBSET Nodes : Kept(G) => Points(y) \subseteq G \cup {Nil}
    BY <1>1, <2>9 DEF Kept
  <2>12. GoodLocal(t, y)
    BY <1>1, <2>4, <2>5, <2>7, <2>8, <2>10, <2>11 DEF GoodLocal
  <2> QED
    BY <1>1, <2>1, <2>12, GoodStep
<1> QED
  BY <1>3, <1>4

\* A step that changes the local variables of one thread, what it has seen, and
\* perhaps the count.
LEMMA OwnStep ==
    ASSUME ListInv, UNCHANGED <<node, retired, deleted, present>>,
           NEW t \in Threads, NEW r \in ListLocals, th' = [th EXCEPT ![t] = r],
           NEW y \in SUBSET BOOLEAN, seen' = [seen EXCEPT ![t] = y],
           size' \in Int, SizeInv', SearchInv(r), MineInv(r), AnswerInv(r, y), th[t].pc # "mark",
           \A G \in SUBSET Nodes : Kept(G) => Points(r) \subseteq G \cup {Nil}
    PROVE  ListInv'
<1>1. /\ Grows /\ Nodes' = Nodes
      /\ \A n : Key(n)' = Key(n) /\ Top(n)' = Top(n) /\ (Unremoved(n)' <=> Unremoved(n))
      /\ \A n, l : Ptr(n, l)' = Ptr(n, l) /\ Mark(n, l)' = Mark(n, l)
      /\ \A n, k : Leads(n, k)' <=> Leads(n, k)
      /\ LinkInv' /\ ChainInv'
  BY SameNodes DEF ListInv
<1>2. /\ th'[t] = r /\ (\A u \in Threads \ {t} : th'[u] = th[u])
      /\ seen' \in [Threads -> SUBSET BOOLEAN] /\ seen'[t] = y /\ \A u \in Threads \ {t} : seen'[u] = seen[u]
  BY DEF ListInv, ListTypes
<1>3. \A u \in Threads \ {t} : \A x, z : x = th[u] /\ z = seen'[u] => Sees(x, seen[u], z)
  <2> SUFFICES ASSUME NEW u \in Threads \ {t}, NEW x, NEW z, x = th[u], z = seen[u]
               PROVE  Sees(x, seen[u], z)
    BY <1>2
  <2>1. AnswerInv(x, z)
    BY ListFacts
  <2> QED
    BY <1>1, <2>1 DEF Sees, AnswerInv
<1>4. SearchInv(r)' /\ MineInv(r)'
  BY <1>1, SearchStable, MineStable DEF ListInv
<1>6. AnswerInv(r, y)'
  BY <1>1, AnswerStable DEF ListInv, AnswerInv
<1>7. ThreadsInv' /\ th' \in [Threads -> ListLocals]
  BY <1>1, <1>2, <1>3, <1>4, <1>6, ThreadsStep DEF ListInv
<1>8. ListTypes'
  <2>1. \A n \in Nodes : NodeRec(Top(n))' = NodeRec(Top(n))
    BY <1>1 DEF NodeRec
  <2> QED
    BY <1>1, <1>2, <1>7, <2>1 DEF ListInv, ListTypes
<1>9. PresentInv'
  BY <1>1 DEF ListInv, PresentInv, Holds
<1>12. MarkInv'
  <2>1. ASSUME NEW n \in Nodes, NEW l \in 0 .. Top(n), Mark(n, l), ~Mark(n, 0)
        PROVE  \E u \in Threads : th'[u].pc = "mark" /\ th'[u].mine = n
    <3>1. PICK u \in Threads : th[u].pc = "mark" /\ th[u].mine = n
      BY <2>1 DEF ListInv, MarkInv
    <3> QED
      BY <1>2, <2>1, <3>1
  <2> QED
    BY <1>1, <2>1 DEF ListInv, MarkInv
<1>13. KeptInv'
  <2>1. PICK G \in SUBSET Nodes : Kept(G)
    BY DEF ListInv, KeptInv
  <2>2. \A u \in Threads : Points(th[u])' \subseteq G \cup {Nil}
    <3>1. \A u \in Threads \ {t} : Points(th[u]) \subseteq G \cup {Nil}
      BY <2>1 DEF Kept
    <3>2. Points(r) \subseteq G \cup {Nil}
      BY <2>1
    <3> QED
      BY <1>2, <3>1, <3>2 DEF Points
  <2>3. Kept(G)'
    BY <1>1, <2>1, <2>2 DEF Kept
  <2> QED
    BY <1>1, <2>3 DEF KeptInv
<1> QED
  BY <1>1, <1>7, <1>8, <1>9, <1>12, <1>13 DEF ListInv

\* The insertions and erasures under way, after a step of t.
LEMMA Counted ==
    ASSUME ListTypes, NEW t \in Threads, NEW r, th' = [th EXCEPT ![t] = r]
    PROVE  /\ r.op = "insert" /\ r.mine # Nil => Inserted' = Inserted \cup {t}
           /\ ~(r.op = "insert" /\ r.mine # Nil) => Inserted' = Inserted \ {t}
           /\ r.op = "erase" /\ r.mine # Nil /\ r.pc # "mark" => Erased' = Erased \cup {t}
           /\ ~(r.op = "erase" /\ r.mine # Nil /\ r.pc # "mark") => Erased' = Erased \ {t}
           /\ ~(r.op = "insert" /\ r.mine # Nil) /\ t \notin Inserted => Inserted' = Inserted
           /\ ~(r.op = "erase" /\ r.mine # Nil /\ r.pc # "mark") /\ t \notin Erased => Erased' = Erased
           /\ IsFiniteSet(Inserted) /\ IsFiniteSet(Erased)
           /\ Cardinality(Inserted) \in Nat /\ Cardinality(Erased) \in Nat
<1>1. th'[t] = r /\ (\A u \in Threads \ {t} : th'[u] = th[u])
  BY DEF ListTypes
<1>2. /\ r.op = "insert" /\ r.mine # Nil => Inserted' = Inserted \cup {t}
      /\ ~(r.op = "insert" /\ r.mine # Nil) => Inserted' = Inserted \ {t}
  BY <1>1 DEF Inserted
<1>3. /\ r.op = "erase" /\ r.mine # Nil /\ r.pc # "mark" => Erased' = Erased \cup {t}
      /\ ~(r.op = "erase" /\ r.mine # Nil /\ r.pc # "mark") => Erased' = Erased \ {t}
  BY <1>1 DEF Erased
<1>4. Inserted \subseteq Threads /\ Erased \subseteq Threads
  BY DEF Inserted, Erased
<1>6. (t \notin Inserted => Inserted \ {t} = Inserted) /\ (t \notin Erased => Erased \ {t} = Erased)
  OBVIOUS
<1>5. IsFiniteSet(Inserted) /\ IsFiniteSet(Erased)
  BY <1>4, ListGiven, FS_Subset
<1> QED
  BY <1>2, <1>3, <1>5, <1>6, FS_CardinalityType

\* The keys are finitely many.
LEMMA PresentFinite ==
    ASSUME ListTypes
    PROVE  IsFiniteSet(present) /\ Cardinality(present) \in Nat
<1>1. IsFiniteSet(Keys)
  BY ListGiven, FS_Interval DEF Keys
<1>2. present \subseteq Keys
  BY DEF ListTypes
<1> QED
  BY <1>1, <1>2, FS_Subset, FS_CardinalityType

\* An operation is called.
LEMMA CallStep ==
    ASSUME ListInv, NEW t \in Threads, NEW op \in {"insert", "erase", "find", "contains"}, NEW k \in Keys,
           NEW top \in Levels, Call(t, op, k, top)
    PROVE  ListInv'
<1>1. PICK i \in ListLocals : i = Idle
  BY IdleList, ListGiven, InvGiven
<1>2. PICK y : y = {b \in BOOLEAN : b <=> k \in present}
  OBVIOUS
<1>3. PICK j : j = [i EXCEPT !.op = op, !.key = k, !.top = top]
  OBVIOUS
<1>16. PICK r : r = [j EXCEPT !.pc = "find", !.lvl = MaxLevel, !.pred = Head]
  OBVIOUS
<1>0. r = StartFind([Idle EXCEPT !.op = op, !.key = k, !.top = top])
  BY <1>1, <1>3, <1>16 DEF StartFind
<1>4. /\ th[t].pc = "idle" /\ th' = [th EXCEPT ![t] = r] /\ seen' = [seen EXCEPT ![t] = y]
      /\ UNCHANGED <<node, size, retired, deleted, present>>
  BY <1>0, <1>2 DEF Call, Local
<1>5. Head \in Int /\ MaxLevel \in Levels /\ k \in 0 .. MaxKey /\ 0 < k /\ k \in Nat
  BY ListGiven DEF ListInv, Head, Levels, Keys
<1>6. /\ r \in ListLocals /\ r.op = op /\ r.key = k /\ r.pc = "find" /\ r.lvl = MaxLevel /\ r.pred = Head
      /\ r.mine = i.mine /\ r.curr = i.curr /\ r.succ = i.succ /\ r.preds = i.preds /\ r.succs = i.succs
  <2>1. /\ j \in ListLocals /\ j.op = op /\ j.key = k
        /\ j.mine = i.mine /\ j.curr = i.curr /\ j.succ = i.succ /\ j.preds = i.preds /\ j.succs = i.succs
    BY <1>1, <1>3, <1>5, ZenonT(60) DEF ListLocals
  <2> QED
    BY <1>5, <1>16, <2>1 DEF ListLocals
<1>7. /\ i.mine = Nil /\ Points(i) \subseteq {Head, Nil}
      /\ \A l \in Levels : i.preds[l] = Head /\ i.succs[l] = Nil
  <2>1. \A l \in Levels : i.preds[l] = Head /\ i.succs[l] = Nil
    BY <1>1 DEF Idle
  <2> QED
    BY <1>1, <2>1, IdleList, ListGiven, InvGiven
<1>8. ListTypes /\ LinkInv /\ SearchInv(th[t]) /\ ChainInv /\ PresentInv /\ SizeInv
  BY ListFacts DEF ListInv
<1>9. Points(r) \subseteq {Head, Nil}
  BY <1>6, <1>7 DEF Points
<1>10. SearchInv(r)
  <2>1. Head \in Nodes /\ Key(Head) = 0 /\ \A l \in Levels : OnList(Head, l)
    BY <1>8, HeadFacts
  <2> QED
    BY <1>5, <1>6, <1>7, <2>1 DEF SearchInv, Searching
<1>11. MineInv(r)
  BY <1>6, <1>7 DEF MineInv
<1>12. AnswerInv(r, y)
  <2>1. k \in present => Leads(Head, k)
    BY <1>5, <1>8, HeadFacts, UnremovedLeads
  <2>2. (k \in present => TRUE \in y) /\ (k \notin present => FALSE \in y)
    BY <1>2
  <2> QED
    BY <1>6, <2>1, <2>2 DEF AnswerInv
<1>13. SizeInv'
  <2>1. th[t].mine = Nil
    BY <1>4, <1>8 DEF SearchInv
  <2>2. t \notin Inserted /\ t \notin Erased
    BY <2>1, NotCounted
  <2>3. Inserted' = Inserted /\ Erased' = Erased
    BY <1>4, <1>6, <1>7, <1>8, <2>2, Counted
  <2> QED
    BY <1>4, <1>8, <2>3 DEF SizeInv
<1>14. y \in SUBSET BOOLEAN /\ size' \in Int
  BY <1>2, <1>4, <1>8 DEF ListTypes
<1>15. \A G \in SUBSET Nodes : Kept(G) => Points(r) \subseteq G \cup {Nil}
  BY <1>8, <1>9, KeptHead
<1> QED
  BY <1>4, <1>6, <1>10, <1>11, <1>12, <1>13, <1>14, <1>15, OwnStep

\* An operation returns.
LEMMA ReturnStep ==
    ASSUME ListInv, NEW t \in Threads, Return(t)
    PROVE  ListInv'
<1>1. PICK r \in ListLocals : r = Idle
  BY IdleList, ListGiven, InvGiven
<1>2. PICK y \in SUBSET BOOLEAN : y = {}
  OBVIOUS
<1>3. /\ th[t].pc = "reply" /\ th' = [th EXCEPT ![t] = r] /\ seen' = [seen EXCEPT ![t] = y]
      /\ UNCHANGED <<node, size, retired, deleted, present>>
  BY <1>1, <1>2 DEF Return, Local
<1>4. r.pc = "idle" /\ r.op = "none" /\ r.mine = Nil /\ Points(r) \subseteq {Head, Nil}
  BY <1>1, IdleList, ListGiven, InvGiven
<1>5. ListTypes /\ LinkInv /\ SearchInv(th[t]) /\ SizeInv
  BY ListFacts DEF ListInv
<1>6. SearchInv(r) /\ MineInv(r) /\ AnswerInv(r, y)
  BY <1>4 DEF SearchInv, MineInv, AnswerInv, Searching
<1>7. SizeInv'
  <2>1. th[t].mine = Nil
    BY <1>3, <1>5 DEF SearchInv
  <2>2. t \notin Inserted /\ t \notin Erased
    BY <2>1, NotCounted
  <2>3. Inserted' = Inserted /\ Erased' = Erased
    BY <1>3, <1>4, <1>5, <2>2, Counted
  <2> QED
    BY <1>3, <1>5, <2>3 DEF SizeInv
<1>8. size' \in Int
  BY <1>3, <1>5 DEF ListTypes
<1>9. \A G \in SUBSET Nodes : Kept(G) => Points(r) \subseteq G \cup {Nil}
  BY <1>4, <1>5, KeptHead
<1> QED
  BY <1>3, <1>6, <1>7, <1>8, <1>9, OwnStep

\* An operation that has changed the set and is counted.
LEMMA ChangedStep ==
    ASSUME ListInv, NEW t \in Threads, th[t].pc = "found", Local(t, Reply(th[t], "changed")),
           UNCHANGED <<node, retired, deleted, present, seen>>, size' \in Int, SizeInv'
    PROVE  ListInv'
<1>1. /\ th[t] \in ListLocals /\ AnswerInv(th[t], seen[t]) /\ ListTypes /\ LinkInv
      /\ seen[t] \in SUBSET BOOLEAN
  BY ListFacts
<1>2. PICK r, y : r = Reply(th[t], "changed") /\ y = seen[t]
  OBVIOUS
<1>3. /\ r \in ListLocals /\ r.pc = "reply" /\ r.op = th[t].op /\ r.key = th[t].key /\ r.says = "changed"
      /\ r.mine = Nil /\ Points(r) \subseteq {Head, Nil}
  BY <1>1, <1>2, ReplyIs, ListGiven, InvGiven
<1>4. th' = [th EXCEPT ![t] = r] /\ seen' = [seen EXCEPT ![t] = y]
  BY <1>2 DEF Local, ListInv, ListTypes
<1>5. SearchInv(r) /\ MineInv(r)
  BY <1>3 DEF SearchInv, MineInv, Searching
<1>6. AnswerInv(r, y)
  BY <1>1, <1>2, <1>3 DEF AnswerInv, Searching
<1>7. \A G \in SUBSET Nodes : Kept(G) => Points(r) \subseteq G \cup {Nil}
  BY <1>1, <1>3, KeptHead
<1> QED
  BY <1>1, <1>2, <1>3, <1>4, <1>5, <1>6, <1>7, OwnStep

\* increment_size and decrement_size.
LEMMA InsertCountStep ==
    ASSUME ListInv, NEW t \in Threads, InsertCount(t)
    PROVE  ListInv'
<1>1. /\ th[t].pc = "found" /\ th[t].op = "insert" /\ th[t].mine # Nil /\ size' = size + 1
      /\ Local(t, Reply(th[t], "changed")) /\ UNCHANGED <<node, retired, deleted, present, seen>>
  BY DEF InsertCount
<1>2. ListTypes /\ SizeInv /\ th[t] \in ListLocals /\ size \in Int
  BY ListFacts DEF ListInv, ListTypes
<1>3. PICK r : r = Reply(th[t], "changed") /\ r.mine = Nil
  BY <1>2, ReplyIs, ListGiven, InvGiven
<1>4. t \in Inserted /\ t \notin Erased
  BY <1>1 DEF Inserted, Erased
<1>5. th' = [th EXCEPT ![t] = r]
  BY <1>1, <1>3 DEF Local
<1>6. Inserted' = Inserted \ {t} /\ Erased' = Erased
  BY <1>2, <1>3, <1>4, <1>5, Counted
<1>7. /\ Cardinality(Inserted') = Cardinality(Inserted) - 1 /\ Cardinality(Inserted) \in Nat
      /\ Cardinality(Erased) \in Nat /\ Cardinality(present) \in Nat
  BY <1>2, <1>4, <1>5, <1>6, Counted, FS_RemoveElement, PresentFinite
<1>8. SizeInv'
  BY <1>1, <1>2, <1>6, <1>7 DEF SizeInv
<1> QED
  BY <1>1, <1>2, <1>8, ChangedStep

LEMMA EraseCountStep ==
    ASSUME ListInv, NEW t \in Threads, EraseCount(t)
    PROVE  ListInv'
<1>1. /\ th[t].pc = "found" /\ th[t].op = "erase" /\ th[t].mine # Nil /\ size' = size - 1
      /\ Local(t, Reply(th[t], "changed")) /\ UNCHANGED <<node, retired, deleted, present, seen>>
  BY DEF EraseCount
<1>2. ListTypes /\ SizeInv /\ th[t] \in ListLocals /\ size \in Int
  BY ListFacts DEF ListInv, ListTypes
<1>3. PICK r : r = Reply(th[t], "changed") /\ r.mine = Nil
  BY <1>2, ReplyIs, ListGiven, InvGiven
<1>4. t \notin Inserted /\ t \in Erased
  BY <1>1 DEF Inserted, Erased
<1>5. th' = [th EXCEPT ![t] = r]
  BY <1>1, <1>3 DEF Local
<1>6. Inserted' = Inserted /\ Erased' = Erased \ {t}
  BY <1>2, <1>3, <1>4, <1>5, Counted
<1>7. /\ Cardinality(Erased') = Cardinality(Erased) - 1 /\ Cardinality(Inserted) \in Nat
      /\ Cardinality(Erased) \in Nat /\ Cardinality(present) \in Nat
  BY <1>2, <1>4, <1>5, <1>6, Counted, FS_RemoveElement, PresentFinite
<1>8. SizeInv'
  BY <1>1, <1>2, <1>6, <1>7 DEF SizeInv
<1> QED
  BY <1>1, <1>2, <1>8, ChangedStep

-----------------------------------------------------------------------------
(* Steps that change a link.                                               *)

\* A step that changes links, and what one thread knows, but not the set.
LEMMA NodeStep ==
    ASSUME ListInv, NEW t \in Threads, NEW r \in ListLocals, th' = [th EXCEPT ![t] = r],
           UNCHANGED <<size, deleted, present, seen>>,
           Grows, Nodes' = Nodes, node' = [n \in Nodes' |-> node'[n]],
           \A n \in Nodes : node'[n] \in NodeRec(Top(n)'),
           LinkInv', ChainInv', retired' \subseteq Nodes,
           \A n \in retired' \ retired : \E l \in 0 .. Top(n) : Mark(n, l),
           \A n \in Nodes : Mark(n, 0)' <=> Mark(n, 0),
           \A n \in Nodes : \A l \in 0 .. Top(n) :
              Mark(n, l)' => Mark(n, l) \/ (r.pc = "mark" /\ r.mine = n),
           \A n \in Nodes : \A k : Leads(n, k) => Leads(n, k)',
           NEW y, y = seen[t], SearchInv(r)', MineInv(r)', AnswerInv(r, y)',
           (r.op = "insert" /\ r.mine # Nil) <=> t \in Inserted,
           (r.op = "erase" /\ r.mine # Nil /\ r.pc # "mark") <=> t \in Erased,
           th[t].pc = "mark" => (r.pc = "mark" /\ r.mine = th[t].mine) \/ Mark(th[t].mine, 0),
           \A G \in SUBSET Nodes : Kept(G) => Points(r) \subseteq G \cup {Nil},
           \A n \in Nodes : \A l \in 0 .. Top(n) :
              \/ Ptr(n, l)' = Ptr(n, l)
              \/ \A G \in SUBSET Nodes : Kept(G) => Ptr(n, l)' \in G \cup {Nil}
    PROVE  ListInv'
<1>1. ListTypes /\ ThreadsInv /\ PresentInv /\ SizeInv /\ MarkInv /\ KeptInv
  BY DEF ListInv
<1>2. /\ th'[t] = r /\ (\A u \in Threads \ {t} : th'[u] = th[u])
      /\ seen' = seen /\ seen' \in [Threads -> SUBSET BOOLEAN] /\ y = seen'[t]
  BY <1>1 DEF ListTypes
<1>3. \A u \in Threads : \A x, z : x = th[u] /\ z = seen'[u] => Sees(x, seen[u], z)
  <2> SUFFICES ASSUME NEW u \in Threads, NEW x, NEW z, x = th[u], z = seen[u]
               PROVE  Sees(x, seen[u], z)
    BY <1>2
  <2>1. AnswerInv(x, z)
    BY ListFacts
  <2> QED
    BY <1>1, <2>1 DEF Sees, AnswerInv
<1>4. ThreadsInv' /\ th' \in [Threads -> ListLocals]
  BY <1>1, <1>2, <1>3, ThreadsStep
<1>5. \A n \in Nodes : Key(n)' = Key(n) /\ Top(n)' = Top(n)
  BY DEF Grows
<1>6. ListTypes'
  <2>1. ASSUME NEW n \in Nodes' PROVE Top(n)' \in Levels /\ (node[n] \in NodeRec(Top(n)))'
    BY <1>1, <1>5 DEF ListTypes, NodeRec
  <2> QED
    BY <1>1, <1>2, <1>4, <2>1 DEF ListTypes
<1>7. PresentInv'
  BY <1>1, <1>5 DEF PresentInv, Holds, Unremoved
<1>8. Inserted' = Inserted /\ Erased' = Erased
  <2>1. \A u \in Threads : u \in Inserted' <=> u \in Inserted
    BY <1>2 DEF Inserted
  <2>2. \A u \in Threads : u \in Erased' <=> u \in Erased
    BY <1>2 DEF Erased
  <2>3. Inserted' \subseteq Threads /\ Inserted \subseteq Threads /\ Erased' \subseteq Threads /\ Erased \subseteq Threads
    BY DEF Inserted, Erased
  <2> QED
    BY <2>1, <2>2, <2>3
<1>9. SizeInv'
  BY <1>1, <1>8 DEF SizeInv
<1>10. MarkInv'
  <2>1. ASSUME NEW n \in Nodes, NEW l \in 0 .. Top(n), Mark(n, l)', ~Mark(n, 0)
        PROVE  \E u \in Threads : th'[u].pc = "mark" /\ th'[u].mine = n
    <3>1. CASE r.pc = "mark" /\ r.mine = n
      BY <1>2, <3>1
    <3>2. CASE Mark(n, l)
      <4>1. PICK u \in Threads : th[u].pc = "mark" /\ th[u].mine = n
        BY <1>1, <2>1, <3>2 DEF MarkInv
      <4> QED
        BY <1>2, <2>1, <4>1
    <3> QED
      BY <2>1, <3>1, <3>2
  <2>2. ASSUME NEW n \in retired' PROVE \E l \in 0 .. Top(n)' : Mark(n, l)'
    <3>1. n \in Nodes /\ \E l \in 0 .. Top(n) : Mark(n, l)
      BY <1>1 DEF MarkInv
    <3> QED
      BY <1>5, <3>1 DEF Grows
  <2> QED
    BY <1>5, <2>1, <2>2 DEF MarkInv
<1>11. KeptInv'
  <2>1. PICK G \in SUBSET Nodes : Kept(G)
    BY <1>1 DEF KeptInv
  <2>2. \A u \in Threads : Points(th[u])' \subseteq G \cup {Nil}
    <3>1. \A u \in Threads \ {t} : Points(th[u]) \subseteq G \cup {Nil}
      BY <2>1 DEF Kept
    <3>2. Points(r) \subseteq G \cup {Nil}
      BY <2>1
    <3> QED
      BY <1>2, <3>1, <3>2 DEF Points
  <2>3. ASSUME NEW n \in G, NEW l \in 0 .. Top(n), Ptr(n, l)' # Nil PROVE Ptr(n, l)' \in G
    BY <2>1, <2>3 DEF Kept
  <2>4. G \subseteq Nodes' \ deleted' /\ \A n \in Nodes' : Unremoved(n)' => n \in G
    BY <2>1 DEF Kept, Unremoved
  <2>5. Kept(G)'
    BY <1>5, <2>1, <2>2, <2>3, <2>4 DEF Kept
  <2> QED
    BY <2>5 DEF KeptInv
<1> QED
  BY <1>4, <1>6, <1>7, <1>9, <1>10, <1>11 DEF ListInv

\* The bottom level does not change.
LEMMA BottomSame ==
    ASSUME ChainInv, Nodes' = Nodes,
           \A n \in Nodes : /\ Key(n)' = Key(n) /\ Ptr(n, 0)' = Ptr(n, 0)
                            /\ (Mark(n, 0)' <=> Mark(n, 0))
    PROVE  ChainInv' /\ \A n \in Nodes : \A k : Leads(n, k) => Leads(n, k)'
<1>1. PICK R \in SUBSET Nodes : Chain(R)
  BY DEF ChainInv
<1>2. Chain(R)'
  <2>1. \A m, n \in R : Key(m) < Key(n) => Ptr(m, 0) \in Nodes
    BY <1>1 DEF Chain
  <2> QED
    BY <1>1, <2>1 DEF Chain, Unremoved
<1>3. ASSUME NEW n \in Nodes, NEW k, Leads(n, k) PROVE Leads(n, k)'
  <2>1. PICK S \in SUBSET Nodes : n \in S /\ Leading(S, k)
    BY <1>3 DEF Leads
  <2>2. Leading(S, k)'
    BY <2>1 DEF Leading, Unremoved
  <2> QED
    BY <2>1, <2>2 DEF Leads
<1> QED
  BY <1>2, <1>3 DEF ChainInv

\* What a thread relies on outlives a step that does not change the set.
LEMMA GoodStable ==
    ASSUME ListInv, Grows, UNCHANGED present, NEW t \in Threads, NEW r, GoodLocal(t, r),
           \A n \in Nodes : Mark(n, 0)' <=> Mark(n, 0),
           \A n \in Nodes : \A k : Leads(n, k) => Leads(n, k)', NEW y, y = seen[t]
    PROVE  SearchInv(r)' /\ MineInv(r)' /\ AnswerInv(r, y)'
<1>1. ListTypes /\ r \in ListLocals /\ SearchInv(r) /\ MineInv(r) /\ AnswerInv(r, y)
  BY DEF ListInv, GoodLocal
<1>2. AnswerInv(r, y)'
  BY <1>1, AnswerStable, ZenonT(60) DEF AnswerInv
<1> QED
  BY <1>1, <1>2, SearchStable, MineStable

\* The links stay sorted when one of them is set.
LEMMA LinkChange ==
    ASSUME ListTypes, LinkInv, NEW p \in Nodes, NEW l \in 0 .. Top(p), NEW x \in Int, NEW b \in BOOLEAN,
           Nodes' = Nodes,
           \A n \in Nodes : /\ Key(n)' = Key(n) /\ Top(n)' = Top(n)
                            /\ node'[n].removed = node[n].removed,
           Ptr(p, l)' = x, Mark(p, l)' = b,
           \A n \in Nodes : \A j \in 0 .. Top(n) :
              n # p \/ j # l => Ptr(n, j)' = Ptr(n, j) /\ Mark(n, j)' = Mark(n, j),
           x # Nil => OnList(x, l) /\ Before(p, x, l),
           Mark(p, l) => b /\ x = Ptr(p, l),
           b => p # Head /\ (l = 0 => \A j \in 0 .. Top(p) : j > 0 => Mark(p, j))
    PROVE  LinkInv' /\ Grows
<1>1. /\ Nodes' = Nodes
      /\ \A n \in Nodes : /\ Key(n)' = Key(n) /\ Top(n)' = Top(n)
                          /\ node'[n].removed = node[n].removed
      /\ Ptr(p, l)' = x /\ Mark(p, l)' = b
      /\ \A n \in Nodes : \A j \in 0 .. Top(n) :
            n # p \/ j # l => Ptr(n, j)' = Ptr(n, j) /\ Mark(n, j)' = Mark(n, j)
  OBVIOUS
<1>2. Grows
  BY <1>1 DEF Grows
<1>3. /\ \A n \in Nodes : n \in Nat /\ Top(n) \in Nat /\ Key(n) \in Nat
      /\ Head \in Nodes /\ \A j \in Levels : j \in 0 .. Top(Head) /\ j \in Nat
      /\ \A n \in Nodes : 0 \in 0 .. Top(n)
  BY NodeTypes, ListGiven DEF LinkInv, Levels
<1>4. ASSUME NEW n \in Nodes, NEW j \in 0 .. Top(n), Ptr(n, j)' # Nil
      PROVE  OnList(Ptr(n, j), j)' /\ Before(n, Ptr(n, j), j)'
  <2>1. PICK m : m = Ptr(n, j)'
    OBVIOUS
  <2>2. OnList(m, j) /\ Before(n, m, j)
    <3>1. CASE n = p /\ j = l
      BY <1>1, <1>4, <2>1, <3>1
    <3>2. CASE ~(n = p /\ j = l)
      BY <1>1, <1>4, <2>1, <3>2 DEF LinkInv
    <3> QED
      BY <3>1, <3>2
  <2>3. m \in Nodes /\ j \in 0 .. Top(m)
    BY <1>3, <2>2 DEF OnList
  <2>4. OnList(m, j)'
    BY <1>1, <2>2, <2>3 DEF OnList
  <2>5. Mark(m, j) => Mark(m, j)'
    BY <1>2, <2>3 DEF Grows
  <2>6. Before(n, m, j)'
    BY <1>1, <2>2, <2>3, <2>5 DEF Before
  <2>7. OnList(Ptr(n, j), j)' /\ Before(n, Ptr(n, j), j)'
    BY <2>1, <2>4, <2>6 DEF OnList, Before, Key, Mark, Top
  <2> QED
    BY <2>7
<1>5. \A j \in Levels : ~Mark(Head, j)'
  BY <1>1, <1>3 DEF LinkInv
<1>6. ASSUME NEW n \in Nodes, Mark(n, 0)', NEW j \in 0 .. Top(n) PROVE Mark(n, j)'
  <2>1. CASE n = p /\ l = 0
    BY <1>1, <1>3, <1>6, <2>1
  <2>2. CASE ~(n = p /\ l = 0)
    <3>1. Mark(n, 0)
      BY <1>1, <1>3, <1>6, <2>2
    <3> QED
      BY <1>2, <3>1 DEF LinkInv, Grows
  <2> QED
    BY <2>1, <2>2
<1>7. \A n \in Nodes : node'[n].removed => Mark(n, 0)'
  BY <1>1, <1>2, <1>3 DEF LinkInv, Grows
<1>8. Key(Head)' = 0 /\ Top(Head)' = MaxLevel /\ \A n \in Nodes : n # Head => Key(n)' # 0
  BY <1>1, <1>3 DEF LinkInv
<1> QED
  BY <1>1, <1>2, <1>4, <1>5, <1>6, <1>7, <1>8 DEF LinkInv

\* One link of one node is set.
LEMMA LinkInvStep ==
    ASSUME ListTypes, LinkInv, NEW p \in Nodes, NEW l \in 0 .. Top(p), NEW x \in Int, NEW b \in BOOLEAN,
           node' = [node EXCEPT ![p].next[l] = Link(x, b)],
           x # Nil => OnList(x, l) /\ Before(p, x, l),
           Mark(p, l) => b /\ x = Ptr(p, l),
           b => p # Head /\ (l = 0 => \A j \in 0 .. Top(p) : j > 0 => Mark(p, j))
    PROVE  LinkInv' /\ Grows
<1>1. /\ Nodes' = Nodes
      /\ \A n \in Nodes : /\ Key(n)' = Key(n) /\ Top(n)' = Top(n)
                          /\ node'[n].removed = node[n].removed
      /\ Ptr(p, l)' = x /\ Mark(p, l)' = b
      /\ \A n \in Nodes : \A j \in 0 .. Top(n) :
            n # p \/ j # l => Ptr(n, j)' = Ptr(n, j) /\ Mark(n, j)' = Mark(n, j)
  BY LinkSet
<1> QED
  BY <1>1, LinkChange

\* The exchange that links a node at an upper level.
LEMMA InsertLevelLinks ==
    ASSUME ListInv, NEW t \in Threads, InsertLevel(t), MayLink(th[t], th[t].at)
    PROVE  ListInv'
<1>1. PICK r, y : /\ r = th[t] /\ y = seen[t] /\ r.pc = "found" /\ r.op = "insert" /\ r.mine # Nil
                  /\ r.at <= r.top /\ MayLink(r, r.at)
                  /\ SetLink(r.preds[r.at], r.at, Link(r.mine, FALSE))
                  /\ Local(t, [r EXCEPT !.at = r.at + 1])
                  /\ UNCHANGED <<size, retired, deleted, present, seen>>
  BY DEF InsertLevel
<1>2. PICK p, l, x, s : p = r.preds[r.at] /\ l = r.at /\ x = r.mine /\ s = [r EXCEPT !.at = r.at + 1]
  OBVIOUS
<1>3. /\ ListTypes /\ LinkInv /\ r \in ListLocals /\ SearchInv(r) /\ MineInv(r) /\ AnswerInv(r, y)
      /\ ChainInv /\ MarkInv
  BY <1>1, ListFacts DEF ListInv
<1>4. l \in Levels /\ l \in 1 .. r.top /\ l \in Int /\ r.top \in Nat /\ x \in Int
  <2>1. r.top \in Levels /\ r.top \in Nat /\ r.at \in Int /\ r.mine \in Int
    BY <1>3, LocalsTypes, ListGiven, InvGiven
  <2>2. r.at \in 1 .. r.top + 1
    BY <1>1, <1>3 DEF MineInv
  <2>3. l \in 1 .. r.top
    BY <1>1, <1>2, <2>1, <2>2
  <2>4. l \in Levels
    BY <1>3, <2>1, <2>3, ListGiven DEF Levels
  <2> QED
    BY <1>2, <2>1, <2>3, <2>4
<1>5. /\ x \in Nodes /\ Key(x) = r.key /\ Top(x) = r.top /\ p \in Nodes /\ OnList(p, l) /\ Key(p) < r.key
  BY <1>1, <1>2, <1>3, <1>4 DEF MineInv, SearchInv, OnList
<1>6. l \in 0 .. Top(p) /\ OnList(x, l) /\ Before(p, x, l)
  BY <1>3, <1>4, <1>5, NodeTypes, SMTT(40) DEF OnList, Before
<1>7. node' = [node EXCEPT ![p].next[l] = Link(x, FALSE)]
  BY <1>1, <1>2 DEF SetLink
<1>8. ~Mark(p, l)
  <2>1. node[p].next[l] = Link(r.succs[l], FALSE)
    BY <1>1, <1>2 DEF MayLink, Finds, Next0
  <2> QED
    BY <2>1 DEF Link, Mark
<1>9. LinkInv' /\ Grows
  BY <1>3, <1>4, <1>5, <1>6, <1>7, <1>8, LinkInvStep
<1>10. /\ Nodes' = Nodes /\ node' = [n \in Nodes' |-> node'[n]]
       /\ \A n \in Nodes : /\ Key(n)' = Key(n) /\ Top(n)' = Top(n)
                           /\ node'[n] \in NodeRec(Top(n)')
       /\ Ptr(p, l)' = x /\ Mark(p, l)' = FALSE
       /\ \A n \in Nodes : \A j \in 0 .. Top(n) :
             n # p \/ j # l => Ptr(n, j)' = Ptr(n, j) /\ Mark(n, j)' = Mark(n, j)
  BY <1>3, <1>4, <1>5, <1>6, <1>7, LinkSet
<1>11. \A n \in Nodes : \A j \in 0 .. Top(n) : Mark(n, j)' <=> Mark(n, j)
  BY <1>8, <1>10
<1>12. \A n \in Nodes : Ptr(n, 0)' = Ptr(n, 0) /\ (Mark(n, 0)' <=> Mark(n, 0))
  BY <1>3, <1>4, <1>10, <1>11, NodeTypes
<1>13. ChainInv' /\ \A n \in Nodes : \A k : Leads(n, k) => Leads(n, k)'
  BY <1>3, <1>10, <1>12, BottomSame
<1>14. /\ s \in ListLocals /\ s.pc = "found" /\ s.op = "insert" /\ s.mine = x /\ s.at = l + 1 /\ s.key = r.key
       /\ s.top = r.top /\ s.pred = r.pred /\ s.curr = r.curr /\ s.succ = r.succ
       /\ s.preds = r.preds /\ s.succs = r.succs /\ s.lvl = r.lvl
  BY <1>1, <1>2, <1>3, <1>4 DEF ListLocals
<1>15. SearchInv(s)
  BY <1>1, <1>3, <1>14 DEF SearchInv, Searching
<1>16. MineInv(s)
  <2>1. s.at \in 1 .. s.top + 1
    BY <1>4, <1>14
  <2> QED
    BY <1>1, <1>2, <1>3, <1>14, <2>1 DEF MineInv
<1>17. AnswerInv(s, y)
  BY <1>1, <1>3, <1>14 DEF AnswerInv, Searching, Found
<1>18. Points(s) = Points(r)
  BY <1>2, <1>14 DEF Points
<1>19. \A G \in SUBSET Nodes : Kept(G) => Points(s) \subseteq G \cup {Nil}
  BY <1>1, <1>18 DEF Kept
<1>20. t \in Inserted /\ t \notin Erased
  BY <1>1 DEF Inserted, Erased
<1>21. GoodLocal(t, s)
  BY <1>1, <1>2, <1>14, <1>15, <1>16, <1>17, <1>19, <1>20 DEF GoodLocal
<1>22. SearchInv(s)' /\ MineInv(s)' /\ AnswerInv(s, y)'
  BY <1>1, <1>9, <1>12, <1>13, <1>21, GoodStable
<1>23. \A G \in SUBSET Nodes : Kept(G) => x \in G \cup {Nil}
  BY <1>1, <1>2 DEF Kept, Points
<1>24. \A n \in Nodes : \A j \in 0 .. Top(n) :
         \/ Ptr(n, j)' = Ptr(n, j)
         \/ \A G \in SUBSET Nodes : Kept(G) => Ptr(n, j)' \in G \cup {Nil}
  BY <1>10, <1>23
<1>25. /\ th' = [th EXCEPT ![t] = s] /\ retired' \subseteq Nodes
       /\ \A n \in retired' \ retired : \E j \in 0 .. Top(n) : Mark(n, j)
       /\ (s.op = "insert" /\ s.mine # Nil) <=> t \in Inserted
       /\ (s.op = "erase" /\ s.mine # Nil /\ s.pc # "mark") <=> t \in Erased
       /\ th[t].pc = "mark" => (s.pc = "mark" /\ s.mine = th[t].mine) \/ Mark(th[t].mine, 0)
  BY <1>1, <1>2, <1>3, <1>14, <1>20 DEF Local, ListTypes
<1>26. /\ \A n \in Nodes : Mark(n, 0)' <=> Mark(n, 0)
       /\ \A n \in Nodes : \A j \in 0 .. Top(n) :
            Mark(n, j)' => Mark(n, j) \/ (s.pc = "mark" /\ s.mine = n)
       /\ \A n \in Nodes : node'[n] \in NodeRec(Top(n)')
       /\ \A n \in Nodes : \A j \in 0 .. Top(n) :
            \/ Ptr(n, j)' = Ptr(n, j)
            \/ \A G \in SUBSET Nodes : Kept(G) => Ptr(n, j)' \in G \cup {Nil}
  BY <1>10, <1>11, <1>12, <1>24
<1> QED
  BY <1>1, <1>9, <1>10, <1>13, <1>14, <1>19, <1>22, <1>25, <1>26, NodeStep

\* A link is marked.
LEMMA MarkSet ==
    ASSUME ListTypes, NEW p \in Nodes, NEW l \in 0 .. Top(p), node' = [node EXCEPT ![p].next[l].mark = TRUE]
    PROVE  node' = [node EXCEPT ![p].next[l] = Link(Ptr(p, l), TRUE)]
<1>1. PICK f : f = node[p].next[l] /\ f \in [ptr : Int, mark : BOOLEAN]
  BY NodeTypes
<1>2. [f EXCEPT !.mark = TRUE] = Link(f.ptr, TRUE)
  <2>1. f = [ptr |-> f.ptr, mark |-> f.mark]
    BY <1>1
  <2>2. PICK g : g = [f EXCEPT !.mark = TRUE]
    OBVIOUS
  <2>3. g \in [ptr : Int, mark : BOOLEAN] /\ g.ptr = f.ptr /\ g.mark = TRUE
    BY <1>1, <2>2
  <2>4. g = [ptr |-> g.ptr, mark |-> g.mark]
    BY <2>3
  <2> QED
    BY <2>2, <2>3, <2>4 DEF Link
<1>3. node' = [node EXCEPT ![p].next[l] = [f EXCEPT !.mark = TRUE]]
  BY <1>1, SMTT(40)
<1> QED
  BY <1>1, <1>2, <1>3 DEF Ptr

\* erase marks an upper link.
LEMMA EraseMarkStep ==
    ASSUME ListInv, NEW t \in Threads, EraseMark(t)
    PROVE  ListInv'
<1>1. PICK r, y : /\ r = th[t] /\ y = seen[t] /\ r.pc = "mark" /\ r.at > 0
                  /\ node' = [node EXCEPT ![r.mine].next[r.at].mark = TRUE]
                  /\ Local(t, [r EXCEPT !.at = r.at - 1])
                  /\ UNCHANGED <<size, retired, deleted, present, seen>>
  BY DEF EraseMark
<1>2. PICK p, l, x, s : p = r.mine /\ l = r.at /\ x = Ptr(r.mine, r.at) /\ s = [r EXCEPT !.at = r.at - 1]
  OBVIOUS
<1>3. /\ ListTypes /\ LinkInv /\ r \in ListLocals /\ SearchInv(r) /\ MineInv(r) /\ AnswerInv(r, y)
      /\ ChainInv /\ MarkInv
  BY <1>1, ListFacts DEF ListInv
<1>4. p \in Nodes /\ p # Head /\ l \in 0 .. Top(p) /\ l \in Int /\ l > 0 /\ Top(p) \in Nat /\ x \in Int
  <2>1. p \in Nodes /\ p # Head /\ l \in 0 .. Top(p)
    BY <1>1, <1>2, <1>3 DEF MineInv
  <2> QED
    BY <1>1, <1>2, <1>3, <2>1, NodeTypes
<1>5. node' = [node EXCEPT ![p].next[l] = Link(x, TRUE)]
  <2>1. node' = [node EXCEPT ![p].next[l].mark = TRUE] /\ x = Ptr(p, l)
    BY <1>1, <1>2
  <2> QED
    BY <1>3, <1>4, <2>1, MarkSet
<1>6. x # Nil => OnList(x, l) /\ Before(p, x, l)
  BY <1>2, <1>3, <1>4 DEF LinkInv
<1>9. LinkInv' /\ Grows
  <2>1. l # 0 /\ x = Ptr(p, l) /\ TRUE \in BOOLEAN
    BY <1>2, <1>4
  <2> QED
    BY <1>3, <1>4, <1>5, <1>6, <2>1, LinkInvStep
<1>10. /\ Nodes' = Nodes /\ node' = [n \in Nodes' |-> node'[n]]
       /\ \A n \in Nodes : /\ Key(n)' = Key(n) /\ Top(n)' = Top(n)
                           /\ node'[n] \in NodeRec(Top(n)')
       /\ Ptr(p, l)' = x /\ Mark(p, l)' = TRUE
       /\ \A n \in Nodes : \A j \in 0 .. Top(n) :
             n # p \/ j # l => Ptr(n, j)' = Ptr(n, j) /\ Mark(n, j)' = Mark(n, j)
  BY <1>3, <1>4, <1>5, LinkSet
<1>11. /\ \A n \in Nodes : \A j \in 0 .. Top(n) : Mark(n, j)' => Mark(n, j) \/ (n = p /\ j = l)
       /\ \A n \in Nodes : \A j \in 0 .. Top(n) : Ptr(n, j)' = Ptr(n, j)
  BY <1>2, <1>10
<1>12. \A n \in Nodes : Ptr(n, 0)' = Ptr(n, 0) /\ (Mark(n, 0)' <=> Mark(n, 0))
  BY <1>3, <1>4, <1>10, <1>11, NodeTypes
<1>13. ChainInv' /\ \A n \in Nodes : \A k : Leads(n, k) => Leads(n, k)'
  BY <1>3, <1>10, <1>12, BottomSame
<1>14. /\ s \in ListLocals /\ s.pc = "mark" /\ s.op = r.op /\ s.mine = p /\ s.at = l - 1 /\ s.key = r.key
       /\ s.top = r.top /\ s.pred = r.pred /\ s.curr = r.curr /\ s.succ = r.succ
       /\ s.preds = r.preds /\ s.succs = r.succs /\ s.lvl = r.lvl
  BY <1>1, <1>2, <1>3, <1>4 DEF ListLocals
<1>15. SearchInv(s)'
  <2>1. SearchInv(s)
    BY <1>1, <1>3, <1>14 DEF SearchInv, Searching
  <2> QED
    BY <1>3, <1>9, <1>14, <2>1, SearchStable
<1>16. MineInv(s)'
  <2>1. s.at \in 0 .. Top(p)
    BY <1>4, <1>14
  <2>2. ASSUME NEW j \in 0 .. Top(p), j > s.at PROVE Mark(p, j)'
    <3>1. CASE j = l
      BY <1>10, <3>1
    <3>2. CASE j # l
      <4>1. j > l /\ j \in Nat
        BY <1>4, <1>14, <2>2, <3>2
      <4>2. Mark(p, j)
        BY <1>1, <1>2, <1>3, <4>1 DEF MineInv
      <4> QED
        BY <1>4, <1>9, <4>2 DEF Grows
    <3> QED
      BY <3>1, <3>2
  <2>3. MineInv(r)'
    BY <1>3, <1>9, MineStable
  <2> QED
    <3>1. /\ s.mine # Nil => /\ s.mine \in Nodes' \ {Head} /\ Key(s.mine)' = s.key
                             /\ s.op \in {"insert", "erase"}
          /\ s.op = "erase" /\ s.mine # Nil
      BY <1>1, <1>2, <1>14, <2>3 DEF MineInv
    <3>2. /\ s.at \in 0 .. Top(s.mine)'
          /\ \A j \in 0 .. Top(s.mine)' : j > s.at => Mark(s.mine, j)'
      BY <1>4, <1>10, <1>14, <2>1, <2>2
    <3> QED
      BY <1>14, <3>1, <3>2 DEF MineInv
<1>17. AnswerInv(s, y)'
  <2>1. AnswerInv(r, y)'
    BY <1>1, <1>3, <1>9, <1>12, <1>13, AnswerStable DEF AnswerInv
  <2> QED
    BY <1>1, <1>2, <1>14, <2>1 DEF AnswerInv, Searching
<1>18. Points(s) = Points(r)
  BY <1>2, <1>14 DEF Points
<1>19. \A G \in SUBSET Nodes : Kept(G) => Points(s) \subseteq G \cup {Nil}
  BY <1>1, <1>18 DEF Kept
<1>20. t \notin Inserted /\ t \notin Erased /\ s.op = "erase"
  BY <1>1, <1>3, <1>14 DEF Inserted, Erased, MineInv
<1>25. /\ th' = [th EXCEPT ![t] = s] /\ retired' \subseteq Nodes
       /\ \A n \in retired' \ retired : \E j \in 0 .. Top(n) : Mark(n, j)
       /\ (s.op = "insert" /\ s.mine # Nil) <=> t \in Inserted
       /\ (s.op = "erase" /\ s.mine # Nil /\ s.pc # "mark") <=> t \in Erased
       /\ th[t].pc = "mark" => (s.pc = "mark" /\ s.mine = th[t].mine) \/ Mark(th[t].mine, 0)
  BY <1>1, <1>2, <1>3, <1>14, <1>20 DEF Local, ListTypes
<1>26. /\ \A n \in Nodes : Mark(n, 0)' <=> Mark(n, 0)
       /\ \A n \in Nodes : \A j \in 0 .. Top(n) :
            Mark(n, j)' => Mark(n, j) \/ (s.pc = "mark" /\ s.mine = n)
       /\ \A n \in Nodes : node'[n] \in NodeRec(Top(n)')
       /\ \A n \in Nodes : \A j \in 0 .. Top(n) :
            \/ Ptr(n, j)' = Ptr(n, j)
            \/ \A G \in SUBSET Nodes : Kept(G) => Ptr(n, j)' \in G \cup {Nil}
  BY <1>10, <1>11, <1>12, <1>14
<1> QED
  BY <1>1, <1>9, <1>10, <1>13, <1>14, <1>15, <1>16, <1>17, <1>19, <1>25, <1>26, NodeStep, ZenonT(60)

\* set_marked_for_removal.
LEMMA EraseFlagStep ==
    ASSUME ListInv, NEW t \in Threads, EraseFlag(t)
    PROVE  ListInv'
<1>1. PICK r, y, p, s : /\ r = th[t] /\ y = seen[t] /\ p = r.mine /\ s = StartFind(th[t]) /\ r.pc = "flag"
                        /\ node' = [node EXCEPT ![p].removed = TRUE] /\ Local(t, s)
                        /\ UNCHANGED <<size, retired, deleted, present, seen>>
  BY DEF EraseFlag
<1>2. /\ ListTypes /\ LinkInv /\ r \in ListLocals /\ SearchInv(r) /\ MineInv(r) /\ ChainInv
  BY <1>1, ListFacts DEF ListInv
<1>3. p \in Nodes /\ Mark(p, 0)
  BY <1>1, <1>2 DEF MineInv
<1>4. PICK a, q : a = node[p] /\ a \in NodeRec(Top(p)) /\ Top(p) = a.top /\ q = [a EXCEPT !.removed = TRUE]
  BY <1>2, <1>3 DEF ListTypes, Top
<1>5. q \in NodeRec(Top(p)) /\ q.next = a.next /\ q.key = a.key /\ q.top = a.top /\ q.removed = TRUE
  BY <1>4 DEF NodeRec
<1>6. node' = [node EXCEPT ![p] = q] /\ node = [n \in Nodes |-> node[n]]
  BY <1>1, <1>2, <1>4 DEF ListTypes
<1>7. /\ Nodes' = Nodes /\ node' = [n \in Nodes' |-> node'[n]]
      /\ node'[p] = q /\ \A n \in Nodes : n # p => node'[n] = node[n]
  BY <1>3, <1>6 DEF Nodes
<1>8. \A n \in Nodes : /\ Key(n)' = Key(n) /\ Top(n)' = Top(n)
                       /\ \A j : Ptr(n, j)' = Ptr(n, j) /\ Mark(n, j)' = Mark(n, j)
  BY <1>4, <1>5, <1>7 DEF Key, Top, Ptr, Mark
<1>9. \A n \in Nodes : node'[n] \in NodeRec(Top(n)')
  BY <1>2, <1>4, <1>5, <1>7, <1>8 DEF ListTypes
<1>10. Grows
  BY <1>7, <1>8 DEF Grows
<1>11. LinkInv'
  <2>1. \A n \in Nodes : node'[n].removed => Mark(n, 0)'
    BY <1>2, <1>3, <1>7, <1>8 DEF LinkInv
  <2>2. ASSUME NEW n \in Nodes, NEW j \in 0 .. Top(n), Ptr(n, j)' # Nil
        PROVE  OnList(Ptr(n, j), j)' /\ Before(n, Ptr(n, j), j)'
    <3>1. PICK m : m = Ptr(n, j) /\ m = Ptr(n, j)'
      BY <1>8
    <3>2. OnList(m, j) /\ Before(n, m, j)
      BY <1>2, <2>2, <3>1 DEF LinkInv
    <3>3. OnList(m, j)' /\ Before(n, m, j)'
      BY <1>7, <1>8, <3>2 DEF OnList, Before
    <3> QED
      BY <3>1, <3>3 DEF OnList, Before, Key, Mark, Top
  <2>3. Head \in Nodes
    BY <1>2, NodeTypes
  <2> QED
    BY <1>2, <1>7, <1>8, <2>1, <2>2, <2>3 DEF LinkInv
<1>12. ChainInv' /\ \A n \in Nodes : \A k : Leads(n, k) => Leads(n, k)'
  BY <1>2, <1>7, <1>8, BottomSame
<1>13. GoodLocal(t, s) /\ s \in ListLocals
  BY <1>1, StartGood DEF GoodLocal
<1>14. SearchInv(s)' /\ MineInv(s)' /\ AnswerInv(s, y)'
  BY <1>1, <1>8, <1>10, <1>12, <1>13, GoodStable
<1>15. /\ th' = [th EXCEPT ![t] = s] /\ retired' \subseteq Nodes
       /\ \A n \in retired' \ retired : \E j \in 0 .. Top(n) : Mark(n, j)
  BY <1>1, <1>2 DEF Local, ListTypes
<1>16. /\ (s.op = "insert" /\ s.mine # Nil) <=> t \in Inserted
       /\ (s.op = "erase" /\ s.mine # Nil /\ s.pc # "mark") <=> t \in Erased
       /\ th[t].pc = "mark" => (s.pc = "mark" /\ s.mine = th[t].mine) \/ Mark(th[t].mine, 0)
       /\ \A G \in SUBSET Nodes : Kept(G) => Points(s) \subseteq G \cup {Nil}
  BY <1>13 DEF GoodLocal
<1>17. /\ \A n \in Nodes : Mark(n, 0)' <=> Mark(n, 0)
       /\ \A n \in Nodes : \A j \in 0 .. Top(n) :
            Mark(n, j)' => Mark(n, j) \/ (s.pc = "mark" /\ s.mine = n)
       /\ \A n \in Nodes : \A j \in 0 .. Top(n) :
            \/ Ptr(n, j)' = Ptr(n, j)
            \/ \A G \in SUBSET Nodes : Kept(G) => Ptr(n, j)' \in G \cup {Nil}
  BY <1>8
<1> QED
  BY <1>1, <1>7, <1>9, <1>10, <1>11, <1>12, <1>13, <1>14, <1>15, <1>16, <1>17, NodeStep

\* A thread may stay where it is.
LEMMA StaysGood ==
    ASSUME ListInv, NEW t \in Threads
    PROVE  GoodLocal(t, th[t])
<1>1. \A G \in SUBSET Nodes : Kept(G) => Points(th[t]) \subseteq G \cup {Nil}
  BY DEF Kept
<1>2. t \in Inserted <=> (th[t].op = "insert" /\ th[t].mine # Nil)
  BY DEF Inserted
<1>3. t \in Erased <=> (th[t].op = "erase" /\ th[t].mine # Nil /\ th[t].pc # "mark")
  BY DEF Erased
<1> QED
  BY <1>1, <1>2, <1>3, ListFacts DEF GoodLocal

\* A node is taken out of a level.
LEMMA SnipSet ==
    ASSUME ListTypes, NEW p \in Nodes, NEW l \in 0 .. Top(p), NEW x \in Int, NEW c \in Nodes, c # p,
           node' = [node EXCEPT ![p].next[l] = Link(x, FALSE), ![c].links = @ - 1]
    PROVE  /\ Nodes' = Nodes /\ node' = [n \in Nodes' |-> node'[n]]
           /\ \A n \in Nodes : /\ Key(n)' = Key(n) /\ Top(n)' = Top(n)
                               /\ node'[n].removed = node[n].removed
                               /\ node'[n] \in NodeRec(Top(n)')
           /\ Ptr(p, l)' = x /\ Mark(p, l)' = FALSE
           /\ \A n \in Nodes : \A j \in 0 .. Top(n) :
                 n # p \/ j # l => Ptr(n, j)' = Ptr(n, j) /\ Mark(n, j)' = Mark(n, j)
<1>1. PICK r : r = node[p] /\ r \in NodeRec(Top(p)) /\ Top(p) = r.top
  BY DEF ListTypes, Top
<1>2. r.next \in [0 .. Top(p) -> [ptr : Int, mark : BOOLEAN]]
  BY <1>1 DEF NodeRec
<1>3. PICK f : f = [r.next EXCEPT ![l] = Link(x, FALSE)]
  OBVIOUS
<1>4. /\ f \in [0 .. Top(p) -> [ptr : Int, mark : BOOLEAN]]
      /\ f[l] = Link(x, FALSE) /\ \A j \in 0 .. Top(p) : j # l => f[j] = r.next[j]
  BY <1>2, <1>3 DEF Link
<1>5. PICK q : q = [r EXCEPT !.next = f]
  OBVIOUS
<1>6. /\ q \in NodeRec(Top(p)) /\ q.next = f /\ q.key = r.key /\ q.top = r.top
      /\ q.removed = r.removed
  BY <1>1, <1>4, <1>5 DEF NodeRec
<1>20. PICK a : a = node[c] /\ a \in NodeRec(Top(c)) /\ Top(c) = a.top
  BY DEF ListTypes, Top
<1>21. PICK d : d = [a EXCEPT !.links = @ - 1]
  OBVIOUS
<1>22. /\ d \in NodeRec(Top(c)) /\ d.next = a.next /\ d.key = a.key /\ d.top = a.top
       /\ d.removed = a.removed
  BY <1>20, <1>21 DEF NodeRec
<1>8. node = [n \in Nodes |-> node[n]]
  BY DEF ListTypes
<1>7. node' = [[node EXCEPT ![p] = q] EXCEPT ![c] = d]
  <2>1. PICK m : m = [node EXCEPT ![p] = q]
    OBVIOUS
  <2>2. m = [node EXCEPT ![p].next[l] = Link(x, FALSE)]
    BY <1>1, <1>3, <1>5, <2>1
  <2>3. m[c] = a
    BY <1>8, <1>20, <2>1
  <2>4. node' = [m EXCEPT ![c].links = @ - 1]
    BY <2>2
  <2> QED
    BY <1>21, <2>1, <2>3, <2>4
<1>9. /\ Nodes' = Nodes /\ node' = [n \in Nodes' |-> node'[n]]
      /\ node'[p] = q /\ node'[c] = d /\ \A n \in Nodes : n # p /\ n # c => node'[n] = node[n]
  BY <1>7, <1>8 DEF Nodes
<1>10. \A n \in Nodes : /\ Key(n)' = Key(n) /\ Top(n)' = Top(n)
                        /\ node'[n].removed = node[n].removed
  BY <1>1, <1>6, <1>9, <1>20, <1>22 DEF Key, Top
<1>11. \A n \in Nodes : node'[n] \in NodeRec(Top(n)')
  BY <1>1, <1>6, <1>9, <1>10, <1>20, <1>22 DEF ListTypes
<1>12. Ptr(p, l)' = x /\ Mark(p, l)' = FALSE
  <2>1. node'[p].next[l] = Link(x, FALSE)
    BY <1>4, <1>6, <1>9
  <2>2. Link(x, FALSE).ptr = x /\ Link(x, FALSE).mark = FALSE
    BY DEF Link
  <2>3. Ptr(p, l)' = node'[p].next[l].ptr /\ Mark(p, l)' = node'[p].next[l].mark
    BY DEF Ptr, Mark
  <2> QED
    BY <2>1, <2>2, <2>3
<1>13. \A n \in Nodes : \A j \in 0 .. Top(n) :
          n # p \/ j # l => Ptr(n, j)' = Ptr(n, j) /\ Mark(n, j)' = Mark(n, j)
  <2>1. \A j \in 0 .. Top(p) : j # l => Ptr(p, j)' = Ptr(p, j) /\ Mark(p, j)' = Mark(p, j)
    <3>1. \A j \in 0 .. Top(p) : j # l => node'[p].next[j] = node[p].next[j]
      BY <1>1, <1>4, <1>6, <1>9, ZenonT(60)
    <3> QED
      BY <3>1 DEF Ptr, Mark
  <2>2. \A j : Ptr(c, j)' = Ptr(c, j) /\ Mark(c, j)' = Mark(c, j)
    BY <1>9, <1>20, <1>22 DEF Ptr, Mark
  <2>3. \A n \in Nodes : n # p /\ n # c => \A j : Ptr(n, j)' = Ptr(n, j) /\ Mark(n, j)' = Mark(n, j)
    BY <1>9 DEF Ptr, Mark
  <2> QED
    BY <2>1, <2>2, <2>3
<1> QED
  BY <1>9, <1>10, <1>11, <1>12, <1>13

\* A removed node is taken out of the bottom level: the others stay in it.
LEMMA SnipChain ==
    ASSUME ListTypes, LinkInv, NEW R \in SUBSET Nodes, Chain(R), NEW p \in Nodes, NEW c \in Nodes,
           ~Mark(p, 0), Ptr(p, 0) = c, Mark(c, 0), Nodes' = Nodes,
           \A n \in Nodes : Key(n)' = Key(n) /\ (Mark(n, 0)' <=> Mark(n, 0)),
           \A n \in Nodes : n # p => Ptr(n, 0)' = Ptr(n, 0),
           Ptr(p, 0)' = Ptr(c, 0)
    PROVE  Chain(R \ {c})'
<1>1. p \in R /\ c \in R /\ Head # c /\ Key(p) < Key(c) /\ Head \in R
  <2>1. p \in R /\ Head \in R
    BY DEF Chain, Unremoved
  <2>2. c # Nil
    BY NodeTypes
  <2>3. c \in R
    BY <2>1, <2>2 DEF Chain
  <2>4. 0 \in 0 .. Top(p) /\ 0 \in Levels /\ Key(p) \in Nat /\ Key(c) \in Nat
    BY NodeTypes, ListGiven DEF Levels
  <2>5. Before(p, c, 0) /\ Head # c
    BY <2>2, <2>4 DEF LinkInv
  <2> QED
    BY <2>1, <2>3, <2>5 DEF Before
<1>2. \A n \in Nodes : Key(n) \in Nat
  BY NodeTypes
<1>3. Ptr(c, 0) # Nil => Ptr(c, 0) \in R /\ Key(c) < Key(Ptr(c, 0))
  <2>1. 0 \in 0 .. Top(c)
    BY NodeTypes
  <2>2. Ptr(c, 0) # Nil => Before(c, Ptr(c, 0), 0)
    BY <2>1 DEF LinkInv
  <2> QED
    BY <1>1, <2>2 DEF Chain, Before
<1>4. ASSUME NEW n \in R, n # p PROVE Ptr(n, 0) # c
  <2> SUFFICES ASSUME Ptr(n, 0) = c PROVE FALSE
    OBVIOUS
  <2>1. Key(n) < Key(c)
    <3>1. 0 \in 0 .. Top(n) /\ c # Nil
      BY NodeTypes
    <3> QED
      BY <3>1 DEF LinkInv, Before
  <2>2. Key(n) # Key(p)
    BY <1>1, <1>4 DEF Chain
  <2>3. Key(n) < Key(p) => Key(c) <= Key(p)
    BY <1>1 DEF Chain
  <2>4. Key(p) < Key(n) => Key(c) <= Key(n)
    BY <1>1 DEF Chain
  <2> QED
    BY <1>1, <1>2, <2>1, <2>2, <2>3, <2>4
<1>5. ASSUME NEW n \in R \ {c}, Ptr(n, 0)' # Nil PROVE Ptr(n, 0)' \in R \ {c}
  <2>1. CASE n = p
    BY <1>1, <1>2, <1>3, <1>5, <2>1
  <2>2. CASE n # p
    BY <1>4, <1>5, <2>2 DEF Chain
  <2> QED
    BY <2>1, <2>2
<1>6. ASSUME NEW m \in R \ {c}, NEW n \in R \ {c}, Key(m) < Key(n)
      PROVE  Ptr(m, 0)' # Nil /\ Key(Ptr(m, 0)') <= Key(n)
  <2>1. CASE m = p
    <3>1. Key(c) <= Key(n)
      BY <1>6, <2>1 DEF Chain
    <3>2. Key(c) # Key(n)
      BY <1>1 DEF Chain
    <3>3. Key(c) < Key(n)
      BY <1>2, <3>1, <3>2
    <3>4. Ptr(c, 0) # Nil /\ Key(Ptr(c, 0)) <= Key(n)
      BY <1>1, <3>3 DEF Chain
    <3> QED
      BY <2>1, <3>4
  <2>2. CASE m # p
    BY <1>6, <2>2 DEF Chain
  <2> QED
    BY <2>1, <2>2
<1>7. ASSUME NEW m \in R \ {c}, NEW n \in R \ {c}, Key(m)' < Key(n)'
      PROVE  Ptr(m, 0)' # Nil /\ Key(Ptr(m, 0))' <= Key(n)'
  <2>1. PICK a : a = Ptr(m, 0)'
    OBVIOUS
  <2>2. a # Nil /\ Key(a) <= Key(n)
    BY <1>6, <1>7, <2>1
  <2>3. a \in R
    BY <1>5, <2>1, <2>2
  <2>4. Key(a)' <= Key(n)'
    BY <2>2, <2>3
  <2> QED
    BY <2>1, <2>2, <2>4 DEF Key
<1>8. \A n \in Nodes' : Unremoved(n)' => n \in R \ {c}
  BY DEF Chain, Unremoved
<1>9. \A m, n \in R \ {c} : Key(m)' = Key(n)' => m = n
  BY DEF Chain
<1>10. R \ {c} \subseteq Nodes' /\ Head \in R \ {c}
  BY <1>1, SMTT(40)
<1> QED
  BY <1>5, <1>7, <1>8, <1>9, <1>10 DEF Chain

\* The exchange that takes a node out of a level.
LEMMA SnipTakes ==
    ASSUME ListInv, NEW t \in Threads, Snip(t), Finds(th[t].pred, th[t].lvl, Link(th[t].curr, FALSE))
    PROVE  ListInv'
<1>1. PICK r, y, p, c, l, x :
         /\ r = th[t] /\ y = seen[t] /\ p = r.pred /\ c = r.curr /\ l = r.lvl /\ x = r.succ
         /\ r.pc = "snip" /\ Finds(p, l, Link(c, FALSE))
         /\ node' = [node EXCEPT ![p].next[l] = Link(x, FALSE), ![c].links = @ - 1]
         /\ retired' \subseteq retired \cup {c} /\ UNCHANGED <<th, size, deleted, present, seen>>
  BY DEF Snip
<1>2. /\ ListTypes /\ LinkInv /\ r \in ListLocals /\ SearchInv(r) /\ ChainInv /\ r.lvl \in Nat /\ x \in Int
      /\ 0 \in Levels
  BY <1>1, ListFacts, LocalsTypes, ListGiven, InvGiven DEF ListInv
<1>3. /\ OnList(p, l) /\ OnList(c, l) /\ Mark(c, l) /\ Ptr(c, l) = x /\ p \in Nodes /\ c \in Nodes
  BY <1>1, <1>2 DEF SearchInv, Searching, OnList
<1>4. l \in 0 .. Top(p) /\ l \in 0 .. Top(c) /\ c # Nil
  BY <1>1, <1>2, <1>3, NodeTypes DEF OnList
<1>5. Ptr(p, l) = c /\ ~Mark(p, l)
  <2>1. node[p].next[l] = Link(c, FALSE)
    BY <1>1 DEF Finds, Next0
  <2> QED
    BY <2>1 DEF Link, Ptr, Mark
<1>6. c # p
  BY <1>3, <1>5
<1>7. /\ Nodes' = Nodes /\ node' = [n \in Nodes' |-> node'[n]]
      /\ \A n \in Nodes : /\ Key(n)' = Key(n) /\ Top(n)' = Top(n)
                          /\ node'[n].removed = node[n].removed
                          /\ node'[n] \in NodeRec(Top(n)')
      /\ Ptr(p, l)' = x /\ Mark(p, l)' = FALSE
      /\ \A n \in Nodes : \A j \in 0 .. Top(n) :
            n # p \/ j # l => Ptr(n, j)' = Ptr(n, j) /\ Mark(n, j)' = Mark(n, j)
  <2>1. node' = [node EXCEPT ![p].next[l] = Link(x, FALSE), ![c].links = @ - 1]
    BY <1>1
  <2> QED
    BY <1>2, <1>3, <1>4, <1>6, <2>1, SnipSet
<1>8. x # Nil => OnList(x, l) /\ Before(p, x, l)
  <2>1. Before(p, c, l)
    BY <1>2, <1>3, <1>4, <1>5 DEF LinkInv
  <2>2. x # Nil => OnList(x, l) /\ Before(c, x, l)
    BY <1>2, <1>3, <1>4 DEF LinkInv
  <2>3. p \in Nat /\ c \in Nat /\ Key(p) \in Nat /\ Key(c) \in Nat
    BY <1>2, <1>3, NodeTypes
  <2>4. x # Nil => x \in Nat /\ Key(x) \in Nat
    BY <1>2, <2>2, NodeTypes DEF OnList
  <2> QED
    BY <2>1, <2>2, <2>3, <2>4 DEF Before
<1>9. LinkInv' /\ Grows
  BY <1>2, <1>3, <1>4, <1>5, <1>7, <1>8, LinkChange
<1>10. /\ \A n \in Nodes : \A j \in 0 .. Top(n) : Mark(n, j)' <=> Mark(n, j)
       /\ \A n \in Nodes : Mark(n, 0)' <=> Mark(n, 0)
  <2>1. \A n \in Nodes : \A j \in 0 .. Top(n) : Mark(n, j)' <=> Mark(n, j)
    BY <1>5, <1>7
  <2> QED
    BY <1>2, <2>1, NodeTypes
<1>11. ChainInv' /\ \A n \in Nodes : \A k : Leads(n, k) => Leads(n, k)'
  <2>1. CASE l # 0
    <3>1. \A n \in Nodes : Ptr(n, 0)' = Ptr(n, 0)
      BY <1>2, <1>7, <2>1, NodeTypes
    <3> QED
      BY <1>2, <1>7, <1>10, <3>1, BottomSame
  <2>2. CASE l = 0
    <3>1. /\ ~Mark(p, 0) /\ Ptr(p, 0) = c /\ Mark(c, 0) /\ Ptr(p, 0)' = Ptr(c, 0)
          /\ \A n \in Nodes : n # p => Ptr(n, 0)' = Ptr(n, 0)
      BY <1>2, <1>3, <1>5, <1>7, <2>2, NodeTypes
    <3>2. PICK R \in SUBSET Nodes : Chain(R)
      BY <1>2 DEF ChainInv
    <3>3. Chain(R \ {c})'
      BY <1>2, <1>3, <1>7, <1>10, <3>1, <3>2, SnipChain
    <3>4. ASSUME NEW n \in Nodes, NEW k, Leads(n, k) PROVE Leads(n, k)'
      <4>1. PICK S \in SUBSET Nodes : n \in S /\ Leading(S, k)
        BY <3>4 DEF Leads
      <4>2. ASSUME NEW m \in S
            PROVE  /\ Key(m)' < k /\ Ptr(m, 0)' \in Nodes'
                   /\ Ptr(m, 0)' \in S \/ (Key(Ptr(m, 0))' = k /\ Unremoved(Ptr(m, 0))')
        <5>1. PICK a : a = Ptr(m, 0)'
          OBVIOUS
        <5>2. Key(m) < k /\ a \in Nodes /\ (a \in S \/ (Key(a) = k /\ Unremoved(a)))
          <6>1. CASE m = p
            <7>1. c \in S
              BY <3>1, <4>1, <6>1 DEF Leading, Unremoved
            <7> QED
              BY <3>1, <4>1, <5>1, <6>1, <7>1 DEF Leading
          <6>2. CASE m # p
            BY <3>1, <4>1, <5>1, <6>2 DEF Leading
          <6> QED
            BY <6>1, <6>2
        <5>3. Key(m)' < k /\ a \in Nodes' /\ (a \in S \/ (Key(a)' = k /\ Unremoved(a)'))
          BY <1>7, <1>10, <4>1, <5>2 DEF Unremoved
        <5> QED
          BY <5>1, <5>3 DEF Key, Unremoved, Mark
      <4>3. Leading(S, k)'
        BY <1>7, <4>2 DEF Leading
      <4> QED
        BY <1>7, <4>1, <4>3 DEF Leads
    <3> QED
      BY <1>7, <3>3, <3>4 DEF ChainInv
  <2> QED
    BY <2>1, <2>2
<1>12. GoodLocal(t, r)
  BY <1>1, StaysGood
<1>13. SearchInv(r)' /\ MineInv(r)' /\ AnswerInv(r, y)'
  BY <1>1, <1>9, <1>10, <1>11, <1>12, GoodStable
<1>14. /\ th' = [th EXCEPT ![t] = r] /\ retired' \subseteq Nodes
       /\ \A n \in retired' \ retired : \E j \in 0 .. Top(n) : Mark(n, j)
  BY <1>1, <1>2, <1>3, <1>4 DEF ListTypes
<1>15. /\ (r.op = "insert" /\ r.mine # Nil) <=> t \in Inserted
       /\ (r.op = "erase" /\ r.mine # Nil /\ r.pc # "mark") <=> t \in Erased
       /\ th[t].pc = "mark" => (r.pc = "mark" /\ r.mine = th[t].mine) \/ Mark(th[t].mine, 0)
       /\ \A G \in SUBSET Nodes : Kept(G) => Points(r) \subseteq G \cup {Nil}
  BY <1>12 DEF GoodLocal
<1>16. ASSUME NEW G \in SUBSET Nodes, Kept(G) PROVE x \in G \cup {Nil}
  BY <1>1, <1>16 DEF Kept, Points
<1>17. /\ \A n \in Nodes : \A j \in 0 .. Top(n) :
            Mark(n, j)' => Mark(n, j) \/ (r.pc = "mark" /\ r.mine = n)
       /\ \A n \in Nodes : \A j \in 0 .. Top(n) :
            \/ Ptr(n, j)' = Ptr(n, j)
            \/ \A G \in SUBSET Nodes : Kept(G) => Ptr(n, j)' \in G \cup {Nil}
  BY <1>7, <1>10, <1>16
<1> QED
  BY <1>1, <1>2, <1>7, <1>9, <1>10, <1>11, <1>13, <1>14, <1>15, <1>17, NodeStep

\* What the threads see of a key that is put in or taken out.
LEMMA ObserveIs ==
    ASSUME ListTypes, NEW k, NEW b \in BOOLEAN, Observe(k, b)
    PROVE  /\ seen' \in [Threads -> SUBSET BOOLEAN]
           /\ \A u \in Threads : /\ seen[u] \subseteq seen'[u]
                                 /\ th[u].pc # "idle" /\ th[u].key = k => b \in seen'[u]
<1>1. seen \in [Threads -> SUBSET BOOLEAN]
  BY DEF ListTypes
<1>2. \A u \in Threads : seen'[u] = IF th[u].pc # "idle" /\ th[u].key = k THEN seen[u] \cup {b} ELSE seen[u]
  BY DEF Observe
<1>3. \A u \in Threads : seen'[u] \in SUBSET BOOLEAN
  BY <1>1, <1>2
<1>4. seen' = [u \in Threads |-> seen'[u]]
  BY DEF Observe
<1> QED
  BY <1>2, <1>3, <1>4

\* The exchange that removes a key.
LEMMA EraseBottomTakes ==
    ASSUME ListInv, NEW t \in Threads, EraseBottom(t), MayMark(th[t].mine)
    PROVE  ListInv'
<1>1. PICK r, p, k : /\ r = th[t] /\ p = r.mine /\ k = r.key /\ r.pc = "mark" /\ r.at = 0 /\ MayMark(p)
                     /\ node' = [node EXCEPT ![p].next[0].mark = TRUE]
                     /\ Local(t, [r EXCEPT !.pc = "flag"])
                     /\ present' = present \ {k} /\ Observe(k, FALSE)
                     /\ UNCHANGED <<size, retired, deleted>>
  BY DEF EraseBottom
<1>2. PICK x, s, y : x = Ptr(p, 0) /\ s = [r EXCEPT !.pc = "flag"] /\ y = seen'[t]
  OBVIOUS
<1>3. /\ ListTypes /\ LinkInv /\ ThreadsInv /\ r \in ListLocals /\ SearchInv(r) /\ MineInv(r)
      /\ ChainInv /\ MarkInv /\ KeptInv /\ SizeInv /\ PresentInv /\ size \in Int
  BY <1>1, ListFacts DEF ListInv, ListTypes
<1>4. /\ p \in Nodes /\ p # Head /\ Key(p) = k /\ k # 0 /\ 0 \in 0 .. Top(p) /\ Top(p) \in Nat /\ x \in Int
      /\ ~Mark(p, 0) /\ r.op = "erase" /\ p # Nil
  <2>1. p \in Nodes /\ p # Head /\ Key(p) = k /\ r.op = "erase" /\ p # Nil
    BY <1>1, <1>3 DEF MineInv
  <2>2. k # 0
    BY <1>1, <1>3 DEF SearchInv
  <2>3. ~Mark(p, 0)
    BY <1>1 DEF MayMark, Next0, Mark
  <2> QED
    BY <1>2, <1>3, <2>1, <2>2, <2>3, NodeTypes
<1>5. node' = [node EXCEPT ![p].next[0] = Link(x, TRUE)]
  <2>1. node' = [node EXCEPT ![p].next[0].mark = TRUE]
    BY <1>1
  <2> QED
    BY <1>2, <1>3, <1>4, <2>1, MarkSet
<1>6. x # Nil => OnList(x, 0) /\ Before(p, x, 0)
  BY <1>2, <1>3, <1>4 DEF LinkInv
<1>7. \A j \in 0 .. Top(p) : j > 0 => Mark(p, j)
  BY <1>1, <1>3 DEF MineInv
<1>9. LinkInv' /\ Grows
  <2>1. TRUE \in BOOLEAN
    OBVIOUS
  <2> QED
    BY <1>3, <1>4, <1>5, <1>6, <1>7, <2>1, LinkInvStep
<1>10. /\ Nodes' = Nodes /\ node' = [n \in Nodes' |-> node'[n]]
       /\ \A n \in Nodes : /\ Key(n)' = Key(n) /\ Top(n)' = Top(n)
                           /\ node'[n] \in NodeRec(Top(n)')
       /\ Ptr(p, 0)' = x /\ Mark(p, 0)' = TRUE
       /\ \A n \in Nodes : \A j \in 0 .. Top(n) :
             n # p \/ j # 0 => Ptr(n, j)' = Ptr(n, j) /\ Mark(n, j)' = Mark(n, j)
  BY <1>3, <1>4, <1>5, LinkSet
<1>11. /\ \A n \in Nodes : Ptr(n, 0)' = Ptr(n, 0) /\ (n # p => Mark(n, 0)' = Mark(n, 0))
       /\ \A n \in Nodes : \A j \in 0 .. Top(n) : Ptr(n, j)' = Ptr(n, j)
  BY <1>2, <1>3, <1>10, NodeTypes
<1>12. PICK R \in SUBSET Nodes : Chain(R)
  BY <1>3 DEF ChainInv
<1>13. Chain(R)'
  <2>1. \A m, n \in R : Key(m) < Key(n) => Ptr(m, 0) \in Nodes
    BY <1>12 DEF Chain
  <2>2. \A n \in Nodes : Unremoved(n)' => Unremoved(n)
    BY <1>4, <1>11 DEF Unremoved
  <2> QED
    BY <1>10, <1>11, <1>12, <2>1, <2>2 DEF Chain
<1>14. k \in Keys /\ k \in present
  <2>1. k \in Keys
    BY <1>1, <1>3, <1>4, LocalsTypes, ListGiven, InvGiven DEF Keys
  <2> QED
    BY <1>3, <1>4, <2>1 DEF PresentInv, Holds, Unremoved
<1>15. PresentInv'
  <2>1. ASSUME NEW m \in Nodes, Unremoved(m)' PROVE Unremoved(m) /\ Key(m) # k
    <3>1. m # p /\ Unremoved(m)
      BY <1>10, <1>11, <2>1 DEF Unremoved
    <3>2. m \in R /\ p \in R
      BY <1>4, <1>12, <3>1 DEF Chain, Unremoved
    <3> QED
      BY <1>4, <1>12, <3>1, <3>2 DEF Chain
  <2>2. ASSUME NEW m \in Nodes, Unremoved(m), Key(m) # k PROVE Unremoved(m)'
    BY <1>4, <1>11, <2>2 DEF Unremoved
  <2>3. ASSUME NEW j \in Keys PROVE j \in present' <=> Holds(j)'
    <3>1. Holds(j)' <=> \E m \in Nodes : Unremoved(m)' /\ Key(m)' = j
      BY <1>10 DEF Holds
    <3>2. Holds(j)' <=> \E m \in Nodes : Unremoved(m) /\ Key(m) # k /\ Key(m) = j
      BY <1>10, <2>1, <2>2, <3>1
    <3>3. j \in present <=> \E m \in Nodes : Unremoved(m) /\ Key(m) = j
      BY <1>3 DEF PresentInv, Holds
    <3> QED
      BY <1>1, <3>2, <3>3
  <2> QED
    BY <2>3 DEF PresentInv
<1>16. ASSUME NEW n \in Nodes, NEW j, j # k, Leads(n, j) PROVE Leads(n, j)'
  <2>1. PICK S \in SUBSET Nodes : n \in S /\ Leading(S, j)
    BY <1>16 DEF Leads
  <2>2. Leading(S, j)'
    BY <1>4, <1>10, <1>11, <1>16, <2>1 DEF Leading, Unremoved
  <2> QED
    BY <1>10, <2>1, <2>2 DEF Leads
<1>17. /\ seen' \in [Threads -> SUBSET BOOLEAN]
       /\ \A u \in Threads : /\ seen[u] \subseteq seen'[u]
                             /\ th[u].pc # "idle" /\ th[u].key = k => FALSE \in seen'[u]
  BY <1>1, <1>3, ObserveIs
<1>18. \A u \in Threads : \A a, z : a = th[u] /\ z = seen'[u] => Sees(a, seen[u], z)
  <2> SUFFICES ASSUME NEW u \in Threads, NEW a, NEW z, a = th[u], z = seen'[u]
               PROVE  Sees(a, seen[u], z)
    OBVIOUS
  <2>1. AnswerInv(a, seen[u]) /\ seen[u] \subseteq z /\ (a.pc # "idle" /\ a.key = k => FALSE \in z)
    BY <1>17, ListFacts
  <2>2. a.pc \in Searching => a.pc # "idle"
    BY DEF Searching
  <2>3. (a.pc # "idle" /\ a.key \in present' => TRUE \in z) /\ (a.pc # "idle" /\ a.key \notin present' => FALSE \in z)
    BY <1>1, <2>1 DEF AnswerInv
  <2>4. \A n \in Nodes : a.pc # "idle" /\ Key(n) = a.key /\ Mark(n, 0)' /\ ~Mark(n, 0) => FALSE \in z
    BY <1>4, <1>11, <2>1
  <2>5. a.pc \in Searching /\ FALSE \notin z => \A n \in Nodes : Leads(n, a.key) => Leads(n, a.key)'
    BY <1>16, <2>1, <2>2
  <2> QED
    BY <2>1, <2>3, <2>4, <2>5 DEF Sees
<1>19. /\ s \in ListLocals /\ s.pc = "flag" /\ s.op = r.op /\ s.mine = p /\ s.key = r.key
       /\ s.top = r.top /\ s.pred = r.pred /\ s.curr = r.curr /\ s.succ = r.succ
       /\ s.preds = r.preds /\ s.succs = r.succs /\ s.lvl = r.lvl
  BY <1>1, <1>2, <1>3 DEF ListLocals
<1>20. SearchInv(s)'
  <2>1. SearchInv(s)
    BY <1>1, <1>3, <1>19 DEF SearchInv, Searching
  <2> QED
    BY <1>3, <1>9, <1>19, <2>1, SearchStable
<1>21. MineInv(s)'
  <2>1. /\ s.mine \in Nodes' \ {Head} /\ Key(s.mine)' = s.key /\ Mark(s.mine, 0)'
        /\ s.op = "erase" /\ s.mine # Nil
    <3>1. p \in Nodes' \ {Head} /\ Key(p)' = k /\ Mark(p, 0)' /\ p # Nil
      BY <1>4, <1>10
    <3>2. s.mine = p /\ s.key = k /\ s.op = "erase"
      BY <1>1, <1>4, <1>19
    <3> QED
      BY <3>1, <3>2 DEF Key, Mark
  <2>2. s.pc = "flag" /\ s.pc # "mark" /\ s.op # "insert"
    BY <1>19, <2>1
  <2> QED
    BY <2>1, <2>2, ZenonT(60) DEF MineInv
<1>22. AnswerInv(s, y)'
  <2>1. FALSE \in y /\ k \notin present'
    BY <1>1, <1>2, <1>17
  <2> QED
    BY <1>1, <1>19, <2>1 DEF AnswerInv, Searching
<1>23. th' = [th EXCEPT ![t] = s] /\ th'[t] = s /\ (\A u \in Threads \ {t} : th'[u] = th[u])
  BY <1>1, <1>2, <1>3 DEF Local, ListTypes
<1>24. ThreadsInv' /\ th' \in [Threads -> ListLocals]
  BY <1>2, <1>3, <1>9, <1>17, <1>18, <1>19, <1>20, <1>21, <1>22, <1>23, ThreadsStep
<1>25. ListTypes'
  <2>1. ASSUME NEW n \in Nodes' PROVE Top(n)' \in Levels /\ (node[n] \in NodeRec(Top(n)))'
    BY <1>3, <1>10 DEF ListTypes, NodeRec
  <2> QED
    BY <1>1, <1>3, <1>10, <1>17, <1>24, <2>1 DEF ListTypes
<1>26. SizeInv'
  <2>1. t \notin Inserted /\ t \notin Erased
    BY <1>1, <1>4 DEF Inserted, Erased
  <2>2. Inserted' = Inserted /\ Erased' = Erased \cup {t}
    <3>1. s.op = "erase" /\ s.op # "insert" /\ s.mine # Nil /\ s.pc # "mark"
      BY <1>4, <1>19
    <3>2. th' = [th EXCEPT ![t] = s]
      BY <1>23
    <3> QED
      BY <1>3, <2>1, <3>1, <3>2, Counted
  <2>3. /\ Cardinality(Erased') = Cardinality(Erased) + 1 /\ Cardinality(Inserted) \in Nat
        /\ Cardinality(Erased) \in Nat
    BY <1>3, <1>23, <2>1, <2>2, Counted, FS_AddElement
  <2>4. Cardinality(present') = Cardinality(present) - 1 /\ Cardinality(present) \in Nat
    BY <1>1, <1>3, <1>14, PresentFinite, FS_RemoveElement
  <2> QED
    BY <1>1, <1>3, <2>2, <2>3, <2>4 DEF SizeInv
<1>27. MarkInv'
  <2>1. ASSUME NEW n \in Nodes, NEW l \in 0 .. Top(n), Mark(n, l)', ~Mark(n, 0)'
        PROVE  \E u \in Threads : th'[u].pc = "mark" /\ th'[u].mine = n
    <3>1. n # p /\ Mark(n, l) /\ ~Mark(n, 0)
      BY <1>10, <1>11, <2>1
    <3>2. PICK u \in Threads : th[u].pc = "mark" /\ th[u].mine = n
      BY <1>3, <3>1 DEF MarkInv
    <3> QED
      BY <1>1, <1>23, <3>1, <3>2
  <2>2. ASSUME NEW n \in retired' PROVE \E l \in 0 .. Top(n)' : Mark(n, l)'
    <3>1. n \in Nodes /\ \E l \in 0 .. Top(n) : Mark(n, l)
      BY <1>1, <1>3 DEF MarkInv, ListTypes
    <3> QED
      BY <1>9, <1>10, <3>1 DEF Grows
  <2> QED
    BY <1>10, <2>1, <2>2 DEF MarkInv
<1>28. KeptInv'
  <2>1. PICK G \in SUBSET Nodes : Kept(G)
    BY <1>3 DEF KeptInv
  <2>2. \A u \in Threads : Points(th[u])' \subseteq G \cup {Nil}
    <3>1. \A u \in Threads : Points(th[u]) \subseteq G \cup {Nil}
      BY <2>1 DEF Kept
    <3>2. Points(s) = Points(r)
      BY <1>1, <1>19 DEF Points
    <3> QED
      BY <1>1, <1>23, <3>1, <3>2, SMTT(40) DEF Points
  <2>3. \A n \in Nodes : Unremoved(n)' => Unremoved(n)
    BY <1>4, <1>11, SMTT(40) DEF Unremoved
  <2>4. Kept(G)'
    <3>1. G \subseteq Nodes' \ deleted'
      BY <1>1, <1>10, <2>1 DEF Kept
    <3>2. \A n \in Nodes' : Unremoved(n)' => n \in G
      BY <1>10, <2>1, <2>3 DEF Kept
    <3>3. \A n \in G : \A l \in 0 .. Top(n)' : Ptr(n, l)' # Nil => Ptr(n, l)' \in G
      <4> SUFFICES ASSUME NEW n \in G, NEW l \in 0 .. Top(n)', Ptr(n, l)' # Nil PROVE Ptr(n, l)' \in G
        OBVIOUS
      <4>1. n \in Nodes /\ l \in 0 .. Top(n)
        BY <1>10, <2>1
      <4>2. Ptr(n, l)' = Ptr(n, l)
        BY <1>11, <4>1
      <4> QED
        BY <2>1, <4>1, <4>2 DEF Kept
    <3> QED
      BY <2>2, <3>1, <3>2, <3>3, SMTT(40) DEF Kept
  <2> QED
    BY <1>10, <2>4 DEF KeptInv
<1>29. ChainInv'
  BY <1>10, <1>13 DEF ChainInv
<1> QED
  BY <1>9, <1>15, <1>24, <1>25, <1>26, <1>27, <1>28, <1>29 DEF ListInv

\* The node a with the node n behind it at the bottom.
Linked(a, n) == [a EXCEPT !.next[0] = Link(n, FALSE)]

\* A node is created and linked at the bottom.
Creates(p, n, k, top, succs) ==
    /\ p \in Nodes /\ n \in Int /\ n \notin Nodes /\ k \in 0 .. MaxKey /\ top \in Levels
    /\ succs \in [Levels -> Int] /\ Nodes' = Nodes \cup {n}
    /\ node'[n] = NewNode(k, top, succs) /\ node'[p] = Linked(node[p], n)
    /\ \A m \in Nodes : m # p => node'[m] = node[m]

-----------------------------------------------------------------------------
(* A node is added.                                                        *)

\* What creating and linking a node changes.
LEMMA NewSet ==
    ASSUME ListTypes, NEW p, NEW n, NEW k, NEW top, NEW succs, Creates(p, n, k, top, succs)
    PROVE  /\ Key(n)' = k /\ Top(n)' = top /\ node'[n].removed = FALSE /\ node'[n] \in NodeRec(top)
           /\ \A j \in 0 .. top : Ptr(n, j)' = succs[j] /\ Mark(n, j)' = FALSE
           /\ \A m \in Nodes : /\ Key(m)' = Key(m) /\ Top(m)' = Top(m)
                               /\ node'[m].removed = node[m].removed
                               /\ node'[m] \in NodeRec(Top(m))
           /\ Ptr(p, 0)' = n /\ Mark(p, 0)' = FALSE
           /\ \A m \in Nodes : \A j \in 0 .. Top(m) :
                 m # p \/ j # 0 => Ptr(m, j)' = Ptr(m, j) /\ Mark(m, j)' = Mark(m, j)
<1> USE DEF Creates
<1>1. PICK r : r = node[p] /\ r \in NodeRec(Top(p)) /\ Top(p) = r.top
  BY DEF ListTypes, Top
<1>2. r.next \in [0 .. Top(p) -> [ptr : Int, mark : BOOLEAN]] /\ 0 \in 0 .. Top(p)
  BY <1>1, NodeTypes DEF NodeRec
<1>3. PICK f : f = [r.next EXCEPT ![0] = Link(n, FALSE)]
  OBVIOUS
<1>4. /\ f \in [0 .. Top(p) -> [ptr : Int, mark : BOOLEAN]]
      /\ f[0] = Link(n, FALSE) /\ \A j \in 0 .. Top(p) : j # 0 => f[j] = r.next[j]
  BY <1>2, <1>3 DEF Link
<1>5. PICK q : q = [r EXCEPT !.next = f]
  OBVIOUS
<1>6. /\ q \in NodeRec(Top(p)) /\ q.next = f /\ q.key = r.key /\ q.top = r.top
      /\ q.removed = r.removed
  BY <1>1, <1>4, <1>5 DEF NodeRec
<1>7. PICK d : d = NewNode(k, top, succs)
  OBVIOUS
<1>8. /\ d \in NodeRec(top) /\ d.key = k /\ d.top = top /\ d.removed = FALSE
      /\ \A j \in 0 .. top : d.next[j] = Link(succs[j], FALSE)
  <2>1. PICK g : g = [l \in 0 .. top |-> Link(succs[l], FALSE)]
    OBVIOUS
  <2>2. 0 .. top \subseteq Levels /\ top \in Nat
    BY ListGiven DEF Levels
  <2>3. g \in [0 .. top -> [ptr : Int, mark : BOOLEAN]]
    BY <2>1, <2>2 DEF Link
  <2>4. d = [key |-> k, top |-> top, links |-> top + 1, removed |-> FALSE, next |-> g]
    BY <1>7, <2>1 DEF NewNode
  <2>5. top + 1 \in Int
    BY <2>2
  <2>6. d \in NodeRec(top)
    BY <2>3, <2>4, <2>5 DEF NodeRec
  <2> QED
    BY <2>1, <2>4, <2>6
<1>9. /\ node'[n] = d /\ node'[p] = q /\ \A m \in Nodes : m # p => node'[m] = node[m]
  <2>1. node'[p] = q
    BY <1>1, <1>3, <1>5 DEF Linked
  <2> QED
    BY <1>7, <2>1
<1>10. \A m \in Nodes : /\ Key(m)' = Key(m) /\ Top(m)' = Top(m)
                        /\ node'[m].removed = node[m].removed
  BY <1>1, <1>6, <1>9 DEF Key, Top
<1>11. \A m \in Nodes : node'[m] \in NodeRec(Top(m))
  BY <1>1, <1>6, <1>9 DEF ListTypes
<1>12. Ptr(p, 0)' = n /\ Mark(p, 0)' = FALSE
  <2>1. node'[p].next[0] = Link(n, FALSE)
    BY <1>4, <1>6, <1>9
  <2>2. Link(n, FALSE).ptr = n /\ Link(n, FALSE).mark = FALSE
    BY DEF Link
  <2> QED
    BY <2>1, <2>2 DEF Ptr, Mark
<1>13. \A m \in Nodes : \A j \in 0 .. Top(m) :
          m # p \/ j # 0 => Ptr(m, j)' = Ptr(m, j) /\ Mark(m, j)' = Mark(m, j)
  <2>1. \A j \in 0 .. Top(p) : j # 0 => node'[p].next[j] = node[p].next[j]
    BY <1>1, <1>4, <1>6, <1>9
  <2> QED
    BY <1>9, <2>1 DEF Ptr, Mark
<1>14. \A j \in 0 .. top : Ptr(n, j)' = succs[j] /\ Mark(n, j)' = FALSE
  <2>1. \A j \in 0 .. top : node'[n].next[j] = Link(succs[j], FALSE)
    BY <1>8, <1>9
  <2> TAKE j \in 0 .. top
  <2>4. node'[n].next[j] = Link(succs[j], FALSE)
    BY <2>1
  <2>5. Ptr(n, j)' = node'[n].next[j].ptr /\ Mark(n, j)' = node'[n].next[j].mark
    BY DEF Ptr, Mark
  <2>6. Link(succs[j], FALSE).ptr = succs[j] /\ Link(succs[j], FALSE).mark = FALSE
    BY DEF Link
  <2> QED
    BY <2>4, <2>5, <2>6
<1>15. Key(n)' = k /\ Top(n)' = top /\ node'[n].removed = FALSE /\ node'[n] \in NodeRec(top)
  BY <1>8, <1>9 DEF Key, Top
<1> QED
  BY <1>9, <1>10, <1>11, <1>12, <1>13, <1>14, <1>15

\* The next node.
LEMMA NextNode ==
    ASSUME ListTypes
    PROVE  /\ Cardinality(Nodes) \in Nat /\ Cardinality(Nodes) \notin Nodes
           /\ \A m \in Nodes : m < Cardinality(Nodes)
           /\ Nodes \cup {Cardinality(Nodes)} = 0 .. Cardinality(Nodes)
<1>1. PICK a \in Nat : Nodes = 0 .. a
  BY DEF ListTypes
<1>2. Cardinality(Nodes) = a + 1
  BY <1>1, FS_Interval
<1> QED
  BY <1>1, <1>2

\* There is no node of the bottom level between p and the one behind it.
LEMMA Between ==
    ASSUME ListTypes, NEW R \in SUBSET Nodes, Chain(R), NEW p \in Nodes, ~Mark(p, 0), NEW k \in Nat, Key(p) < k,
           Ptr(p, 0) # Nil => k < Key(Ptr(p, 0))
    PROVE  /\ p \in R /\ \A m \in R : Key(m) # k
           /\ \A m \in R : Key(m) < k => m = p \/ (Ptr(m, 0) # Nil /\ Key(Ptr(m, 0)) < k)
<1>1. p \in R /\ \A m \in Nodes : Key(m) \in Nat
  BY NodeTypes DEF Chain, Unremoved
<1>2. \A m \in R : Key(p) < Key(m) => Ptr(p, 0) # Nil /\ Ptr(p, 0) \in Nodes /\ k < Key(m)
  <2> SUFFICES ASSUME NEW m \in R, Key(p) < Key(m) PROVE Ptr(p, 0) # Nil /\ Ptr(p, 0) \in Nodes /\ k < Key(m)
    OBVIOUS
  <2>1. Ptr(p, 0) # Nil /\ Ptr(p, 0) \in Nodes /\ Key(Ptr(p, 0)) <= Key(m)
    BY <1>1 DEF Chain
  <2>2. k < Key(Ptr(p, 0))
    BY <2>1
  <2> QED
    BY <1>1, <2>1, <2>2
<1>3. \A m \in R : Key(m) # k
  BY <1>1, <1>2
<1>4. ASSUME NEW m \in R, Key(m) < k, m # p PROVE Ptr(m, 0) # Nil /\ Key(Ptr(m, 0)) < k
  <2>1. Key(m) # Key(p)
    BY <1>1, <1>4 DEF Chain
  <2>2. Key(m) < Key(p)
    BY <1>1, <1>2, <1>4, <2>1
  <2>3. Ptr(m, 0) # Nil /\ Key(Ptr(m, 0)) <= Key(p) /\ Ptr(m, 0) \in Nodes
    BY <1>1, <2>2 DEF Chain
  <2> QED
    BY <1>1, <2>3
<1> QED
  BY <1>1, <1>3, <1>4

\* The exchange that adds a key.
LEMMA InsertBottomLinks ==
    ASSUME ListInv, NEW t \in Threads, InsertBottom(t), MayLink(th[t], 0)
    PROVE  ListInv'
<1>0. /\ node' = [m \in Nodes \cup {Cardinality(Nodes)} |->
                    IF m = Cardinality(Nodes) THEN NewNode(th[t].key, th[t].top, th[t].succs)
                    ELSE IF m = th[t].preds[0]
                      THEN [node[m] EXCEPT !.next[0] = Link(Cardinality(Nodes), FALSE)]
                    ELSE node[m]]
      /\ th[t].pc = "found" /\ th[t].op = "insert" /\ th[t].mine = Nil /\ ~Found(th[t]) /\ MayLink(th[t], 0)
      /\ Local(t, [th[t] EXCEPT !.mine = Cardinality(Nodes), !.at = 1])
      /\ present' = present \cup {th[t].key} /\ Observe(th[t].key, TRUE)
      /\ UNCHANGED <<size, retired, deleted>>
  BY DEF InsertBottom
<1>21. PICK r, n, p, k, top, succs :
          /\ r = th[t] /\ n = Cardinality(Nodes) /\ p = r.preds[0] /\ k = r.key /\ top = r.top /\ succs = r.succs
  OBVIOUS
<1>1. /\ r = th[t] /\ n = Cardinality(Nodes) /\ p = r.preds[0] /\ k = r.key
      /\ r.pc = "found" /\ r.op = "insert" /\ r.mine = Nil /\ ~Found(r) /\ MayLink(r, 0)
      /\ Local(t, [r EXCEPT !.mine = n, !.at = 1])
      /\ present' = present \cup {k} /\ Observe(k, TRUE)
      /\ UNCHANGED <<size, retired, deleted>>
  BY <1>0, <1>21
<1>2. PICK s, y : s = [r EXCEPT !.mine = n, !.at = 1] /\ y = seen'[t]
  OBVIOUS
<1>3. /\ ListTypes /\ LinkInv /\ ThreadsInv /\ r \in ListLocals /\ SearchInv(r) /\ MineInv(r)
      /\ ChainInv /\ MarkInv /\ KeptInv /\ SizeInv /\ PresentInv /\ size \in Int /\ AnswerInv(r, seen[t])
  BY <1>1, ListFacts DEF ListInv, ListTypes
<1>4. /\ n \in Nat /\ n \in Int /\ n \notin Nodes /\ (\A m \in Nodes : m < n) /\ Nodes \cup {n} = 0 .. n
      /\ Nil \notin Nodes /\ Head \in Nodes /\ n # Nil /\ n # Head
  <2>1. /\ n \in Nat /\ n \notin Nodes /\ (\A m \in Nodes : m < n) /\ Nodes \cup {n} = 0 .. n
    BY <1>1, <1>3, NextNode
  <2>2. Nil \notin Nodes /\ Head \in Nodes
    BY <1>3, NodeTypes
  <2> QED
    BY <2>1, <2>2 DEF Nil
<1>5. /\ k \in 0 .. MaxKey /\ k \in Nat /\ k # 0 /\ k \in Keys /\ r.top \in Levels /\ r.top \in Nat
      /\ 0 .. r.top \subseteq Levels /\ 0 \in Levels /\ 0 \in 0 .. r.top /\ r.succs \in [Levels -> Int]
  <2>1. k \in 0 .. MaxKey /\ r.top \in Levels /\ r.top \in Nat /\ 0 \in Levels /\ r.succs \in [Levels -> Int]
    BY <1>1, <1>3, LocalsTypes, ListGiven, InvGiven DEF ListLocals
  <2>2. k # 0
    BY <1>1, <1>3 DEF SearchInv
  <2> QED
    BY <1>3, <2>1, <2>2, ListGiven DEF Levels, Keys
<1>6. /\ OnList(p, 0) /\ p \in Nodes /\ Key(p) < k
      /\ \A l \in Levels : r.succs[l] # Nil => OnList(r.succs[l], l) /\ r.succs[l] \in Nodes /\ k <= Key(r.succs[l])
  BY <1>1, <1>3, <1>5 DEF SearchInv, OnList
<1>7. ~Mark(p, 0) /\ Ptr(p, 0) = r.succs[0]
  <2>1. node[p].next[0] = Link(r.succs[0], FALSE)
    BY <1>1 DEF MayLink, Finds, Next0
  <2> QED
    BY <2>1 DEF Link, Mark, Ptr
<1>8. r.succs[0] # Nil => k < Key(r.succs[0])
  <2>1. r.succs[0] # Nil => Key(r.succs[0]) # k
    BY <1>1, <1>3 DEF SearchInv, Found, Key
  <2> QED
    BY <1>3, <1>5, <1>6, <2>1, NodeTypes
<1>9. PICK R \in SUBSET Nodes : Chain(R)
  BY <1>3 DEF ChainInv
<1>10. /\ p \in R /\ \A m \in R : Key(m) # k
       /\ \A m \in R : Key(m) < k => m = p \/ (Ptr(m, 0) # Nil /\ Key(Ptr(m, 0)) < k)
  BY <1>3, <1>5, <1>6, <1>7, <1>8, <1>9, Between
<1>11. \A m \in Nodes : Key(m) = k => Mark(m, 0) /\ \A j \in 0 .. Top(m) : Mark(m, j)
  <2>1. \A m \in Nodes : Key(m) = k => Mark(m, 0)
    BY <1>9, <1>10 DEF Chain, Unremoved
  <2> QED
    BY <1>3, <2>1 DEF LinkInv
<1>12. k \notin present
  BY <1>3, <1>5, <1>11 DEF PresentInv, Holds, Unremoved
<1>13. /\ Nodes' = Nodes \cup {n} /\ node' = [m \in Nodes' |-> node'[m]]
       /\ Key(n)' = k /\ Top(n)' = r.top /\ node'[n].removed = FALSE /\ node'[n] \in NodeRec(r.top)
       /\ \A j \in 0 .. r.top : Ptr(n, j)' = r.succs[j] /\ Mark(n, j)' = FALSE
       /\ \A m \in Nodes : /\ Key(m)' = Key(m) /\ Top(m)' = Top(m)
                           /\ node'[m].removed = node[m].removed
                           /\ node'[m] \in NodeRec(Top(m))
       /\ Ptr(p, 0)' = n /\ Mark(p, 0)' = FALSE
       /\ \A m \in Nodes : \A j \in 0 .. Top(m) :
             m # p \/ j # 0 => Ptr(m, j)' = Ptr(m, j) /\ Mark(m, j)' = Mark(m, j)
  <2>1. /\ Nodes' = Nodes \cup {n} /\ node' = [m \in Nodes' |-> node'[m]]
        /\ node'[n] = NewNode(k, top, succs) /\ node'[p] = Linked(node[p], n)
        /\ \A m \in Nodes : m # p => node'[m] = node[m]
    <3>1. Nodes' = Nodes \cup {n}
      BY <1>0, <1>21 DEF Nodes
    <3>2. node'[Cardinality(Nodes)] = NewNode(th[t].key, th[t].top, th[t].succs)
      BY <1>0
    <3>3. \A m \in Nodes : m # n /\ m # p => node'[m] = node[m]
      BY <1>0, <1>21
    <3>4. p \in Nodes /\ p # n
      BY <1>4, <1>6, SMTT(40)
    <3>5. node'[p] = Linked(node[p], n)
      BY <1>0, <1>21, <3>4 DEF Linked
    <3>6. node' = [m \in Nodes' |-> node'[m]]
      BY <1>0 DEF Nodes
    <3> QED
      BY <1>4, <1>21, <3>1, <3>2, <3>3, <3>5, <3>6
  <2>2. top = r.top /\ succs = r.succs /\ top \in Levels /\ succs \in [Levels -> Int]
    BY <1>5, <1>21
  <2>3. /\ Key(n)' = k /\ Top(n)' = top /\ node'[n].removed = FALSE /\ node'[n] \in NodeRec(top)
        /\ \A j \in 0 .. top : Ptr(n, j)' = succs[j] /\ Mark(n, j)' = FALSE
        /\ \A m \in Nodes : /\ Key(m)' = Key(m) /\ Top(m)' = Top(m)
                            /\ node'[m].removed = node[m].removed
                            /\ node'[m] \in NodeRec(Top(m))
        /\ Ptr(p, 0)' = n /\ Mark(p, 0)' = FALSE
        /\ \A m \in Nodes : \A j \in 0 .. Top(m) :
              m # p \/ j # 0 => Ptr(m, j)' = Ptr(m, j) /\ Mark(m, j)' = Mark(m, j)
    <3>1. ListTypes /\ p \in Nodes /\ n \in Int /\ n \notin Nodes /\ k \in 0 .. MaxKey
      BY <1>3, <1>4, <1>5, <1>6
    <3>2. Creates(p, n, k, top, succs)
      BY <2>1, <2>2, <3>1 DEF Creates
    <3> QED
      BY <3>1, <3>2, NewSet
  <2> QED
    BY <2>1, <2>2, <2>3
<1>14. /\ \A m \in Nodes : \A j \in 0 .. Top(m) : Mark(m, j)' <=> Mark(m, j)
       /\ \A m \in Nodes : 0 \in 0 .. Top(m) /\ (Mark(m, 0)' <=> Mark(m, 0)) /\ Key(m) \in Nat
       /\ \A m \in Nodes : m # p => Ptr(m, 0)' = Ptr(m, 0)
       /\ Ptr(n, 0)' = Ptr(p, 0) /\ ~Mark(n, 0)'
  <2>1. \A m \in Nodes : \A j \in 0 .. Top(m) : Mark(m, j)' <=> Mark(m, j)
    BY <1>7, <1>13
  <2>2. \A m \in Nodes : 0 \in 0 .. Top(m) /\ Key(m) \in Nat
    BY <1>3, NodeTypes
  <2> QED
    BY <1>5, <1>7, <1>13, <2>1, <2>2
<1>15. Grows
  <2>1. ASSUME NEW m \in Nodes, NEW j \in 0 .. Top(m), Mark(m, j) PROVE Mark(m, j)' /\ Ptr(m, j)' = Ptr(m, j)
    BY <1>7, <1>13, <2>1
  <2> QED
    BY <1>13, <2>1 DEF Grows
<1>16. LinkInv'
  <2>1. Key(Head)' = 0 /\ Top(Head)' = MaxLevel /\ \A m \in Nodes' : m # Head => Key(m)' # 0
    BY <1>3, <1>4, <1>5, <1>13 DEF LinkInv
  <2>2. \A l \in Levels : ~Mark(Head, l)'
    <3>1. \A l \in Levels : l \in 0 .. Top(Head)
      BY <1>3 DEF LinkInv, Levels
    <3> QED
      BY <1>3, <1>4, <1>14, <3>1 DEF LinkInv
  <2>3. ASSUME NEW m \in Nodes', NEW j \in 0 .. Top(m)', Ptr(m, j)' # Nil
        PROVE  OnList(Ptr(m, j), j)' /\ Before(m, Ptr(m, j), j)'
    <3>1. PICK a : a = Ptr(m, j)'
      OBVIOUS
    <3>2. CASE m \in Nodes /\ ~(m = p /\ j = 0)
      <4>1. a = Ptr(m, j) /\ j \in 0 .. Top(m) /\ j \in Nat
        BY <1>3, <1>13, <3>1, <3>2, NodeTypes
      <4>2. OnList(a, j) /\ Before(m, a, j)
        BY <1>3, <2>3, <3>1, <3>2, <4>1 DEF LinkInv
      <4>3. a \in Nodes /\ j \in 0 .. Top(a)
        BY <1>3, <4>1, <4>2, NodeTypes DEF OnList
      <4>4. OnList(a, j)' /\ Before(m, a, j)'
        BY <1>13, <1>14, <3>2, <4>2, <4>3 DEF OnList, Before
      <4> QED
        BY <3>1, <4>4 DEF OnList, Before, Key, Mark, Top
    <3>3. CASE m = p /\ j = 0
      <4>1. a = n
        BY <1>13, <3>1, <3>3
      <4>2. OnList(n, 0)' /\ Before(p, n, 0)'
        BY <1>5, <1>6, <1>13 DEF OnList, Before
      <4> QED
        BY <3>1, <3>3, <4>1, <4>2 DEF OnList, Before, Key, Mark, Top
    <3>4. CASE m = n
      <4>1. j \in 0 .. r.top /\ j \in Levels /\ j \in Nat /\ a = r.succs[j]
        BY <1>5, <1>13, <3>1, <3>4
      <4>2. a \in Nodes /\ OnList(a, j) /\ k <= Key(a) /\ j \in 0 .. Top(a) /\ a < n
        BY <1>3, <1>4, <1>6, <2>3, <3>1, <4>1, NodeTypes DEF OnList
      <4>3. OnList(a, j)'
        BY <1>13, <4>2 DEF OnList
      <4>4. CASE k < Key(a)
        <5>1. Before(n, a, j)'
          BY <1>13, <4>2, <4>4 DEF Before
        <5> QED
          BY <3>1, <3>4, <4>3, <5>1 DEF OnList, Before, Key, Mark, Top
      <4>5. CASE k = Key(a)
        <5>1. j # 0
          BY <1>4, <1>5, <1>8, <4>1, <4>2, <4>5
        <5>2. Mark(a, j)'
          BY <1>11, <1>14, <4>2, <4>5
        <5>3. j > 0
          BY <4>1, <5>1
        <5>4. Before(n, a, j)'
          BY <1>13, <4>2, <4>5, <5>2, <5>3 DEF Before
        <5> QED
          BY <3>1, <3>4, <4>3, <5>4 DEF OnList, Before, Key, Mark, Top
      <4> QED
        BY <1>5, <1>14, <4>2, <4>4, <4>5
    <3> QED
      BY <1>13, <3>2, <3>3, <3>4
  <2>4. ASSUME NEW m \in Nodes', Mark(m, 0)', NEW j \in 0 .. Top(m)' PROVE Mark(m, j)'
    <3>1. m \in Nodes
      BY <1>13, <1>14, <2>4
    <3> QED
      BY <1>3, <1>13, <1>14, <2>4, <3>1 DEF LinkInv
  <2>5. \A m \in Nodes' : node'[m].removed => Mark(m, 0)'
    BY <1>3, <1>13, <1>14 DEF LinkInv
  <2> QED
    BY <2>1, <2>2, <2>3, <2>4, <2>5 DEF LinkInv
<1>17. Chain(R \cup {n})'
  <2>1. PICK Q : Q = R \cup {n}
    OBVIOUS
  <2>2. Q \subseteq Nodes' /\ Head \in Q
    BY <1>9, <1>13, <2>1 DEF Chain
  <2>3. \A m \in Nodes' : Unremoved(m)' => m \in Q
    BY <1>9, <1>13, <1>14, <2>1 DEF Chain, Unremoved
  <2>4. ASSUME NEW m \in Q, Ptr(m, 0)' # Nil PROVE Ptr(m, 0)' \in Q
    BY <1>9, <1>10, <1>13, <1>14, <2>1, <2>4 DEF Chain
  <2>5. \A a, b \in Q : Key(a)' = Key(b)' => a = b
    BY <1>9, <1>10, <1>13, <2>1 DEF Chain
  <2>6. ASSUME NEW a \in Q, NEW b \in Q, Key(a)' < Key(b)'
        PROVE  Ptr(a, 0)' # Nil /\ Key(Ptr(a, 0))' <= Key(b)'
    <3>1. PICK c : c = Ptr(a, 0)'
      OBVIOUS
    <3>2. c # Nil /\ Key(c)' <= Key(b)'
      <4>1. CASE a = p
        <5>1. c = n /\ Key(c)' = k /\ Key(a)' = Key(p)
          BY <1>6, <1>13, <3>1, <4>1
        <5>2. CASE b = n
          BY <1>4, <1>5, <1>13, <5>1, <5>2
        <5>3. CASE b # n
          <6>1. b \in R /\ Key(b)' = Key(b) /\ Key(p) < Key(b) /\ Key(b) \in Nat
            BY <1>13, <1>14, <2>1, <2>6, <5>1, <5>3
          <6>2. Ptr(p, 0) # Nil /\ Key(Ptr(p, 0)) <= Key(b) /\ Ptr(p, 0) \in Nodes
            BY <1>9, <1>10, <6>1 DEF Chain
          <6>3. k < Key(Ptr(p, 0)) /\ Key(Ptr(p, 0)) \in Nat
            BY <1>7, <1>8, <1>14, <6>2
          <6>4. k <= Key(b)
            BY <1>5, <6>1, <6>2, <6>3
          <6> QED
            BY <1>4, <5>1, <6>1, <6>4
        <5> QED
          BY <5>2, <5>3
      <4>2. CASE a = n
        <5>1. b \in R /\ Key(b)' = Key(b) /\ k < Key(b) /\ Key(b) \in Nat /\ c = Ptr(p, 0) /\ b # n
          BY <1>5, <1>13, <1>14, <2>1, <2>6, <3>1, <4>2
        <5>2. Key(p) < Key(b)
          BY <1>5, <1>6, <1>14, <5>1
        <5>3. c # Nil /\ Key(c) <= Key(b) /\ c \in Nodes
          BY <1>9, <1>10, <5>1, <5>2 DEF Chain
        <5> QED
          BY <1>13, <5>1, <5>3
      <4>3. CASE a # p /\ a # n
        <5>1. a \in R /\ a \in Nodes /\ c = Ptr(a, 0) /\ Key(a)' = Key(a)
          BY <1>13, <1>14, <2>1, <3>1, <4>3
        <5>2. CASE b = n
          <6>1. Ptr(a, 0) # Nil /\ Key(Ptr(a, 0)) < k
            BY <1>10, <1>13, <2>6, <4>3, <5>1, <5>2
          <6>2. c \in Nodes /\ Key(c)' = Key(c) /\ Key(c) \in Nat
            BY <1>9, <1>13, <1>14, <5>1, <6>1 DEF Chain
          <6> QED
            BY <1>5, <1>13, <5>1, <5>2, <6>1, <6>2
        <5>3. CASE b # n
          <6>1. b \in R /\ Key(b)' = Key(b)
            BY <1>13, <2>1, <5>3
          <6>2. c # Nil /\ Key(c) <= Key(b) /\ c \in Nodes
            BY <1>9, <2>6, <5>1, <6>1 DEF Chain
          <6> QED
            BY <1>13, <6>1, <6>2
        <5> QED
          BY <5>2, <5>3
      <4> QED
        BY <4>1, <4>2, <4>3
    <3> QED
      BY <3>1, <3>2 DEF Key
  <2>7. Chain(Q)'
    BY <2>2, <2>3, <2>4, <2>5, <2>6 DEF Chain
  <2> QED
    BY <2>1, <2>7 DEF Chain
<1>18. ChainInv'
  <2>1. R \cup {n} \in SUBSET Nodes'
    BY <1>13
  <2> QED
    BY <1>17, <2>1 DEF ChainInv
<1>19. PresentInv'
  <2>1. ASSUME NEW j \in Keys PROVE j \in present' <=> Holds(j)'
    <3>1. Holds(j)' <=> \E m \in Nodes \cup {n} : Unremoved(m)' /\ Key(m)' = j
      BY <1>13 DEF Holds
    <3>2. Holds(j)' <=> j = k \/ \E m \in Nodes : Unremoved(m) /\ Key(m) = j
      BY <1>13, <1>14, <3>1 DEF Unremoved
    <3>3. j \in present <=> \E m \in Nodes : Unremoved(m) /\ Key(m) = j
      BY <1>3 DEF PresentInv, Holds
    <3> QED
      BY <1>1, <3>2, <3>3
  <2> QED
    BY <2>1 DEF PresentInv
<1>20. ASSUME NEW m \in Nodes, NEW j \in Nat, j # k, Leads(m, j) PROVE Leads(m, j)'
  <2>1. PICK S \in SUBSET Nodes : m \in S /\ Leading(S, j)
    BY <1>20 DEF Leads
  <2>2. PICK Q : Q = {a \in Nodes \cup {n} : a \in S \/ (a = n /\ p \in S)}
    OBVIOUS
  <2>3. ASSUME NEW a \in Q
        PROVE  /\ Key(a)' < j /\ Ptr(a, 0)' \in Nodes'
               /\ Ptr(a, 0)' \in Q \/ (Key(Ptr(a, 0))' = j /\ Unremoved(Ptr(a, 0))')
    <3>1. PICK c : c = Ptr(a, 0)'
      OBVIOUS
    <3>2. \A e \in S : /\ Key(e) < j /\ Ptr(e, 0) \in Nodes
                       /\ Ptr(e, 0) \in S \/ (Key(Ptr(e, 0)) = j /\ Unremoved(Ptr(e, 0)))
      BY <2>1 DEF Leading
    <3>3. Key(a)' < j /\ c \in Nodes' /\ (c \in Q \/ (Key(c)' = j /\ Unremoved(c)'))
      <4>1. CASE a = p
        <5>1. p \in S /\ c = n
          BY <1>4, <1>13, <2>2, <3>1, <4>1
        <5>2. Key(a)' < j
          BY <1>6, <1>13, <3>2, <4>1, <5>1
        <5> QED
          BY <1>13, <2>2, <5>1, <5>2
      <4>2. CASE a = n
        <5>1. p \in S /\ c = Ptr(p, 0)
          BY <1>4, <1>14, <2>1, <2>2, <3>1, <4>2
        <5>2. c \in Nodes /\ (c \in S \/ (Key(c) = j /\ Unremoved(c)))
          BY <3>2, <5>1
        <5>3. k < Key(c) /\ Key(c) \in Nat
          BY <1>4, <1>7, <1>8, <1>14, <5>1, <5>2
        <5>4. Key(c) <= j
          BY <3>2, <5>2, <5>3
        <5>5. Key(a)' < j
          BY <1>5, <1>13, <4>2, <5>3, <5>4
        <5> QED
          BY <1>13, <1>14, <2>2, <5>2, <5>5 DEF Unremoved
      <4>3. CASE a # p /\ a # n
        <5>1. a \in S /\ a \in Nodes /\ c = Ptr(a, 0)
          BY <1>14, <2>1, <2>2, <3>1, <4>3
        <5>2. Key(a) < j /\ c \in Nodes /\ (c \in S \/ (Key(c) = j /\ Unremoved(c)))
          BY <3>2, <5>1
        <5> QED
          BY <1>13, <1>14, <2>2, <5>1, <5>2 DEF Unremoved
      <4> QED
        BY <4>1, <4>2, <4>3
    <3> QED
      BY <3>1, <3>3 DEF Key, Unremoved, Mark
  <2>4. Q \subseteq Nodes' /\ m \in Q
    BY <1>13, <2>1, <2>2
  <2>5. Leading(Q, j)'
    BY <2>3, <2>4 DEF Leading
  <2> QED
    BY <2>4, <2>5 DEF Leads
<1>22. /\ seen' \in [Threads -> SUBSET BOOLEAN]
       /\ \A u \in Threads : /\ seen[u] \subseteq seen'[u]
                             /\ th[u].pc # "idle" /\ th[u].key = k => TRUE \in seen'[u]
  BY <1>1, <1>3, ObserveIs
<1>23. \A u \in Threads : \A a, z : a = th[u] /\ z = seen'[u] => Sees(a, seen[u], z)
  <2> SUFFICES ASSUME NEW u \in Threads, NEW a, NEW z, a = th[u], z = seen'[u]
               PROVE  Sees(a, seen[u], z)
    OBVIOUS
  <2>1. /\ AnswerInv(a, seen[u]) /\ seen[u] \subseteq z /\ (a.pc # "idle" /\ a.key = k => TRUE \in z)
        /\ a \in ListLocals /\ a.key \in Nat
    <3>1. AnswerInv(a, seen[u]) /\ a \in ListLocals
      BY ListFacts
    <3>2. a.key \in 0 .. MaxKey
      BY <3>1, LocalsTypes, ListGiven, InvGiven
    <3> QED
      <4>1. a.key \in Nat
        BY <3>2
      <4>2. seen[u] \subseteq z /\ (a.pc # "idle" /\ a.key = k => TRUE \in z)
        BY <1>22
      <4> QED
        BY <3>1, <4>1, <4>2
  <2>2. a.pc \in Searching => a.pc # "idle"
    BY DEF Searching
  <2>3. (a.pc # "idle" /\ a.key \in present' => TRUE \in z) /\ (a.pc # "idle" /\ a.key \notin present' => FALSE \in z)
    BY <1>1, <2>1 DEF AnswerInv
  <2>4. \A m \in Nodes : a.pc # "idle" /\ Key(m) = a.key /\ Mark(m, 0)' /\ ~Mark(m, 0) => FALSE \in z
    BY <1>14
  <2>5. a.pc \in Searching /\ FALSE \notin z => \A m \in Nodes : Leads(m, a.key) => Leads(m, a.key)'
    <3>1. a.pc # "idle" /\ a.key = k => FALSE \in z
      BY <1>12, <2>1 DEF AnswerInv
    <3> QED
      BY <1>20, <2>1, <2>2, <3>1
  <2> QED
    BY <2>1, <2>3, <2>4, <2>5 DEF Sees
<1>24. /\ s \in ListLocals /\ s.pc = "found" /\ s.op = "insert" /\ s.mine = n /\ s.at = 1 /\ s.key = k
       /\ s.top = r.top /\ s.pred = r.pred /\ s.curr = r.curr /\ s.succ = r.succ
       /\ s.preds = r.preds /\ s.succs = r.succs /\ s.lvl = r.lvl
  <2>1. /\ s \in ListLocals /\ s.pc = r.pc /\ s.op = r.op /\ s.mine = n /\ s.at = 1 /\ s.key = r.key
        /\ s.top = r.top /\ s.pred = r.pred /\ s.curr = r.curr /\ s.succ = r.succ
        /\ s.preds = r.preds /\ s.succs = r.succs /\ s.lvl = r.lvl
    <3>1. n \in Int /\ 1 \in Int /\ r \in ListLocals /\ s = [r EXCEPT !.mine = n, !.at = 1]
      BY <1>2, <1>3, <1>4
    <3> QED
      BY <3>1 DEF ListLocals
  <2> QED
    BY <1>1, <2>1
<1>25. SearchInv(s)'
  <2>1. SearchInv(s)
    BY <1>1, <1>3, <1>24 DEF SearchInv, Searching
  <2> QED
    BY <1>3, <1>15, <1>24, <2>1, SearchStable
<1>26. MineInv(s)'
  <2>1. /\ s.mine \in Nodes' \ {Head} /\ Key(s.mine)' = s.key /\ Top(s.mine)' = s.top
        /\ s.mine # Nil /\ s.at \in 1 .. s.top + 1
    BY <1>4, <1>5, <1>13, <1>24
  <2> QED
    BY <1>24, <2>1 DEF MineInv
<1>27. AnswerInv(s, y)'
  <2>1. TRUE \in y /\ k \in present' /\ seen[t] \subseteq y
    BY <1>1, <1>2, <1>22
  <2>2. FALSE \in y
    BY <1>1, <1>3, <2>1 DEF AnswerInv
  <2> QED
    BY <1>24, <2>1, <2>2 DEF AnswerInv, Searching
<1>28. th' = [th EXCEPT ![t] = s] /\ th'[t] = s /\ (\A u \in Threads \ {t} : th'[u] = th[u])
  BY <1>1, <1>2, <1>3 DEF Local, ListTypes
<1>29. ThreadsInv' /\ th' \in [Threads -> ListLocals]
  BY <1>2, <1>3, <1>15, <1>22, <1>23, <1>24, <1>25, <1>26, <1>27, <1>28, ThreadsStep
<1>30. ListTypes'
  <2>1. ASSUME NEW m \in Nodes' PROVE Top(m)' \in Levels /\ (node[m] \in NodeRec(Top(m)))'
    <3>1. \A l : NodeRec(l)' = NodeRec(l)
      BY DEF NodeRec
    <3>2. \A m1 \in Nodes : Top(m1) \in Levels
      BY <1>3 DEF ListTypes
    <3>3. Top(m)' \in Levels /\ node'[m] \in NodeRec(Top(m)')
      BY <1>5, <1>13, <3>2
    <3> QED
      BY <3>1, <3>3 DEF NodeRec
  <2>2. Nodes' = 0 .. n
    BY <1>4, <1>13
  <2>3. present' \subseteq Keys /\ retired' \subseteq Nodes' /\ deleted' \subseteq Nodes' /\ size' \in Int
    BY <1>1, <1>3, <1>5, <1>13 DEF ListTypes
  <2> QED
    BY <1>3, <1>4, <1>13, <1>22, <1>29, <2>1, <2>2, <2>3, ListGiven DEF ListTypes
<1>31. SizeInv'
  <2>1. t \notin Inserted /\ t \notin Erased
    BY <1>1, NotCounted
  <2>2. Inserted' = Inserted \cup {t} /\ Erased' = Erased
    <3>1. s.op = "insert" /\ s.op # "erase" /\ s.mine # Nil
      BY <1>4, <1>24
    <3>2. th' = [th EXCEPT ![t] = s]
      BY <1>28
    <3> QED
      BY <1>3, <2>1, <3>1, <3>2, Counted
  <2>3. /\ Cardinality(Inserted') = Cardinality(Inserted) + 1 /\ Cardinality(Inserted) \in Nat
        /\ Cardinality(Erased) \in Nat
    BY <1>3, <1>28, <2>1, <2>2, Counted, FS_AddElement
  <2>4. Cardinality(present') = Cardinality(present) + 1 /\ Cardinality(present) \in Nat
    BY <1>1, <1>3, <1>12, PresentFinite, FS_AddElement
  <2> QED
    BY <1>1, <1>3, <2>2, <2>3, <2>4 DEF SizeInv
<1>32. MarkInv'
  <2>1. ASSUME NEW m \in Nodes', NEW l \in 0 .. Top(m)', Mark(m, l)', ~Mark(m, 0)'
        PROVE  \E u \in Threads : th'[u].pc = "mark" /\ th'[u].mine = m
    <3>1. m \in Nodes /\ l \in 0 .. Top(m) /\ Mark(m, l) /\ ~Mark(m, 0)
      BY <1>13, <1>14, <2>1
    <3>2. PICK u \in Threads : th[u].pc = "mark" /\ th[u].mine = m
      BY <1>3, <3>1 DEF MarkInv
    <3> QED
      BY <1>1, <1>28, <3>1, <3>2
  <2>2. ASSUME NEW m \in retired' PROVE \E l \in 0 .. Top(m)' : Mark(m, l)'
    <3>1. m \in Nodes /\ \E l \in 0 .. Top(m) : Mark(m, l)
      BY <1>1, <1>3 DEF MarkInv, ListTypes
    <3> QED
      BY <1>13, <1>14, <3>1
  <2> QED
    BY <2>1, <2>2 DEF MarkInv
<1>33. KeptInv'
  <2>1. PICK G \in SUBSET Nodes : Kept(G)
    BY <1>3 DEF KeptInv
  <2>2. PICK H : H = G \cup {n}
    OBVIOUS
  <2>3. \A u \in Threads : Points(th[u])' \subseteq H \cup {Nil}
    <3>1. \A u \in Threads : Points(th[u]) \subseteq H \cup {Nil}
      BY <2>1, <2>2 DEF Kept
    <3>2. Points(s) \subseteq Points(r) \cup {n}
      BY <1>24 DEF Points
    <3>3. Points(s) \subseteq H \cup {Nil}
      BY <1>1, <2>2, <3>1, <3>2
    <3> QED
      BY <1>28, <3>1, <3>3 DEF Points
  <2>4. H \subseteq Nodes' \ deleted'
    BY <1>1, <1>3, <1>4, <1>13, <2>1, <2>2 DEF Kept, ListTypes
  <2>5. \A m \in Nodes' : Unremoved(m)' => m \in H
    BY <1>13, <1>14, <2>1, <2>2 DEF Kept, Unremoved
  <2>6. ASSUME NEW m \in H, NEW l \in 0 .. Top(m)', Ptr(m, l)' # Nil PROVE Ptr(m, l)' \in H
    <3>1. CASE m = n
      <4>1. Ptr(m, l)' = r.succs[l] /\ l \in Levels
        BY <1>5, <1>13, <3>1
      <4>2. r.succs[l] \in Points(r)
        BY <4>1 DEF Points
      <4> QED
        BY <1>1, <2>1, <2>2, <2>6, <4>1, <4>2 DEF Kept
    <3>2. CASE m # n
      <4>1. m \in G /\ m \in Nodes /\ l \in 0 .. Top(m)
        BY <1>13, <2>1, <2>2, <3>2
      <4>2. CASE m = p /\ l = 0
        BY <1>13, <2>2, <4>2
      <4>3. CASE ~(m = p /\ l = 0)
        <5>1. Ptr(m, l)' = Ptr(m, l)
          BY <1>13, <4>1, <4>3
        <5> QED
          BY <2>1, <2>2, <2>6, <4>1, <5>1 DEF Kept
      <4> QED
        BY <4>2, <4>3
    <3> QED
      BY <3>1, <3>2
  <2>7. Kept(H)'
    BY <2>3, <2>4, <2>5, <2>6 DEF Kept
  <2> QED
    BY <2>4, <2>7 DEF KeptInv
<1> QED
  BY <1>16, <1>18, <1>19, <1>29, <1>30, <1>31, <1>32, <1>33 DEF ListInv

Places == Nodes \cup {Nil}

\* The places to which the links of level l lead from x, through the nodes D.
Closed(C, l, D) == \A e \in C \cap D : Ptr(e, l) \in C

Reach(x, l, D) == {a \in Places : \A C \in SUBSET Places : x \in C /\ Closed(C, l, D) => a \in C}

-----------------------------------------------------------------------------
(* What the recursive walks compute.                                       *)

\* What is reached from a node of D, and from any other place.
LEMMA ReachOn ==
    ASSUME NEW D \in SUBSET Nodes, NEW l, NEW x \in D, Ptr(x, l) \in Places
    PROVE  Reach(x, l, D) = {x} \cup Reach(Ptr(x, l), l, D)
<1>1. PICK y : y = Ptr(x, l)
  OBVIOUS
<1>2. x \in Reach(x, l, D)
  BY DEF Reach, Places
<1>3. ASSUME NEW a \in Reach(y, l, D) PROVE a \in Reach(x, l, D)
  <2>1. a \in Places
    BY DEF Reach
  <2>2. ASSUME NEW C \in SUBSET Places, x \in C, Closed(C, l, D) PROVE a \in C
    <3>1. y \in C
      BY <1>1, <2>2 DEF Closed
    <3> QED
      BY <2>2, <3>1 DEF Reach
  <2> QED
    BY <2>1, <2>2 DEF Reach
<1>4. ASSUME NEW a \in Reach(x, l, D), a # x PROVE a \in Reach(y, l, D)
  <2>1. a \in Places
    BY DEF Reach
  <2>2. ASSUME NEW C \in SUBSET Places, y \in C, Closed(C, l, D) PROVE a \in C
    <3>1. PICK B : B = C \cup {x}
      OBVIOUS
    <3>2. B \in SUBSET Places /\ x \in B
      BY <3>1 DEF Places
    <3>3. Closed(B, l, D)
      BY <1>1, <2>2, <3>1 DEF Closed
    <3>4. a \in B
      BY <3>2, <3>3 DEF Reach
    <3> QED
      BY <1>4, <3>1, <3>4
  <2> QED
    BY <2>1, <2>2 DEF Reach
<1> QED
  BY <1>1, <1>2, <1>3, <1>4

LEMMA ReachEnd ==
    ASSUME NEW D \in SUBSET Nodes, NEW l, NEW x \in Places, x \notin D
    PROVE  Reach(x, l, D) = {x}
<1>1. {x} \in SUBSET Places /\ Closed({x}, l, D)
  BY DEF Closed
<1>2. \A a \in Reach(x, l, D) : a \in {x}
  BY <1>1 DEF Reach
<1>3. x \in Reach(x, l, D)
  BY DEF Reach
<1> QED
  BY <1>2, <1>3

\* The recursion of OnLevel at the bottom has a solution.
Walks(f) == f = [n \in Places |-> IF n = Nil THEN {} ELSE {n} \cup f[Ptr(n, 0)]]

\* The recursion of OnLevel has a solution, and is it.
LEMMA WalksExists ==
    ASSUME ListTypes, LinkInv
    PROVE  \E f : Walks(f)
<1>1. PICK D : D = Nodes
  OBVIOUS
<1>2. PICK f : f = [n \in Places |-> Reach(n, 0, D) \ {Nil}]
  OBVIOUS
<1>3. ASSUME NEW n \in Places PROVE f[n] = IF n = Nil THEN {} ELSE {n} \cup f[Ptr(n, 0)]
  <2>1. CASE n = Nil
    <3>1. Nil \notin D /\ D \in SUBSET Nodes
      BY <1>1, NodeTypes
    <3>2. Reach(Nil, 0, D) = {Nil}
      BY <2>1, <3>1, ReachEnd
    <3> QED
      BY <1>2, <2>1, <3>2
  <2>2. CASE n # Nil
    <3>1. n \in D /\ D \in SUBSET Nodes /\ n \in Nodes
      BY <1>1, <2>2 DEF Places
    <3>2. Ptr(n, 0) \in Places
      <4>1. 0 \in 0 .. Top(n)
        BY <3>1, NodeTypes
      <4> QED
        BY <3>1, <4>1 DEF LinkInv, OnList, Places
    <3>3. Reach(n, 0, D) = {n} \cup Reach(Ptr(n, 0), 0, D)
      BY <3>1, <3>2, ReachOn
    <3>4. f[Ptr(n, 0)] = Reach(Ptr(n, 0), 0, D) \ {Nil}
      BY <1>2, <3>2
    <3> QED
      BY <1>2, <2>2, <3>3, <3>4
  <2> QED
    BY <2>1, <2>2
<1>4. Walks(f)
  BY <1>2, <1>3 DEF Walks
<1> QED
  BY <1>4

LEMMA OnLevelIs ==
    ASSUME ListTypes, LinkInv
    PROVE  \E f : Walks(f) /\ OnLevel(0) = f[Head]
<1> DEFINE w == CHOOSE f : Walks(f)
<1>1. Walks(w)
  BY WalksExists
<1>2. OnLevel(0) = w[Head]
  BY DEF OnLevel, Walks, Places, Next0, Ptr
<1> QED
  BY <1>1, <1>2

\* A walk along the bottom links visits every node of the chain.
LEMMA WalksChain ==
    ASSUME ListTypes, LinkInv, NEW R \in SUBSET Nodes, Chain(R), NEW f, Walks(f)
    PROVE  \A x \in R : f[x] \subseteq Nodes /\ \A n \in R : Key(x) <= Key(n) => n \in f[x]
<1>1. \A n \in Nodes : Key(n) \in 0 .. MaxKey
  BY NodeTypes
<1>2. PICK T : T = {MaxKey - Key(x) : x \in {z \in R : ~(f[z] \subseteq Nodes /\ \A n \in R : Key(z) <= Key(n) => n \in f[z])}}
  OBVIOUS
<1>3. SUFFICES ASSUME T # {} PROVE FALSE
  BY <1>2
<1>4. T \subseteq Nat
  BY <1>1, <1>2, ListGiven
<1>5. PICK k \in T : \A m \in T : k <= m
  BY <1>3, <1>4, LeastNumber
<1>6. PICK x \in R : /\ ~(f[x] \subseteq Nodes /\ \A n \in R : Key(x) <= Key(n) => n \in f[x])
                     /\ k = MaxKey - Key(x)
  BY <1>2
<1>7. x \in Nodes /\ x # Nil /\ f[x] = {x} \cup f[Ptr(x, 0)] /\ Ptr(x, 0) \in Places
  <2>1. x \in Nodes /\ x # Nil /\ x \in Places
    BY NodeTypes DEF Places
  <2>2. \A n \in Places : f[n] = IF n = Nil THEN {} ELSE {n} \cup f[Ptr(n, 0)]
    BY DEF Walks
  <2>3. 0 \in 0 .. Top(x)
    BY <2>1, NodeTypes
  <2> QED
    BY <2>1, <2>2, <2>3 DEF LinkInv, OnList, Places
<1>8. PICK y : y = Ptr(x, 0)
  OBVIOUS
<1>9. CASE y = Nil
  <2>1. f[x] = {x}
    <3>1. f[Nil] = {}
      BY DEF Walks, Places
    <3> QED
      BY <1>7, <1>8, <1>9, <3>1
  <2>2. \A n \in R : Key(x) <= Key(n) => n = x
    BY <1>1, <1>8, <1>9 DEF Chain
  <2> QED
    BY <1>6, <1>7, <2>1, <2>2
<1>10. CASE y # Nil
  <2>1. y \in R /\ Key(x) < Key(y)
    <3>1. 0 \in 0 .. Top(x)
      BY <1>7, NodeTypes
    <3> QED
      BY <1>7, <1>8, <1>10, <3>1 DEF LinkInv, Before, Chain
  <2>2. f[y] \subseteq Nodes /\ \A n \in R : Key(y) <= Key(n) => n \in f[y]
    <3> SUFFICES ASSUME ~(f[y] \subseteq Nodes /\ \A n \in R : Key(y) <= Key(n) => n \in f[y]) PROVE FALSE
      OBVIOUS
    <3>1. MaxKey - Key(y) \in T
      BY <1>2, <2>1
    <3> QED
      BY <1>1, <1>5, <1>6, <2>1, <3>1, ListGiven
  <2>3. ASSUME NEW n \in R, Key(x) <= Key(n) PROVE n \in f[x]
    <3>1. CASE n = x
      BY <1>7, <3>1
    <3>2. CASE n # x
      <4>1. Key(x) < Key(n)
        BY <1>1, <2>3, <3>2 DEF Chain
      <4>2. Key(y) <= Key(n)
        BY <1>8, <4>1 DEF Chain
      <4> QED
        BY <1>7, <1>8, <2>2, <4>2
    <3> QED
      BY <3>1, <3>2
  <2> QED
    BY <1>6, <1>7, <1>8, <2>2, <2>3
<1> QED
  BY <1>9, <1>10

\* The nodes of the set are those that a walk finds.
LEMMA LiveIs ==
    ASSUME ListTypes, LinkInv, ChainInv
    PROVE  Live = {n \in Nodes : Unremoved(n)}
<1>1. PICK f : Walks(f) /\ OnLevel(0) = f[Head]
  BY OnLevelIs
<1>2. PICK R \in SUBSET Nodes : Chain(R)
  BY DEF ChainInv
<1>3. Head \in R /\ Key(Head) = 0 /\ \A n \in R : 0 <= Key(n)
  <2>1. \A n \in Nodes : Key(n) \in Nat
    BY NodeTypes
  <2> QED
    BY <1>2, <2>1 DEF Chain, LinkInv
<1>4. OnLevel(0) \subseteq Nodes /\ R \subseteq OnLevel(0)
  BY <1>1, <1>2, <1>3, WalksChain
<1>5. \A n \in Nodes : Unremoved(n) => n \in R
  BY <1>2 DEF Chain
<1> QED
  BY <1>4, <1>5 DEF Live, Next0, Unremoved, Mark

\* The recursion of Unmarked has a solution.
Skips(f, l) ==
    f = [m \in Places |-> IF m = Nil THEN Nil ELSE IF l <= Top(m) /\ Mark(m, l) THEN f[Ptr(m, l)] ELSE m]

Some(S) == CHOOSE a : a \in S

\* The recursion of Unmarked has a solution, and is it.
LEMMA SkipsExists ==
    ASSUME ListTypes, LinkInv, NEW l \in Levels
    PROVE  \E f : Skips(f, l)
<1>1. PICK D : D = {m \in Nodes : l <= Top(m) /\ Mark(m, l)}
  OBVIOUS
<1>2. PICK f : f = [m \in Places |-> Some(Reach(m, l, D) \ D)]
  OBVIOUS
<1>3. ASSUME NEW m \in Places
      PROVE  f[m] = IF m = Nil THEN Nil ELSE IF l <= Top(m) /\ Mark(m, l) THEN f[Ptr(m, l)] ELSE m
  <2>1. CASE m \notin D
    <3>1. Reach(m, l, D) = {m}
      BY <1>1, <2>1, ReachEnd
    <3>2. Reach(m, l, D) \ D = {m}
      BY <2>1, <3>1
    <3>3. Some({m}) = m
      BY DEF Some
    <3>4. f[m] = m
      BY <1>2, <3>2, <3>3
    <3> QED
      BY <1>1, <2>1, <3>4 DEF Places
  <2>2. CASE m \in D
    <3>1. m \in Nodes /\ m # Nil /\ l <= Top(m) /\ Mark(m, l) /\ l \in 0 .. Top(m) /\ D \in SUBSET Nodes
      BY <1>1, <2>2, NodeTypes, ListGiven DEF Levels
    <3>2. Ptr(m, l) \in Places
      BY <3>1 DEF LinkInv, OnList, Places
    <3>3. Reach(m, l, D) = {m} \cup Reach(Ptr(m, l), l, D)
      BY <2>2, <3>1, <3>2, ReachOn
    <3>4. Reach(m, l, D) \ D = Reach(Ptr(m, l), l, D) \ D
      BY <2>2, <3>3
    <3>5. f[m] = f[Ptr(m, l)]
      BY <1>2, <3>2, <3>4
    <3> QED
      BY <3>1, <3>5
  <2> QED
    BY <2>1, <2>2
<1>4. Skips(f, l)
  BY <1>2, <1>3 DEF Skips
<1> QED
  BY <1>4

LEMMA UnmarkedIs ==
    ASSUME ListTypes, LinkInv, NEW l \in Levels
    PROVE  \E f : Skips(f, l) /\ \A n : Unmarked(n, l) = f[n]
<1> DEFINE w == CHOOSE f : Skips(f, l)
<1>1. Skips(w, l)
  BY SkipsExists
<1>2. \A n : Unmarked(n, l) = w[n]
  BY DEF Unmarked, Skips, Places, Next0, Ptr, Mark, Top
<1> QED
  BY <1>1, <1>2

\* What a thread that skips marked nodes finds.
Skipped(f, m, l) ==
    \/ f[m] = Nil
    \/ OnList(f[m], l) /\ ~Mark(f[m], l) /\ (f[m] = m \/ Key(m) < Key(f[m]))

\* What a node that is passed over leads to.
LEMMA SkipsFinds ==
    ASSUME ListTypes, LinkInv, NEW l \in Levels, NEW f, Skips(f, l)
    PROVE  \A m \in Nodes : l <= Top(m) => Skipped(f, m, l)
<1>1. \A n \in Nodes : Key(n) \in 0 .. MaxKey /\ n \in Nat
  BY NodeTypes
<1>2. PICK B : B = {m \in Nodes : l <= Top(m) /\ ~Skipped(f, m, l)}
  OBVIOUS
<1>3. SUFFICES ASSUME B # {} PROVE FALSE
  BY <1>2
<1>4. PICK T : T = {MaxKey - Key(x) : x \in B}
  OBVIOUS
<1>5. T \subseteq Nat /\ T # {}
  BY <1>1, <1>2, <1>3, <1>4, ListGiven
<1>6. PICK k \in T : \A m \in T : k <= m
  BY <1>5, LeastNumber
<1>7. PICK A : A = {x \in B : MaxKey - Key(x) = k}
  OBVIOUS
<1>8. A \subseteq Nat /\ A # {}
  BY <1>1, <1>2, <1>4, <1>6, <1>7
<1>9. PICK x \in A : \A m \in A : x <= m
  BY <1>8, LeastNumber
<1>10. /\ x \in Nodes /\ l <= Top(x) /\ ~Skipped(f, x, l) /\ MaxKey - Key(x) = k /\ x # Nil /\ x \in Places
       /\ l \in 0 .. Top(x) /\ l \in Nat
  BY <1>2, <1>7, <1>9, NodeTypes, ListGiven DEF Places, Levels
<1>11. \A m \in Places : f[m] = IF m = Nil THEN Nil ELSE IF l <= Top(m) /\ Mark(m, l) THEN f[Ptr(m, l)] ELSE m
  BY DEF Skips
<1>12. CASE ~Mark(x, l)
  <2>1. f[x] = x
    BY <1>10, <1>11, <1>12
  <2> QED
    BY <1>10, <1>12, <2>1 DEF Skipped, OnList
<1>13. CASE Mark(x, l)
  <2>1. PICK y : y = Ptr(x, l) /\ f[x] = f[y]
    BY <1>10, <1>11, <1>13
  <2>2. CASE y = Nil
    <3>1. f[Nil] = Nil
      BY <1>11 DEF Places
    <3> QED
      BY <1>10, <2>1, <2>2, <3>1 DEF Skipped
  <2>3. CASE y # Nil
    <3>1. y \in Nodes /\ l <= Top(y) /\ Before(x, y, l) /\ Key(y) \in Nat /\ Key(x) \in Nat
      BY <1>1, <1>10, <2>1, <2>3 DEF LinkInv, OnList
    <3>2. Skipped(f, y, l)
      <4> SUFFICES ASSUME y \in B PROVE FALSE
        BY <1>2, <3>1
      <4>1. MaxKey - Key(y) \in T
        BY <1>4
      <4>2. ~(Key(x) < Key(y))
        BY <1>1, <1>6, <1>10, <3>1, <4>1, ListGiven
      <4>3. Key(x) = Key(y) /\ y < x
        BY <3>1, <4>2 DEF Before
      <4>4. y \in A
        BY <1>7, <1>10, <4>3
      <4> QED
        BY <1>1, <1>9, <1>10, <3>1, <4>3, <4>4
    <3>3. CASE f[y] = Nil
      BY <1>10, <2>1, <3>3 DEF Skipped
    <3>4. CASE f[y] # Nil
      <4>1. OnList(f[y], l) /\ ~Mark(f[y], l) /\ (f[y] = y \/ Key(y) < Key(f[y]))
        BY <3>2, <3>4 DEF Skipped
      <4>2. Key(f[y]) \in Nat
        BY <1>1, <4>1 DEF OnList
      <4>3. Key(x) < Key(f[y])
        BY <3>1, <4>1, <4>2 DEF Before
      <4> QED
        BY <1>10, <2>1, <4>1, <4>3 DEF Skipped
    <3> QED
      BY <3>3, <3>4
  <2> QED
    BY <2>2, <2>3
<1> QED
  BY <1>12, <1>13

\* No node of the set is passed over.
LEMMA SkipsNone ==
    ASSUME ListTypes, LinkInv, NEW R \in SUBSET Nodes, Chain(R), NEW f, Skips(f, 0), NEW n \in Nodes, Unremoved(n)
    PROVE  \A x \in R : Key(x) <= Key(n) => f[x] # Nil /\ Key(f[x]) <= Key(n)
<1>1. \A m \in Nodes : Key(m) \in 0 .. MaxKey /\ 0 <= Top(m)
  BY NodeTypes
<1>2. PICK B : B = {x \in R : Key(x) <= Key(n) /\ ~(f[x] # Nil /\ Key(f[x]) <= Key(n))}
  OBVIOUS
<1>3. SUFFICES ASSUME B # {} PROVE FALSE
  BY <1>2
<1>4. PICK T : T = {MaxKey - Key(x) : x \in B}
  OBVIOUS
<1>5. T \subseteq Nat /\ T # {}
  BY <1>1, <1>2, <1>3, <1>4, ListGiven
<1>6. PICK k \in T : \A m \in T : k <= m
  BY <1>5, LeastNumber
<1>7. PICK x \in B : MaxKey - Key(x) = k
  BY <1>4, <1>6
<1>8. x \in R /\ x \in Nodes /\ Key(x) <= Key(n) /\ ~(f[x] # Nil /\ Key(f[x]) <= Key(n)) /\ x # Nil
  BY <1>2, <1>7, NodeTypes
<1>9. \A m \in Places : f[m] = IF m = Nil THEN Nil ELSE IF 0 <= Top(m) /\ Mark(m, 0) THEN f[Ptr(m, 0)] ELSE m
  BY DEF Skips
<1>10. Mark(x, 0)
  <2> SUFFICES ASSUME ~Mark(x, 0) PROVE FALSE
    OBVIOUS
  <2>1. f[x] = x
    BY <1>8, <1>9 DEF Places
  <2> QED
    BY <1>8, <2>1
<1>11. PICK y : y = Ptr(x, 0) /\ f[x] = f[y]
  BY <1>1, <1>8, <1>9, <1>10 DEF Places
<1>12. n \in R /\ n # x
  BY <1>10 DEF Chain, Unremoved
<1>13. Key(x) < Key(n)
  BY <1>1, <1>8, <1>12 DEF Chain
<1>14. y # Nil /\ Key(y) <= Key(n) /\ y \in R
  BY <1>8, <1>11, <1>12, <1>13 DEF Chain
<1>15. Key(x) < Key(y)
  <2>1. 0 \in 0 .. Top(x)
    BY <1>8, NodeTypes
  <2> QED
    BY <1>8, <1>11, <1>14, <2>1 DEF LinkInv, Before
<1>16. y \notin B
  <2> SUFFICES ASSUME y \in B PROVE FALSE
    OBVIOUS
  <2>1. MaxKey - Key(y) \in T
    BY <1>4
  <2> QED
    BY <1>1, <1>6, <1>7, <1>8, <1>14, <1>15, <2>1, ListGiven
<1> QED
  BY <1>2, <1>8, <1>11, <1>14, <1>16

-----------------------------------------------------------------------------
(* quiesce.                                                                *)

\* What scan_unlink writes into a link.
LEMMA ScanPtr ==
    ASSUME ListTypes, LinkInv, NEW n \in Nodes, NEW l \in 0 .. Top(n), NEW a, a = Unmarked(Ptr(n, l), l)
    PROVE  a \in Int /\ (a # Nil => OnList(a, l) /\ ~Mark(a, l) /\ Unremoved(a) /\ Key(n) < Key(a))
<1>1. l \in Levels /\ Nil \in Int
  <2>1. Nil \in Int
    BY DEF Nil
  <2> QED
    BY <2>1, NodeTypes
<1>2. PICK f : Skips(f, l) /\ \A m : Unmarked(m, l) = f[m]
  BY <1>1, UnmarkedIs
<1>3. \A m \in Nodes : l <= Top(m) => Skipped(f, m, l)
  BY <1>1, <1>2, SkipsFinds
<1>4. PICK m : m = Ptr(n, l) /\ a = f[m]
  BY <1>2
<1>5. CASE m = Nil
  <2>1. f[Nil] = Nil
    BY <1>2 DEF Skips, Places
  <2> QED
    BY <1>1, <1>4, <1>5, <2>1
<1>6. CASE m # Nil
  <2>1. m \in Nodes /\ l <= Top(m) /\ Before(n, m, l) /\ Skipped(f, m, l)
    BY <1>3, <1>4, <1>6 DEF LinkInv, OnList
  <2>2. CASE a = Nil
    BY <1>1, <2>2
  <2>3. CASE a # Nil
    <3>1. OnList(a, l) /\ ~Mark(a, l) /\ (a = m \/ Key(m) < Key(a))
      BY <1>4, <2>1, <2>3 DEF Skipped
    <3>2. a \in Nodes /\ l \in 0 .. Top(a) /\ a \in Int
      BY <1>1, <3>1, NodeTypes, ListGiven DEF OnList, Levels
    <3>3. Unremoved(a)
      BY <3>1, <3>2 DEF LinkInv, Unremoved
    <3>4. Key(n) \in Nat /\ Key(m) \in Nat /\ Key(a) \in Nat
      BY <2>1, <3>2, NodeTypes
    <3>5. Key(n) < Key(a)
      BY <2>1, <3>1, <3>4 DEF Before
    <3> QED
      BY <3>1, <3>2, <3>3, <3>5
  <2> QED
    BY <2>2, <2>3
<1> QED
  BY <1>5, <1>6

\* scan_unlink of one node.
LEMMA ScanIs ==
    ASSUME ListTypes, LinkInv, ChainInv, NEW n \in Nodes, NEW s, s = ScanUnlink(n)
    PROVE  /\ s.key = Key(n) /\ s.top = Top(n) /\ s.removed = node[n].removed /\ s \in NodeRec(Top(n))
           /\ ~Unremoved(n) => s = node[n]
           /\ Unremoved(n) => \A l \in 0 .. Top(n) :
                 s.next[l].ptr = Unmarked(Ptr(n, l), l) /\ s.next[l].mark = FALSE
<1>1. PICK r : r = node[n] /\ r \in NodeRec(Top(n)) /\ r.top = Top(n) /\ r.key = Key(n)
  BY DEF ListTypes, Top, Key
<1>2. r.next \in [0 .. Top(n) -> [ptr : Int, mark : BOOLEAN]]
  BY <1>1 DEF NodeRec
<1>3. n \in Live <=> Unremoved(n)
  BY LiveIs
<1>4. CASE ~Unremoved(n)
  <2>1. s = r
    BY <1>1, <1>3, <1>4 DEF ScanUnlink
  <2> QED
    BY <1>1, <1>4, <2>1
<1>5. CASE Unremoved(n)
  <2>1. PICK g : g = [l \in DOMAIN r.next |-> Link(Unmarked(r.next[l].ptr, l), FALSE)]
    OBVIOUS
  <2>2. s = [r EXCEPT !.next = g]
    BY <1>1, <1>3, <1>5, <2>1 DEF ScanUnlink
  <2>3. \A l \in 0 .. Top(n) : g[l] = Link(Unmarked(Ptr(n, l), l), FALSE)
    BY <1>1, <1>2, <2>1 DEF Ptr
  <2>4. \A l \in 0 .. Top(n) : Unmarked(Ptr(n, l), l) \in Int
    BY ScanPtr
  <2>5. g = [l \in 0 .. Top(n) |-> g[l]]
    BY <1>2, <2>1
  <2>6. \A l \in 0 .. Top(n) : /\ g[l] \in [ptr : Int, mark : BOOLEAN]
                               /\ g[l].ptr = Unmarked(Ptr(n, l), l) /\ g[l].mark = FALSE
    <3> SUFFICES ASSUME NEW l \in 0 .. Top(n)
                 PROVE  /\ g[l] \in [ptr : Int, mark : BOOLEAN]
                        /\ g[l].ptr = Unmarked(Ptr(n, l), l) /\ g[l].mark = FALSE
      OBVIOUS
    <3>1. PICK a : a = Unmarked(Ptr(n, l), l)
      OBVIOUS
    <3>2. a \in Int /\ g[l] = Link(a, FALSE)
      BY <2>3, <2>4, <3>1
    <3> QED
      BY <3>1, <3>2 DEF Link
  <2>7. g \in [0 .. Top(n) -> [ptr : Int, mark : BOOLEAN]]
    BY <2>5, <2>6
  <2>8. s \in NodeRec(Top(n)) /\ s.next = g /\ s.key = r.key /\ s.top = r.top /\ s.removed = r.removed
    BY <1>1, <2>2, <2>7 DEF NodeRec
  <2> QED
    BY <1>1, <1>5, <2>6, <2>8
<1> QED
  BY <1>4, <1>5

\* The effect of quiesce on the nodes while no operation is under way: the links
\* of the nodes of the set pass over the removed ones, and no mark changes.
Swept ==
    /\ Nodes' = Nodes /\ node' = [n \in Nodes' |-> node'[n]]
    /\ \A n \in Nodes : /\ Key(n)' = Key(n) /\ Top(n)' = Top(n)
                        /\ node'[n].removed = node[n].removed
                        /\ node'[n] \in NodeRec(Top(n)')
    /\ \A n \in Nodes : \A l \in 0 .. Top(n) : Mark(n, l)' = Mark(n, l)
    /\ \A n \in Nodes : ~Unremoved(n) => \A l \in 0 .. Top(n) : Ptr(n, l)' = Ptr(n, l)
    /\ \A n \in Nodes : Unremoved(n) =>
          \A l \in 0 .. Top(n) : ~Mark(n, l) /\ Ptr(n, l)' = Unmarked(Ptr(n, l), l)

\* quiesce has that effect.
LEMMA QuiesceSweeps ==
    ASSUME ListInv, Quiesce
    PROVE  Swept
<1>1. /\ ListTypes /\ LinkInv /\ ChainInv /\ node' = [n \in Nodes |-> ScanUnlink(n)]
      /\ \A t \in Threads : th[t].pc = "idle"
  BY DEF ListInv, Quiesce
<1>2. Nodes' = Nodes /\ node' = [n \in Nodes' |-> node'[n]] /\ \A n \in Nodes : node'[n] = ScanUnlink(n)
  BY <1>1 DEF Nodes
<1>3. \A n \in Nodes :
         LET s == node'[n]
         IN  /\ s.key = Key(n) /\ s.top = Top(n) /\ s.removed = node[n].removed /\ s \in NodeRec(Top(n))
             /\ ~Unremoved(n) => s = node[n]
             /\ Unremoved(n) => \A l \in 0 .. Top(n) :
                   s.next[l].ptr = Unmarked(Ptr(n, l), l) /\ s.next[l].mark = FALSE
  BY <1>1, <1>2, ScanIs
<1>4. \A n \in Nodes : /\ Key(n)' = Key(n) /\ Top(n)' = Top(n)
                       /\ node'[n].removed = node[n].removed
                       /\ node'[n] \in NodeRec(Top(n)')
  BY <1>3 DEF Key, Top
<1>5. \A n \in Nodes : Unremoved(n) => \A l \in 0 .. Top(n) : ~Mark(n, l)
  BY <1>1 DEF ListInv, MarkInv, Unremoved
<1>6. \A n \in Nodes : \A l \in 0 .. Top(n) : Mark(n, l) \in BOOLEAN
  BY <1>1, NodeTypes
<1>7. ASSUME NEW n \in Nodes, NEW l \in 0 .. Top(n)
      PROVE  /\ Mark(n, l)' = Mark(n, l)
             /\ ~Unremoved(n) => Ptr(n, l)' = Ptr(n, l)
             /\ Unremoved(n) => ~Mark(n, l) /\ Ptr(n, l)' = Unmarked(Ptr(n, l), l)
  <2>1. Ptr(n, l)' = node'[n].next[l].ptr /\ Mark(n, l)' = node'[n].next[l].mark
    BY DEF Ptr, Mark
  <2>2. CASE ~Unremoved(n)
    <3>1. node'[n] = node[n]
      BY <1>3, <2>2
    <3> QED
      BY <2>1, <2>2, <3>1 DEF Ptr, Mark
  <2>3. CASE Unremoved(n)
    <3>1. node'[n].next[l].ptr = Unmarked(Ptr(n, l), l) /\ node'[n].next[l].mark = FALSE
      BY <1>3, <2>3
    <3>2. Mark(n, l) = FALSE
      BY <1>5, <1>6, <2>3
    <3> QED
      BY <2>1, <2>3, <3>1, <3>2
  <2> QED
    BY <2>2, <2>3
<1> QED
  BY <1>2, <1>4, <1>7 DEF Swept

\* The links stay in order.
LEMMA SweptLinks ==
    ASSUME ListTypes, LinkInv, Swept
    PROVE  LinkInv' /\ Grows
<1>1. /\ Nodes' = Nodes /\ Head \in Nodes /\ \A n \in Nodes : n \in Nat /\ 0 \in 0 .. Top(n)
      /\ \A n \in Nodes : Key(n)' = Key(n) /\ Top(n)' = Top(n) /\ node'[n].removed = node[n].removed
  BY NodeTypes DEF Swept
<1>2. \A n \in Nodes : \A l \in 0 .. Top(n) : Mark(n, l)' = Mark(n, l)
  BY DEF Swept
<1>3. Grows
  BY <1>1, <1>2 DEF Swept, Grows, LinkInv, Unremoved
<1>4. Key(Head)' = 0 /\ Top(Head)' = MaxLevel
  BY <1>1 DEF LinkInv
<1>5. \A n \in Nodes' : n # Head => Key(n)' # 0
  BY <1>1 DEF LinkInv
<1>6. \A l \in Levels : ~Mark(Head, l)'
  BY <1>1, <1>2 DEF LinkInv, Levels
<1>7. \A n \in Nodes' : Mark(n, 0)' => \A l \in 0 .. Top(n)' : Mark(n, l)'
  BY <1>1, <1>2 DEF LinkInv
<1>8. \A n \in Nodes' : node'[n].removed => Mark(n, 0)'
  BY <1>1, <1>2 DEF LinkInv
<1>9. ASSUME NEW n \in Nodes', NEW l \in 0 .. Top(n)'
      PROVE  (Ptr(n, l) # Nil => OnList(Ptr(n, l), l) /\ Before(n, Ptr(n, l), l))'
  <2>1. n \in Nodes /\ l \in 0 .. Top(n)
    BY <1>1
  <2>2. PICK a : a = Ptr(n, l)'
    OBVIOUS
  <2>3. a # Nil => OnList(a, l) /\ Before(n, a, l)
    <3>1. CASE Unremoved(n)
      BY <2>1, <2>2, <3>1, ScanPtr DEF Swept, Before
    <3>2. CASE ~Unremoved(n)
      BY <2>1, <2>2, <3>2 DEF Swept, LinkInv
    <3> QED
      BY <3>1, <3>2
  <2>4. a # Nil => a \in Nodes /\ l \in 0 .. Top(a)
    BY <1>1, <2>1, <2>3, NodeTypes, ListGiven DEF OnList, Levels
  <2>5. a # Nil => OnList(a, l)' /\ Before(n, a, l)'
    BY <1>1, <1>2, <2>1, <2>3, <2>4 DEF OnList, Before
  <2> QED
    BY <2>2, <2>5 DEF OnList, Before, Key, Mark, Top
<1> QED
  BY <1>3, <1>4, <1>5, <1>6, <1>7, <1>8, <1>9 DEF LinkInv

\* The nodes of the set are the new bottom level.
LEMMA SweptChain ==
    ASSUME ListTypes, LinkInv, ChainInv, Swept
    PROVE  ChainInv'
<1>1. PICK R \in SUBSET Nodes : Chain(R)
  BY DEF ChainInv
<1>2. /\ Nodes' = Nodes /\ Head \in Nodes /\ \A n \in Nodes : n \in Nat /\ 0 \in 0 .. Top(n) /\ Key(n) \in Nat
      /\ \A n \in Nodes : Key(n)' = Key(n)
      /\ 0 \in Levels /\ Unremoved(Head)
  BY NodeTypes, HeadFacts DEF Swept
<1>3. PICK U : U = {n \in Nodes : Unremoved(n)}
  OBVIOUS
<1>4. PICK f : Skips(f, 0) /\ \A m : Unmarked(m, 0) = f[m]
  BY <1>2, UnmarkedIs
<1>5. \A n \in Nodes : Unremoved(n)' <=> Unremoved(n)
  BY <1>2 DEF Swept, Unremoved
<1>6. \A n \in U : Ptr(n, 0)' = f[Ptr(n, 0)] /\ n \in R
  BY <1>1, <1>2, <1>3, <1>4 DEF Swept, Chain
<1>7. \A n \in U : Ptr(n, 0)' # Nil => Ptr(n, 0)' \in U
  <2> SUFFICES ASSUME NEW n \in U, NEW a, a = Ptr(n, 0)', a # Nil PROVE a \in U
    OBVIOUS
  <2>1. a = Unmarked(Ptr(n, 0), 0)
    BY <1>2, <1>3 DEF Swept
  <2>2. OnList(a, 0) /\ Unremoved(a)
    BY <1>2, <1>3, <2>1, ScanPtr
  <2> QED
    BY <1>3, <2>2 DEF OnList
<1>8. \A m, n \in U : Key(m)' = Key(n)' => m = n
  BY <1>1, <1>2, <1>3, <1>6 DEF Chain
<1>9. ASSUME NEW m \in U, NEW n \in U, Key(m)' < Key(n)'
      PROVE  (Ptr(m, 0) # Nil /\ Key(Ptr(m, 0)) <= Key(n))'
  <2>1. PICK a : a = Ptr(m, 0)'
    OBVIOUS
  <2>2. PICK b : b = Ptr(m, 0)
    OBVIOUS
  <2>3. Key(m) < Key(n) /\ m \in R /\ n \in R /\ n \in Nodes /\ Unremoved(n)
    BY <1>2, <1>3, <1>6, <1>9
  <2>4. b # Nil /\ Key(b) <= Key(n) /\ b \in R
    BY <1>1, <2>2, <2>3 DEF Chain
  <2>5. f[b] # Nil /\ Key(f[b]) <= Key(n)
    BY <1>1, <1>4, <2>3, <2>4, SkipsNone
  <2>6. a = f[b] /\ a \in U
    BY <1>6, <1>7, <2>1, <2>2, <2>5
  <2>7. a # Nil /\ Key(a)' <= Key(n)'
    BY <1>2, <1>3, <2>3, <2>5, <2>6
  <2> QED
    BY <2>1, <2>7 DEF Key
<1>10. Chain(U)'
  <2>1. U \subseteq Nodes' /\ Head \in U /\ \A n \in Nodes' : Unremoved(n)' => n \in U
    BY <1>2, <1>3, <1>5
  <2> QED
    BY <1>7, <1>8, <1>9, <2>1 DEF Chain
<1> QED
  BY <1>2, <1>3, <1>10 DEF ChainInv

\* quiesce, called while no other operation is under way.
LEMMA QuiesceStep ==
    ASSUME ListInv, Quiesce
    PROVE  ListInv'
<1>1. /\ ListTypes /\ LinkInv /\ ChainInv /\ PresentInv /\ ThreadsInv /\ SizeInv /\ MarkInv
  BY DEF ListInv
<1>2. /\ \A t \in Threads : th[t].pc = "idle"
      /\ retired' = {} /\ deleted' = deleted \cup retired
      /\ UNCHANGED <<size, th, present, seen>>
  BY DEF Quiesce
<1>3. Swept
  BY QuiesceSweeps
<1>4. LinkInv' /\ Grows /\ ChainInv'
  BY <1>1, <1>3, SweptLinks, SweptChain
<1>5. /\ Nodes' = Nodes
      /\ \A n \in Nodes : /\ Key(n)' = Key(n) /\ Top(n)' = Top(n) /\ n \in Nat /\ 0 \in 0 .. Top(n)
                          /\ (Unremoved(n)' <=> Unremoved(n))
      /\ \A n \in Nodes : \A l \in 0 .. Top(n) : Mark(n, l)' = Mark(n, l)
  <2>1. /\ Nodes' = Nodes
        /\ \A n \in Nodes : Key(n)' = Key(n) /\ Top(n)' = Top(n) /\ n \in Nat /\ 0 \in 0 .. Top(n)
    BY <1>1, <1>3, NodeTypes DEF Swept
  <2>2. \A n \in Nodes : \A l \in 0 .. Top(n) : Mark(n, l)' = Mark(n, l)
    BY <1>3 DEF Swept
  <2>3. \A n \in Nodes : Unremoved(n)' <=> Unremoved(n)
    BY <2>1, <2>2 DEF Unremoved
  <2> QED
    BY <2>1, <2>2, <2>3
<1>6. ListTypes'
  <2>1. \A n \in Nodes' : Top(n)' \in Levels /\ node'[n] \in NodeRec(Top(n)')
    BY <1>1, <1>3, <1>5, NodeTypes DEF Swept
  <2>2. node' = [n \in Nodes' |-> node'[n]]
    BY <1>3 DEF Swept
  <2> QED
    BY <1>1, <1>2, <1>5, <2>1, <2>2 DEF ListTypes
<1>7. PresentInv'
  BY <1>1, <1>2, <1>5 DEF PresentInv, Holds
<1>8. ThreadsInv'
  <2> SUFFICES ASSUME NEW u \in Threads, NEW x, NEW z, x = th'[u], z = seen'[u]
               PROVE  SearchInv(x)' /\ MineInv(x)' /\ AnswerInv(x, z)'
    BY ThreadsLater
  <2>1. x = th[u] /\ z = seen[u] /\ x.pc = "idle"
    BY <1>2
  <2>2. Sees(x, seen[u], z)
    BY <2>1 DEF Sees, Searching
  <2> QED
    BY <1>1, <1>4, <2>1, <2>2, ThreadStable
<1>9. SizeInv'
  BY <1>1, <1>2 DEF SizeInv, Inserted, Erased
<1>10. MarkInv'
  BY <1>1, <1>2, <1>5 DEF MarkInv
<1>11. KeptInv'
  <2>1. PICK G \in SUBSET Nodes : Kept(G)
    BY DEF ListInv, KeptInv
  <2>2. PICK U : U = {n \in Nodes : Unremoved(n)}
    OBVIOUS
  <2>3. U \subseteq Nodes' \ deleted'
    <3>1. U \subseteq Nodes \ deleted
      BY <2>1, <2>2 DEF Kept
    <3>2. U \cap retired = {}
      BY <1>1, <1>2, <2>2 DEF MarkInv, Unremoved
    <3> QED
      BY <1>2, <1>5, <3>1, <3>2
  <2>4. \A n \in U : \A l \in 0 .. Top(n)' : Ptr(n, l)' # Nil => Ptr(n, l)' \in U
    <3> SUFFICES ASSUME NEW n \in U, NEW l \in 0 .. Top(n), NEW a, a = Ptr(n, l)', a # Nil PROVE a \in U
      BY <1>5, <2>2
    <3>1. a = Unmarked(Ptr(n, l), l)
      BY <1>3, <2>2 DEF Swept
    <3>2. OnList(a, l) /\ Unremoved(a)
      BY <1>1, <2>2, <3>1, ScanPtr
    <3> QED
      BY <2>2, <3>2 DEF OnList
  <2>5. \A t \in Threads : Points(th[t])' \subseteq U \cup {Nil}
    <3>1. Head \in U
      BY <1>1, <2>2, HeadFacts
    <3>2. \A t \in Threads : Points(th[t]) \subseteq {Head, Nil}
      BY <1>1, <1>2 DEF ThreadsInv, SearchInv
    <3>3. \A t \in Threads : Points(th[t])' = Points(th[t])
      BY <1>2 DEF Points
    <3> QED
      BY <3>1, <3>2, <3>3
  <2>6. Kept(U)'
    BY <1>5, <2>2, <2>3, <2>4, <2>5 DEF Kept
  <2> QED
    BY <1>5, <2>2, <2>6 DEF KeptInv
<1> QED
  BY <1>4, <1>6, <1>7, <1>8, <1>9, <1>10, <1>11 DEF ListInv

-----------------------------------------------------------------------------
(* The invariant, and what follows from it.                                *)

\* The empty list.
LEMMA ListInitially ==
    ASSUME ListAssumption, Init
    PROVE  ListInv
<1>1. /\ Nodes = {Head} /\ node = [n \in Nodes |-> node[n]]
      /\ node[Head] = NewNode(0, MaxLevel, [l \in Levels |-> Nil])
      /\ size = 0 /\ th = [t \in Threads |-> Idle] /\ retired = {} /\ deleted = {}
      /\ present = {} /\ seen = [t \in Threads |-> {}]
  BY DEF Init, Nodes
<1>2. Head = 0 /\ Head \in Nodes /\ MaxLevel \in Nat /\ Levels = 0 .. MaxLevel /\ Nil \in Int /\ MaxKey \in Nat
  BY <1>1 DEF Head, Levels, Nil, ListAssumption
<1>3. PICK h : h = node[Head]
  OBVIOUS
<1>4. /\ h.key = 0 /\ h.top = MaxLevel /\ h.removed = FALSE /\ h.links = MaxLevel + 1
      /\ h.next = [l \in 0 .. MaxLevel |-> Link(Nil, FALSE)]
      /\ h = [key |-> 0, top |-> MaxLevel, links |-> MaxLevel + 1, removed |-> FALSE, next |-> h.next]
  <2>1. [l \in 0 .. MaxLevel |-> Link([j \in Levels |-> Nil][l], FALSE)] = [l \in 0 .. MaxLevel |-> Link(Nil, FALSE)]
    BY <1>2
  <2>2. PICK g : g = [l \in 0 .. MaxLevel |-> Link(Nil, FALSE)]
    OBVIOUS
  <2>3. h = [key |-> 0, top |-> MaxLevel, links |-> MaxLevel + 1, removed |-> FALSE, next |-> g]
    BY <1>1, <1>3, <2>1, <2>2 DEF NewNode
  <2> QED
    BY <2>2, <2>3
<1>5. Link(Nil, FALSE).ptr = Nil /\ Link(Nil, FALSE).mark = FALSE /\ Link(Nil, FALSE) \in [ptr : Int, mark : BOOLEAN]
  BY <1>2 DEF Link
<1>6. Key(Head) = 0 /\ Top(Head) = MaxLevel /\ \A l \in Levels : Ptr(Head, l) = Nil /\ ~Mark(Head, l)
  BY <1>2, <1>3, <1>4, <1>5 DEF Key, Top, Ptr, Mark
<1>7. h \in NodeRec(MaxLevel)
  <2>1. h.next \in [0 .. MaxLevel -> [ptr : Int, mark : BOOLEAN]]
    BY <1>4, <1>5
  <2>2. PICK g : g = h.next /\ g \in [0 .. MaxLevel -> [ptr : Int, mark : BOOLEAN]]
    BY <2>1
  <2>3. h = [key |-> 0, top |-> MaxLevel, links |-> MaxLevel + 1, removed |-> FALSE, next |-> g]
    BY <1>4, <2>2
  <2>4. 0 \in 0 .. MaxKey /\ MaxLevel + 1 \in Int
    BY <1>2
  <2> QED
    BY <2>2, <2>3, <2>4 DEF NodeRec
<1>8. ListTypes
  <2>1. Nodes = 0 .. 0
    BY <1>1, <1>2
  <2>2. \A n \in Nodes : Top(n) \in Levels /\ node[n] \in NodeRec(Top(n))
    BY <1>1, <1>2, <1>3, <1>6, <1>7
  <2>3. th \in [Threads -> ListLocals]
    BY <1>1, IdleList
  <2>4. seen \in [Threads -> SUBSET BOOLEAN]
    BY <1>1
  <2> QED
    BY <1>1, <2>1, <2>2, <2>3, <2>4 DEF ListTypes
<1>9. LinkInv
  BY <1>1, <1>2, <1>3, <1>4, <1>6 DEF LinkInv
<1>10. Unremoved(Head)
  BY <1>2, <1>6 DEF Unremoved
<1>11. ChainInv
  <2>1. Chain({Head})
    BY <1>1, <1>2, <1>6 DEF Chain
  <2> QED
    BY <1>1, <2>1 DEF ChainInv
<1>12. PresentInv
  BY <1>1, <1>6 DEF PresentInv, Holds, Keys
<1>13. ThreadsInv
  <2>1. \A t \in Threads : th[t] = Idle
    BY <1>1
  <2> QED
    BY <2>1, IdleList DEF ThreadsInv, SearchInv, MineInv, AnswerInv, Searching
<1>14. SizeInv
  <2>1. Inserted = {} /\ Erased = {}
    BY <1>1, IdleList DEF Inserted, Erased
  <2> QED
    BY <1>1, <2>1, FS_EmptySet DEF SizeInv
<1>15. MarkInv
  BY <1>1, <1>2, <1>6 DEF MarkInv
<1>16. KeptInv
  <2>1. \A t \in Threads : Points(th[t]) \subseteq {Head, Nil}
    BY <1>1, IdleList
  <2>2. Kept({Head})
    BY <1>1, <1>2, <1>6, <2>1 DEF Kept
  <2> QED
    BY <1>1, <2>2 DEF KeptInv
<1> QED
  BY <1>8, <1>9, <1>11, <1>12, <1>13, <1>14, <1>15, <1>16 DEF ListInv

\* A step of nobody.
LEMMA ListUnchanged ==
    ASSUME ListInv, UNCHANGED vars
    PROVE  ListInv'
<1>1. UNCHANGED <<node, size, th, retired, deleted, present, seen>>
  BY DEF vars
<1>2. ListTypes'
  BY <1>1 DEF ListInv, ListTypes, Nodes, Top
<1>3. LinkInv' /\ ChainInv'
  BY <1>1, SameNodes DEF ListInv
<1>4. PresentInv'
  BY <1>1 DEF ListInv, PresentInv, Holds, Nodes, Unremoved, Mark, Key
<1>5. ThreadsInv'
  <2> SUFFICES ASSUME NEW u \in Threads, NEW x, NEW z, x = th'[u], z = seen'[u]
               PROVE  SearchInv(x)' /\ MineInv(x)' /\ AnswerInv(x, z)'
    BY ThreadsLater
  <2>1. ListTypes /\ ThreadsInv
    BY DEF ListInv
  <2>2. x = th[u] /\ z = seen[u] /\ AnswerInv(x, z)
    BY <1>1, <2>1 DEF ThreadsInv
  <2>3. Grows /\ present' = present /\ \A n : Mark(n, 0)' = Mark(n, 0) /\ \A k : Leads(n, k)' <=> Leads(n, k)
    BY <1>1, SameNodes
  <2>4. Sees(x, seen[u], z)
    BY <2>2, <2>3 DEF Sees, AnswerInv
  <2> QED
    BY <2>1, <2>2, <2>3, <2>4, ThreadStable
<1>6. SizeInv'
  BY <1>1 DEF ListInv, SizeInv, Inserted, Erased
<1>7. MarkInv'
  BY <1>1 DEF ListInv, MarkInv, Nodes, Top, Mark
<1>8. KeptInv'
  BY <1>1 DEF ListInv, KeptInv, Kept, Nodes, Unremoved, Mark, Top, Ptr
<1> QED
  BY <1>2, <1>3, <1>4, <1>5, <1>6, <1>7, <1>8 DEF ListInv

\* Every step keeps the invariant.
LEMMA ListStep ==
    ASSUME ListInv, [Next]_vars
    PROVE  ListInv'
<1>1. 0 \in Levels
  BY ListGiven DEF ListInv, Levels
<1>2. ASSUME NEW t \in Threads, Insert(t) \/ Erase(t) \/ FindKey(t) \/ Contains(t) PROVE ListInv'
  <2>1. \E op \in {"insert", "erase", "find", "contains"}, k \in Keys, top \in Levels : Call(t, op, k, top)
    BY <1>1, <1>2 DEF Insert, Erase, FindKey, Contains
  <2> QED
    BY <2>1, CallStep
<1>3. ASSUME NEW t \in Threads, Search(t) PROVE ListInv'
  BY <1>3, FindCurrStep, FindSuccStep, SnipTakes, SnipFails DEF Search
<1>4. ASSUME NEW t \in Threads, Inserting(t) PROVE ListInv'
  BY <1>4, InsertFoundStep, InsertBottomLinks, InsertBottomFails, InsertLevelLinks, InsertLevelFails,
     InsertCountStep DEF Inserting
<1>5. ASSUME NEW t \in Threads, Erasing(t) PROVE ListInv'
  BY <1>5, EraseFoundStep, EraseMarkStep, EraseBottomTakes, EraseBottomFails, EraseFlagStep, EraseCountStep
     DEF Erasing
<1>6. ASSUME NEW t \in Threads, FindReturn(t) \/ Return(t) PROVE ListInv'
  BY <1>6, FindReturnStep, ReturnStep
<1>7. CASE Quiesce
  BY <1>7, QuiesceStep
<1>8. CASE UNCHANGED vars
  BY <1>8, ListUnchanged
<1> QED
  BY <1>2, <1>3, <1>4, <1>5, <1>6, <1>7, <1>8 DEF Next

\* What the list promises follows from its invariant.
LEMMA ListPromises ==
    ASSUME ListInv
    PROVE  AbstractSet /\ LevelsSorted /\ AnswersLinearize /\ SizeAtRest /\ ReclaimSafe
<1>1. /\ ListTypes /\ LinkInv /\ ChainInv /\ PresentInv /\ ThreadsInv /\ SizeInv
  BY DEF ListInv
<1>2. Live = {n \in Nodes : Unremoved(n)}
  BY <1>1, LiveIs
<1>3. AbstractSet
  <2>1. \A m, n \in Live : node[m].key = node[n].key => m = n
    BY <1>1, <1>2 DEF ChainInv, Chain, Key
  <2>2. present \subseteq {node[n].key : n \in Live \ {Head}}
    <3> SUFFICES ASSUME NEW k \in present PROVE \E n \in Live \ {Head} : k = node[n].key
      OBVIOUS
    <3>1. k \in Keys /\ k # 0
      BY <1>1 DEF ListTypes, Keys
    <3>2. PICK n \in Nodes : Unremoved(n) /\ Key(n) = k
      BY <1>1, <3>1 DEF PresentInv, Holds
    <3>3. n # Head
      BY <1>1, <3>1, <3>2 DEF LinkInv
    <3> QED
      BY <1>2, <3>2, <3>3 DEF Key
  <2>3. \A n \in Live \ {Head} : node[n].key \in present
    <3> SUFFICES ASSUME NEW n \in Live \ {Head} PROVE Key(n) \in present
      BY DEF Key
    <3>1. n \in Nodes /\ Unremoved(n) /\ Key(n) \in 0 .. MaxKey /\ Key(n) # 0
      BY <1>1, <1>2, NodeTypes DEF LinkInv
    <3>2. Key(n) \in Keys
      BY <3>1, ListGiven DEF Keys
    <3> QED
      BY <1>1, <3>1, <3>2 DEF PresentInv, Holds
  <2>4. present = {node[n].key : n \in Live \ {Head}}
    BY <2>2, <2>3
  <2> QED
    BY <2>1, <2>4 DEF AbstractSet
<1>4. LevelsSorted
  BY <1>1 DEF LevelsSorted, LinkInv, Before, Top, Ptr, Mark, Key, Next0
<1>5. AnswersLinearize
  BY <1>1 DEF AnswersLinearize, ThreadsInv, AnswerInv
<1>6. SizeAtRest
  <2> SUFFICES ASSUME \A t \in Threads : th[t].pc = "idle" PROVE size = Cardinality(present)
    BY DEF SizeAtRest
  <2>1. \A t \in Threads : th[t].mine = Nil
    BY <1>1 DEF ThreadsInv, SearchInv
  <2>2. Inserted = {} /\ Erased = {}
    BY <2>1 DEF Inserted, Erased
  <2>3. size \in Int /\ Cardinality(present) \in Nat
    BY <1>1, PresentFinite DEF ListTypes
  <2> QED
    BY <1>1, <2>2, <2>3, FS_EmptySet DEF SizeInv
<1>7. ReclaimSafe
  <2>1. PICK G \in SUBSET Nodes : Kept(G)
    BY DEF ListInv, KeptInv
  <2>2. Nil \notin deleted
    BY <1>1, NodeTypes DEF ListTypes
  <2> QED
    BY <1>2, <2>1, <2>2 DEF ReclaimSafe, Kept, Top, Ptr, Next0
<1> QED
  BY <1>3, <1>4, <1>5, <1>6, <1>7

\* So do the types.
LEMMA ListTyped ==
    ASSUME ListInv
    PROVE  TypeOK
<1>1. ListTypes /\ LinkInv /\ th \in [Threads -> ListLocals]
  BY DEF ListInv, ListTypes
<1>2. ASSUME NEW n \in Nodes
      PROVE  /\ node[n].top \in Levels
             /\ DOMAIN node[n].next = 0 .. node[n].top
             /\ \A l \in 0 .. node[n].top : node[n].next[l] \in [ptr : Nodes \cup {Nil}, mark : BOOLEAN]
  <2>1. Top(n) \in Levels /\ node[n].next \in [0 .. Top(n) -> [ptr : Int, mark : BOOLEAN]] /\ node[n].top = Top(n)
    BY <1>1, NodeTypes DEF Top
  <2>2. ASSUME NEW l \in 0 .. Top(n) PROVE node[n].next[l] \in [ptr : Nodes \cup {Nil}, mark : BOOLEAN]
    <3>1. node[n].next[l] \in [ptr : Int, mark : BOOLEAN]
      BY <2>1
    <3>2. node[n].next[l].ptr \in Nodes \cup {Nil}
      BY <1>1 DEF LinkInv, OnList, Ptr
    <3> QED
      BY <3>1, <3>2
  <2> QED
    BY <2>1, <2>2
<1>3. ASSUME NEW t \in Threads
      PROVE  {th[t].pred, th[t].curr, th[t].mine} \subseteq Nodes \cup {Nil} /\ th[t].lvl \in Levels
  <2>1. PICK G \in SUBSET Nodes : Kept(G)
    BY DEF ListInv, KeptInv
  <2>2. Points(th[t]) \subseteq Nodes \cup {Nil}
    BY <2>1 DEF Kept
  <2>3. th[t].lvl \in Levels
    BY <1>1, LocalsTypes, ListGiven, InvGiven
  <2> QED
    BY <2>2, <2>3 DEF Points
<1> QED
  BY <1>1, <1>2, <1>3 DEF TypeOK, ListTypes

\* The invariant always holds.
LEMMA ListHolds == ASSUME ListAssumption PROVE Spec => []ListInv
<1>1. Init => ListInv
  BY ListInitially
<1>2. ListInv /\ [Next]_vars => ListInv'
  BY ListStep
<1> QED
  BY <1>1, <1>2, PTL DEF Spec

\* THEOREM: every variable of lock_free_concurrent_skip_list keeps its type, and
\* no link or local pointer leads outside the nodes that were created.
THEOREM ListTypeCorrect == ASSUME ListAssumption PROVE Spec => []TypeOK
<1>1. ListInv => TypeOK
  BY ListTyped
<1> QED
  BY <1>1, ListHolds, PTL

\* THEOREM: insert and erase lose no key and add none twice, whatever links they
\* exchange at the same time, and every level stays sorted.
THEOREM SetIsKept == ASSUME ListAssumption PROVE Spec => [](AbstractSet /\ LevelsSorted)
<1>1. ListInv => AbstractSet /\ LevelsSorted
  BY ListPromises
<1> QED
  BY <1>1, ListHolds, PTL

\* THEOREM: what insert, erase, find and contains return was true of the set at
\* some time during the call, and size() at rest is the number of keys.
THEOREM AnswersAreRight == ASSUME ListAssumption PROVE Spec => [](AnswersLinearize /\ SizeAtRest)
<1>1. ListInv => AnswersLinearize /\ SizeAtRest
  BY ListPromises
<1> QED
  BY <1>1, ListHolds, PTL

\* THEOREM: quiesce never frees a node that a link of a node in the set leads to.
THEOREM FreesNothingLinked == ASSUME ListAssumption PROVE Spec => []ReclaimSafe
<1>1. ListInv => ReclaimSafe
  BY ListPromises
<1> QED
  BY <1>1, ListHolds, PTL
=============================================================================
