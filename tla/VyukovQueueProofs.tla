------------------------- MODULE VyukovQueueProofs -------------------------
(***************************************************************************)
(* Proofs about VyukovQueue, for any set of threads, any set of values and *)
(* any capacity that the constructor accepts.                              *)
(***************************************************************************)
EXTENDS VyukovQueue, SequenceTheorems, TLAPS

-----------------------------------------------------------------------------
(* The inductive invariant.                                                *)

\* A thread that has claimed the position pos and not yet published its cell.
PushOwner(t) == pc[t] \in {"push_data", "push_publish"}
PopOwner(t) == pc[t] \in {"pop_data", "pop_publish"}

\* The claims of pops follow those of pushes, by Capacity at most.
CountInv ==
    /\ dequeuePos <= enqueuePos /\ enqueuePos <= dequeuePos + Capacity
    /\ Len(claimed) = enqueuePos

\* A position has one owner, and its cell says that it is not published.  The
\* cell of a pop is not claimed again before it is released.
OwnerInv ==
    \A t \in Threads :
        /\ PushOwner(t) =>
              /\ dequeuePos <= pos[t] /\ pos[t] < enqueuePos
              /\ sequence[Cell(pos[t])] = pos[t]
              /\ \A u \in Threads : PushOwner(u) /\ pos[u] = pos[t] => u = t
        /\ PopOwner(t) =>
              /\ pos[t] < dequeuePos /\ enqueuePos <= pos[t] + Capacity
              /\ sequence[Cell(pos[t])] = pos[t] + 1
              /\ \A u \in Threads : PopOwner(u) /\ pos[u] = pos[t] => u = t

\* Each cell belongs to one position of the window that begins at dequeuePos.
\* It is published, unless it has an owner.
CellInv ==
    /\ \A p \in dequeuePos .. enqueuePos - 1 :
          \/ sequence[Cell(p)] = p + 1
          \/ \E t \in Threads : PushOwner(t) /\ pos[t] = p
    /\ \A p \in enqueuePos .. dequeuePos + Capacity - 1 :
          \/ sequence[Cell(p)] = p
          \/ \E t \in Threads : PopOwner(t) /\ pos[t] + Capacity = p

\* The values on their way from val through the cell to val.
DataInv ==
    /\ \A p \in dequeuePos .. enqueuePos - 1 :
          sequence[Cell(p)] = p + 1 => data[Cell(p)] = claimed[p + 1]
    /\ \A t \in Threads :
          /\ pc[t] \in Pushing => val[t] \in Values
          /\ pc[t] = "push_data" => val[t] = claimed[pos[t] + 1]
          /\ pc[t] \in {"push_publish", "pop_data"} => data[Cell(pos[t])] = claimed[pos[t] + 1]
          /\ pc[t] = "pop_publish" => val[t] = claimed[pos[t] + 1]

\* What a thread has read stays true while its exchange can still succeed.
ReadInv ==
    \A t \in Threads :
        /\ pc[t] \in Pushing => pos[t] <= enqueuePos
        /\ pc[t] \in Popping => pos[t] <= dequeuePos
        /\ pc[t] = "push_cas" /\ pos[t] = enqueuePos => sequence[Cell(enqueuePos)] = enqueuePos
        /\ pc[t] = "pop_cas" /\ pos[t] = dequeuePos
             => sequence[Cell(dequeuePos)] = dequeuePos + 1

Inv ==
    /\ CapacityAssumption
    /\ TypeOK /\ CountInv /\ OwnerInv /\ CellInv /\ DataInv /\ ReadInv

-----------------------------------------------------------------------------
(* Positions and their cells.                                              *)

LEMMA CellType ==
    ASSUME CapacityAssumption, NEW p \in Nat
    PROVE  Cell(p) \in Cells
  BY DEF CapacityAssumption, Cell, Cells

LEMMA RemainderUnique ==
    ASSUME CapacityAssumption, NEW k \in Int, NEW c \in Cells
    PROVE  (Capacity * k + c) % Capacity = c
<1> DEFINE x == Capacity * k + c
<1>1. Capacity \in Nat /\ Capacity >= 2 /\ c \in Nat /\ c < Capacity
  BY DEF CapacityAssumption, Cells
<1>2. x \in Int
  BY <1>1
<1> HIDE DEF x
<1>3. /\ x = Capacity * (x \div Capacity) + (x % Capacity)
      /\ x % Capacity \in Nat /\ x % Capacity < Capacity /\ x \div Capacity \in Int
  BY <1>1, <1>2
<1>4. Capacity * (k - x \div Capacity) = (x % Capacity) - c
  BY <1>1, <1>3 DEF x
<1> DEFINE d == k - x \div Capacity
<1>5. d \in Int
  BY <1>3
<1> HIDE DEF d
<1>6. Capacity * d < Capacity /\ Capacity * d > 0 - Capacity
  BY <1>1, <1>3, <1>4 DEF d
<1>7. d = 0
  BY <1>1, <1>5, <1>6
<1> QED
  BY <1>1, <1>3, <1>4, <1>7 DEF d, x

\* The positions of a window as long as the buffer have different cells.
LEMMA CellInjective ==
    ASSUME CapacityAssumption, NEW p \in Nat, NEW q \in Nat, p < q, q < p + Capacity
    PROVE  Cell(p) # Cell(q)
<1> SUFFICES ASSUME Cell(p) = Cell(q) PROVE FALSE
  OBVIOUS
<1>1. Capacity \in Nat /\ Capacity >= 2
  BY DEF CapacityAssumption
<1>2. /\ p = Capacity * (p \div Capacity) + (p % Capacity) /\ p \div Capacity \in Int
      /\ q = Capacity * (q \div Capacity) + (q % Capacity) /\ q \div Capacity \in Int
      /\ p % Capacity \in Int
  BY <1>1
<1> DEFINE d == q \div Capacity - p \div Capacity
<1>3. d \in Int /\ Capacity * d = q - p
  BY <1>1, <1>2 DEF Cell
<1> HIDE DEF d
<1>4. d > 0 /\ d < 1
  BY <1>1, <1>3
<1> QED
  BY <1>3, <1>4

LEMMA CellPeriodic ==
    ASSUME CapacityAssumption, NEW p \in Nat
    PROVE  Cell(p + Capacity) = Cell(p)
<1>1. Capacity \in Nat /\ Capacity >= 2
  BY DEF CapacityAssumption
<1>2. /\ p = Capacity * (p \div Capacity) + (p % Capacity) /\ p \div Capacity \in Int
      /\ p % Capacity \in Cells
  BY <1>1 DEF Cells
<1>3. p + Capacity = Capacity * (p \div Capacity + 1) + (p % Capacity)
  BY <1>1, <1>2 DEF Cells
<1> QED
  BY <1>2, <1>3, RemainderUnique DEF Cell

\* Every cell has a position in each such window.
LEMMA CellSurjective ==
    ASSUME CapacityAssumption, NEW c \in Cells, NEW d \in Nat
    PROVE  \E p \in Nat : d <= p /\ p < d + Capacity /\ Cell(p) = c
<1>1. Capacity \in Nat /\ Capacity >= 2 /\ c \in Nat
  BY DEF CapacityAssumption, Cells
<1> DEFINE k == (c - d) \div Capacity
           p == d + ((c - d) % Capacity)
<1>2. /\ c - d = Capacity * k + ((c - d) % Capacity) /\ k \in Int
      /\ (c - d) % Capacity \in Nat /\ (c - d) % Capacity < Capacity
  BY <1>1
<1>3. p = Capacity * (0 - k) + c /\ 0 - k \in Int
  BY <1>1, <1>2
<1>4. p \in Nat /\ d <= p /\ p < d + Capacity
  BY <1>1, <1>2
<1> HIDE DEF p, k
<1>5. Cell(p) = c
  BY <1>3, RemainderUnique DEF Cell
<1> QED
  BY <1>4, <1>5

-----------------------------------------------------------------------------
(* Consequences of the invariant.                                          *)

LEMMA Facts ==
    ASSUME Inv
    PROVE  /\ Capacity \in Nat /\ Capacity >= 2
           /\ enqueuePos \in Nat /\ dequeuePos \in Nat
           /\ dequeuePos <= enqueuePos /\ enqueuePos <= dequeuePos + Capacity
           /\ sequence \in [Cells -> Nat] /\ pos \in [Threads -> Nat]
           /\ \A p \in Nat : Cell(p) \in Cells
  BY CellType DEF Inv, CapacityAssumption, TypeOK, CountInv

LEMMA Window ==
    ASSUME Inv, NEW p \in Nat, NEW q \in Nat, p # q,
           dequeuePos <= p, p < dequeuePos + Capacity,
           dequeuePos <= q, q < dequeuePos + Capacity
    PROVE  Cell(p) # Cell(q)
<1>1. CASE p < q
  BY <1>1, Facts, CellInjective DEF Inv
<1>2. CASE q < p
  BY <1>2, Facts, CellInjective DEF Inv
<1> QED
  BY <1>1, <1>2

\* The position of the window whose cell an owner uses.
Place(t) == IF PushOwner(t) THEN pos[t] ELSE pos[t] + Capacity

LEMMA OwnersPlace ==
    ASSUME Inv, NEW t \in Threads, PushOwner(t) \/ PopOwner(t)
    PROVE  /\ Place(t) \in Nat /\ dequeuePos <= Place(t) /\ Place(t) < dequeuePos + Capacity
           /\ Cell(Place(t)) = Cell(pos[t])
           /\ PushOwner(t) => Place(t) < enqueuePos /\ Place(t) = pos[t]
           /\ PopOwner(t) => Place(t) >= enqueuePos /\ Place(t) = pos[t] + Capacity
<1>1. pos[t] \in Nat
  BY Facts
<1>2. CASE PushOwner(t)
  BY <1>1, <1>2, Facts DEF Inv, OwnerInv, Place, PushOwner, PopOwner
<1>3. CASE PopOwner(t)
  <2>1. ~PushOwner(t) /\ pos[t] < dequeuePos /\ enqueuePos <= pos[t] + Capacity
    BY <1>3 DEF Inv, OwnerInv, PushOwner, PopOwner
  <2> QED
    BY <1>1, <1>3, <2>1, Facts, CellPeriodic DEF Inv, Place
<1> QED
  BY <1>2, <1>3

LEMMA OwnersApart ==
    ASSUME Inv, NEW t \in Threads, NEW u \in Threads, t # u,
           PushOwner(t) \/ PopOwner(t), PushOwner(u) \/ PopOwner(u)
    PROVE  Cell(pos[t]) # Cell(pos[u])
<1>1. Place(t) # Place(u)
  BY OwnersPlace, Facts DEF Inv, OwnerInv
<1> QED
  BY <1>1, OwnersPlace, Window

\* The cell of an owner is not that of another position of the window.
LEMMA OthersApart ==
    ASSUME Inv, NEW t \in Threads, PushOwner(t) \/ PopOwner(t), NEW p \in Nat,
           dequeuePos <= p, p < dequeuePos + Capacity, p # Place(t)
    PROVE  Cell(p) # Cell(pos[t])
  BY OwnersPlace, Window

\* A cell that is free for the next push: the queue is not full, and the pop
\* that had the cell before has released it.
LEMMA FreeCell ==
    ASSUME Inv, sequence[Cell(enqueuePos)] = enqueuePos
    PROVE  /\ enqueuePos < dequeuePos + Capacity
           /\ \A u \in Threads : PopOwner(u) => pos[u] + Capacity # enqueuePos
<1>1. enqueuePos # dequeuePos + Capacity
  <2> SUFFICES ASSUME enqueuePos = dequeuePos + Capacity PROVE FALSE
    OBVIOUS
  <2>1. Cell(enqueuePos) = Cell(dequeuePos) /\ dequeuePos \in dequeuePos .. enqueuePos - 1
    BY Facts, CellPeriodic DEF Inv
  <2>2. sequence[Cell(dequeuePos)] \in {dequeuePos, dequeuePos + 1}
    BY <2>1 DEF Inv, CellInv, OwnerInv
  <2> QED
    BY <2>1, <2>2, Facts
<1>2. ASSUME NEW u \in Threads, PopOwner(u), pos[u] + Capacity = enqueuePos PROVE FALSE
  <2>1. Cell(enqueuePos) = Cell(pos[u]) /\ sequence[Cell(pos[u])] = pos[u] + 1
    BY <1>2, Facts, CellPeriodic DEF Inv, OwnerInv
  <2> QED
    BY <2>1, <1>2, Facts
<1> QED
  BY <1>1, <1>2, Facts

\* A cell that is published for the next pop: the queue is not empty.
LEMMA FullCell ==
    ASSUME Inv, sequence[Cell(dequeuePos)] = dequeuePos + 1
    PROVE  /\ dequeuePos < enqueuePos
           /\ \A u \in Threads : PushOwner(u) => pos[u] # dequeuePos
<1>1. dequeuePos # enqueuePos
  <2> SUFFICES ASSUME dequeuePos = enqueuePos PROVE FALSE
    OBVIOUS
  <2>1. dequeuePos \in enqueuePos .. dequeuePos + Capacity - 1
    BY Facts
  <2>2. CASE sequence[Cell(dequeuePos)] = dequeuePos
    BY <2>2, Facts
  <2>3. ASSUME NEW t \in Threads, PopOwner(t), pos[t] + Capacity = dequeuePos PROVE FALSE
    <3>1. Cell(dequeuePos) = Cell(pos[t]) /\ sequence[Cell(pos[t])] = pos[t] + 1
      BY <2>3, Facts, CellPeriodic DEF Inv, OwnerInv
    <3> QED
      BY <3>1, <2>3, Facts
  <2> QED
    BY <2>1, <2>2, <2>3 DEF Inv, CellInv
<1>2. ASSUME NEW u \in Threads, PushOwner(u), pos[u] = dequeuePos PROVE FALSE
  BY <1>2, Facts DEF Inv, OwnerInv
<1> QED
  BY <1>1, <1>2, Facts

-----------------------------------------------------------------------------
(* The actions.                                                            *)

LEMMA InitInv == ASSUME CapacityAssumption PROVE Init => Inv
<1> SUFFICES ASSUME Init PROVE Inv
  OBVIOUS
<1>1. Capacity \in Nat /\ Capacity >= 2
  BY DEF CapacityAssumption
<1>2. TypeOK
  BY <1>1 DEF Init, TypeOK, Cells
<1>3. CountInv /\ OwnerInv /\ DataInv /\ ReadInv
  BY <1>1 DEF Init, CountInv, OwnerInv, PushOwner, PopOwner, DataInv, ReadInv, Pushing, Popping
<1>4. CellInv
  <2>1. ASSUME NEW p \in 0 .. Capacity - 1 PROVE sequence[Cell(p)] = p
    <3>1. Cell(p) = p
      BY <1>1 DEF Cell
    <3> QED
      BY <3>1 DEF Init, Cells
  <2>2. enqueuePos = 0 /\ dequeuePos = 0
    BY DEF Init
  <2> QED
    BY <1>1, <2>1, <2>2 DEF CellInv
<1> QED
  BY <1>2, <1>3, <1>4 DEF Inv

\* A step outside the claims: the thread reads, and goes to l with position p
\* and value v.
Reads(t, l, p, v) ==
    /\ ~PushOwner(t) /\ ~PopOwner(t)
    /\ UNCHANGED <<sequence, data, enqueuePos, dequeuePos, claimed>>
    /\ pc' = [pc EXCEPT ![t] = l]
    /\ pos' = [pos EXCEPT ![t] = p]
    /\ val' = [val EXCEPT ![t] = v]

\* What it has to have read for that.
HasRead(l, p, v) ==
    /\ l \in {"push_seq", "push_cas", "push_load", "pop_seq", "pop_cas", "pop_load",
              "idle", "failed"}
    /\ p \in Nat /\ v \in Values \cup {NoValue}
    /\ l \in Pushing => p <= enqueuePos /\ v \in Values
    /\ l \in Popping => p <= dequeuePos
    /\ l = "push_cas" => sequence[Cell(p)] = p
    /\ l = "pop_cas" => sequence[Cell(p)] = p + 1

LEMMA ReadStep ==
    ASSUME Inv, NEW t \in Threads, NEW l, NEW p, NEW v, Reads(t, l, p, v), HasRead(l, p, v)
    PROVE  Inv'
<1> USE DEF Reads, HasRead
<1> DEFINE own == {"push_data", "push_publish", "pop_data", "pop_publish"}
<1>0. /\ pc \in [Threads -> Pushing \cup Popping \cup {"idle", "failed"}]
      /\ pos \in [Threads -> Nat] /\ val \in [Threads -> Values \cup {NoValue}]
  BY DEF Inv, TypeOK
<1>1. pc[t] \notin own /\ l \notin own /\ l \in Pushing \cup Popping \cup {"idle", "failed"}
  BY DEF PushOwner, PopOwner, Pushing, Popping
<1>2. TypeOK'
  BY <1>1 DEF Inv, TypeOK, Cells
<1>3. \A u \in Threads : u # t => pc'[u] = pc[u] /\ pos'[u] = pos[u] /\ val'[u] = val[u]
  BY <1>0
<1>4. pc'[t] = l /\ pos'[t] = p /\ val'[t] = v
  BY <1>0
<1>5. ~PushOwner(t)' /\ ~PopOwner(t)'
  BY <1>1, <1>4 DEF PushOwner, PopOwner
<1>6. \A u \in Threads : /\ PushOwner(u)' <=> PushOwner(u)
                         /\ PopOwner(u)' <=> PopOwner(u)
                         /\ PushOwner(u) \/ PopOwner(u) => u # t
  BY <1>3, <1>5 DEF PushOwner, PopOwner
<1>7. CountInv'
  BY DEF Inv, CountInv
<1>8. OwnerInv'
  <2>1. OwnerInv
    BY DEF Inv
  <2> QED
    BY <2>1, <1>3, <1>6 DEF OwnerInv, PushOwner, PopOwner
<1>9. CellInv'
  <2>1. CellInv
    BY DEF Inv
  <2> QED
    BY <2>1, <1>3, <1>6 DEF CellInv, PushOwner, PopOwner
<1>10. DataInv'
  <2>1. \A q \in dequeuePos' .. enqueuePos' - 1 :
          sequence'[Cell(q)] = q + 1 => data'[Cell(q)] = claimed'[q + 1]
    BY DEF Inv, DataInv
  <2>2. ASSUME NEW u \in Threads
        PROVE  /\ pc'[u] \in Pushing => val'[u] \in Values
               /\ pc'[u] = "push_data" => val'[u] = claimed'[pos'[u] + 1]
               /\ pc'[u] \in {"push_publish", "pop_data"}
                    => data'[Cell(pos'[u])] = claimed'[pos'[u] + 1]
               /\ pc'[u] = "pop_publish" => val'[u] = claimed'[pos'[u] + 1]
    <3>1. CASE u = t
      BY <3>1, <1>1, <1>4
    <3>2. CASE u # t
      BY <3>2, <1>3 DEF Inv, DataInv
    <3> QED
      BY <3>1, <3>2
  <2> QED
    BY <2>1, <2>2 DEF DataInv
<1>11. ReadInv'
  BY <1>3, <1>4 DEF Inv, ReadInv
<1> QED
  BY <1>2, <1>7, <1>8, <1>9, <1>10, <1>11 DEF Inv, CapacityAssumption

\* What a step of an owner, or a claim, leaves alone.
LEMMA OtherThreads ==
    ASSUME Inv, NEW t \in Threads, NEW l, pc' = [pc EXCEPT ![t] = l]
    PROVE  /\ pc'[t] = l
           /\ \A u \in Threads : u # t => /\ pc'[u] = pc[u]
                                          /\ PushOwner(u)' <=> PushOwner(u)
                                          /\ PopOwner(u)' <=> PopOwner(u)
<1>1. pc \in [Threads -> Pushing \cup Popping \cup {"idle", "failed"}]
  BY DEF Inv, TypeOK
<1>2. pc'[t] = l /\ \A u \in Threads : u # t => pc'[u] = pc[u]
  BY <1>1
<1> QED
  BY <1>2 DEF PushOwner, PopOwner

LEMMA PushClaim ==
    ASSUME Inv, NEW t \in Threads, pc[t] = "push_cas", enqueuePos = pos[t],
           enqueuePos' = pos[t] + 1, claimed' = Append(claimed, val[t]),
           pc' = [pc EXCEPT ![t] = "push_data"],
           UNCHANGED <<pos, sequence, data, dequeuePos, val>>
    PROVE  Inv'
<1>0. sequence[Cell(enqueuePos)] = enqueuePos
  BY DEF Inv, ReadInv
<1>1. /\ enqueuePos < dequeuePos + Capacity
      /\ \A u \in Threads : PopOwner(u) => pos[u] + Capacity # enqueuePos
  BY <1>0, FreeCell
<1>2. val[t] \in Values /\ claimed \in Seq(Values) /\ Len(claimed) = enqueuePos
  BY DEF Inv, DataInv, TypeOK, CountInv, Pushing
<1>11. /\ Capacity \in Nat /\ Capacity >= 2 /\ pos \in [Threads -> Nat]
       /\ enqueuePos \in Nat /\ dequeuePos \in Nat /\ dequeuePos <= enqueuePos
  BY Facts
<1>3. /\ claimed' \in Seq(Values) /\ Len(claimed') = enqueuePos + 1
      /\ claimed'[enqueuePos + 1] = val[t]
      /\ \A q \in Nat : q < enqueuePos => claimed'[q + 1] = claimed[q + 1]
  BY <1>2, <1>11, AppendProperties
<1>4. TypeOK'
  BY <1>3, <1>11 DEF Inv, TypeOK, Pushing, Cells
<1>5. CountInv'
  BY <1>1, <1>3, <1>11 DEF CountInv
<1>6. /\ pc'[t] = "push_data" /\ PushOwner(t)' /\ ~PopOwner(t)'
      /\ ~PushOwner(t) /\ ~PopOwner(t)
      /\ \A u \in Threads : u # t => /\ pc'[u] = pc[u]
                                     /\ PushOwner(u)' <=> PushOwner(u)
                                     /\ PopOwner(u)' <=> PopOwner(u)
  BY OtherThreads DEF PushOwner, PopOwner
<1>12. pos[t] = enqueuePos /\ \A u \in Threads : pos[u] \in Nat
  BY <1>11
<1>7. OwnerInv'
  <2>1. OwnerInv
    BY DEF Inv
  <2> SUFFICES ASSUME NEW u \in Threads
               PROVE  /\ PushOwner(u)' =>
                            /\ dequeuePos <= pos[u] /\ pos[u] < enqueuePos + 1
                            /\ sequence[Cell(pos[u])] = pos[u]
                            /\ \A w \in Threads : PushOwner(w)' /\ pos[w] = pos[u] => w = u
                      /\ PopOwner(u)' =>
                            /\ pos[u] < dequeuePos /\ enqueuePos + 1 <= pos[u] + Capacity
                            /\ sequence[Cell(pos[u])] = pos[u] + 1
                            /\ \A w \in Threads : PopOwner(w)' /\ pos[w] = pos[u] => w = u
    BY <1>12 DEF OwnerInv, PushOwner, PopOwner
  <2>2. CASE u = t
    <3>1. \A w \in Threads : w # t /\ PushOwner(w)' => pos[w] < enqueuePos
      BY <2>1, <1>6 DEF OwnerInv, PushOwner
    <3> QED
      BY <2>2, <3>1, <1>0, <1>6, <1>11, <1>12
  <2>3. CASE u # t
    <3>1. /\ PushOwner(u)' => PushOwner(u)
          /\ PopOwner(u)' => PopOwner(u)
          /\ \A w \in Threads : PopOwner(w)' => PopOwner(w)
          /\ \A w \in Threads : PushOwner(w)' => PushOwner(w) \/ w = t
      BY <2>3, <1>6 DEF PushOwner, PopOwner
    <3>2. PushOwner(u) => pos[u] < enqueuePos
      BY <2>1 DEF OwnerInv
    <3>3. PopOwner(u) => pos[u] + Capacity # enqueuePos /\ pos[u] + Capacity \in Nat
      BY <1>1, <1>11, <1>12
    <3>4. CASE PushOwner(u)'
      <4>1. PushOwner(u) /\ ~PopOwner(u)'
        BY <3>1, <3>4 DEF PushOwner, PopOwner
      <4> QED
        BY <4>1, <2>1, <3>1, <3>2, <1>11, <1>12 DEF OwnerInv
    <3>5. CASE PopOwner(u)'
      <4>1. PopOwner(u) /\ ~PushOwner(u)'
        BY <3>1, <3>5 DEF PushOwner, PopOwner
      <4> QED
        BY <4>1, <2>1, <3>1, <3>3, <1>11, <1>12 DEF OwnerInv
    <3> QED
      BY <3>4, <3>5
  <2> QED
    BY <2>2, <2>3
<1>8. CellInv'
  <2>1. CellInv
    BY DEF Inv
  <2>2. ASSUME NEW p \in dequeuePos .. enqueuePos
        PROVE  sequence[Cell(p)] = p + 1 \/ \E u \in Threads : PushOwner(u)' /\ pos[u] = p
    <3>1. CASE p = enqueuePos
      BY <3>1, <1>6, <1>12
    <3>2. CASE p # enqueuePos
      <4>1. p \in dequeuePos .. enqueuePos - 1
        BY <3>2, <1>11
      <4> QED
        BY <4>1, <2>1, <1>6 DEF CellInv, PushOwner
    <3> QED
      BY <3>1, <3>2
  <2>3. ASSUME NEW p \in enqueuePos + 1 .. dequeuePos + Capacity - 1
        PROVE  sequence[Cell(p)] = p \/ \E u \in Threads : PopOwner(u)' /\ pos[u] + Capacity = p
    <3>1. p \in enqueuePos .. dequeuePos + Capacity - 1
      BY <1>11
    <3> QED
      BY <3>1, <2>1, <1>6 DEF CellInv, PopOwner
  <2>4. enqueuePos' - 1 = enqueuePos /\ enqueuePos' = enqueuePos + 1
    BY <1>11
  <2> QED
    BY <2>2, <2>3, <2>4 DEF CellInv, PushOwner, PopOwner
<1>9. DataInv'
  <2>1. \A q \in dequeuePos' .. enqueuePos' - 1 :
          sequence'[Cell(q)] = q + 1 => data'[Cell(q)] = claimed'[q + 1]
    BY <1>0, <1>3, <1>11 DEF Inv, DataInv
  <2>2. ASSUME NEW u \in Threads
        PROVE  /\ pc'[u] \in Pushing => val'[u] \in Values
               /\ pc'[u] = "push_data" => val'[u] = claimed'[pos'[u] + 1]
               /\ pc'[u] \in {"push_publish", "pop_data"}
                    => data'[Cell(pos'[u])] = claimed'[pos'[u] + 1]
               /\ pc'[u] = "pop_publish" => val'[u] = claimed'[pos'[u] + 1]
    <3>1. CASE u = t
      BY <3>1, <1>2, <1>3, <1>6
    <3>2. CASE u # t
      <4>1. PushOwner(u) \/ PopOwner(u) => pos[u] \in Nat /\ pos[u] < enqueuePos
        BY <1>11 DEF Inv, OwnerInv
      <4> QED
        BY <3>2, <4>1, <1>3, <1>6 DEF Inv, DataInv, PushOwner, PopOwner
    <3> QED
      BY <3>1, <3>2
  <2> QED
    BY <2>1, <2>2 DEF DataInv
<1>10. ReadInv'
  <2> SUFFICES ASSUME NEW u \in Threads
               PROVE  /\ pc'[u] \in Pushing => pos[u] <= enqueuePos + 1
                      /\ pc'[u] \in Popping => pos[u] <= dequeuePos
                      /\ pc'[u] = "push_cas" => pos[u] # enqueuePos + 1
                      /\ pc'[u] = "pop_cas" /\ pos[u] = dequeuePos
                           => sequence[Cell(dequeuePos)] = dequeuePos + 1
    BY <1>12 DEF ReadInv
  <2>1. ReadInv
    BY DEF Inv
  <2>2. CASE u = t
    BY <2>2, <1>6, <1>11, <1>12 DEF Popping
  <2>3. CASE u # t
    BY <2>1, <2>3, <1>6, <1>11, <1>12 DEF ReadInv, Pushing
  <2> QED
    BY <2>2, <2>3
<1> QED
  BY <1>4, <1>5, <1>7, <1>8, <1>9, <1>10 DEF Inv, CapacityAssumption

LEMMA PopClaim ==
    ASSUME Inv, NEW t \in Threads, pc[t] = "pop_cas", dequeuePos = pos[t],
           dequeuePos' = pos[t] + 1, pc' = [pc EXCEPT ![t] = "pop_data"],
           UNCHANGED <<pos, sequence, data, enqueuePos, val, claimed>>
    PROVE  Inv'
<1>0. sequence[Cell(dequeuePos)] = dequeuePos + 1
  BY DEF Inv, ReadInv
<1>1. /\ dequeuePos < enqueuePos
      /\ \A u \in Threads : PushOwner(u) => pos[u] # dequeuePos
  BY <1>0, FullCell
<1>2. /\ Capacity \in Nat /\ Capacity >= 2 /\ pos \in [Threads -> Nat]
      /\ enqueuePos \in Nat /\ dequeuePos \in Nat /\ enqueuePos <= dequeuePos + Capacity
  BY Facts
<1>3. pos[t] = dequeuePos /\ \A u \in Threads : pos[u] \in Nat
  BY <1>2
<1>4. TypeOK'
  BY <1>2, SMTT(40) DEF Inv, TypeOK, Popping, Cells
<1>5. CountInv'
  BY <1>1, <1>2 DEF Inv, CountInv
<1>6. /\ pc'[t] = "pop_data" /\ ~PushOwner(t)' /\ PopOwner(t)'
      /\ ~PushOwner(t) /\ ~PopOwner(t)
      /\ \A u \in Threads : u # t => /\ pc'[u] = pc[u]
                                     /\ PushOwner(u)' <=> PushOwner(u)
                                     /\ PopOwner(u)' <=> PopOwner(u)
  BY OtherThreads DEF PushOwner, PopOwner
<1>7. OwnerInv'
  <2>1. OwnerInv
    BY DEF Inv
  <2> SUFFICES ASSUME NEW u \in Threads
               PROVE  /\ PushOwner(u)' =>
                            /\ dequeuePos + 1 <= pos[u] /\ pos[u] < enqueuePos
                            /\ sequence[Cell(pos[u])] = pos[u]
                            /\ \A w \in Threads : PushOwner(w)' /\ pos[w] = pos[u] => w = u
                      /\ PopOwner(u)' =>
                            /\ pos[u] < dequeuePos + 1 /\ enqueuePos <= pos[u] + Capacity
                            /\ sequence[Cell(pos[u])] = pos[u] + 1
                            /\ \A w \in Threads : PopOwner(w)' /\ pos[w] = pos[u] => w = u
    BY <1>3 DEF OwnerInv, PushOwner, PopOwner
  <2>2. CASE u = t
    <3>1. \A w \in Threads : w # t /\ PopOwner(w)' => pos[w] < dequeuePos
      BY <2>1, <1>6 DEF OwnerInv, PopOwner
    <3> QED
      BY <2>2, <3>1, <1>0, <1>2, <1>3, <1>6
  <2>3. CASE u # t
    <3>1. /\ PushOwner(u)' => PushOwner(u)
          /\ PopOwner(u)' => PopOwner(u)
          /\ \A w \in Threads : PushOwner(w)' => PushOwner(w)
          /\ \A w \in Threads : PopOwner(w)' => PopOwner(w) \/ w = t
      BY <2>3, <1>6 DEF PushOwner, PopOwner
    <3>2. CASE PushOwner(u)'
      <4>1. PushOwner(u) /\ ~PopOwner(u)'
        BY <3>1, <3>2 DEF PushOwner, PopOwner
      <4> QED
        BY <4>1, <2>1, <3>1, <1>1, <1>2, <1>3 DEF OwnerInv
    <3>3. CASE PopOwner(u)'
      <4>1. PopOwner(u) /\ ~PushOwner(u)'
        BY <3>1, <3>3 DEF PushOwner, PopOwner
      <4> QED
        BY <4>1, <2>1, <3>1, <1>2, <1>3 DEF OwnerInv
    <3> QED
      BY <3>2, <3>3
  <2> QED
    BY <2>2, <2>3
<1>8. CellInv'
  <2>1. CellInv
    BY DEF Inv
  <2>2. ASSUME NEW p \in dequeuePos + 1 .. enqueuePos - 1
        PROVE  sequence[Cell(p)] = p + 1 \/ \E u \in Threads : PushOwner(u)' /\ pos[u] = p
    <3>1. p \in dequeuePos .. enqueuePos - 1
      BY <1>2
    <3> QED
      BY <3>1, <2>1, <1>6 DEF CellInv, PushOwner
  <2>3. ASSUME NEW p \in enqueuePos .. dequeuePos + Capacity
        PROVE  sequence[Cell(p)] = p \/ \E u \in Threads : PopOwner(u)' /\ pos[u] + Capacity = p
    <3>1. CASE p = dequeuePos + Capacity
      BY <3>1, <1>3, <1>6
    <3>2. CASE p # dequeuePos + Capacity
      <4>1. p \in enqueuePos .. dequeuePos + Capacity - 1
        BY <3>2, <1>2
      <4> QED
        BY <4>1, <2>1, <1>6 DEF CellInv, PopOwner
    <3> QED
      BY <3>1, <3>2
  <2>4. dequeuePos' + Capacity - 1 = dequeuePos + Capacity /\ dequeuePos' = dequeuePos + 1
    BY <1>2
  <2> QED
    BY <2>2, <2>3, <2>4 DEF CellInv, PushOwner, PopOwner
<1>9. DataInv'
  <2>1. DataInv
    BY DEF Inv
  <2>2. \A q \in dequeuePos + 1 .. enqueuePos - 1 :
          sequence[Cell(q)] = q + 1 => data[Cell(q)] = claimed[q + 1]
    BY <2>1, <1>2 DEF DataInv
  <2>3. data[Cell(pos[t])] = claimed[pos[t] + 1]
    BY <2>1, <1>0, <1>1, <1>2 DEF DataInv
  <2>4. dequeuePos' = dequeuePos + 1
    BY <1>2
  <2> QED
    BY <2>1, <2>2, <2>3, <2>4, <1>6 DEF DataInv, Pushing
<1>10. ReadInv'
  <2> SUFFICES ASSUME NEW u \in Threads
               PROVE  /\ pc'[u] \in Pushing => pos[u] <= enqueuePos
                      /\ pc'[u] \in Popping => pos[u] <= dequeuePos + 1
                      /\ pc'[u] = "push_cas" /\ pos[u] = enqueuePos
                           => sequence[Cell(enqueuePos)] = enqueuePos
                      /\ pc'[u] = "pop_cas" => pos[u] # dequeuePos + 1
    BY <1>3 DEF ReadInv
  <2>1. ReadInv
    BY DEF Inv
  <2>2. CASE u = t
    BY <2>2, <1>2, <1>3, <1>6 DEF Pushing
  <2>3. CASE u # t
    BY <2>1, <2>3, <1>2, <1>3, <1>6 DEF ReadInv, Popping
  <2> QED
    BY <2>2, <2>3
<1> QED
  BY <1>4, <1>5, <1>7, <1>8, <1>9, <1>10 DEF Inv, CapacityAssumption

\* An access to the data of a cell changes no claim.
Accesses(t, l) ==
    /\ (PushOwner(t) /\ l = "push_publish") \/ (PopOwner(t) /\ l = "pop_publish")
    /\ pc' = [pc EXCEPT ![t] = l]
    /\ UNCHANGED <<pos, sequence, enqueuePos, dequeuePos, claimed>>

LEMMA AccessStep ==
    ASSUME Inv, NEW t \in Threads, NEW l, Accesses(t, l)
    PROVE  CountInv' /\ OwnerInv' /\ CellInv' /\ ReadInv'
<1> USE DEF Accesses
<1>1. /\ pc'[t] = l
      /\ \A u \in Threads : u # t => pc'[u] = pc[u]
  BY OtherThreads
<1>2. \A u \in Threads : /\ pc'[u] \in {"push_data", "push_publish"} <=> PushOwner(u)
                         /\ pc'[u] \in {"pop_data", "pop_publish"} <=> PopOwner(u)
  BY <1>1 DEF PushOwner, PopOwner
<1>3. CountInv /\ OwnerInv /\ CellInv /\ ReadInv
  BY DEF Inv
<1>4. CountInv'
  BY <1>3 DEF CountInv
<1>5. OwnerInv'
  BY <1>2, <1>3 DEF OwnerInv, PushOwner, PopOwner
<1>6. CellInv'
  BY <1>2, <1>3 DEF CellInv, PushOwner, PopOwner
<1>7. ReadInv'
  BY <1>1, <1>3 DEF ReadInv, PushOwner, PopOwner, Pushing, Popping
<1> QED
  BY <1>4, <1>5, <1>6, <1>7

LEMMA PushDataInv ==
    ASSUME Inv, NEW t \in Threads, PushData(t)
    PROVE  Inv'
<1> USE DEF PushData, Goto
<1>1. PushOwner(t) /\ Cell(pos[t]) \in Cells /\ val[t] = claimed[pos[t] + 1]
  BY Facts DEF PushOwner, Inv, DataInv
<1>2. CountInv' /\ OwnerInv' /\ CellInv' /\ ReadInv'
  <2>1. Accesses(t, "push_publish")
    BY <1>1 DEF Accesses
  <2> QED
    BY <2>1, AccessStep
<1>3. TypeOK'
  BY <1>1 DEF Inv, TypeOK, Cells, Pushing
<1>4. /\ pc'[t] = "push_publish"
      /\ \A u \in Threads : u # t => pc'[u] = pc[u]
  BY OtherThreads
<1>5. /\ data'[Cell(pos[t])] = val[t]
      /\ \A c \in Cells : c # Cell(pos[t]) => data'[c] = data[c]
  BY <1>1 DEF Inv, TypeOK
<1>6. DataInv
  BY DEF Inv
<1>7. ASSUME NEW q \in dequeuePos .. enqueuePos - 1, sequence[Cell(q)] = q + 1
      PROVE  data'[Cell(q)] = claimed[q + 1]
  <2>1. q \in Nat /\ Cell(q) \in Cells /\ dequeuePos <= q /\ q < dequeuePos + Capacity
    BY Facts
  <2>2. q # pos[t] /\ Place(t) = pos[t]
    BY <1>1, <1>7, <2>1 DEF Inv, OwnerInv, Place
  <2>3. Cell(q) # Cell(pos[t])
    BY <1>1, <2>1, <2>2, OthersApart
  <2> QED
    BY <1>5, <1>6, <1>7, <2>1, <2>3 DEF DataInv
<1>8. ASSUME NEW u \in Threads
      PROVE  /\ pc'[u] \in Pushing => val[u] \in Values
             /\ pc'[u] = "push_data" => val[u] = claimed[pos[u] + 1]
             /\ pc'[u] \in {"push_publish", "pop_data"} => data'[Cell(pos[u])] = claimed[pos[u] + 1]
             /\ pc'[u] = "pop_publish" => val[u] = claimed[pos[u] + 1]
  <2>1. CASE u = t
    BY <2>1, <1>1, <1>4, <1>5, <1>6 DEF DataInv, Pushing
  <2>2. CASE u # t
    <3>1. pc[u] \in {"push_publish", "pop_data"} => data'[Cell(pos[u])] = data[Cell(pos[u])]
      BY <2>2, <1>1, <1>5, OwnersApart, Facts DEF PushOwner, PopOwner
    <3> QED
      BY <2>2, <3>1, <1>4, <1>6 DEF DataInv
  <2> QED
    BY <2>1, <2>2
<1>9. DataInv'
  BY <1>7, <1>8 DEF DataInv
<1> QED
  BY <1>2, <1>3, <1>9 DEF Inv, CapacityAssumption

LEMMA PopDataInv ==
    ASSUME Inv, NEW t \in Threads, PopData(t)
    PROVE  Inv'
<1> USE DEF PopData, Goto
<1>1. PopOwner(t) /\ Cell(pos[t]) \in Cells /\ data[Cell(pos[t])] = claimed[pos[t] + 1]
  BY Facts DEF PopOwner, Inv, DataInv
<1>2. CountInv' /\ OwnerInv' /\ CellInv' /\ ReadInv'
  <2>1. Accesses(t, "pop_publish")
    BY <1>1 DEF Accesses
  <2> QED
    BY <2>1, AccessStep
<1>3. TypeOK'
  BY <1>1 DEF Inv, TypeOK, Cells, Popping
<1>4. /\ pc'[t] = "pop_publish"
      /\ \A u \in Threads : u # t => pc'[u] = pc[u]
  BY OtherThreads
<1>5. /\ val'[t] = data[Cell(pos[t])]
      /\ \A u \in Threads : u # t => val'[u] = val[u]
  BY DEF Inv, TypeOK
<1>6. DataInv
  BY DEF Inv
<1>7. ASSUME NEW u \in Threads
      PROVE  /\ pc'[u] \in Pushing => val'[u] \in Values
             /\ pc'[u] = "push_data" => val'[u] = claimed[pos[u] + 1]
             /\ pc'[u] \in {"push_publish", "pop_data"} => data[Cell(pos[u])] = claimed[pos[u] + 1]
             /\ pc'[u] = "pop_publish" => val'[u] = claimed[pos[u] + 1]
  <2>1. CASE u = t
    BY <2>1, <1>1, <1>4, <1>5 DEF Pushing
  <2>2. CASE u # t
    BY <2>2, <1>4, <1>5, <1>6 DEF DataInv
  <2> QED
    BY <2>1, <2>2
<1>8. DataInv'
  BY <1>6, <1>7 DEF DataInv
<1> QED
  BY <1>2, <1>3, <1>8 DEF Inv, CapacityAssumption

\* An owner publishes its cell: as filled, or as free for the next round.
LEMMA PublishInv ==
    ASSUME Inv, NEW t \in Threads, NEW s \in Nat,
           \/ pc[t] = "push_publish" /\ s = pos[t] + 1
           \/ pc[t] = "pop_publish" /\ s = pos[t] + Capacity,
           sequence' = [sequence EXCEPT ![Cell(pos[t])] = s],
           pc' = [pc EXCEPT ![t] = "idle"],
           UNCHANGED <<data, enqueuePos, dequeuePos, pos, val, claimed>>
    PROVE  Inv'
<1>0. /\ Capacity \in Nat /\ Capacity >= 2
      /\ enqueuePos \in Nat /\ dequeuePos \in Nat
      /\ dequeuePos <= enqueuePos /\ enqueuePos <= dequeuePos + Capacity
      /\ \A u \in Threads : pos[u] \in Nat
      /\ \A q \in Nat : Cell(q) \in Cells
  BY Facts
<1>1. PushOwner(t) \/ PopOwner(t)
  BY DEF PushOwner, PopOwner
<1>2. /\ Place(t) \in Nat /\ dequeuePos <= Place(t) /\ Place(t) < dequeuePos + Capacity
      /\ Cell(Place(t)) = Cell(pos[t])
      /\ PushOwner(t) => Place(t) < enqueuePos /\ s = Place(t) + 1
      /\ PopOwner(t) => Place(t) >= enqueuePos /\ s = Place(t)
  BY <1>1, OwnersPlace DEF PushOwner, PopOwner
<1>3. /\ sequence'[Cell(pos[t])] = s
      /\ \A c \in Cells : c # Cell(pos[t]) => sequence'[c] = sequence[c]
  BY Facts
<1>4. /\ pc'[t] = "idle" /\ ~PushOwner(t)' /\ ~PopOwner(t)'
      /\ \A u \in Threads : u # t => /\ pc'[u] = pc[u]
                                     /\ PushOwner(u)' <=> PushOwner(u)
                                     /\ PopOwner(u)' <=> PopOwner(u)
  BY OtherThreads DEF PushOwner, PopOwner
<1>5. TypeOK'
  BY Facts DEF Inv, TypeOK, Cells
<1>6. CountInv'
  BY DEF Inv, CountInv
\* Only the place of t is published anew.
<1>7. ASSUME NEW q \in Nat, dequeuePos <= q, q < dequeuePos + Capacity, q # Place(t)
      PROVE  sequence'[Cell(q)] = sequence[Cell(q)]
  <2>1. Cell(q) # Cell(pos[t])
    BY <1>1, <1>7, OthersApart
  <2> QED
    BY <1>0, <1>3, <2>1
<1>8. ASSUME NEW u \in Threads, u # t, PushOwner(u) \/ PopOwner(u)
      PROVE  sequence'[Cell(pos[u])] = sequence[Cell(pos[u])]
  <2>1. Cell(pos[t]) # Cell(pos[u])
    BY <1>1, <1>8, OwnersApart
  <2> QED
    BY <1>0, <1>3, <2>1
<1>9. OwnerInv'
  <2>1. OwnerInv
    BY DEF Inv
  <2> SUFFICES ASSUME NEW u \in Threads, u # t
               PROVE  /\ PushOwner(u) =>
                            /\ dequeuePos <= pos[u] /\ pos[u] < enqueuePos
                            /\ sequence'[Cell(pos[u])] = pos[u]
                            /\ \A w \in Threads : PushOwner(w) /\ pos[w] = pos[u] => w = u
                      /\ PopOwner(u) =>
                            /\ pos[u] < dequeuePos /\ enqueuePos <= pos[u] + Capacity
                            /\ sequence'[Cell(pos[u])] = pos[u] + 1
                            /\ \A w \in Threads : PopOwner(w) /\ pos[w] = pos[u] => w = u
    BY <1>4 DEF OwnerInv, PushOwner, PopOwner
  <2> QED
    BY <2>1, <1>8 DEF OwnerInv
<1>10. CellInv'
  <2>1. CellInv
    BY DEF Inv
  <2>2. ASSUME NEW p \in dequeuePos .. enqueuePos - 1
        PROVE  sequence'[Cell(p)] = p + 1 \/ \E u \in Threads : PushOwner(u)' /\ pos[u] = p
    <3>1. CASE p = Place(t)
      BY <3>1, <1>0, <1>1, <1>2, <1>3
    <3>2. CASE p # Place(t)
      <4>1. sequence'[Cell(p)] = sequence[Cell(p)]
        BY <3>2, <1>0, <1>7
      <4>2. PushOwner(t) => pos[t] # p
        BY <3>2 DEF Place
      <4> QED
        BY <4>1, <4>2, <2>1, <1>4 DEF CellInv, PushOwner
    <3> QED
      BY <3>1, <3>2
  <2>3. ASSUME NEW p \in enqueuePos .. dequeuePos + Capacity - 1
        PROVE  sequence'[Cell(p)] = p \/ \E u \in Threads : PopOwner(u)' /\ pos[u] + Capacity = p
    <3>1. CASE p = Place(t)
      BY <3>1, <1>0, <1>1, <1>2, <1>3
    <3>2. CASE p # Place(t)
      <4>1. sequence'[Cell(p)] = sequence[Cell(p)]
        BY <3>2, <1>0, <1>7
      <4>2. PopOwner(t) => pos[t] + Capacity # p
        BY <3>2 DEF Place, PushOwner, PopOwner
      <4> QED
        BY <4>1, <4>2, <2>1, <1>4 DEF CellInv, PopOwner
    <3> QED
      BY <3>1, <3>2
  <2> QED
    BY <2>2, <2>3 DEF CellInv, PushOwner, PopOwner
<1>11. DataInv'
  <2>1. DataInv
    BY DEF Inv
  <2>2. ASSUME NEW q \in dequeuePos .. enqueuePos - 1, sequence'[Cell(q)] = q + 1
        PROVE  data[Cell(q)] = claimed[q + 1]
    <3>1. CASE q = Place(t)
      <4>1. PushOwner(t) /\ q = pos[t] /\ pc[t] = "push_publish"
        BY <3>1, <1>0, <1>1, <1>2 DEF PushOwner, PopOwner, Place
      <4> QED
        BY <4>1, <2>1 DEF DataInv
    <3>2. CASE q # Place(t)
      BY <3>2, <2>1, <2>2, <1>0, <1>7 DEF DataInv
    <3> QED
      BY <3>1, <3>2
  <2> QED
    BY <2>1, <2>2, <1>4 DEF DataInv, Pushing
<1>12. ReadInv'
  <2>1. ReadInv
    BY DEF Inv
  <2>2. ASSUME sequence[Cell(enqueuePos)] = enqueuePos
        PROVE  sequence'[Cell(enqueuePos)] = enqueuePos
    <3>1. enqueuePos < dequeuePos + Capacity /\ Place(t) # enqueuePos
      BY <2>2, <1>0, <1>1, <1>2, FreeCell DEF Place
    <3> QED
      BY <2>2, <3>1, <1>0, <1>7
  <2>3. ASSUME sequence[Cell(dequeuePos)] = dequeuePos + 1
        PROVE  sequence'[Cell(dequeuePos)] = dequeuePos + 1
    <3>1. dequeuePos < enqueuePos /\ Place(t) # dequeuePos
      BY <2>3, <1>0, <1>1, <1>2, FullCell DEF Place
    <3> QED
      BY <2>3, <3>1, <1>0, <1>7
  <2> QED
    BY <2>1, <2>2, <2>3, <1>4 DEF ReadInv, Pushing, Popping
<1> QED
  BY <1>5, <1>6, <1>9, <1>10, <1>11, <1>12 DEF Inv, CapacityAssumption

-----------------------------------------------------------------------------
(* The invariant holds.                                                    *)

\* The steps of a thread that has not claimed a position.
LEMMA ReadingInv ==
    ASSUME Inv, NEW t \in Threads,
           \/ \E v \in Values : TryPush(t, v)
           \/ TryPop(t) \/ ReturnFalse(t) \/ PushLoad(t) \/ PopLoad(t)
    PROVE  Inv'
<1>0. /\ pos \in [Threads -> Nat] /\ val \in [Threads -> Values \cup {NoValue}]
      /\ enqueuePos \in Nat /\ dequeuePos \in Nat
  BY DEF Inv, TypeOK
<1>1. /\ pos = [pos EXCEPT ![t] = pos[t]] /\ val = [val EXCEPT ![t] = val[t]]
      /\ pos[t] \in Nat /\ val[t] \in Values \cup {NoValue}
  BY <1>0
<1> USE DEF Reads, HasRead, Goto, PushOwner, PopOwner, Pushing, Popping
<1>2. ASSUME NEW v \in Values, TryPush(t, v) PROVE Inv'
  <2>1. Reads(t, "push_seq", enqueuePos, v) /\ HasRead("push_seq", enqueuePos, v)
    BY <1>0, <1>2 DEF TryPush
  <2> HIDE DEF Reads, HasRead
  <2> QED
    BY <2>1, ReadStep
<1>3. CASE TryPop(t)
  <2>1. Reads(t, "pop_seq", dequeuePos, NoValue) /\ HasRead("pop_seq", dequeuePos, NoValue)
    BY <1>0, <1>3 DEF TryPop
  <2> HIDE DEF Reads, HasRead
  <2> QED
    BY <2>1, ReadStep
<1>4. CASE ReturnFalse(t)
  <2>1. Reads(t, "idle", pos[t], val[t]) /\ HasRead("idle", pos[t], val[t])
    BY <1>1, <1>4 DEF ReturnFalse
  <2> HIDE DEF Reads, HasRead
  <2> QED
    BY <2>1, ReadStep
<1>5. CASE PushLoad(t)
  <2>1. pc[t] = "push_load" /\ val[t] \in Values
    BY <1>5 DEF PushLoad, Inv, DataInv
  <2>2. Reads(t, "push_seq", enqueuePos, val[t]) /\ HasRead("push_seq", enqueuePos, val[t])
    BY <1>0, <1>1, <1>5, <2>1 DEF PushLoad
  <2> HIDE DEF Reads, HasRead
  <2> QED
    BY <2>2, ReadStep
<1>6. CASE PopLoad(t)
  <2>1. Reads(t, "pop_seq", dequeuePos, val[t]) /\ HasRead("pop_seq", dequeuePos, val[t])
    BY <1>0, <1>1, <1>6 DEF PopLoad
  <2> HIDE DEF Reads, HasRead
  <2> QED
    BY <2>1, ReadStep
<1> QED
  BY <1>2, <1>3, <1>4, <1>5, <1>6

LEMMA SequenceInv ==
    ASSUME Inv, NEW t \in Threads, PushSequence(t) \/ PopSequence(t)
    PROVE  Inv'
<1>0. /\ pos \in [Threads -> Nat] /\ val \in [Threads -> Values \cup {NoValue}]
      /\ sequence \in [Cells -> Nat] /\ Cell(pos[t]) \in Cells
      /\ pos[t] \in Nat /\ sequence[Cell(pos[t])] \in Nat
  BY Facts DEF Inv, TypeOK
<1>1. /\ pos' = [pos EXCEPT ![t] = pos[t]] /\ val' = [val EXCEPT ![t] = val[t]]
      /\ val[t] \in Values \cup {NoValue} /\ ~PushOwner(t) /\ ~PopOwner(t)
  BY <1>0 DEF PushSequence, PopSequence, PushOwner, PopOwner
<1>2. CASE PushSequence(t)
  <2>1. pc[t] = "push_seq" /\ pos[t] <= enqueuePos /\ val[t] \in Values
    BY <1>2 DEF PushSequence, Inv, ReadInv, DataInv, Pushing
  <2>2. PICK l \in {"push_cas", "failed", "push_load"} :
           pc' = [pc EXCEPT ![t] = l] /\ (l = "push_cas" => sequence[Cell(pos[t])] = pos[t])
    <3>1. pc' = [pc EXCEPT ![t] = AfterSequence(PushDif(t), "push_cas", "push_load")]
      BY <1>2 DEF PushSequence, Goto
    <3>2. CASE sequence[Cell(pos[t])] = pos[t]
      BY <1>0, <3>1, <3>2 DEF AfterSequence, PushDif
    <3>3. CASE sequence[Cell(pos[t])] # pos[t]
      <4>1. PushDif(t) # 0
        BY <1>0, <3>3 DEF PushDif
      <4>2. AfterSequence(PushDif(t), "push_cas", "push_load") \in {"failed", "push_load"}
        BY <4>1 DEF AfterSequence
      <4> QED
        BY <3>1, <4>2
    <3> QED
      BY <3>2, <3>3
  <2>3. HasRead(l, pos[t], val[t])
    BY <1>0, <2>1, <2>2 DEF HasRead, Pushing, Popping
  <2>4. Reads(t, l, pos[t], val[t])
    BY <1>1, <1>2, <2>2 DEF PushSequence, Reads
  <2> QED
    BY <2>3, <2>4, ReadStep
<1>3. CASE PopSequence(t)
  <2>1. pc[t] = "pop_seq" /\ pos[t] <= dequeuePos
    BY <1>3 DEF PopSequence, Inv, ReadInv, Popping
  <2>2. PICK l \in {"pop_cas", "failed", "pop_load"} :
           pc' = [pc EXCEPT ![t] = l] /\ (l = "pop_cas" => sequence[Cell(pos[t])] = pos[t] + 1)
    <3> DEFINE dif == sequence[Cell(pos[t])] - (pos[t] + 1)
    <3>1. pc' = [pc EXCEPT ![t] = AfterSequence(dif, "pop_cas", "pop_load")]
      BY <1>3 DEF PopSequence, Goto
    <3>2. CASE sequence[Cell(pos[t])] = pos[t] + 1
      BY <1>0, <3>1, <3>2 DEF AfterSequence
    <3>3. CASE sequence[Cell(pos[t])] # pos[t] + 1
      <4>1. dif # 0
        BY <1>0, <3>3
      <4>2. AfterSequence(dif, "pop_cas", "pop_load") \in {"failed", "pop_load"}
        BY <4>1 DEF AfterSequence
      <4> QED
        BY <3>1, <4>2
    <3> QED
      BY <3>2, <3>3
  <2>3. HasRead(l, pos[t], val[t])
    BY <1>0, <1>1, <2>1, <2>2 DEF HasRead, Pushing, Popping
  <2>4. Reads(t, l, pos[t], val[t])
    BY <1>1, <1>3, <2>2 DEF PopSequence, Reads
  <2> QED
    BY <2>3, <2>4, ReadStep
<1> QED
  BY <1>2, <1>3

LEMMA CasInv ==
    ASSUME Inv, NEW t \in Threads, PushCas(t) \/ PopCas(t)
    PROVE  Inv'
<1>0. /\ val = [val EXCEPT ![t] = val[t]] /\ val[t] \in Values \cup {NoValue}
      /\ enqueuePos \in Nat /\ dequeuePos \in Nat
  BY DEF Inv, TypeOK
<1>1. CASE PushCas(t)
  <2>1. pc[t] = "push_cas" /\ ~PushOwner(t) /\ ~PopOwner(t) /\ val[t] \in Values
    BY <1>1 DEF PushCas, PushOwner, PopOwner, Inv, DataInv, Pushing
  <2>2. CASE enqueuePos = pos[t] /\ enqueuePos' = pos[t] + 1
    BY <1>1, <2>1, <2>2, <1>0, PushClaim DEF PushCas, Goto
  <2>3. CASE UNCHANGED enqueuePos
    <3>1. Reads(t, "push_seq", enqueuePos, val[t])
      BY <1>0, <1>1, <2>1, <2>3 DEF PushCas, Goto, Reads
    <3>2. HasRead("push_seq", enqueuePos, val[t])
      BY <1>0, <2>1 DEF HasRead, Pushing, Popping
    <3> QED
      BY <3>1, <3>2, ReadStep
  <2> QED
    BY <1>1, <2>2, <2>3 DEF PushCas
<1>2. CASE PopCas(t)
  <2>1. pc[t] = "pop_cas" /\ ~PushOwner(t) /\ ~PopOwner(t)
    BY <1>2 DEF PopCas, PushOwner, PopOwner
  <2>2. CASE dequeuePos = pos[t] /\ dequeuePos' = pos[t] + 1
    BY <1>2, <2>1, <2>2, <1>0, PopClaim DEF PopCas, Goto
  <2>3. CASE UNCHANGED dequeuePos
    <3>1. Reads(t, "pop_seq", dequeuePos, val[t])
      BY <1>0, <1>2, <2>1, <2>3 DEF PopCas, Goto, Reads
    <3>2. HasRead("pop_seq", dequeuePos, val[t])
      BY <1>0, <2>1 DEF HasRead, Pushing, Popping
    <3> QED
      BY <3>1, <3>2, ReadStep
  <2> QED
    BY <1>2, <2>2, <2>3 DEF PopCas
<1> QED
  BY <1>1, <1>2

LEMMA NextInv == Inv /\ [Next]_vars => Inv'
<1> SUFFICES ASSUME Inv, [Next]_vars PROVE Inv'
  OBVIOUS
<1>1. ASSUME NEW t \in Threads, PushPublish(t) PROVE Inv'
  <2>1. pos[t] \in Nat /\ pos[t] + 1 \in Nat
    BY Facts
  <2> QED
    BY <1>1, <2>1, PublishInv DEF PushPublish, Goto
<1>2. ASSUME NEW t \in Threads, PopPublish(t) PROVE Inv'
  <2>1. pos[t] + Capacity \in Nat /\ Released(pos[t]) = pos[t] + Capacity
    BY Facts DEF Released
  <2> QED
    BY <1>2, <2>1, PublishInv DEF PopPublish, Goto
<1>3. CASE UNCHANGED vars
  BY <1>3 DEF vars, Inv, CapacityAssumption, TypeOK, CountInv, OwnerInv, CellInv, DataInv,
              ReadInv, PushOwner, PopOwner
<1> QED
  BY <1>1, <1>2, <1>3, ReadingInv, SequenceInv, CasInv, PushDataInv, PopDataInv
     DEF Next, Push, Pop

LEMMA SpecInv == ASSUME CapacityAssumption PROVE Spec => []Inv
  BY InitInv, NextInv, PTL DEF Spec

\* Every variable keeps its type.
THEOREM QueueTypeCorrect == ASSUME CapacityAssumption PROVE Spec => []TypeOK
<1>1. Inv => TypeOK
  BY DEF Inv
<1> QED
  BY <1>1, SpecInv, PTL

\* The data_ of a cell is used by one thread at a time, whatever the capacity
\* and the number of threads that push and pop.
THEOREM CellsHaveOneOwner == ASSUME CapacityAssumption PROVE Spec => []CellOwnedByOne
<1>1. Inv => CellOwnedByOne
  BY OwnersApart DEF CellOwnedByOne, PushOwner, PopOwner
<1> QED
  BY <1>1, SpecInv, PTL

\* try_pop returns the value that was pushed at the position it claimed.
THEOREM PopsGetTheirValue == ASSUME CapacityAssumption PROVE Spec => []PopsWhatWasPushed
<1>1. Inv => PopsWhatWasPushed
  BY DEF Inv, DataInv, PopsWhatWasPushed
<1> QED
  BY <1>1, SpecInv, PTL

-----------------------------------------------------------------------------
(* try_push and try_pop fail only when they are blocked.                   *)

\* The cell of a position that a push has read and found occupied: the queue is
\* full, or a pop has not released a cell.
LEMMA PushBlocked ==
    ASSUME Inv, NEW q \in Nat, q <= enqueuePos, sequence[Cell(q)] < q,
           \A u \in Threads : ~PopOwner(u)
    PROVE  enqueuePos - dequeuePos = Capacity
<1>1. PICK p \in Nat : dequeuePos <= p /\ p < dequeuePos + Capacity /\ Cell(p) = Cell(q)
  BY Facts, CellType, CellSurjective DEF Inv
<1>2. sequence[Cell(p)] >= p
  <2>1. CellInv /\ OwnerInv
    BY DEF Inv
  <2>2. CASE p < enqueuePos
    <3>1. \/ sequence[Cell(p)] = p + 1
          \/ \E t \in Threads : PushOwner(t) /\ pos[t] = p
      BY <1>1, <2>1, <2>2, Facts DEF CellInv
    <3>2. ASSUME NEW t \in Threads, PushOwner(t), pos[t] = p PROVE sequence[Cell(p)] = p
      BY <2>1, <3>2 DEF OwnerInv
    <3> QED
      BY <3>1, <3>2
  <2>3. CASE p >= enqueuePos
    <3>1. p \in enqueuePos .. dequeuePos + Capacity - 1
      BY <1>1, <2>3, Facts
    <3> QED
      BY <2>1, <3>1 DEF CellInv
  <2> QED
    BY <2>2, <2>3, Facts
<1>3. p < q
  BY <1>1, <1>2, Facts
<1>4. q >= p + Capacity
  BY <1>1, <1>3, CellInjective DEF Inv, CapacityAssumption
<1> QED
  BY <1>1, <1>4, Facts

\* The cell of a position that a pop has read and found unpublished: the queue
\* is empty, or a push has not published a cell.
LEMMA PopBlocked ==
    ASSUME Inv, NEW q \in Nat, q <= dequeuePos, sequence[Cell(q)] < q + 1,
           \A u \in Threads : ~PushOwner(u)
    PROVE  enqueuePos = dequeuePos
<1> SUFFICES ASSUME dequeuePos < enqueuePos PROVE FALSE
  BY Facts
<1>1. PICK p \in Nat : dequeuePos <= p /\ p < dequeuePos + Capacity /\ Cell(p) = Cell(q)
  BY Facts, CellType, CellSurjective DEF Inv
<1>2. CellInv /\ OwnerInv
  BY DEF Inv
<1>3. CASE p < enqueuePos
  <2>1. p \in dequeuePos .. enqueuePos - 1
    BY <1>1, <1>3, Facts
  <2>2. sequence[Cell(p)] = p + 1
    BY <1>2, <2>1 DEF CellInv
  <2> QED
    BY <1>1, <2>2, Facts
<1>4. CASE p >= enqueuePos
  <2>1. q < p
    BY <1>4, Facts
  <2>2. p >= q + Capacity
    BY <1>1, <2>1, CellInjective DEF Inv, CapacityAssumption
  <2>3. \/ sequence[Cell(p)] = p
        \/ \E t \in Threads : PopOwner(t) /\ pos[t] + Capacity = p
    BY <1>1, <1>2, <1>4, Facts DEF CellInv
  <2>4. ASSUME NEW t \in Threads, PopOwner(t), pos[t] + Capacity = p PROVE FALSE
    <3>1. sequence[Cell(pos[t])] = pos[t] + 1 /\ pos[t] \in Nat
      BY <1>2, <2>4, Facts DEF OwnerInv
    <3>2. Cell(p) = Cell(pos[t])
      BY <2>4, <3>1, CellPeriodic DEF Inv
    <3> QED
      BY <1>1, <2>2, <2>4, <3>1, <3>2, Facts
  <2> QED
    BY <1>1, <2>2, <2>3, <2>4, Facts
<1> QED
  BY <1>3, <1>4, Facts

\* try_push returns false only when the queue is full or a pop is under way,
\* try_pop only when it is empty or a push is under way.
THEOREM FailuresAreJustified == ASSUME CapacityAssumption PROVE Spec => FailsOnlyWhenBlocked
<1> DEFINE Justified ==
      \A t \in Threads : pc[t] # "failed" /\ pc'[t] = "failed" =>
         IF pc[t] = "push_seq"
           THEN \/ enqueuePos - dequeuePos = Capacity
                \/ \E u \in Threads : pc[u] \in {"pop_data", "pop_publish"}
           ELSE \/ enqueuePos = dequeuePos
                \/ \E u \in Threads : pc[u] \in {"push_data", "push_publish"}
<1>1. Inv /\ [Next]_vars => [Justified]_vars
  <2> SUFFICES ASSUME Inv, Next, NEW t \in Threads, pc[t] # "failed", pc'[t] = "failed"
               PROVE  IF pc[t] = "push_seq"
                        THEN \/ enqueuePos - dequeuePos = Capacity
                             \/ \E u \in Threads : pc[u] \in {"pop_data", "pop_publish"}
                        ELSE \/ enqueuePos = dequeuePos
                             \/ \E u \in Threads : pc[u] \in {"push_data", "push_publish"}
    OBVIOUS
  <2>0. /\ pc \in [Threads -> Pushing \cup Popping \cup {"idle", "failed"}]
        /\ pos[t] \in Nat /\ sequence[Cell(pos[t])] \in Nat
    BY Facts DEF Inv, TypeOK
  <2>1. PushSequence(t) \/ PopSequence(t)
    BY <2>0 DEF Next, Push, Pop, TryPush, PushSequence, PushCas, PushLoad, PushData, PushPublish,
                TryPop, PopSequence, PopCas, PopLoad, PopData, PopPublish, ReturnFalse, Goto
  <2>2. CASE PushSequence(t)
    <3>1. pc[t] = "push_seq" /\ AfterSequence(PushDif(t), "push_cas", "push_load") = "failed"
      BY <2>0, <2>2 DEF PushSequence, Goto
    <3>2. sequence[Cell(pos[t])] < pos[t]
      BY <2>0, <3>1 DEF AfterSequence, PushDif
    <3>3. pos[t] <= enqueuePos
      BY <3>1 DEF Inv, ReadInv, Pushing
    <3>4. enqueuePos - dequeuePos = Capacity \/ \E u \in Threads : PopOwner(u)
      BY <2>0, <3>2, <3>3, PushBlocked
    <3> QED
      BY <3>1, <3>4 DEF PopOwner
  <2>3. CASE PopSequence(t)
    <3> DEFINE dif == sequence[Cell(pos[t])] - (pos[t] + 1)
    <3>1. pc[t] = "pop_seq" /\ AfterSequence(dif, "pop_cas", "pop_load") = "failed"
      BY <2>0, <2>3 DEF PopSequence, Goto
    <3>2. sequence[Cell(pos[t])] < pos[t] + 1
      BY <2>0, <3>1 DEF AfterSequence
    <3>3. pos[t] <= dequeuePos
      BY <3>1 DEF Inv, ReadInv, Popping
    <3>4. enqueuePos = dequeuePos \/ \E u \in Threads : PushOwner(u)
      BY <2>0, <3>2, <3>3, PopBlocked
    <3> QED
      BY <3>1, <3>4 DEF PushOwner
  <2> QED
    BY <2>1, <2>2, <2>3
<1> QED
  BY <1>1, SpecInv, PTL DEF Spec, FailsOnlyWhenBlocked

-----------------------------------------------------------------------------
(* The refinement of BoundedFifo.                                          *)

queued == SubSeq(claimed, dequeuePos + 1, enqueuePos)

\* The values that are claimed by e pushes and not by d pops.
LEMMA Segment ==
    ASSUME NEW s \in Seq(Values), NEW d \in Nat, NEW e \in Nat, d <= e, Len(s) = e
    PROVE  /\ SubSeq(s, d + 1, e) \in Seq(Values) /\ Len(SubSeq(s, d + 1, e)) = e - d
           /\ \A i \in 1 .. e - d : SubSeq(s, d + 1, e)[i] = s[d + i]
<1> DEFINE q == SubSeq(s, d + 1, e)
<1>1. \A i \in d + 1 .. e : s[i] \in Values
  OBVIOUS
<1>2. /\ q \in Seq(Values)
      /\ Len(q) = IF d + 1 <= e THEN e - (d + 1) + 1 ELSE 0
      /\ \A i \in 1 .. e - (d + 1) + 1 : q[i] = s[d + 1 + i - 1]
  BY <1>1, SubSeqProperties
<1> HIDE DEF q
<1>3. Len(q) = e - d
  BY <1>2
<1>4. ASSUME NEW i \in 1 .. e - d PROVE q[i] = s[d + i]
  <2>1. i \in 1 .. e - (d + 1) + 1 /\ d + 1 + i - 1 = d + i
    OBVIOUS
  <2> QED
    BY <1>2, <2>1
<1> QED
  BY <1>2, <1>3, <1>4 DEF q

LEMMA Queued ==
    ASSUME Inv
    PROVE  /\ queued \in Seq(Values) /\ Len(queued) = enqueuePos - dequeuePos
           /\ \A i \in 1 .. enqueuePos - dequeuePos : queued[i] = claimed[dequeuePos + i]
<1>1. claimed \in Seq(Values) /\ Len(claimed) = enqueuePos
  BY DEF Inv, TypeOK, CountInv
<1> QED
  BY <1>1, Segment, Facts DEF queued

\* A successful exchange of try_push appends the value.
LEMMA PushAppends ==
    ASSUME Inv, Inv', NEW t \in Threads, PushCas(t), enqueuePos' # enqueuePos
    PROVE  Fifo!Enqueue
<1>0. enqueuePos \in Nat /\ dequeuePos \in Nat /\ dequeuePos <= enqueuePos /\ Capacity \in Nat
  BY Facts
<1>1. /\ pc[t] = "push_cas" /\ val[t] \in Values /\ enqueuePos = pos[t]
      /\ enqueuePos' = enqueuePos + 1 /\ dequeuePos' = dequeuePos
      /\ claimed' = Append(claimed, val[t])
  BY DEF PushCas, Inv, DataInv, Pushing
<1>2. enqueuePos < dequeuePos + Capacity
  BY <1>1, FreeCell DEF Inv, ReadInv
<1>3. /\ queued \in Seq(Values) /\ Len(queued) = enqueuePos - dequeuePos
      /\ \A i \in 1 .. enqueuePos - dequeuePos : queued[i] = claimed[dequeuePos + i]
  BY Queued
<1>4. /\ queued' \in Seq(Values) /\ Len(queued') = enqueuePos + 1 - dequeuePos
      /\ \A i \in 1 .. enqueuePos + 1 - dequeuePos : queued'[i] = claimed'[dequeuePos + i]
  <2>1. claimed' \in Seq(Values) /\ Len(claimed') = enqueuePos + 1
    BY <1>1 DEF Inv, TypeOK, CountInv
  <2>2. queued' = SubSeq(claimed', dequeuePos + 1, enqueuePos + 1)
    BY <1>1 DEF queued
  <2>3. enqueuePos + 1 \in Nat /\ dequeuePos <= enqueuePos + 1
    BY <1>0
  <2> QED
    BY <2>1, <2>2, <2>3, <1>0, Segment
<1>5. /\ claimed \in Seq(Values) /\ Len(claimed) = enqueuePos
  BY DEF Inv, TypeOK, CountInv
<1>6. /\ \A i \in 1 .. enqueuePos : claimed'[i] = claimed[i]
      /\ claimed'[enqueuePos + 1] = val[t]
  BY <1>0, <1>1, <1>5, AppendProperties
<1>7. queued' = Append(queued, val[t])
  <2>1. /\ Append(queued, val[t]) \in Seq(Values)
        /\ Len(Append(queued, val[t])) = enqueuePos + 1 - dequeuePos
        /\ \A i \in 1 .. enqueuePos - dequeuePos : Append(queued, val[t])[i] = queued[i]
        /\ Append(queued, val[t])[enqueuePos - dequeuePos + 1] = val[t]
    BY <1>1, <1>3, AppendProperties, <1>0
  <2>2. ASSUME NEW i \in 1 .. enqueuePos + 1 - dequeuePos
        PROVE  queued'[i] = Append(queued, val[t])[i]
    <3>1. CASE i \in 1 .. enqueuePos - dequeuePos
      <4>1. dequeuePos + i \in 1 .. enqueuePos
        BY <3>1, <1>0
      <4> QED
        BY <3>1, <4>1, <1>3, <1>4, <1>6, <2>1
    <3>2. CASE i = enqueuePos - dequeuePos + 1
      <4>1. dequeuePos + i = enqueuePos + 1
        BY <3>2, <1>0
      <4> QED
        BY <3>2, <4>1, <1>4, <1>6, <2>1
    <3>3. i \in 1 .. enqueuePos - dequeuePos \/ i = enqueuePos - dequeuePos + 1
      BY <1>0
    <3> QED
      BY <3>1, <3>2, <3>3
  <2> QED
    BY <1>4, <2>1, <2>2, SeqEqual
<1>8. Len(queued) < Capacity
  BY <1>2, <1>3, <1>0
<1> QED
  BY <1>1, <1>7, <1>8 DEF Fifo!Enqueue, queued

\* A successful exchange of try_pop takes the first value.
LEMMA PopTakesFirst ==
    ASSUME Inv, NEW t \in Threads, PopCas(t), dequeuePos' # dequeuePos
    PROVE  Fifo!Dequeue
<1>0. enqueuePos \in Nat /\ dequeuePos \in Nat /\ dequeuePos <= enqueuePos /\ Capacity \in Nat
  BY Facts
<1>1. /\ pc[t] = "pop_cas" /\ dequeuePos = pos[t] /\ dequeuePos' = dequeuePos + 1
      /\ enqueuePos' = enqueuePos /\ claimed' = claimed
  BY DEF PopCas
<1>2. dequeuePos < enqueuePos
  BY <1>1, FullCell DEF Inv, ReadInv
<1>3. /\ queued \in Seq(Values) /\ Len(queued) = enqueuePos - dequeuePos
      /\ \A i \in 1 .. enqueuePos - dequeuePos : queued[i] = claimed[dequeuePos + i]
  BY Queued
<1>4. /\ queued' \in Seq(Values) /\ Len(queued') = enqueuePos - (dequeuePos + 1)
      /\ \A i \in 1 .. enqueuePos - (dequeuePos + 1) : queued'[i] = claimed[dequeuePos + 1 + i]
  <2>1. claimed \in Seq(Values) /\ Len(claimed) = enqueuePos
    BY DEF Inv, TypeOK, CountInv
  <2>2. queued' = SubSeq(claimed, dequeuePos + 1 + 1, enqueuePos)
    BY <1>1 DEF queued
  <2>3. dequeuePos + 1 \in Nat /\ dequeuePos + 1 <= enqueuePos
    BY <1>0, <1>2
  <2> QED
    BY <2>1, <2>2, <2>3, <1>0, Segment
<1>5. queued # <<>>
  BY <1>2, <1>3, <1>0
<1>6. /\ Tail(queued) \in Seq(Values) /\ Len(Tail(queued)) = Len(queued) - 1
      /\ \A i \in 1 .. Len(Tail(queued)) : Tail(queued)[i] = queued[i + 1]
  BY <1>3, <1>5, HeadTailProperties
<1>7. queued' = Tail(queued)
  <2>1. Len(Tail(queued)) = enqueuePos - (dequeuePos + 1)
    BY <1>3, <1>6, <1>0
  <2>2. ASSUME NEW i \in 1 .. enqueuePos - (dequeuePos + 1) PROVE queued'[i] = Tail(queued)[i]
    <3>1. i + 1 \in 1 .. enqueuePos - dequeuePos /\ dequeuePos + (i + 1) = dequeuePos + 1 + i
      BY <1>0
    <3> QED
      BY <3>1, <2>1, <1>3, <1>4, <1>6
  <2> QED
    BY <1>4, <1>6, <2>1, <2>2, SeqEqual
<1> QED
  BY <1>5, <1>7 DEF Fifo!Dequeue, queued

\* The queue is a bounded FIFO queue of Capacity values whose operations take
\* effect when their exchange succeeds.
THEOREM QueueImplementsFifo == ASSUME CapacityAssumption PROVE Spec => ImplementsFifo
<1>1. Init => Fifo!Init
  BY SubSeqEmpty DEF Init, Fifo!Init
<1>2. ASSUME Inv, Inv', [Next]_vars PROVE [Fifo!Next]_queued
  <2>1. ASSUME NEW t \in Threads, PushCas(t) PROVE [Fifo!Next]_queued
    <3>1. CASE enqueuePos' # enqueuePos
      BY <1>2, <2>1, <3>1, PushAppends DEF Fifo!Next
    <3>2. CASE enqueuePos' = enqueuePos
      <4>1. enqueuePos \in Nat
        BY <1>2, Facts
      <4>2. UNCHANGED <<claimed, enqueuePos, dequeuePos>>
        BY <2>1, <3>2, <4>1 DEF PushCas
      <4> QED
        BY <4>2 DEF queued
    <3> QED
      BY <3>1, <3>2
  <2>2. ASSUME NEW t \in Threads, PopCas(t) PROVE [Fifo!Next]_queued
    <3>1. CASE dequeuePos' # dequeuePos
      BY <1>2, <2>2, <3>1, PopTakesFirst DEF Fifo!Next
    <3>2. CASE dequeuePos' = dequeuePos
      BY <2>2, <3>2 DEF PopCas, queued
    <3> QED
      BY <3>1, <3>2
  <2>3. CASE UNCHANGED <<claimed, enqueuePos, dequeuePos>>
    BY <2>3 DEF queued
  <2> QED
    BY <1>2, <2>1, <2>2, <2>3 DEF Next, Push, Pop, TryPush, PushSequence, PushLoad, PushData,
       PushPublish, TryPop, PopSequence, PopLoad, PopData, PopPublish, ReturnFalse, vars
<1> QED
  BY <1>1, <1>2, SpecInv, PTL DEF Spec, ImplementsFifo, Fifo!Spec, queued
=============================================================================
