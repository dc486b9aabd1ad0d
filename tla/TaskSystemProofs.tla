-------------------------- MODULE TaskSystemProofs --------------------------
(***************************************************************************)
(* Proofs about TaskSystem, for any tasks, clients, workers and programs   *)
(* that keep the rules of the interface: deps_ and refs_ are exact, a task *)
(* runs once and after its parents, a wait sees the whole graph, the task  *)
(* system implements TaskGraph, and no task leaks.                         *)
(***************************************************************************)
EXTENDS TaskSystem, SequenceTheorems, FunctionTheorems, FiniteSetTheorems,
        WellFoundedInduction, TLAPS

-----------------------------------------------------------------------------
(* Places in lists *)

\* The places of t in the lists L, without the first place of a list in A.
IsPlace(L, t, A, p, i) == i \in DOMAIN L[p] /\ L[p][i] = t /\ ~(i = 1 /\ p \in A)
Places(L, t, A) == {z \in Tasks \X Nat : IsPlace(L, t, A, z[1], z[2])}

\* In M the list of q has got c at its end, or has lost its head.
Grown(L, M, q, c) == M[q] = Append(L[q], c) /\ \A r \in Tasks \ {q} : M[r] = L[r]
Shrunk(L, M, q)   == M[q] = Tail(L[q]) /\ \A r \in Tasks \ {q} : M[r] = L[r]

\* From L to M, c gains one place and the others keep theirs.
Gained(L, M, c, A) ==
    \E z : /\ \A t \in Tasks \ {c} : Places(M, t, A) = Places(L, t, A)
           /\ Places(M, c, A) = Places(L, c, A) \cup {z}
           /\ z \notin Places(L, c, A)

\* t has as many places in M as it has in L without the heads in B.
AsMany(L, M, t, A, B) ==
    /\ IsFiniteSet(Places(M, t, A))
    /\ Cardinality(Places(M, t, A)) = Cardinality(Places(L, t, B))

LEMMA PlacesMember ==
    ASSUME NEW L, NEW t, NEW A, NEW p \in Tasks, NEW i \in Nat
    PROVE  <<p, i>> \in Places(L, t, A) <=> IsPlace(L, t, A, p, i)
  BY DEF Places

LEMMA PlacesPairs ==
    ASSUME NEW L, NEW t, NEW A
    PROVE  Places(L, t, A) \subseteq Tasks \X Nat
  BY DEF Places

\* Two sets of places are compared place by place.
LEMMA PairExtension ==
    ASSUME NEW S, NEW T, S \subseteq Tasks \X Nat, T \subseteq Tasks \X Nat,
           \A p \in Tasks, i \in Nat : <<p, i>> \in S <=> <<p, i>> \in T
    PROVE  S = T
<1>1. ASSUME NEW z \in Tasks \X Nat PROVE z \in S <=> z \in T
  <2>1. z = <<z[1], z[2]>> /\ z[1] \in Tasks /\ z[2] \in Nat
    OBVIOUS
  <2> QED
    BY <2>1
<1> QED
  BY <1>1

LEMMA ListDomain ==
    ASSUME NEW S, NEW s \in Seq(S)
    PROVE  DOMAIN s = 1 .. Len(s) /\ Len(s) \in Nat
  BY LenProperties

\* A list that grows at its end has one place more.
LEMMA PlacesAppend ==
    ASSUME NEW L \in [Tasks -> Seq(Tasks)], NEW q \in Tasks, NEW c \in Tasks,
           NEW A, q \notin A,
           NEW M \in [Tasks -> Seq(Tasks)], Grown(L, M, q, c)
    PROVE  Gained(L, M, c, A)
<1> DEFINE k == Len(L[q]) + 1
<1>1. L[q] \in Seq(Tasks) /\ DOMAIN L[q] = 1 .. Len(L[q]) /\ Len(L[q]) \in Nat
  BY ListDomain
<1>2. /\ M[q] \in Seq(Tasks) /\ Len(M[q]) = k /\ M[q][k] = c
      /\ \A i \in 1 .. Len(L[q]) : M[q][i] = L[q][i]
  BY <1>1, AppendProperties DEF Grown
<1>3. DOMAIN M[q] = 1 .. k /\ k \in Nat
  BY <1>1, <1>2, ListDomain
<1>4. \A r \in Tasks \ {q} : M[r] = L[r]
  BY DEF Grown
<1> HIDE DEF k
<1>5. k \notin DOMAIN L[q] /\ \A i \in Nat : i \in DOMAIN M[q] <=> i \in DOMAIN L[q] \/ i = k
  BY <1>1, <1>3 DEF k
<1>6. \A i \in DOMAIN L[q] : M[q][i] = L[q][i]
  BY <1>1, <1>2
<1>7. ASSUME NEW t, NEW p \in Tasks, NEW i \in Nat
      PROVE  <<p, i>> \in Places(M, t, A) <=>
                <<p, i>> \in Places(L, t, A) \/ (t = c /\ p = q /\ i = k)
  <2>1. /\ <<p, i>> \in Places(M, t, A) <=> IsPlace(M, t, A, p, i)
        /\ <<p, i>> \in Places(L, t, A) <=> IsPlace(L, t, A, p, i)
    BY PlacesMember
  <2>2. CASE p = q
    <3>1. IsPlace(M, t, A, p, i) <=> i \in DOMAIN M[q] /\ M[q][i] = t
      BY <2>2 DEF IsPlace
    <3>2. IsPlace(L, t, A, p, i) <=> i \in DOMAIN L[q] /\ L[q][i] = t
      BY <2>2 DEF IsPlace
    <3> QED
      BY <1>2, <1>5, <1>6, <2>1, <2>2, <3>1, <3>2
  <2>3. CASE p # q
    <3>1. M[p] = L[p]
      BY <1>4, <2>3
    <3>2. IsPlace(M, t, A, p, i) <=> IsPlace(L, t, A, p, i)
      BY <3>1 DEF IsPlace
    <3> QED
      BY <2>1, <2>3, <3>2
  <2> QED
    BY <2>2, <2>3
<1>8. ASSUME NEW t \in Tasks \ {c} PROVE Places(M, t, A) = Places(L, t, A)
  <2> DEFINE S == Places(M, t, A)
             T == Places(L, t, A)
  <2>1. S \subseteq Tasks \X Nat /\ T \subseteq Tasks \X Nat
    BY PlacesPairs
  <2>2. \A p \in Tasks, i \in Nat : <<p, i>> \in S <=> <<p, i>> \in T
    BY <1>7
  <2> HIDE DEF S, T
  <2>3. S = T
    BY <2>1, <2>2, PairExtension
  <2> QED
    BY <2>3 DEF S, T
<1>9. Places(M, c, A) = Places(L, c, A) \cup {<<q, k>>}
  <2> DEFINE S == Places(M, c, A)
             T == Places(L, c, A) \cup {<<q, k>>}
  <2>1. S \subseteq Tasks \X Nat /\ T \subseteq Tasks \X Nat
    BY <1>3, PlacesPairs
  <2>2. \A p \in Tasks, i \in Nat : <<p, i>> \in S <=> <<p, i>> \in T
    BY <1>7
  <2> HIDE DEF S, T
  <2>3. S = T
    BY <2>1, <2>2, PairExtension
  <2> QED
    BY <2>3 DEF S, T
<1>10. <<q, k>> \notin Places(L, c, A)
  BY <1>3, <1>5, PlacesMember DEF IsPlace
<1> QED
  BY <1>8, <1>9, <1>10 DEF Gained

\* A list that loses its first element: the other places move down by one.
LEMMA PlacesTail ==
    ASSUME NEW L \in [Tasks -> Seq(Tasks)], NEW x \in Tasks, L[x] # <<>>,
           NEW A, x \notin A, NEW t, IsFiniteSet(Places(L, t, A \cup {x})),
           NEW M \in [Tasks -> Seq(Tasks)], Shrunk(L, M, x)
    PROVE  AsMany(L, M, t, A, A \cup {x})
<1> DEFINE S == Places(L, t, A \cup {x})
           T == Places(M, t, A)
           up(z) == IF z[1] = x THEN <<x, z[2] + 1>> ELSE z
           f == [z \in T |-> up(z)]
<1>1. /\ L[x] \in Seq(Tasks) /\ Len(L[x]) \in Nat /\ Len(L[x]) > 0
      /\ DOMAIN L[x] = 1 .. Len(L[x])
  BY ListDomain, EmptySeq
<1>2. M[x] = Tail(L[x]) /\ \A r \in Tasks \ {x} : M[r] = L[r]
  BY DEF Shrunk
<1>3. /\ M[x] \in Seq(Tasks) /\ Len(M[x]) = Len(L[x]) - 1
      /\ \A i \in 1 .. Len(M[x]) : M[x][i] = L[x][i + 1]
  BY <1>1, <1>2, HeadTailProperties
<1>4. DOMAIN M[x] = 1 .. Len(M[x])
  BY <1>3, ListDomain
<1>5. ASSUME NEW i \in Nat PROVE <<x, i>> \in T <=> i > 0 /\ <<x, i + 1>> \in S
  <2>1. i \in DOMAIN M[x] <=> i > 0 /\ i + 1 \in DOMAIN L[x]
    BY <1>1, <1>3, <1>4
  <2>2. i \in DOMAIN M[x] => M[x][i] = L[x][i + 1]
    BY <1>3, <1>4
  <2>3. IsPlace(M, t, A, x, i) <=> i \in DOMAIN M[x] /\ M[x][i] = t
    BY DEF IsPlace
  <2>4. IsPlace(L, t, A \cup {x}, x, i + 1) <=> i + 1 \in DOMAIN L[x] /\ L[x][i + 1] = t /\ i # 0
    BY DEF IsPlace
  <2>5. IsPlace(M, t, A, x, i) <=> i > 0 /\ IsPlace(L, t, A \cup {x}, x, i + 1)
    BY <2>1, <2>2, <2>3, <2>4
  <2>6. <<x, i>> \in T <=> IsPlace(M, t, A, x, i)
    BY PlacesMember
  <2>7. <<x, i + 1>> \in S <=> IsPlace(L, t, A \cup {x}, x, i + 1)
    BY PlacesMember
  <2> QED
    BY <2>5, <2>6, <2>7
<1>6. <<x, 0>> \notin S /\ <<x, 1>> \notin S
  <2>1. 0 \notin DOMAIN L[x]
    BY <1>1
  <2> QED
    BY <2>1, PlacesMember DEF IsPlace
<1>7. ASSUME NEW r \in Tasks \ {x}, NEW i \in Nat PROVE <<r, i>> \in S <=> <<r, i>> \in T
  <2>1. M[r] = L[r]
    BY <1>2
  <2>2. /\ <<r, i>> \in S <=> IsPlace(L, t, A \cup {x}, r, i)
        /\ <<r, i>> \in T <=> IsPlace(M, t, A, r, i)
    BY PlacesMember
  <2>3. IsPlace(L, t, A \cup {x}, r, i) <=> IsPlace(M, t, A, r, i)
    BY <2>1 DEF IsPlace
  <2> QED
    BY <2>2, <2>3
<1>8. S \subseteq Tasks \X Nat /\ T \subseteq Tasks \X Nat
  BY PlacesPairs
<1> HIDE DEF S, T
<1>9. ASSUME NEW z \in T PROVE up(z) \in S
  <2>1. z = <<z[1], z[2]>> /\ z[1] \in Tasks /\ z[2] \in Nat
    BY <1>8
  <2> QED
    BY <1>5, <1>7, <2>1
<1>10. ASSUME NEW z \in T, NEW y \in T, up(z) = up(y) PROVE z = y
  <2>1. z = <<z[1], z[2]>> /\ z[1] \in Tasks /\ z[2] \in Nat
    BY <1>8
  <2>2. y = <<y[1], y[2]>> /\ y[1] \in Tasks /\ y[2] \in Nat
    BY <1>8
  <2>3. up(z)[1] = z[1] /\ up(y)[1] = y[1] /\ z[1] = y[1]
    BY <1>10
  <2>4. CASE z[1] = x
    <3>1. up(z) = <<x, z[2] + 1>> /\ up(y) = <<x, y[2] + 1>>
      BY <2>3, <2>4
    <3>2. z[2] + 1 = y[2] + 1
      BY <1>10, <3>1
    <3>3. z[2] = y[2]
      BY <2>1, <2>2, <3>2
    <3> QED
      BY <2>1, <2>2, <2>3, <3>3
  <2>5. CASE z[1] # x
    BY <1>10, <2>3, <2>5
  <2> QED
    BY <2>4, <2>5
<1>11. ASSUME NEW y \in S PROVE \E z \in T : up(z) = y
  <2>1. y = <<y[1], y[2]>> /\ y[1] \in Tasks /\ y[2] \in Nat
    BY <1>8
  <2>2. CASE y[1] = x
    <3>1. y[2] # 0 /\ y[2] # 1
      BY <1>6, <2>1, <2>2
    <3>2. y[2] - 1 \in Nat /\ y[2] - 1 > 0 /\ (y[2] - 1) + 1 = y[2]
      BY <2>1, <3>1
    <3>3. <<x, y[2] - 1>> \in T
      BY <1>5, <2>1, <2>2, <3>2
    <3>4. up(<<x, y[2] - 1>>) = y
      BY <2>1, <2>2, <3>2
    <3> QED
      BY <3>3, <3>4
  <2>3. CASE y[1] # x
    <3>1. y \in T
      BY <1>7, <2>1, <2>3
    <3> QED
      BY <2>3, <3>1
  <2> QED
    BY <2>2, <2>3
<1> HIDE DEF up
<1>12. f \in [T -> S] /\ \A z \in T : f[z] = up(z)
  BY <1>9
<1> HIDE DEF f
<1>13. f \in Bijection(T, S)
  <2>1. DOMAIN f = T
    BY <1>12
  <2>2. IsInjective(f)
    BY <1>10, <1>12, <2>1 DEF IsInjective
  <2>3. \A y \in S : \E z \in T : f[z] = y
    BY <1>11, <1>12
  <2> QED
    BY <1>12, <2>2, <2>3 DEF Bijection, Injection, Surjection
<1>14. ExistsBijection(S, T)
  BY <1>13, Fun_ExistsBijSymmetric DEF ExistsBijection
<1>15. IsFiniteSet(S)
  BY DEF S
<1>16. IsFiniteSet(T) /\ Cardinality(T) = Cardinality(S)
  BY <1>14, <1>15, FS_Bijection
<1> QED
  BY <1>16 DEF S, T, AsMany

-----------------------------------------------------------------------------
(* The inductive invariant *)

\* TypeOK with counters that might be negative: that they are not follows
\* from what they count.
SharedTypes ==
    /\ refs \in [Tasks -> Int] /\ deps \in [Tasks -> Int]
    /\ sealed \subseteq Tasks /\ completed \subseteq Tasks
    /\ locked \subseteq Tasks /\ freed \subseteq Tasks /\ handle \subseteq Tasks
    /\ conts \in [Tasks -> Seq(Tasks)]
    /\ queued \in [Tasks -> Nat]

FrameTypes ==
    /\ stack \in [Threads -> Seq(Actors)]
    /\ pc \in [Actors -> PCs]
    /\ op \in [Actors -> Nat]
    /\ cur \in [Actors -> Tasks \cup {NoTask}]
    /\ par \in [Actors -> Nat]
    /\ local \in [Actors -> Seq(Tasks)]
    /\ ret \in [Actors -> {"body", "unlink", "relcont"}]

Types == SharedTypes /\ FrameTypes

\* The call that x is in: its program counter has passed it.
InCall(x, f) ==
    /\ op[x] - 1 \in DOMAIN Prog[x]
    /\ Prog[x][op[x] - 1].op = f
    /\ Prog[x][op[x] - 1].task = cur[x]

\* x is in submit_after and still has parents or the sentinel to visit.
Submitting(x) == pc[x] \in {"attach", "link", "unlink"}

\* x has resolved the first of its continuations and still refers to it.
Resolved(x) == pc[x] = "relcont" \/ (pc[x] = "enqueue" /\ ret[x] = "relcont")

\* x is in execute(), after the function has returned.
Sealing(x) == Resolved(x) \/ pc[x] \in {"conts", "release", "return", "done"}

\* What the frame of x holds at each step.  The sentinel keeps deps_ above
\* zero, so enqueue_ready is never called under a parent's lock.
FrameOK(x) ==
    /\ op[x] >= 1
    /\ Submitting(x) => /\ InCall(x, "submit_after") /\ cur[x] \in Tasks
                        /\ par[x] \in 1 .. Len(After[cur[x]]) + 1
    /\ pc[x] \in {"link", "unlink"} => par[x] <= Len(After[cur[x]])
    /\ pc[x] = "unlink" => Parent(x) \in sealed
    /\ pc[x] = "enqueue" => cur[x] \in Tasks /\ ret[x] # "unlink"
    /\ pc[x] = "reset" => InCall(x, "wait") /\ cur[x] \in handle /\ cur[x] \in completed
    /\ Resolved(x) => local[x] # <<>> /\ cur[x] = Head(local[x])
    /\ x \in Tasks => (x \in sealed <=> Sealing(x))
    /\ x \in Clients => ~Resolved(x) /\ pc[x] \notin {"idle", "conts", "release", "return"}

\* A list of continuations is open or taken over by execute(), never both.
ListOK(t) ==
    /\ t \in sealed => conts[t] = <<>>
    /\ t \notin sealed => local[t] = <<>>
    /\ t \in completed => t \in sealed

FrameInv ==
    /\ \A x \in Actors : FrameOK(x)
    /\ \A t \in Tasks : ListOK(t)

\* The call that makes t has begun.
Submitted(t) ==
    \E x \in Actors : \E i \in DOMAIN Prog[x] : i < op[x] /\ Submits(Prog[x][i], t)

\* The places of t in lists of continuations, those of them that have not
\* yet resolved a dependency of t, and the dependencies of cur[x] that
\* submit_after has yet to come to.
Lists == [p \in Tasks |-> Pending(p)]
Held(t) == Places(Lists, t, {})
Waiting(t) == Places(Lists, t, {p \in Tasks : Resolved(p)})
Rest(x) == Len(After[cur[x]]) - par[x] + (IF pc[x] = "unlink" THEN 1 ELSE 2)

\* A task that has not been submitted is known to nobody.
Fresh(t) ==
    ~Submitted(t) =>
       /\ refs[t] = 0 /\ deps[t] = 0 /\ pc[t] = "idle" /\ queued[t] = 0
       /\ t \notin handle /\ t \notin freed
       /\ Enqueuers(t) = {}

\* A task without dependencies is in the pool or about to be until it starts.
ReadyOnce(t) ==
    /\ IsFiniteSet(Enqueuers(t))
    /\ pc[t] # "idle" => deps[t] = 0
    /\ Submitted(t) => queued[t] + Cardinality(Enqueuers(t))
                          = One(deps[t] = 0 /\ pc[t] = "idle")

\* refs_ is exact, and a task is freed when it is zero.
Holders(t) == One(t \in handle) + One(Submitted(t) /\ pc[t] \notin {"return", "done"})
              + Cardinality(Held(t)) + Cardinality(Attachers(t))

RefsExact(t) ==
    /\ IsFiniteSet(Held(t)) /\ IsFiniteSet(Attachers(t))
    /\ refs[t] = Holders(t)
    /\ t \in freed <=> Submitted(t) /\ refs[t] = 0

\* deps_ is exact, while submit_after visits the parents and afterwards.
DepsExact(t) ==
    /\ \A x \in Actors : Submitting(x) /\ cur[x] = t
          => deps[t] = Cardinality(Waiting(t)) + Rest(x)
    /\ (\A x \in Actors : Submitting(x) => cur[x] # t)
          => deps[t] = Cardinality(Waiting(t))

TaskOK(t) == Fresh(t) /\ ReadyOnce(t) /\ RefsExact(t) /\ DepsExact(t)

\* A parent that has been visited has run or remembers the child.
Seen(t, i) ==
    \/ After[t][i] \in sealed
    \/ \E m \in DOMAIN conts[After[t][i]] : conts[After[t][i]][m] = t
    \/ \E x \in Actors : Submitting(x) /\ cur[x] = t /\ par[x] <= i

ParentsSeen(t) == Submitted(t) => \A i \in DOMAIN After[t] : Seen(t, i)

Inv ==
    /\ Types
    /\ FrameInv
    /\ \A t \in Tasks : TaskOK(t)
    /\ \A t \in Tasks : ParentsSeen(t)

-----------------------------------------------------------------------------
(* What programs may do *)

LEMMA ProgCall ==
    ASSUME NEW x \in Actors, NEW i \in DOMAIN Prog[x]
    PROVE  Prog[x][i] \in Calls
<1>1. Prog[x] \in Seq(Calls)
  BY TaskAssumption
<1> QED
  BY <1>1

\* The call that x is at.
LEMMA AtCallFacts ==
    ASSUME Types, NEW x \in Actors, NEW f, AtCall(x, f), op[x] >= 1
    PROVE  /\ op[x] \in DOMAIN Prog[x] /\ Prog[x][op[x]] \in Calls
           /\ Prog[x][op[x]].op = f /\ Arg(x) \in Tasks /\ Prog[x][op[x]].task = Arg(x)
           /\ pc[x] = "body"
<1>1. Prog[x] \in Seq(Calls) /\ op[x] \in Nat /\ op[x] <= Len(Prog[x])
  BY TaskAssumption DEF Types, FrameTypes, AtCall
<1>2. DOMAIN Prog[x] = 1 .. Len(Prog[x]) /\ Len(Prog[x]) \in Nat
  BY <1>1, ListDomain
<1>3. op[x] \in DOMAIN Prog[x]
  BY <1>1, <1>2
<1>4. Prog[x][op[x]] \in Calls
  BY <1>3, ProgCall
<1> QED
  BY <1>3, <1>4 DEF AtCall, Arg, Calls

\* A task is submitted by one call.
LEMMA SubmitsOnce ==
    ASSUME NEW t \in Tasks, NEW x \in Actors, NEW y \in Actors,
           NEW i \in DOMAIN Prog[x], NEW j \in DOMAIN Prog[y],
           Submits(Prog[x][i], t), Submits(Prog[y][j], t)
    PROVE  x = y /\ i = j
  BY ProgramAssumption

LEMMA ReleasesOnce ==
    ASSUME NEW t \in Tasks, NEW x \in Actors, NEW y \in Actors,
           NEW i \in DOMAIN Prog[x], NEW j \in DOMAIN Prog[y],
           Releases(Prog[x][i], t), Releases(Prog[y][j], t)
    PROVE  x = y
  BY ProgramAssumption

\* The task that a call is about to make has not been submitted.
LEMMA NewTask ==
    ASSUME Types, NEW x \in Actors, NEW t \in Tasks,
           op[x] \in DOMAIN Prog[x], Submits(Prog[x][op[x]], t)
    PROVE  ~Submitted(t)
<1> SUFFICES ASSUME NEW y \in Actors, NEW j \in DOMAIN Prog[y], j < op[y], Submits(Prog[y][j], t)
             PROVE  FALSE
  BY DEF Submitted
<1>1. x = y /\ op[x] = j
  BY SubmitsOnce
<1>2. op[x] \in Nat
  BY DEF Types, FrameTypes
<1> QED
  BY <1>1, <1>2

\* One activation at a time is in submit_after for a task, which is then
\* submitted.
LEMMA OneSubmitter ==
    ASSUME Types, NEW x \in Actors, FrameOK(x), Submitting(x)
    PROVE  /\ cur[x] \in Tasks /\ Submitted(cur[x])
           /\ \A y \in Actors : FrameOK(y) /\ Submitting(y) /\ cur[y] = cur[x] => y = x
<1>1. ASSUME NEW y \in Actors, FrameOK(y), Submitting(y)
      PROVE  /\ op[y] - 1 \in DOMAIN Prog[y] /\ Submits(Prog[y][op[y] - 1], cur[y])
             /\ cur[y] \in Tasks /\ op[y] - 1 < op[y]
  <2>1. InCall(y, "submit_after") /\ cur[y] \in Tasks /\ op[y] \in Nat
    BY <1>1 DEF FrameOK, Types, FrameTypes
  <2> QED
    BY <2>1 DEF InCall, Submits
<1>2. Submitted(cur[x])
  BY <1>1 DEF Submitted
<1>3. ASSUME NEW y \in Actors, FrameOK(y), Submitting(y), cur[y] = cur[x] PROVE y = x
  BY <1>1, <1>3, SubmitsOnce
<1> QED
  BY <1>1, <1>2, <1>3

\* Submitted changes only with a call that submits.
LEMMA SubmittedKept ==
    ASSUME Types, NEW x \in Actors, NEW t, FrameOK(x),
           \A y \in Actors \ {x} : op'[y] = op[y],
           \/ op'[x] = op[x]
           \/ op'[x] = op[x] + 1 /\ (op[x] \in DOMAIN Prog[x] => ~Submits(Prog[x][op[x]], t))
    PROVE  Submitted(t)' <=> Submitted(t)
<1>1. \A y \in Actors : op[y] \in Nat
  BY DEF Types, FrameTypes
<1>2. \A y \in Actors : \A i \in DOMAIN Prog[y] : i \in Nat
  <2>1. \A y \in Actors : Prog[y] \in Seq(Calls)
    BY TaskAssumption
  <2> QED
    BY <2>1
<1>3. ASSUME NEW y \in Actors, NEW i \in DOMAIN Prog[y], Submits(Prog[y][i], t)
      PROVE  i < op'[y] <=> i < op[y]
  <2>1. CASE y = x /\ op'[x] = op[x] + 1
    <3>1. op[x] \in Nat /\ op'[x] # op[x]
      BY <1>1, <2>1
    <3>2. i # op[x]
      BY <1>3, <2>1, <3>1
    <3> QED
      BY <1>1, <1>2, <2>1, <3>2
  <2>2. CASE op'[y] = op[y]
    BY <2>2
  <2> QED
    BY <2>1, <2>2
<1> QED
  BY <1>3 DEF Submitted

-----------------------------------------------------------------------------
(* What a step leaves alone *)

\* The step leaves the frame of y alone.
Same(y) ==
    /\ pc'[y] = pc[y] /\ op'[y] = op[y] /\ cur'[y] = cur[y]
    /\ par'[y] = par[y] /\ local'[y] = local[y] /\ ret'[y] = ret[y]

\* Steps at which an activation is in none of the sets that the invariant
\* counts.
Neutral == {"idle", "body", "help", "reset", "conts", "release", "return", "done"}

LEMMA AddOne ==
    ASSUME NEW S, NEW z, IsFiniteSet(S), z \notin S
    PROVE  IsFiniteSet(S \cup {z}) /\ Cardinality(S \cup {z}) = Cardinality(S) + 1
  BY FS_AddElement

LEMMA RemoveOne ==
    ASSUME NEW S, NEW z, IsFiniteSet(S), z \in S
    PROVE  IsFiniteSet(S \ {z}) /\ Cardinality(S \ {z}) = Cardinality(S) - 1
  BY FS_RemoveElement

LEMMA CardNat ==
    ASSUME NEW S, IsFiniteSet(S)
    PROVE  Cardinality(S) \in Nat /\ (Cardinality(S) = 0 <=> S = {})
  BY FS_CardinalityType, FS_EmptySet

\* Lists are lists of tasks.
LEMMA ListsType ==
    ASSUME Types
    PROVE  Lists \in [Tasks -> Seq(Tasks)] /\ \A p \in Tasks : Lists[p] = conts[p] \o local[p]
<1>1. \A p \in Tasks : conts[p] \in Seq(Tasks) /\ local[p] \in Seq(Tasks)
  BY DEF Types, SharedTypes, FrameTypes, Actors
<1>2. \A p \in Tasks : conts[p] \o local[p] \in Seq(Tasks)
  BY <1>1, ConcatProperties
<1> QED
  BY <1>2 DEF Lists, Pending

\* The places that have not resolved a dependency are some of the places.
LEMMA WaitingFinite ==
    ASSUME NEW t, IsFiniteSet(Held(t))
    PROVE  IsFiniteSet(Waiting(t)) /\ Cardinality(Waiting(t)) \in Nat
<1>1. Waiting(t) \subseteq Held(t)
  BY DEF Waiting, Held, Places, IsPlace
<1> QED
  BY <1>1, FS_Subset, CardNat

\* The step leaves the places of t alone.
KeptPlaces(t) == Held(t)' = Held(t) /\ Waiting(t)' = Waiting(t)

LEMMA PlacesKept ==
    ASSUME Lists' = Lists, \A p \in Tasks : Resolved(p)' <=> Resolved(p)
    PROVE  \A t : KeptPlaces(t)
<1>1. {p \in Tasks : Resolved(p)}' = {p \in Tasks : Resolved(p)}
  OBVIOUS
<1> QED
  BY <1>1 DEF KeptPlaces, Held, Waiting

\* The step leaves the activations that submit, attach or enqueue t alone.
KeptActors(t) ==
    /\ Enqueuers(t)' = Enqueuers(t)
    /\ Attachers(t)' = Attachers(t)

KeptSubmitters(t) ==
    \A y \in Actors :
       /\ (Submitting(y) /\ cur[y] = t)' <=> Submitting(y) /\ cur[y] = t
       /\ Submitting(y) /\ cur[y] = t => Rest(y)' = Rest(y) /\ par'[y] = par[y]

\* The step leaves the variables of t alone, as far as the invariant sees.
Untouched(t) ==
    /\ refs'[t] = refs[t] /\ deps'[t] = deps[t] /\ queued'[t] = queued[t]
    /\ pc'[t] = "idle" <=> pc[t] = "idle"
    /\ pc'[t] \in {"return", "done"} <=> pc[t] \in {"return", "done"}
    /\ t \in handle' <=> t \in handle
    /\ t \in freed' <=> t \in freed

\* The step leaves what the invariant says of t alone.
Kept(t) ==
    /\ Untouched(t)
    /\ Submitted(t)' <=> Submitted(t)
    /\ KeptPlaces(t) /\ KeptActors(t) /\ KeptSubmitters(t)

LEMMA FreshKept ==
    ASSUME NEW t \in Tasks, Fresh(t), Kept(t)
    PROVE  Fresh(t)'
  BY DEF Fresh, Kept, Untouched, KeptActors

LEMMA ReadyKept ==
    ASSUME NEW t \in Tasks, ReadyOnce(t),
           deps'[t] = deps[t], queued'[t] = queued[t], pc'[t] = "idle" <=> pc[t] = "idle",
           Submitted(t)' <=> Submitted(t), Enqueuers(t)' = Enqueuers(t)
    PROVE  ReadyOnce(t)'
  BY DEF ReadyOnce, One

LEMMA RefsKept ==
    ASSUME NEW t \in Tasks, RefsExact(t),
           refs'[t] = refs[t],
           pc'[t] \in {"return", "done"} <=> pc[t] \in {"return", "done"},
           t \in handle' <=> t \in handle, t \in freed' <=> t \in freed,
           Submitted(t)' <=> Submitted(t),
           Held(t)' = Held(t), Attachers(t)' = Attachers(t)
    PROVE  RefsExact(t)'
  BY DEF RefsExact, Holders, One

LEMMA DepsKept ==
    ASSUME NEW t \in Tasks, DepsExact(t),
           deps'[t] = deps[t], Waiting(t)' = Waiting(t), KeptSubmitters(t)
    PROVE  DepsExact(t)'
<1>1. ASSUME NEW y \in Actors, (Submitting(y) /\ cur[y] = t)'
      PROVE  deps'[t] = Cardinality(Waiting(t)') + Rest(y)'
  <2>1. Submitting(y) /\ cur[y] = t /\ Rest(y)' = Rest(y)
    BY <1>1 DEF KeptSubmitters
  <2>2. deps[t] = Cardinality(Waiting(t)) + Rest(y)
    BY <2>1 DEF DepsExact
  <2> QED
    BY <2>1, <2>2
<1>2. ASSUME \A y \in Actors : Submitting(y)' => cur'[y] # t
      PROVE  deps'[t] = Cardinality(Waiting(t)')
  <2>1. \A y \in Actors : Submitting(y) => cur[y] # t
    BY <1>2 DEF KeptSubmitters
  <2> QED
    BY <2>1 DEF DepsExact
<1> QED
  BY <1>1, <1>2 DEF DepsExact

LEMMA TaskKept ==
    ASSUME NEW t \in Tasks, TaskOK(t), Kept(t)
    PROVE  TaskOK(t)'
<1>1. Fresh(t)'
  BY FreshKept DEF TaskOK
<1>2. ReadyOnce(t)'
  BY ReadyKept DEF TaskOK, Kept, Untouched, KeptActors
<1>3. RefsExact(t)'
  BY RefsKept DEF TaskOK, Kept, Untouched, KeptActors, KeptPlaces
<1>4. DepsExact(t)'
  BY DepsKept DEF TaskOK, Kept, Untouched, KeptPlaces
<1> QED
  BY <1>1, <1>2, <1>3, <1>4 DEF TaskOK

\* What the lists and the activations still remember of the parents of t.
KeptLists ==
    /\ sealed \subseteq sealed'
    /\ \A p \in Tasks : \/ p \in sealed'
                        \/ \A m \in DOMAIN conts[p] : /\ m \in DOMAIN conts'[p]
                                                      /\ conts'[p][m] = conts[p][m]

LEMMA ParentsKept ==
    ASSUME NEW t \in Tasks, ParentsSeen(t), Submitted(t)' <=> Submitted(t),
           KeptLists, KeptSubmitters(t)
    PROVE  ParentsSeen(t)'
<1> SUFFICES ASSUME Submitted(t), NEW i \in DOMAIN After[t]
             PROVE  \/ After[t][i] \in sealed'
                    \/ \E m \in DOMAIN conts'[After[t][i]] : conts'[After[t][i]][m] = t
                    \/ \E x \in Actors : Submitting(x)' /\ cur'[x] = t /\ par'[x] <= i
  BY DEF ParentsSeen, Seen
<1> DEFINE p == After[t][i]
<1>1. p \in Tasks
  <2>1. After[t] \in Seq(Tasks)
    BY TaskAssumption
  <2> QED
    BY <2>1
<1>2. CASE p \in sealed
  BY <1>2 DEF KeptLists
<1>3. CASE \E m \in DOMAIN conts[p] : conts[p][m] = t
  <2>1. PICK m \in DOMAIN conts[p] : conts[p][m] = t
    BY <1>3
  <2>2. \/ p \in sealed'
        \/ m \in DOMAIN conts'[p] /\ conts'[p][m] = conts[p][m]
    BY <1>1 DEF KeptLists
  <2> QED
    BY <2>1, <2>2
<1>4. CASE \E x \in Actors : Submitting(x) /\ cur[x] = t /\ par[x] <= i
  BY <1>4 DEF KeptSubmitters
<1> QED
  BY <1>2, <1>3, <1>4 DEF ParentsSeen, Seen

LEMMA FrameKept ==
    ASSUME NEW y \in Actors, FrameOK(y), Same(y),
           sealed \subseteq sealed', completed \subseteq completed',
           y \in sealed' <=> y \in sealed, pc[y] = "reset" => cur[y] \in handle'
    PROVE  FrameOK(y)'
<1>1. /\ Submitting(y)' <=> Submitting(y)
      /\ Resolved(y)' <=> Resolved(y)
      /\ Sealing(y)' <=> Sealing(y)
      /\ \A f : InCall(y, f)' <=> InCall(y, f)
      /\ Parent(y)' = Parent(y)
  BY DEF Same, Submitting, Resolved, Sealing, InCall, Parent
<1> QED
  BY <1>1 DEF Same, FrameOK

LEMMA ViewsKept ==
    ASSUME NEW y \in Actors, Same(y)
    PROVE  /\ Submitting(y)' <=> Submitting(y)
           /\ Attaching(y)' <=> Attaching(y)
           /\ Resolved(y)' <=> Resolved(y)
           /\ pc'[y] = pc[y] /\ cur'[y] = cur[y] /\ par'[y] = par[y] /\ Rest(y)' = Rest(y)
  BY DEF Same, Submitting, Attaching, Resolved, Rest

LEMMA NeutralViews ==
    ASSUME NEW y \in Actors, pc[y] \in Neutral
    PROVE  ~Submitting(y) /\ ~Attaching(y) /\ ~Resolved(y) /\ pc[y] # "enqueue"
  BY DEF Neutral, Submitting, Attaching, Resolved

\* A step between neutral steps leaves every set of activations alone.
LEMMA NeutralKept ==
    ASSUME NEW S, \A y \in Actors \ S : Same(y),
           \A y \in S : pc[y] \in Neutral /\ pc'[y] \in Neutral
    PROVE  /\ \A t : KeptActors(t) /\ KeptSubmitters(t)
           /\ \A p \in Actors : Resolved(p)' <=> Resolved(p)
<1>1. ASSUME NEW y \in Actors
      PROVE  /\ Submitting(y)' <=> Submitting(y)
             /\ Attaching(y)' <=> Attaching(y)
             /\ Resolved(y)' <=> Resolved(y)
             /\ pc'[y] = "enqueue" <=> pc[y] = "enqueue"
             /\ Submitting(y) \/ Attaching(y) \/ pc[y] = "enqueue" =>
                   cur'[y] = cur[y] /\ par'[y] = par[y] /\ Rest(y)' = Rest(y)
  <2>1. CASE y \in S
    <3>1. ~Submitting(y) /\ ~Attaching(y) /\ ~Resolved(y) /\ pc[y] # "enqueue"
      BY <2>1, NeutralViews
    <3>2. ~Submitting(y)' /\ ~Attaching(y)' /\ ~Resolved(y)' /\ pc'[y] # "enqueue"
      BY <2>1 DEF Neutral, Submitting, Attaching, Resolved
    <3> QED
      BY <3>1, <3>2
  <2>2. CASE y \notin S
    BY <2>2, ViewsKept
  <2> QED
    BY <2>1, <2>2
<1>2. ASSUME NEW t PROVE KeptActors(t)
  BY <1>1 DEF KeptActors, Enqueuers, Attachers
<1>3. ASSUME NEW t PROVE KeptSubmitters(t)
  BY <1>1 DEF KeptSubmitters
<1> QED
  BY <1>1, <1>2, <1>3

\* A step of x: any other activation stays or goes from a neutral step to another.
Moves(x) == \A y \in Actors \ {x} : Same(y) \/ (pc[y] \in Neutral /\ pc'[y] \in Neutral)

LEMMA OneMoves ==
    ASSUME NEW x \in Actors, Moves(x), NEW t
    PROVE  /\ Enqueuers(t)' = IF pc'[x] = "enqueue" /\ cur'[x] = t
                                THEN Enqueuers(t) \cup {x} ELSE Enqueuers(t) \ {x}
           /\ Attachers(t)' = IF Attaching(x)' /\ cur'[x] = t
                                THEN Attachers(t) \cup {x} ELSE Attachers(t) \ {x}
           /\ \A y \in Actors \ {x} :
                 /\ (Submitting(y) /\ cur[y] = t)' <=> Submitting(y) /\ cur[y] = t
                 /\ Submitting(y) => Rest(y)' = Rest(y) /\ par'[y] = par[y]
           /\ \A y \in Actors \ {x} : Resolved(y)' <=> Resolved(y)
<1>1. ASSUME NEW y \in Actors \ {x}
      PROVE  /\ (Submitting(y) /\ cur[y] = t)' <=> Submitting(y) /\ cur[y] = t
             /\ (Attaching(y) /\ cur[y] = t)' <=> Attaching(y) /\ cur[y] = t
             /\ (pc[y] = "enqueue" /\ cur[y] = t)' <=> pc[y] = "enqueue" /\ cur[y] = t
             /\ Resolved(y)' <=> Resolved(y)
             /\ Submitting(y) => Rest(y)' = Rest(y) /\ par'[y] = par[y]
  <2>1. CASE Same(y)
    BY <2>1, ViewsKept
  <2>2. CASE pc[y] \in Neutral /\ pc'[y] \in Neutral
    <3>1. ~Submitting(y) /\ ~Attaching(y) /\ ~Resolved(y) /\ pc[y] # "enqueue"
      BY <2>2, NeutralViews
    <3>2. ~Submitting(y)' /\ ~Attaching(y)' /\ ~Resolved(y)' /\ pc'[y] # "enqueue"
      BY <2>2 DEF Neutral, Submitting, Attaching, Resolved
    <3> QED
      BY <3>1, <3>2
  <2> QED
    BY <2>1, <2>2 DEF Moves
<1>2. Enqueuers(t)' = IF pc'[x] = "enqueue" /\ cur'[x] = t
                        THEN Enqueuers(t) \cup {x} ELSE Enqueuers(t) \ {x}
  BY <1>1 DEF Enqueuers
<1>3. Attachers(t)' = IF Attaching(x)' /\ cur'[x] = t
                        THEN Attachers(t) \cup {x} ELSE Attachers(t) \ {x}
  BY <1>1 DEF Attachers
<1> QED
  BY <1>1, <1>2, <1>3

\* Whether x is among the activations that count for t.
LEMMA MoverIn ==
    ASSUME NEW x \in Actors, NEW t
    PROVE  /\ x \in Enqueuers(t) <=> pc[x] = "enqueue" /\ cur[x] = t
           /\ x \in Attachers(t) <=> Attaching(x) /\ cur[x] = t
  BY DEF Enqueuers, Attachers

-----------------------------------------------------------------------------
(* Types *)

LEMMA IntUpdate ==
    ASSUME NEW f \in [Tasks -> Int], NEW c
    PROVE  [f EXCEPT ![c] = @ - 1] \in [Tasks -> Int] /\ [f EXCEPT ![c] = @ + 1] \in [Tasks -> Int]
<1>1. CASE c \in Tasks
  BY <1>1
<1>2. CASE c \notin Tasks
  <2>1. [f EXCEPT ![c] = @ - 1] = f /\ [f EXCEPT ![c] = @ + 1] = f
    BY <1>2
  <2> QED
    BY <2>1
<1> QED
  BY <1>1, <1>2

LEMMA CurTask ==
    ASSUME Types, NEW x \in Actors, FrameOK(x)
    PROVE  /\ Submitting(x) \/ pc[x] \in {"enqueue", "reset"} => cur[x] \in Tasks
           /\ pc[x] \in {"link", "unlink"} => Parent(x) \in Tasks
           /\ pc[x] \in {"conts", "relcont", "release"} => x \in Tasks
           /\ pc[x] = "relcont" => cur[x] \in Tasks
<1>1. Submitting(x) \/ pc[x] \in {"enqueue", "reset"} => cur[x] \in Tasks
  BY DEF FrameOK, InCall, Types, SharedTypes
<1>2. ASSUME pc[x] \in {"link", "unlink"} PROVE Parent(x) \in Tasks
  <2>1. /\ cur[x] \in Tasks /\ par[x] \in 1 .. Len(After[cur[x]])
    BY <1>2 DEF FrameOK, Submitting
  <2>2. After[cur[x]] \in Seq(Tasks)
    BY <2>1, TaskAssumption
  <2> QED
    BY <2>1, <2>2 DEF Parent
<1>3. pc[x] \in {"conts", "relcont", "release"} => x \in Tasks
  BY DEF FrameOK, Resolved, Actors
<1>4. ASSUME pc[x] = "relcont" PROVE cur[x] \in Tasks
  <2>1. local[x] \in Seq(Tasks) /\ local[x] # <<>> /\ cur[x] = Head(local[x])
    BY <1>4 DEF FrameOK, Resolved, Types, FrameTypes
  <2> QED
    BY <2>1
<1> QED
  BY <1>1, <1>2, <1>3, <1>4

LEMMA TypesActor ==
    ASSUME Types, NEW th \in Threads, NEW x \in Actors, FrameOK(x), Runs(th, x), ActorStep(th, x)
    PROVE  Types'
<1>0. op[x] >= 1 /\ op[x] \in Nat
  BY DEF FrameOK, Types, FrameTypes
<1> USE DEF GoTo
<1>1. CASE Submit(x)
  <2>1. Arg(x) \in Tasks
    BY <1>0, <1>1, AtCallFacts DEF Submit
  <2>2. SharedTypes'
    BY <1>1, <2>1 DEF Submit, MakeTask, Begin, Types, SharedTypes
  <2>3. FrameTypes'
    BY <1>1, <2>1 DEF Submit, MakeTask, Begin, PCs, Types, FrameTypes
  <2> QED
    BY <2>2, <2>3 DEF Types
<1>2. CASE SubmitAfter(x)
  <2>1. Arg(x) \in Tasks
    BY <1>0, <1>2, AtCallFacts DEF SubmitAfter
  <2>2. InitialDeps(Arg(x)) \in Int
    <3>1. After[Arg(x)] \in Seq(Tasks)
      BY <2>1, TaskAssumption
    <3> QED
      BY <3>1, ListDomain DEF InitialDeps
  <2>3. SharedTypes'
    BY <1>2, <2>1, <2>2 DEF SubmitAfter, MakeTask, Begin, Types, SharedTypes
  <2>4. FrameTypes'
    BY <1>2, <2>1, <2>2 DEF SubmitAfter, MakeTask, Begin, PCs, Types, FrameTypes
  <2> QED
    BY <2>3, <2>4 DEF Types
<1>3. CASE AddRef(x)
  <2>1. refs' = [refs EXCEPT ![cur[x]] = @ + 1] /\ UNCHANGED <<shared, deps, freed, queued>>
    BY <1>3 DEF AddRef, TakeRef
  <2>2. refs' \in [Tasks -> Int]
    BY <2>1, IntUpdate DEF Types, SharedTypes
  <2>3. SharedTypes'
    BY <2>1, <2>2 DEF shared, Types, SharedTypes
  <2>4. FrameTypes'
    BY <1>3 DEF AddRef, PCs, Types, FrameTypes
  <2> QED
    BY <2>3, <2>4 DEF Types
<1>4. CASE Link(x)
  <2>1. cur[x] \in Tasks
    BY <1>4, CurTask DEF Link, Submitting
  <2>2. SharedTypes'
    <3>1. conts' \in [Tasks -> Seq(Tasks)]
      BY <1>4, <2>1, CurTask DEF Link, Types, SharedTypes
    <3>2. UNCHANGED <<refs, deps, sealed, completed, locked, freed, handle, queued>>
      BY <1>4 DEF Link
    <3> QED
      BY <3>1, <3>2 DEF Types, SharedTypes
  <2>3. FrameTypes'
    BY <1>4, <2>1 DEF Link, PCs, Types, FrameTypes
  <2> QED
    BY <2>2, <2>3 DEF Types
<1>5. CASE LinkSealed(x)
  <2>1. Parent(x) \in Tasks
    BY <1>5, CurTask DEF LinkSealed
  <2>2. SharedTypes'
    <3>1. /\ deps' = [deps EXCEPT ![cur'[x]] = @ - 1] /\ locked' = locked \cup {Parent(x)}
          /\ UNCHANGED <<refs, sealed, completed, conts, freed, handle, queued>>
      BY <1>5 DEF LinkSealed, Resolve
    <3>2. deps' \in [Tasks -> Int]
      BY <3>1, IntUpdate DEF Types, SharedTypes
    <3> QED
      BY <2>1, <3>1, <3>2 DEF Types, SharedTypes
  <2>3. FrameTypes'
    BY <1>5, <2>1 DEF LinkSealed, Resolve, PCs, Types, FrameTypes
  <2> QED
    BY <2>2, <2>3 DEF Types
<1>6. CASE Unlink(x)
  <2>1. cur[x] \in Tasks
    BY <1>6, CurTask DEF Unlink, Submitting
  <2>2. SharedTypes'
    BY <1>6, <2>1 DEF Unlink, ReleaseRef, Types, SharedTypes
  <2>3. FrameTypes'
    BY <1>6, <2>1 DEF Unlink, ReleaseRef, PCs, Types, FrameTypes
  <2> QED
    BY <2>2, <2>3 DEF Types
<1>7. CASE Sentinel(x)
  <2>1. SharedTypes'
    <3>1. /\ deps' = [deps EXCEPT ![cur'[x]] = @ - 1]
          /\ UNCHANGED <<shared, refs, freed, queued>>
      BY <1>7 DEF Sentinel, Resolve
    <3>2. deps' \in [Tasks -> Int]
      BY <3>1, IntUpdate DEF Types, SharedTypes
    <3> QED
      BY <3>1, <3>2 DEF shared, Types, SharedTypes
  <2>2. FrameTypes'
    BY <1>7 DEF Sentinel, Resolve, PCs, shared, Types, FrameTypes
  <2> QED
    BY <2>1, <2>2 DEF Types
<1>8. CASE Enqueue(x)
  <2>1. SharedTypes'
    <3>1. cur[x] \in Tasks
      BY <1>8, CurTask DEF Enqueue
    <3>2. queued' \in [Tasks -> Nat]
      BY <1>8, <3>1 DEF Enqueue, Types, SharedTypes
    <3>3. UNCHANGED <<shared, refs, deps, freed>>
      BY <1>8 DEF Enqueue
    <3> QED
      BY <3>2, <3>3 DEF shared, Types, SharedTypes
  <2>2. FrameTypes'
    BY <1>8 DEF Enqueue, PCs, shared, Types, FrameTypes
  <2> QED
    BY <2>1, <2>2 DEF Types
<1>9. CASE EnqueueInline(th, x)
  <2>1. cur[x] \in Actors
    BY <1>9, CurTask DEF EnqueueInline, Actors
  <2>2. SharedTypes'
    BY <1>9, <2>1 DEF EnqueueInline, shared, Types, SharedTypes
  <2>3. FrameTypes'
    <3>1. stack' \in [Threads -> Seq(Actors)]
      BY <1>9, <2>1 DEF EnqueueInline, Types, FrameTypes
    <3>2. pc' \in [Actors -> PCs]
      BY <1>9 DEF EnqueueInline, PCs, Types, FrameTypes
    <3>3. UNCHANGED <<op, cur, par, local, ret>>
      BY <1>9 DEF EnqueueInline
    <3> QED
      BY <3>1, <3>2, <3>3 DEF Types, FrameTypes
  <2> QED
    BY <2>2, <2>3 DEF Types
<1>10. CASE WaitNull(x)
  <2>1. SharedTypes'
    BY <1>10 DEF WaitNull, shared, Types, SharedTypes
  <2>2. FrameTypes'
    BY <1>10 DEF WaitNull, PCs, shared, Types, FrameTypes
  <2> QED
    BY <2>1, <2>2 DEF Types
<1>11. CASE WaitDone(x)
  <2>1. Arg(x) \in Tasks
    BY <1>0, <1>11, AtCallFacts DEF WaitDone
  <2>2. SharedTypes'
    BY <1>11, <2>1 DEF WaitDone, Begin, shared, Types, SharedTypes
  <2>3. FrameTypes'
    BY <1>11, <2>1 DEF WaitDone, Begin, PCs, shared, Types, FrameTypes
  <2> QED
    BY <2>2, <2>3 DEF Types
<1>12. CASE WaitBusy(x)
  <2>1. SharedTypes'
    BY <1>12 DEF WaitBusy, shared, Types, SharedTypes
  <2>2. FrameTypes'
    BY <1>12 DEF WaitBusy, PCs, shared, Types, FrameTypes
  <2> QED
    BY <2>1, <2>2 DEF Types
<1>13. CASE HelpMiss(x)
  <2>1. SharedTypes'
    BY <1>13 DEF HelpMiss, shared, Types, SharedTypes
  <2>2. FrameTypes'
    BY <1>13 DEF HelpMiss, PCs, shared, Types, FrameTypes
  <2> QED
    BY <2>1, <2>2 DEF Types
<1>14. CASE \E t \in Tasks : HelpTake(th, x, t)
  <2>1. PICK t \in Tasks : HelpTake(th, x, t)
    BY <1>14
  <2>2. SharedTypes'
    BY <2>1 DEF HelpTake, shared, Actors, Types, SharedTypes
  <2>3. FrameTypes'
    <3>1. stack' \in [Threads -> Seq(Actors)]
      BY <2>1 DEF HelpTake, Actors, Types, FrameTypes
    <3>2. pc' \in [Actors -> PCs]
      BY <2>1 DEF HelpTake, PCs, Types, FrameTypes
    <3>3. UNCHANGED <<op, cur, par, local, ret>>
      BY <2>1 DEF HelpTake
    <3> QED
      BY <3>1, <3>2, <3>3 DEF Types, FrameTypes
  <2> QED
    BY <2>2, <2>3 DEF Types
<1>15. CASE Reset(x)
  <2>1. cur[x] \in Tasks
    BY <1>15, CurTask DEF Reset
  <2>2. SharedTypes'
    BY <1>15, <2>1 DEF Reset, ReleaseRef, Types, SharedTypes
  <2>3. FrameTypes'
    BY <1>15, <2>1 DEF Reset, ReleaseRef, PCs, Types, FrameTypes
  <2> QED
    BY <2>2, <2>3 DEF Types
<1>16. CASE Drop(x)
  <2>1. SharedTypes'
    BY <1>16 DEF Drop, ReleaseRef, Types, SharedTypes
  <2>2. FrameTypes'
    BY <1>16 DEF Drop, ReleaseRef, PCs, Types, FrameTypes
  <2> QED
    BY <2>1, <2>2 DEF Types
<1>17. CASE Seal(x)
  <2>1. SharedTypes'
    BY <1>17 DEF Seal, Types, SharedTypes
  <2>2. FrameTypes'
    <3>1. conts[x] \in Seq(Tasks)
      BY <1>17 DEF Seal, Types, SharedTypes
    <3> QED
      BY <1>17, <3>1 DEF Seal, PCs, Types, FrameTypes
  <2> QED
    BY <2>1, <2>2 DEF Types
<1>18. CASE ResolveCont(x)
  <2>1. Head(local[x]) \in Tasks
    BY <1>18 DEF ResolveCont, Types, FrameTypes
  <2>2. SharedTypes'
    <3>1. /\ deps' = [deps EXCEPT ![cur'[x]] = @ - 1]
          /\ UNCHANGED <<shared, refs, freed, queued>>
      BY <1>18 DEF ResolveCont, Resolve
    <3>2. deps' \in [Tasks -> Int]
      BY <3>1, IntUpdate DEF Types, SharedTypes
    <3> QED
      BY <3>1, <3>2 DEF shared, Types, SharedTypes
  <2>3. FrameTypes'
    BY <1>18, <2>1 DEF ResolveCont, Resolve, PCs, shared, Types, FrameTypes
  <2> QED
    BY <2>2, <2>3 DEF Types
<1>19. CASE ReleaseCont(x)
  <2>1. cur[x] \in Tasks /\ Tail(local[x]) \in Seq(Tasks)
    BY <1>19, CurTask DEF ReleaseCont, FrameOK, Resolved, Types, FrameTypes
  <2>2. SharedTypes'
    <3>1. /\ refs' = [refs EXCEPT ![cur[x]] = @ - 1] /\ UNCHANGED <<shared, deps, queued>>
          /\ freed' \in {freed, freed \cup {cur[x]}}
      BY <1>19 DEF ReleaseCont, ReleaseRef
    <3>2. refs' \in [Tasks -> Int]
      BY <3>1, IntUpdate DEF Types, SharedTypes
    <3> QED
      BY <2>1, <3>1, <3>2 DEF shared, Types, SharedTypes
  <2>3. FrameTypes'
    BY <1>19, <2>1 DEF ReleaseCont, ReleaseRef, PCs, shared, Types, FrameTypes
  <2> QED
    BY <2>2, <2>3 DEF Types
<1>20. CASE Complete(x)
  <2>1. SharedTypes'
    BY <1>20, CurTask DEF Complete, Types, SharedTypes
  <2>2. FrameTypes'
    BY <1>20, CurTask DEF Complete, PCs, Types, FrameTypes
  <2> QED
    BY <2>1, <2>2 DEF Types
<1>21. CASE ReleaseSelf(x)
  <2>1. SharedTypes'
    BY <1>21, CurTask DEF ReleaseSelf, ReleaseRef, shared, Types, SharedTypes
  <2>2. FrameTypes'
    BY <1>21, CurTask DEF ReleaseSelf, ReleaseRef, PCs, shared, Types, FrameTypes
  <2> QED
    BY <2>1, <2>2 DEF Types
<1>22. CASE Return(th, x) \/ ClientEnds(th, x)
  <2>1. stack[th] \in Seq(Actors) /\ Len(stack[th]) \in Nat /\ Len(stack[th]) >= 1
    BY EmptySeq DEF Runs, Types, FrameTypes
  <2>2. SubSeq(stack[th], 1, Len(stack[th]) - 1) \in Seq(Actors)
    BY <2>1
  <2>3. SharedTypes'
    BY <1>22, <2>2 DEF Return, ClientEnds, Pop, shared, Types, SharedTypes
  <2>4. FrameTypes'
    BY <1>22, <2>2 DEF Return, ClientEnds, Pop, PCs, shared, Types, FrameTypes
  <2> QED
    BY <2>3, <2>4 DEF Types
<1> QED
  BY <1>1, <1>2, <1>3, <1>4, <1>5, <1>6, <1>7, <1>8, <1>9, <1>10, <1>11, <1>12, <1>13, <1>14,
     <1>15, <1>16, <1>17, <1>18, <1>19, <1>20, <1>21, <1>22 DEF ActorStep

LEMMA TypesWorker ==
    ASSUME Types, NEW th \in Workers, NEW t \in Tasks, WorkerTake(th, t)
    PROVE  Types'
<1>1. SharedTypes'
  BY DEF WorkerTake, shared, Types, SharedTypes
<1>2. FrameTypes'
  BY DEF WorkerTake, GoTo, Actors, Threads, PCs, Types, FrameTypes
<1> QED
  BY <1>1, <1>2 DEF Types

-----------------------------------------------------------------------------
(* Steps between neutral steps *)

\* Only activations in S move, from a neutral step to another, and the lists
\* and what has been submitted stay.
Quiet(S) ==
    /\ S \subseteq Actors
    /\ \A y \in Actors \ S : Same(y)
    /\ \A y \in S : pc[y] \in Neutral /\ pc'[y] \in Neutral
    /\ Lists' = Lists
    /\ \A t \in Tasks : Submitted(t)' <=> Submitted(t)

\* What the frames of the others depend on stays.
OthersStay(S) ==
    /\ sealed \subseteq sealed' /\ completed \subseteq completed'
    /\ \A y \in Actors \ S : /\ y \in sealed' <=> y \in sealed
                             /\ pc[y] = "reset" => cur[y] \in handle'

LEMMA QuietViews ==
    ASSUME NEW S, Quiet(S), NEW t \in Tasks
    PROVE  KeptPlaces(t) /\ KeptActors(t) /\ KeptSubmitters(t) /\ (Submitted(t)' <=> Submitted(t))
<1>1. /\ \A y \in Actors \ S : Same(y)
      /\ \A y \in S : pc[y] \in Neutral /\ pc'[y] \in Neutral
  BY DEF Quiet
<1>2. /\ KeptActors(t) /\ KeptSubmitters(t)
      /\ \A p \in Actors : Resolved(p)' <=> Resolved(p)
  BY <1>1, NeutralKept
<1>3. \A p \in Tasks : Resolved(p)' <=> Resolved(p)
  BY <1>2 DEF Actors
<1>4. Lists' = Lists /\ (Submitted(t)' <=> Submitted(t))
  BY DEF Quiet
<1>5. KeptPlaces(t)
  BY <1>3, <1>4, PlacesKept
<1> QED
  BY <1>2, <1>4, <1>5

LEMMA FramesKept ==
    ASSUME FrameInv, NEW S, S \subseteq Actors, \A y \in Actors \ S : Same(y),
           OthersStay(S), \A y \in S : FrameOK(y)'
    PROVE  \A y \in Actors : FrameOK(y)'
<1> SUFFICES ASSUME NEW y \in Actors PROVE FrameOK(y)'
  OBVIOUS
<1>1. CASE y \in S
  BY <1>1
<1>2. CASE y \notin S
  BY <1>2, FrameKept DEF FrameInv, OthersStay
<1> QED
  BY <1>1, <1>2

LEMMA QuietInv ==
    ASSUME Inv, Types', NEW S, Quiet(S), OthersStay(S), KeptLists,
           \A y \in S : FrameOK(y)', \A t \in Tasks : ListOK(t)',
           \A t \in Tasks : Untouched(t) \/ TaskOK(t)'
    PROVE  Inv'
<1>1. \A y \in Actors : FrameOK(y)'
  BY FramesKept DEF Inv, Quiet
<1>2. ASSUME NEW t \in Tasks PROVE TaskOK(t)'
  <2>1. CASE Untouched(t)
    <3>1. Kept(t)
      BY <2>1, QuietViews DEF Kept
    <3> QED
      BY <3>1, TaskKept DEF Inv
  <2> QED
    BY <2>1
<1>3. ASSUME NEW t \in Tasks PROVE ParentsSeen(t)'
  <2>1. KeptSubmitters(t) /\ (Submitted(t)' <=> Submitted(t))
    BY QuietViews
  <2> QED
    BY <2>1, ParentsKept DEF Inv
<1> QED
  BY <1>1, <1>2, <1>3 DEF Inv, FrameInv

\* A frame at a step that holds nothing.
LEMMA RestFrame ==
    ASSUME NEW x \in Actors, FrameOK(x), ~Sealing(x), x \in sealed' <=> x \in sealed,
           pc'[x] \in {"body", "help"}, op'[x] >= 1
    PROVE  FrameOK(x)'
<1>1. ~Submitting(x)' /\ ~Resolved(x)' /\ ~Sealing(x)'
  BY DEF Submitting, Resolved, Sealing
<1> QED
  BY <1>1 DEF FrameOK

\* The lists stay when conts_ and local do.
LEMMA ListsKept ==
    ASSUME FrameInv, UNCHANGED <<sealed, conts, local>>, completed' \subseteq completed
    PROVE  Lists' = Lists /\ KeptLists /\ \A t \in Tasks : ListOK(t)'
<1>1. Lists' = Lists
  BY DEF Lists, Pending
<1>2. KeptLists
  BY DEF KeptLists
<1>3. \A t \in Tasks : ListOK(t)'
  BY DEF FrameInv, ListOK
<1> QED
  BY <1>1, <1>2, <1>3

\* Nothing but the frame of x moves.
OnlyFrame(x) ==
    /\ UNCHANGED <<refs, deps, queued, sealed, completed, conts, freed, handle, local>>
    /\ \A y \in Actors \ {x} : Same(y)
    /\ pc[x] \in Neutral /\ pc'[x] \in Neutral
    /\ pc[x] # "idle" /\ pc'[x] # "idle"
    /\ x \in Tasks => (pc'[x] \in {"return", "done"} <=> pc[x] \in {"return", "done"})
    /\ \/ op'[x] = op[x]
       \/ op'[x] = op[x] + 1 /\ \A t \in Tasks :
            op[x] \in DOMAIN Prog[x] => ~Submits(Prog[x][op[x]], t)

LEMMA OnlyFrameInv ==
    ASSUME Inv, Types', NEW x \in Actors, OnlyFrame(x), FrameOK(x)'
    PROVE  Inv'
<1>1. FrameInv /\ FrameOK(x) /\ Types
  BY DEF Inv, FrameInv
<1>2. Lists' = Lists /\ KeptLists /\ \A t \in Tasks : ListOK(t)'
  BY <1>1, ListsKept DEF OnlyFrame
<1>3. ASSUME NEW t \in Tasks PROVE Submitted(t)' <=> Submitted(t)
  <2>1. /\ \A y \in Actors \ {x} : op'[y] = op[y]
        /\ \/ op'[x] = op[x]
           \/ op'[x] = op[x] + 1 /\ (op[x] \in DOMAIN Prog[x] => ~Submits(Prog[x][op[x]], t))
    BY DEF OnlyFrame, Same
  <2> QED
    BY <1>1, <2>1, SubmittedKept
<1>4. Quiet({x})
  BY <1>2, <1>3 DEF Quiet, OnlyFrame
<1>5. OthersStay({x})
  BY <1>1 DEF OthersStay, OnlyFrame, FrameInv, FrameOK
<1>6. ASSUME NEW t \in Tasks PROVE Untouched(t)
  <2>1. CASE t = x
    BY <2>1 DEF OnlyFrame, Untouched
  <2>2. CASE t # x
    <3>1. pc'[t] = pc[t]
      BY <2>2 DEF OnlyFrame, Same, Actors
    <3> QED
      BY <3>1 DEF OnlyFrame, Untouched
  <2> QED
    BY <2>1, <2>2
<1>7. \A y \in {x} : FrameOK(y)'
  OBVIOUS
<1> QED
  BY <1>2, <1>4, <1>5, <1>6, <1>7, QuietInv

\* The calls of wait and drop submit nothing.
LEMMA NoSubmit ==
    ASSUME Types, NEW x \in Actors, FrameOK(x), NEW f \in {"wait", "drop"}, AtCall(x, f)
    PROVE  \A t \in Tasks : op[x] \in DOMAIN Prog[x] => ~Submits(Prog[x][op[x]], t)
  BY DEF AtCall, Submits

LEMMA WaitNullInv ==
    ASSUME Inv, Types', NEW x \in Actors, WaitNull(x)
    PROVE  Inv'
<1>1. Types /\ FrameOK(x) /\ op[x] \in Nat /\ op[x] >= 1
  BY DEF Inv, FrameInv, FrameOK, Types, FrameTypes
<1>2. /\ op'[x] = op[x] + 1 /\ pc[x] = "body" /\ pc' = pc
      /\ \A y \in Actors \ {x} : Same(y)
      /\ UNCHANGED <<refs, deps, queued, sealed, completed, conts, freed, handle, local>>
  BY <1>1 DEF WaitNull, AtCall, shared, Same, Types, FrameTypes
<1>3. \A t \in Tasks : op[x] \in DOMAIN Prog[x] => ~Submits(Prog[x][op[x]], t)
  BY <1>1, NoSubmit DEF WaitNull
<1>4. OnlyFrame(x)
  BY <1>2, <1>3 DEF OnlyFrame, Neutral
<1>5. FrameOK(x)'
  BY <1>1, <1>2, RestFrame DEF Sealing, Resolved
<1> QED
  BY <1>4, <1>5, OnlyFrameInv

LEMMA WaitDoneInv ==
    ASSUME Inv, Types', NEW x \in Actors, WaitDone(x)
    PROVE  Inv'
<1>1. Types /\ FrameOK(x) /\ op[x] \in Nat /\ op[x] >= 1
  BY DEF Inv, FrameInv, FrameOK, Types, FrameTypes
<1>2. /\ op'[x] = op[x] + 1 /\ pc[x] = "body" /\ pc'[x] = "reset" /\ cur'[x] = Arg(x)
      /\ \A y \in Actors \ {x} : Same(y)
      /\ UNCHANGED <<refs, deps, queued, sealed, completed, conts, freed, handle, local>>
  BY <1>1 DEF WaitDone, Begin, GoTo, AtCall, shared, Same, Types, FrameTypes
<1>3. \A t \in Tasks : op[x] \in DOMAIN Prog[x] => ~Submits(Prog[x][op[x]], t)
  BY <1>1, NoSubmit DEF WaitDone
<1>4. OnlyFrame(x)
  BY <1>2, <1>3 DEF OnlyFrame, Neutral
<1>5. FrameOK(x)'
  <2>1. /\ op[x] \in DOMAIN Prog[x] /\ Prog[x][op[x]].op = "wait"
        /\ Prog[x][op[x]].task = Arg(x)
    BY <1>1, AtCallFacts DEF WaitDone
  <2>2. op'[x] - 1 = op[x] /\ op'[x] >= 1
    BY <1>1, <1>2
  <2>3. InCall(x, "wait")'
    BY <1>2, <2>1, <2>2 DEF InCall
  <2>4. ~Submitting(x)' /\ ~Resolved(x)' /\ ~Sealing(x)' /\ ~Sealing(x)
    BY <1>2 DEF Submitting, Resolved, Sealing
  <2>5. cur'[x] \in handle' /\ cur'[x] \in completed'
    BY <1>2 DEF WaitDone
  <2> QED
    BY <1>1, <1>2, <2>2, <2>3, <2>4, <2>5 DEF FrameOK
<1> QED
  BY <1>4, <1>5, OnlyFrameInv

LEMMA WaitBusyInv ==
    ASSUME Inv, Types', NEW x \in Actors, WaitBusy(x) \/ HelpMiss(x)
    PROVE  Inv'
<1>1. Types /\ FrameOK(x) /\ op[x] >= 1
  BY DEF Inv, FrameInv, FrameOK
<1>2. /\ pc[x] \in {"body", "help"} /\ pc'[x] \in {"body", "help"} /\ op' = op
      /\ \A y \in Actors \ {x} : Same(y)
      /\ UNCHANGED <<refs, deps, queued, sealed, completed, conts, freed, handle, local>>
  BY <1>1 DEF WaitBusy, HelpMiss, GoTo, AtCall, shared, Same, Types, FrameTypes
<1>3. OnlyFrame(x)
  BY <1>2 DEF OnlyFrame, Neutral
<1>4. FrameOK(x)'
  BY <1>1, <1>2, RestFrame DEF Sealing, Resolved
<1> QED
  BY <1>3, <1>4, OnlyFrameInv

LEMMA ReturnInv ==
    ASSUME Inv, Types', NEW th \in Threads, NEW x \in Actors,
           Return(th, x) \/ ClientEnds(th, x)
    PROVE  Inv'
<1>1. Types /\ FrameOK(x) /\ op[x] >= 1
  BY DEF Inv, FrameInv, FrameOK
<1>2. /\ pc[x] \in {"body", "return"} /\ pc'[x] = "done" /\ op' = op
      /\ \A y \in Actors \ {x} : Same(y)
      /\ UNCHANGED <<refs, deps, queued, sealed, completed, conts, freed, handle, local>>
  BY <1>1 DEF Return, ClientEnds, BodyEnds, GoTo, shared, Same, Types, FrameTypes
<1>3. x \in Tasks => pc[x] = "return"
  BY TaskAssumption DEF Return, ClientEnds
<1>4. OnlyFrame(x)
  BY <1>2, <1>3 DEF OnlyFrame, Neutral
<1>5. FrameOK(x)'
  <2>1. ~Submitting(x)' /\ ~Resolved(x)' /\ Sealing(x)' /\ (x \in Tasks => Sealing(x))
    BY <1>2, <1>3 DEF Submitting, Resolved, Sealing
  <2> QED
    BY <1>1, <1>2, <2>1 DEF FrameOK
<1> QED
  BY <1>4, <1>5, OnlyFrameInv

\* completed_ is published.
LEMMA CompleteInv ==
    ASSUME Inv, Types', NEW x \in Actors, Complete(x)
    PROVE  Inv'
<1>1. Types /\ FrameInv /\ FrameOK(x) /\ op[x] >= 1
  BY DEF Inv, FrameInv, FrameOK
<1>2. /\ pc[x] = "conts" /\ pc'[x] = "release" /\ op' = op /\ completed' = completed \cup {x}
      /\ \A y \in Actors \ {x} : Same(y)
      /\ UNCHANGED <<refs, deps, queued, sealed, conts, freed, handle, local>>
  BY <1>1 DEF Complete, GoTo, Same, Types, FrameTypes
<1>3. x \in Tasks /\ x \in sealed
  BY <1>1, <1>2, CurTask DEF FrameOK, Sealing
<1>4. Lists' = Lists /\ KeptLists
  BY <1>2 DEF Lists, Pending, KeptLists
<1>5. \A t \in Tasks : ListOK(t)'
  BY <1>1, <1>2, <1>3 DEF FrameInv, ListOK
<1>6. \A t \in Tasks : Submitted(t)' <=> Submitted(t)
  BY <1>2 DEF Submitted
<1>7. Quiet({x})
  BY <1>2, <1>4, <1>6 DEF Quiet, Neutral
<1>8. OthersStay({x})
  BY <1>1, <1>2 DEF OthersStay, FrameInv, FrameOK
<1>9. FrameOK(x)'
  <2>1. ~Submitting(x)' /\ ~Resolved(x)' /\ Sealing(x)' /\ Sealing(x)
    BY <1>2 DEF Submitting, Resolved, Sealing
  <2> QED
    BY <1>1, <1>2, <1>3, <2>1, TaskAssumption DEF FrameOK
<1>10. ASSUME NEW t \in Tasks PROVE Untouched(t)
  <2>1. t # x => pc'[t] = pc[t]
    BY <1>2 DEF Same, Actors
  <2> QED
    BY <1>2, <2>1 DEF Untouched
<1>11. \A y \in {x} : FrameOK(y)'
  BY <1>9
<1> QED
  BY <1>4, <1>5, <1>7, <1>8, <1>10, <1>11, QuietInv

\* execute() takes over the list and closes it.
LEMMA SealInv ==
    ASSUME Inv, Types', NEW x \in Actors, Seal(x)
    PROVE  Inv'
<1>1. Types /\ FrameInv /\ FrameOK(x) /\ op[x] >= 1
  BY DEF Inv, FrameInv, FrameOK
<1>2. /\ pc[x] = "body" /\ pc'[x] = "conts" /\ op' = op /\ x \in Tasks
      /\ sealed' = sealed \cup {x}
      /\ conts'[x] = <<>> /\ \A p \in Tasks \ {x} : conts'[p] = conts[p] /\ local'[p] = local[p]
      /\ local'[x] = conts[x]
      /\ \A y \in Actors \ {x} : Same(y)
      /\ UNCHANGED <<refs, deps, queued, completed, freed, handle>>
  BY <1>1 DEF Seal, BodyEnds, GoTo, Same, Actors, Types, SharedTypes, FrameTypes
<1>3. ~Sealing(x) /\ x \notin sealed
  BY <1>1, <1>2 DEF FrameOK, Sealing, Resolved
<1>4. local[x] = <<>> /\ conts[x] \in Seq(Tasks)
  BY <1>1, <1>2, <1>3 DEF FrameInv, ListOK, Types, SharedTypes
<1>5. \A p \in Tasks : conts'[p] \o local'[p] = conts[p] \o local[p]
  <2>1. conts[x] \o <<>> = conts[x] /\ <<>> \o conts[x] = conts[x]
    BY <1>4, ConcatEmptySeq
  <2> QED
    BY <1>2, <1>4, <2>1
<1>6. Lists' = Lists
  BY <1>5 DEF Lists, Pending
<1>7. KeptLists
  BY <1>2 DEF KeptLists
<1>8. \A t \in Tasks : ListOK(t)'
  BY <1>1, <1>2 DEF FrameInv, ListOK
<1>9. \A t \in Tasks : Submitted(t)' <=> Submitted(t)
  BY <1>2 DEF Submitted
<1>10. Quiet({x})
  BY <1>2, <1>6, <1>9 DEF Quiet, Neutral
<1>11. OthersStay({x})
  BY <1>1, <1>2 DEF OthersStay, FrameInv, FrameOK
<1>12. \A y \in {x} : FrameOK(y)'
  <2>1. ~Submitting(x)' /\ ~Resolved(x)' /\ Sealing(x)'
    BY <1>2 DEF Submitting, Resolved, Sealing
  <2> QED
    BY <1>1, <1>2, <2>1, TaskAssumption DEF FrameOK
<1>13. ASSUME NEW t \in Tasks PROVE Untouched(t)
  <2>1. t # x => pc'[t] = pc[t]
    BY <1>2 DEF Same, Actors
  <2> QED
    BY <1>2, <2>1 DEF Untouched
<1> QED
  BY <1>7, <1>8, <1>10, <1>11, <1>12, <1>13, QuietInv

-----------------------------------------------------------------------------
(* References given up and tasks started between neutral steps *)

LEMMA HoldersNat ==
    ASSUME NEW t, IsFiniteSet(Held(t)), IsFiniteSet(Attachers(t))
    PROVE  /\ Holders(t) \in Nat
           /\ Cardinality(Held(t)) \in Nat /\ Cardinality(Attachers(t)) \in Nat
           /\ Holders(t) = 0 => t \notin handle /\ Held(t) = {} /\ Attachers(t) = {}
           /\ Submitted(t) /\ pc[t] \notin {"return", "done"} => Holders(t) >= 1
<1>1. /\ Cardinality(Held(t)) \in Nat /\ Cardinality(Attachers(t)) \in Nat
      /\ Cardinality(Held(t)) = 0 <=> Held(t) = {}
      /\ Cardinality(Attachers(t)) = 0 <=> Attachers(t) = {}
  BY CardNat
<1> DEFINE m == One(t \in handle)
           k == One(Submitted(t) /\ pc[t] \notin {"return", "done"})
<1>2. /\ m \in {0, 1} /\ (m = 0 => t \notin handle)
      /\ k \in {0, 1} /\ (Submitted(t) /\ pc[t] \notin {"return", "done"} => k = 1)
  BY DEF One
<1>3. Holders(t) = m + k + Cardinality(Held(t)) + Cardinality(Attachers(t))
  BY DEF Holders
<1> DEFINE a == Cardinality(Held(t))
           b == Cardinality(Attachers(t))
<1>4. a \in Nat /\ b \in Nat /\ Holders(t) = m + k + a + b
  BY <1>1, <1>3
<1> HIDE DEF m, k, a, b
<1>5. Holders(t) \in Nat /\ (k = 1 => Holders(t) >= 1)
  BY <1>2, <1>4
<1>6. Holders(t) = 0 => m = 0 /\ a = 0 /\ b = 0
  BY <1>2, <1>4
<1>7. Holders(t) = 0 => t \notin handle /\ Held(t) = {} /\ Attachers(t) = {}
  BY <1>1, <1>2, <1>6 DEF a, b
<1> QED
  BY <1>1, <1>2, <1>5, <1>7

\* A holder lets go: fetch_sub, and the last one frees the task.
LEMMA RefsDown ==
    ASSUME Types, NEW t \in Tasks, RefsExact(t), Submitted(t), Submitted(t)', ReleaseRef(t),
           IsFiniteSet(Held(t)'), IsFiniteSet(Attachers(t)'), Holders(t)' = Holders(t) - 1
    PROVE  RefsExact(t)'
<1>1. Holders(t) \in Nat /\ Holders(t)' \in Nat
  <2>1. Holders(t) \in Nat
    BY HoldersNat DEF RefsExact
  <2>2. /\ Cardinality(Held(t)') \in Nat /\ Cardinality(Attachers(t)') \in Nat
    BY CardNat
  <2>3. Holders(t)' \in Nat
    BY <2>2 DEF Holders, One
  <2> QED
    BY <2>1, <2>3
<1>2. refs'[t] = refs[t] - 1 /\ refs[t] = Holders(t)
  BY DEF ReleaseRef, RefsExact, Types, SharedTypes
<1>3. refs'[t] = Holders(t)'
  BY <1>2
<1>4. refs[t] # 0 /\ t \notin freed
  BY <1>1, <1>2 DEF RefsExact
<1>5. t \in freed' <=> refs[t] = 1
  BY <1>4 DEF ReleaseRef, LastRef
<1>6. t \in freed' <=> Submitted(t)' /\ refs'[t] = 0
  BY <1>1, <1>2, <1>5
<1> QED
  BY <1>3, <1>6 DEF RefsExact

LEMMA ReleaseOthers ==
    ASSUME Types, NEW c, ReleaseRef(c), NEW t \in Tasks, t # c
    PROVE  refs'[t] = refs[t] /\ (t \in freed' <=> t \in freed)
  BY DEF ReleaseRef, Types, SharedTypes

LEMMA QuietRelease ==
    ASSUME Inv, NEW S, Quiet(S), NEW c \in Tasks, Submitted(c), ReleaseRef(c),
           UNCHANGED <<deps, queued>>, pc'[c] = "idle" <=> pc[c] = "idle",
           Holders(c)' = Holders(c) - 1
    PROVE  TaskOK(c)'
<1>1. Types /\ Fresh(c) /\ ReadyOnce(c) /\ RefsExact(c) /\ DepsExact(c)
  BY DEF Inv, TaskOK
<1>2. KeptPlaces(c) /\ KeptActors(c) /\ KeptSubmitters(c) /\ Submitted(c)'
  BY QuietViews
<1>3. Fresh(c)'
  BY <1>2 DEF Fresh
<1>4. ReadyOnce(c)'
  BY <1>1, <1>2, ReadyKept DEF KeptActors
<1>5. DepsExact(c)'
  BY <1>1, <1>2, DepsKept DEF KeptPlaces
<1>6. IsFiniteSet(Held(c)') /\ IsFiniteSet(Attachers(c)')
  BY <1>1, <1>2 DEF KeptPlaces, KeptActors, RefsExact
<1>7. RefsExact(c)'
  BY <1>1, <1>2, <1>6, RefsDown
<1> QED
  BY <1>3, <1>4, <1>5, <1>7 DEF TaskOK

\* A handle is used by one activation.
LEMMA OneReleaser ==
    ASSUME Inv, NEW x \in Actors, NEW i \in DOMAIN Prog[x], NEW c \in Tasks,
           Releases(Prog[x][i], c), NEW y \in Actors \ {x}, pc[y] = "reset"
    PROVE  cur[y] \in handle \ {c}
<1>1. InCall(y, "wait") /\ cur[y] \in handle
  BY DEF Inv, FrameInv, FrameOK
<1>2. op[y] - 1 \in DOMAIN Prog[y] /\ Releases(Prog[y][op[y] - 1], cur[y])
  BY <1>1 DEF InCall, Releases
<1>3. cur[y] # c
  BY <1>2, ReleasesOnce
<1> QED
  BY <1>1, <1>3

LEMMA ResetInv ==
    ASSUME Inv, Types', NEW x \in Actors, Reset(x)
    PROVE  Inv'
<1>1. Types /\ FrameInv /\ FrameOK(x) /\ op[x] >= 1
  BY DEF Inv, FrameInv, FrameOK
<1>0. cur[x] \in Tasks
  BY <1>1, CurTask DEF Reset
<1> PICK c \in Tasks : c = cur[x]
  BY <1>0
<1>2. /\ pc[x] = "reset" /\ pc'[x] = "body" /\ op' = op /\ ReleaseRef(c) /\ handle' = handle \ {c}
      /\ \A y \in Actors \ {x} : Same(y)
      /\ UNCHANGED <<deps, queued, sealed, completed, conts, local>>
  BY <1>1 DEF Reset, GoTo, Same, Types, FrameTypes
<1>3. InCall(x, "wait") /\ c \in handle /\ c \in Tasks
  BY <1>1, <1>2 DEF FrameOK
<1>4. Submitted(c)
  BY <1>3 DEF Inv, TaskOK, Fresh
<1>5. Lists' = Lists /\ KeptLists /\ \A t \in Tasks : ListOK(t)'
  BY <1>1, <1>2, ListsKept
<1>6. Quiet({x})
  BY <1>2, <1>5 DEF Quiet, Neutral, Submitted
<1>7. OthersStay({x})
  <2>1. op[x] - 1 \in DOMAIN Prog[x] /\ Releases(Prog[x][op[x] - 1], c)
    BY <1>3 DEF InCall, Releases
  <2>2. \A y \in Actors \ {x} : pc[y] = "reset" => cur[y] \in handle \ {c}
    BY <1>3, <2>1, OneReleaser
  <2> QED
    BY <1>2, <2>2 DEF OthersStay
<1>8. \A y \in {x} : FrameOK(y)'
  BY <1>1, <1>2, RestFrame DEF Sealing, Resolved
<1>9. \A t \in Tasks : /\ pc'[t] = "idle" <=> pc[t] = "idle"
                       /\ pc'[t] \in {"return", "done"} <=> pc[t] \in {"return", "done"}
  BY <1>2 DEF Same, Actors
<1>10. Holders(c)' = Holders(c) - 1
  <2>1. KeptPlaces(c) /\ KeptActors(c) /\ (Submitted(c)' <=> Submitted(c))
    BY <1>3, <1>6, QuietViews
  <2>2. c \in handle /\ c \notin handle'
    BY <1>2, <1>3
  <2>3. Cardinality(Held(c)) \in Nat /\ Cardinality(Attachers(c)) \in Nat
    BY <1>3, HoldersNat DEF Inv, TaskOK, RefsExact
  <2> QED
    BY <1>3, <1>9, <2>1, <2>2, <2>3 DEF Holders, One, KeptPlaces, KeptActors
<1>11. TaskOK(c)'
  BY <1>2, <1>3, <1>4, <1>6, <1>9, <1>10, QuietRelease
<1>12. ASSUME NEW t \in Tasks, t # c PROVE Untouched(t)
  <2>1. refs'[t] = refs[t] /\ (t \in freed' <=> t \in freed)
    BY <1>1, <1>2, <1>12, ReleaseOthers
  <2> QED
    BY <1>2, <1>9, <1>12, <2>1 DEF Untouched
<1>13. \A t \in Tasks : Untouched(t) \/ TaskOK(t)'
  BY <1>11, <1>12
<1> QED
  BY <1>5, <1>6, <1>7, <1>8, <1>13, QuietInv

LEMMA DropInv ==
    ASSUME Inv, Types', NEW x \in Actors, Drop(x)
    PROVE  Inv'
<1>1. Types /\ FrameInv /\ FrameOK(x) /\ op[x] >= 1 /\ op[x] \in Nat
  BY DEF Inv, FrameInv, FrameOK, Types, FrameTypes
<1>0. Arg(x) \in Tasks
  BY <1>1, AtCallFacts DEF Drop
<1> PICK c \in Tasks : c = Arg(x)
  BY <1>0
<1>2. /\ pc[x] = "body" /\ pc' = pc /\ op'[x] = op[x] + 1
      /\ \A y \in Actors \ {x} : Same(y)
      /\ UNCHANGED <<deps, queued, sealed, completed, conts, local>>
  BY <1>1 DEF Drop, AtCall, Same, Types, FrameTypes
<1>3. /\ op[x] \in DOMAIN Prog[x] /\ Prog[x][op[x]].op = "drop"
      /\ Prog[x][op[x]].task = c /\ c \in Tasks
  BY <1>1, AtCallFacts DEF Drop
<1>4. \A t \in Tasks : op[x] \in DOMAIN Prog[x] => ~Submits(Prog[x][op[x]], t)
  BY <1>1, NoSubmit DEF Drop
<1>5. FrameOK(x)'
  BY <1>1, <1>2, RestFrame DEF Sealing, Resolved
<1>6. CASE c \notin handle
  <2>1. UNCHANGED <<refs, freed, handle>>
    BY <1>6 DEF Drop
  <2>2. OnlyFrame(x)
    BY <1>2, <1>4, <2>1 DEF OnlyFrame, Neutral
  <2> QED
    BY <1>5, <2>2, OnlyFrameInv
<1>7. CASE c \in handle
  <2>1. ReleaseRef(c) /\ handle' = handle \ {c}
    BY <1>7 DEF Drop
  <2>2. Submitted(c)
    BY <1>3, <1>7 DEF Inv, TaskOK, Fresh
  <2>3. Lists' = Lists /\ KeptLists /\ \A t \in Tasks : ListOK(t)'
    BY <1>1, <1>2, ListsKept
  <2>4. ASSUME NEW t \in Tasks PROVE Submitted(t)' <=> Submitted(t)
    <3>1. /\ \A y \in Actors \ {x} : op'[y] = op[y]
          /\ op'[x] = op[x] + 1 /\ (op[x] \in DOMAIN Prog[x] => ~Submits(Prog[x][op[x]], t))
      BY <1>2, <1>4 DEF Same
    <3> QED
      BY <1>1, <3>1, SubmittedKept
  <2>5. Quiet({x})
    BY <1>2, <2>3, <2>4 DEF Quiet, Neutral
  <2>6. OthersStay({x})
    <3>1. Releases(Prog[x][op[x]], c)
      BY <1>3 DEF Releases
    <3>2. \A y \in Actors \ {x} : pc[y] = "reset" => cur[y] \in handle \ {c}
      BY <1>3, <3>1, OneReleaser
    <3> QED
      BY <1>2, <2>1, <3>2 DEF OthersStay
  <2>7. Holders(c)' = Holders(c) - 1
    <3>1. KeptPlaces(c) /\ KeptActors(c) /\ (Submitted(c)' <=> Submitted(c))
      BY <1>3, <2>5, QuietViews
    <3>2. c \in handle /\ c \notin handle' /\ pc'[c] = pc[c]
      BY <1>2, <1>7, <2>1
    <3>3. Cardinality(Held(c)) \in Nat /\ Cardinality(Attachers(c)) \in Nat
      BY <1>3, HoldersNat DEF Inv, TaskOK, RefsExact
    <3> QED
      BY <3>1, <3>2, <3>3 DEF Holders, One, KeptPlaces, KeptActors
  <2>8. TaskOK(c)'
    BY <1>2, <1>3, <2>1, <2>2, <2>5, <2>7, QuietRelease
  <2>9. ASSUME NEW t \in Tasks, t # c PROVE Untouched(t)
    <3>1. refs'[t] = refs[t] /\ (t \in freed' <=> t \in freed)
      BY <1>1, <2>1, <2>9, ReleaseOthers
    <3> QED
      BY <1>2, <2>1, <2>9, <3>1 DEF Untouched
  <2>10. (\A t \in Tasks : Untouched(t) \/ TaskOK(t)') /\ \A y \in {x} : FrameOK(y)'
    BY <1>5, <2>8, <2>9
  <2> QED
    BY <2>3, <2>5, <2>6, <2>10, QuietInv
<1> QED
  BY <1>6, <1>7

\* execute() gives up its own reference.
LEMMA ReleaseSelfInv ==
    ASSUME Inv, Types', NEW x \in Actors, ReleaseSelf(x)
    PROVE  Inv'
<1>1. Types /\ FrameInv /\ FrameOK(x) /\ op[x] >= 1
  BY DEF Inv, FrameInv, FrameOK
<1>2. /\ pc[x] = "release" /\ pc'[x] = "return" /\ op' = op /\ ReleaseRef(x)
      /\ \A y \in Actors \ {x} : Same(y)
      /\ UNCHANGED <<deps, queued, sealed, completed, conts, local, handle>>
  BY <1>1 DEF ReleaseSelf, GoTo, Same, shared, Types, FrameTypes
<1>3. x \in Tasks
  BY <1>1, <1>2, CurTask
<1>4. Submitted(x)
  BY <1>2, <1>3 DEF Inv, TaskOK, Fresh
<1>5. Lists' = Lists /\ KeptLists /\ \A t \in Tasks : ListOK(t)'
  BY <1>1, <1>2, ListsKept
<1>6. Quiet({x})
  BY <1>2, <1>5 DEF Quiet, Neutral, Submitted
<1>7. OthersStay({x})
  BY <1>1, <1>2 DEF OthersStay, FrameInv, FrameOK
<1>8. \A y \in {x} : FrameOK(y)'
  <2>1. ~Submitting(x)' /\ ~Resolved(x)' /\ Sealing(x)' /\ Sealing(x)
    BY <1>2 DEF Submitting, Resolved, Sealing
  <2> QED
    BY <1>1, <1>2, <1>3, <2>1, TaskAssumption DEF FrameOK
<1>9. \A t \in Tasks \ {x} : pc'[t] = pc[t]
  BY <1>2 DEF Same, Actors
<1>10. Holders(x)' = Holders(x) - 1
  <2>1. KeptPlaces(x) /\ KeptActors(x) /\ Submitted(x)'
    BY <1>3, <1>4, <1>6, QuietViews
  <2>2. Cardinality(Held(x)) \in Nat /\ Cardinality(Attachers(x)) \in Nat
    BY <1>3, HoldersNat DEF Inv, TaskOK, RefsExact
  <2> QED
    BY <1>2, <1>4, <2>1, <2>2 DEF Holders, One, KeptPlaces, KeptActors
<1>11. TaskOK(x)'
  BY <1>2, <1>3, <1>4, <1>6, <1>10, QuietRelease
<1>12. ASSUME NEW t \in Tasks, t # x PROVE Untouched(t)
  <2>1. refs'[t] = refs[t] /\ (t \in freed' <=> t \in freed)
    BY <1>1, <1>2, <1>12, ReleaseOthers
  <2> QED
    BY <1>2, <1>9, <1>12, <2>1 DEF Untouched
<1>13. \A t \in Tasks : Untouched(t) \/ TaskOK(t)'
  BY <1>11, <1>12
<1> QED
  BY <1>5, <1>6, <1>7, <1>8, <1>13, QuietInv

\* A task in the pool, or on its way there, is ready and has not started.
LEMMA ReadyFacts ==
    ASSUME Inv, NEW t \in Tasks, queued[t] > 0 \/ Enqueuers(t) # {}
    PROVE  /\ Submitted(t) /\ pc[t] = "idle" /\ deps[t] = 0
           /\ IsFiniteSet(Enqueuers(t)) /\ Cardinality(Enqueuers(t)) \in Nat /\ queued[t] \in Nat
           /\ queued[t] + Cardinality(Enqueuers(t)) = 1
<1>1. /\ Fresh(t) /\ ReadyOnce(t) /\ queued[t] \in Nat
  BY DEF Inv, TaskOK, Types, SharedTypes
<1>2. Submitted(t)
  BY <1>1 DEF Fresh
<1>3. IsFiniteSet(Enqueuers(t)) /\ Cardinality(Enqueuers(t)) \in Nat
      /\ (Cardinality(Enqueuers(t)) = 0 <=> Enqueuers(t) = {})
  BY <1>1, CardNat DEF ReadyOnce
<1>4. queued[t] + Cardinality(Enqueuers(t)) = One(deps[t] = 0 /\ pc[t] = "idle")
  BY <1>1, <1>2 DEF ReadyOnce
<1>5. queued[t] + Cardinality(Enqueuers(t)) # 0
  BY <1>1, <1>3
<1>6. deps[t] = 0 /\ pc[t] = "idle" /\ queued[t] + Cardinality(Enqueuers(t)) = 1
  BY <1>4, <1>5 DEF One
<1> QED
  BY <1>1, <1>2, <1>3, <1>6

\* A task is taken from the pool and starts.
Started(S, t) ==
    /\ t \in S
    /\ queued[t] > 0 /\ queued'[t] = queued[t] - 1
    /\ pc'[t] = "body"
    /\ \A u \in Tasks \ {t} : queued'[u] = queued[u]
    /\ \A y \in S : op'[y] = op[y] /\ pc'[y] = "body"
    /\ UNCHANGED <<refs, deps, sealed, completed, conts, freed, handle, local>>

LEMMA StartInv ==
    ASSUME Inv, Types', NEW S, S \subseteq Actors, NEW t \in Tasks, Started(S, t),
           \A y \in Actors \ S : Same(y), \A y \in S \ {t} : pc[y] = "help"
    PROVE  Inv'
<1>1. Types /\ FrameInv
  BY DEF Inv
<1>2. /\ Submitted(t) /\ pc[t] = "idle" /\ deps[t] = 0
      /\ IsFiniteSet(Enqueuers(t)) /\ Cardinality(Enqueuers(t)) \in Nat /\ queued[t] \in Nat
      /\ queued[t] + Cardinality(Enqueuers(t)) = 1
  BY ReadyFacts DEF Started
<1>3. Lists' = Lists /\ KeptLists /\ \A u \in Tasks : ListOK(u)'
  BY <1>1, ListsKept DEF Started
<1>4. \A y \in Actors : op'[y] = op[y]
  BY DEF Started, Same
<1>5. \A y \in S : pc[y] \in Neutral /\ pc'[y] \in Neutral
  BY <1>2 DEF Started, Neutral
<1>6. Quiet(S)
  BY <1>3, <1>4, <1>5 DEF Quiet, Submitted
<1>7. OthersStay(S)
  BY <1>1 DEF OthersStay, Started, FrameInv, FrameOK
<1>8. ASSUME NEW y \in S PROVE FrameOK(y)'
  <2>1. pc[y] \in {"idle", "help"} /\ pc'[y] = "body" /\ y \in Actors
    BY <1>2 DEF Started
  <2>2. FrameOK(y) /\ op'[y] >= 1
    BY <1>1, <1>4, <2>1 DEF FrameInv, FrameOK
  <2> QED
    BY <2>1, <2>2, RestFrame DEF Sealing, Resolved, Started
<1>9. TaskOK(t)'
  <2>1. KeptPlaces(t) /\ KeptActors(t) /\ KeptSubmitters(t) /\ Submitted(t)'
    BY <1>2, <1>6, QuietViews
  <2>2. Fresh(t)'
    BY <2>1 DEF Fresh
  <2>3. ReadyOnce(t)'
    <3>1. deps'[t] = 0 /\ pc'[t] # "idle" /\ Enqueuers(t)' = Enqueuers(t)
      BY <1>2, <2>1 DEF Started, KeptActors
    <3>2. queued'[t] + Cardinality(Enqueuers(t)) = 0
      BY <1>2 DEF Started
    <3> QED
      BY <1>2, <3>1, <3>2 DEF ReadyOnce, One
  <2>4. RefsExact(t)'
    <3>1. /\ refs'[t] = refs[t] /\ (t \in handle' <=> t \in handle) /\ (t \in freed' <=> t \in freed)
          /\ pc'[t] \in {"return", "done"} <=> pc[t] \in {"return", "done"}
      BY <1>2 DEF Started
    <3> QED
      BY <1>2, <2>1, <3>1, RefsKept DEF Inv, TaskOK, KeptPlaces, KeptActors
  <2>5. DepsExact(t)'
    <3>1. deps'[t] = deps[t] /\ Waiting(t)' = Waiting(t)
      BY <2>1 DEF Started, KeptPlaces
    <3> QED
      BY <2>1, <3>1, DepsKept DEF Inv, TaskOK
  <2> QED
    BY <2>2, <2>3, <2>4, <2>5 DEF TaskOK
<1>10. ASSUME NEW u \in Tasks, u # t PROVE Untouched(u)
  <2>1. /\ pc'[u] = "idle" <=> pc[u] = "idle"
        /\ pc'[u] \in {"return", "done"} <=> pc[u] \in {"return", "done"}
    <3>1. CASE u \in S
      BY <1>10, <3>1 DEF Started
    <3>2. CASE u \notin S
      BY <3>2 DEF Same, Actors
    <3> QED
      BY <3>1, <3>2
  <2> QED
    BY <1>10, <2>1 DEF Untouched, Started
<1>11. (\A u \in Tasks : Untouched(u) \/ TaskOK(u)') /\ \A y \in S : FrameOK(y)'
  BY <1>8, <1>9, <1>10
<1> QED
  BY <1>3, <1>6, <1>7, <1>11, QuietInv

LEMMA HelpTakeInv ==
    ASSUME Inv, Types', NEW th \in Threads, NEW x \in Actors, NEW t \in Tasks, HelpTake(th, x, t)
    PROVE  Inv'
<1>1. Types /\ t \in Actors /\ pc[x] = "help" /\ pc[t] = "idle"
  BY ReadyFacts DEF Inv, HelpTake, Actors
<1>2. /\ t # x /\ queued[t] > 0 /\ queued'[t] = queued[t] - 1
      /\ \A u \in Tasks \ {t} : queued'[u] = queued[u]
      /\ pc'[x] = "body" /\ pc'[t] = "body"
      /\ \A y \in Actors \ {x, t} : pc'[y] = pc[y]
      /\ UNCHANGED <<refs, deps, sealed, completed, conts, freed, handle, local, op, cur, par, ret>>
  BY <1>1 DEF HelpTake, shared, Types, SharedTypes, FrameTypes
<1>3. Started({x, t}, t)
  BY <1>1, <1>2 DEF Started
<1>4. \A y \in Actors \ {x, t} : Same(y)
  BY <1>2 DEF Same
<1> QED
  BY <1>1, <1>3, <1>4, StartInv

LEMMA WorkerTakeInv ==
    ASSUME Inv, Types', NEW th \in Workers, NEW t \in Tasks, WorkerTake(th, t)
    PROVE  Inv'
<1>1. Types /\ t \in Actors /\ pc[t] = "idle"
  BY ReadyFacts DEF Inv, WorkerTake, Actors
<1>2. /\ queued[t] > 0 /\ queued'[t] = queued[t] - 1
      /\ \A u \in Tasks \ {t} : queued'[u] = queued[u]
      /\ pc'[t] = "body"
      /\ \A y \in Actors \ {t} : pc'[y] = pc[y]
      /\ UNCHANGED <<refs, deps, sealed, completed, conts, freed, handle, local, op, cur, par, ret>>
  BY <1>1 DEF WorkerTake, GoTo, shared, Types, SharedTypes, FrameTypes
<1>3. Started({t}, t)
  BY <1>1, <1>2 DEF Started
<1>4. \A y \in Actors \ {t} : Same(y)
  BY <1>2 DEF Same
<1> QED
  BY <1>1, <1>3, <1>4, StartInv

-----------------------------------------------------------------------------
(* Steps of submit_after, enqueue_ready and execute *)

\* x counts for t neither before nor after the step.
Apart(x, t) ==
    /\ pc[x] \in Neutral \/ cur[x] # t
    /\ pc'[x] \in Neutral \/ cur'[x] # t

LEMMA ApartKept ==
    ASSUME NEW x \in Actors, Moves(x), NEW t, Apart(x, t)
    PROVE  KeptActors(t) /\ KeptSubmitters(t)
<1>1. /\ ~(Submitting(x) /\ cur[x] = t) /\ ~(Attaching(x) /\ cur[x] = t)
      /\ ~(pc[x] = "enqueue" /\ cur[x] = t)
  BY NeutralViews DEF Apart
<1>2. /\ ~(Submitting(x)' /\ cur'[x] = t) /\ ~(Attaching(x)' /\ cur'[x] = t)
      /\ ~(pc'[x] = "enqueue" /\ cur'[x] = t)
  BY DEF Apart, Neutral, Submitting, Attaching
<1>3. x \notin Enqueuers(t) /\ x \notin Attachers(t)
  BY <1>1, MoverIn
<1>4. KeptActors(t)
  BY <1>2, <1>3, OneMoves DEF KeptActors
<1>5. ASSUME NEW y \in Actors
      PROVE  /\ (Submitting(y) /\ cur[y] = t)' <=> Submitting(y) /\ cur[y] = t
             /\ Submitting(y) /\ cur[y] = t => Rest(y)' = Rest(y) /\ par'[y] = par[y]
  <2>1. CASE y = x
    BY <1>1, <1>2, <2>1
  <2>2. CASE y # x
    BY <2>2, OneMoves
  <2> QED
    BY <2>1, <2>2
<1> QED
  BY <1>4, <1>5 DEF KeptSubmitters

\* When x keeps what it has resolved and the lists stay, so do the places.
LEMMA MovesPlaces ==
    ASSUME NEW x \in Actors, Moves(x), Lists' = Lists, Resolved(x)' <=> Resolved(x)
    PROVE  \A t : KeptPlaces(t)
<1>1. \A p \in Tasks : Resolved(p)' <=> Resolved(p)
  BY OneMoves DEF Actors
<1> QED
  BY <1>1, PlacesKept

\* A step of x that makes no difference to the other tasks.
Beside(x, c) ==
    /\ Moves(x)
    /\ \A t \in Tasks \ {c} : Apart(x, t) /\ Untouched(t) /\ (Submitted(t)' <=> Submitted(t))

LEMMA BesideTasks ==
    ASSUME Inv, NEW x \in Actors, NEW c, Beside(x, c), \A t \in Tasks \ {c} : KeptPlaces(t)
    PROVE  \A t \in Tasks \ {c} : TaskOK(t)'
<1> SUFFICES ASSUME NEW t \in Tasks \ {c} PROVE TaskOK(t)'
  OBVIOUS
<1>1. KeptActors(t) /\ KeptSubmitters(t)
  BY ApartKept DEF Beside
<1>2. Kept(t)
  BY <1>1 DEF Kept, Beside
<1> QED
  BY <1>2, TaskKept DEF Inv

LEMMA BesideParents ==
    ASSUME Inv, NEW x \in Actors, NEW c, Beside(x, c), KeptLists
    PROVE  \A t \in Tasks \ {c} : ParentsSeen(t)'
<1> SUFFICES ASSUME NEW t \in Tasks \ {c} PROVE ParentsSeen(t)'
  OBVIOUS
<1>1. KeptSubmitters(t) /\ (Submitted(t)' <=> Submitted(t))
  BY ApartKept DEF Beside
<1> QED
  BY <1>1, ParentsKept DEF Inv

LEMMA MoverInv ==
    ASSUME Inv, Types', NEW S, S \subseteq Actors, \A y \in Actors \ S : Same(y), OthersStay(S),
           \A y \in S : FrameOK(y)', \A t \in Tasks : ListOK(t)',
           \A t \in Tasks : TaskOK(t)', \A t \in Tasks : ParentsSeen(t)'
    PROVE  Inv'
<1>1. \A y \in Actors : FrameOK(y)'
  BY FramesKept DEF Inv
<1> QED
  BY <1>1 DEF Inv, FrameInv

\* The sets of activations of the task that x handles after the step.
LEMMA MineEnqueuers ==
    ASSUME NEW x \in Actors, Moves(x), NEW c, cur'[x] = c,
           pc[x] \in Neutral \/ cur[x] = c, IsFiniteSet(Enqueuers(c))
    PROVE  /\ IsFiniteSet(Enqueuers(c)')
           /\ Cardinality(Enqueuers(c)') = Cardinality(Enqueuers(c))
                 + One(pc'[x] = "enqueue") - One(pc[x] = "enqueue")
<1>1. x \in Enqueuers(c) <=> pc[x] = "enqueue"
  BY MoverIn, NeutralViews
<1>2. Enqueuers(c)' = IF pc'[x] = "enqueue" THEN Enqueuers(c) \cup {x} ELSE Enqueuers(c) \ {x}
  BY OneMoves
<1>3. Cardinality(Enqueuers(c)) \in Nat
  BY CardNat
<1>4. CASE (pc'[x] = "enqueue") <=> pc[x] = "enqueue"
  <2>1. Enqueuers(c)' = Enqueuers(c)
    BY <1>1, <1>2, <1>4
  <2> QED
    BY <1>3, <1>4, <2>1 DEF One
<1>5. CASE pc'[x] = "enqueue" /\ pc[x] # "enqueue"
  <2>1. /\ IsFiniteSet(Enqueuers(c) \cup {x})
        /\ Cardinality(Enqueuers(c) \cup {x}) = Cardinality(Enqueuers(c)) + 1
    BY <1>1, <1>5, AddOne
  <2> QED
    BY <1>2, <1>3, <1>5, <2>1 DEF One
<1>6. CASE pc'[x] # "enqueue" /\ pc[x] = "enqueue"
  <2>1. /\ IsFiniteSet(Enqueuers(c) \ {x})
        /\ Cardinality(Enqueuers(c) \ {x}) = Cardinality(Enqueuers(c)) - 1
    BY <1>1, <1>6, RemoveOne
  <2> QED
    BY <1>2, <1>3, <1>6, <2>1 DEF One
<1> QED
  BY <1>4, <1>5, <1>6

LEMMA MineAttachers ==
    ASSUME NEW x \in Actors, Moves(x), NEW c, cur'[x] = c,
           pc[x] \in Neutral \/ cur[x] = c, IsFiniteSet(Attachers(c))
    PROVE  /\ IsFiniteSet(Attachers(c)')
           /\ Cardinality(Attachers(c)') = Cardinality(Attachers(c))
                 + One(Attaching(x)') - One(Attaching(x))
<1>1. x \in Attachers(c) <=> Attaching(x)
  BY MoverIn, NeutralViews
<1>2. Attachers(c)' = IF Attaching(x)' THEN Attachers(c) \cup {x} ELSE Attachers(c) \ {x}
  BY OneMoves
<1>3. Cardinality(Attachers(c)) \in Nat
  BY CardNat
<1>4. CASE Attaching(x)' <=> Attaching(x)
  <2>1. Attachers(c)' = Attachers(c)
    BY <1>1, <1>2, <1>4
  <2> QED
    BY <1>3, <1>4, <2>1 DEF One
<1>5. CASE Attaching(x)' /\ ~Attaching(x)
  <2>1. /\ IsFiniteSet(Attachers(c) \cup {x})
        /\ Cardinality(Attachers(c) \cup {x}) = Cardinality(Attachers(c)) + 1
    BY <1>1, <1>5, AddOne
  <2> QED
    BY <1>2, <1>3, <1>5, <2>1 DEF One
<1>6. CASE ~Attaching(x)' /\ Attaching(x)
  <2>1. /\ IsFiniteSet(Attachers(c) \ {x})
        /\ Cardinality(Attachers(c) \ {x}) = Cardinality(Attachers(c)) - 1
    BY <1>1, <1>6, RemoveOne
  <2> QED
    BY <1>2, <1>3, <1>6, <2>1 DEF One
<1> QED
  BY <1>4, <1>5, <1>6

LEMMA EnqueuersKept ==
    ASSUME NEW x \in Actors, Moves(x), pc[x] # "enqueue", pc'[x] # "enqueue", NEW t
    PROVE  Enqueuers(t)' = Enqueuers(t)
<1>1. x \notin Enqueuers(t)
  BY MoverIn
<1>2. Enqueuers(t)' = Enqueuers(t) \ {x}
  BY OneMoves
<1> QED
  BY <1>1, <1>2

LEMMA AttachersKept ==
    ASSUME NEW x \in Actors, Moves(x), ~Attaching(x), ~Attaching(x)', NEW t
    PROVE  Attachers(t)' = Attachers(t)
<1>1. x \notin Attachers(t)
  BY MoverIn
<1>2. Attachers(t)' = Attachers(t) \ {x}
  BY OneMoves
<1> QED
  BY <1>1, <1>2

\* A step of x outside submit_after leaves every submission alone.
LEMMA StillSubmitting ==
    ASSUME NEW x \in Actors, Moves(x), ~Submitting(x), ~Submitting(x)', NEW t
    PROVE  KeptSubmitters(t)
<1> SUFFICES ASSUME NEW y \in Actors
             PROVE  /\ (Submitting(y) /\ cur[y] = t)' <=> Submitting(y) /\ cur[y] = t
                    /\ Submitting(y) /\ cur[y] = t => Rest(y)' = Rest(y) /\ par'[y] = par[y]
  BY DEF KeptSubmitters
<1>1. CASE y = x
  BY <1>1
<1>2. CASE y # x
  BY <1>2, OneMoves
<1> QED
  BY <1>1, <1>2

LEMMA RestInt ==
    ASSUME Types, NEW x \in Actors, FrameOK(x), Submitting(x)
    PROVE  /\ Rest(x) \in Nat /\ Rest(x) >= 1 /\ Len(After[cur[x]]) \in Nat
           /\ par[x] \in Nat /\ par[x] <= Len(After[cur[x]]) + 1
           /\ pc[x] = "link" => Rest(x) >= 2
<1>1. /\ cur[x] \in Tasks /\ par[x] \in 1 .. Len(After[cur[x]]) + 1
      /\ pc[x] \in {"link", "unlink"} => par[x] <= Len(After[cur[x]])
  BY DEF FrameOK
<1>2. Len(After[cur[x]]) \in Nat
  <2>1. After[cur[x]] \in Seq(Tasks)
    BY <1>1, TaskAssumption
  <2> QED
    BY <2>1, ListDomain
<1> DEFINE n == Len(After[cur[x]])
           k == par[x]
<1>3. pc[x] = "unlink" => Rest(x) = n - k + 1
  BY DEF Rest
<1>4. pc[x] # "unlink" => Rest(x) = n - k + 2
  BY DEF Rest
<1>5. n \in Nat /\ k \in 1 .. n + 1 /\ (pc[x] \in {"link", "unlink"} => k <= n)
  BY <1>1, <1>2
<1> HIDE DEF n, k
<1>6. CASE pc[x] = "unlink"
  <2>1. Rest(x) = n - k + 1 /\ k <= n
    BY <1>3, <1>5, <1>6
  <2>2. Rest(x) \in Nat /\ Rest(x) >= 1
    BY <1>5, <2>1
  <2> QED
    BY <1>5, <1>6, <2>2 DEF n, k
<1>7. CASE pc[x] # "unlink"
  <2>1. Rest(x) = n - k + 2 /\ (pc[x] = "link" => k <= n)
    BY <1>4, <1>5, <1>7
  <2>2. Rest(x) \in Nat /\ Rest(x) >= 1 /\ (k <= n => Rest(x) >= 2)
    BY <1>5, <2>1
  <2> QED
    BY <1>5, <2>1, <2>2 DEF n, k
<1> QED
  BY <1>6, <1>7

\* While submit_after visits the parents, the sentinel holds the task back.
LEMMA SubmittingFacts ==
    ASSUME Inv, NEW x \in Actors, Submitting(x), NEW c, cur[x] = c
    PROVE  /\ c \in Tasks /\ c # x /\ Submitted(c) /\ pc[c] = "idle"
           /\ \A y \in Actors \ {x} : ~(Submitting(y) /\ cur[y] = c)
           /\ IsFiniteSet(Waiting(c)) /\ Cardinality(Waiting(c)) \in Nat
           /\ deps[c] = Cardinality(Waiting(c)) + Rest(x)
           /\ deps[c] \in Nat /\ deps[c] >= 1
           /\ queued[c] \in Nat /\ queued[c] = 0 /\ Enqueuers(c) = {}
           /\ refs[c] \in Nat /\ refs[c] >= 1 /\ c \notin freed
<1>1. Types /\ FrameOK(x) /\ \A y \in Actors : FrameOK(y)
  BY DEF Inv, FrameInv
<1>2. /\ c \in Tasks /\ Submitted(c)
      /\ \A y \in Actors \ {x} : ~(Submitting(y) /\ cur[y] = c)
  BY <1>1, OneSubmitter
<1>3. ReadyOnce(c) /\ RefsExact(c) /\ DepsExact(c)
  BY <1>2 DEF Inv, TaskOK
<1>4. IsFiniteSet(Waiting(c)) /\ Cardinality(Waiting(c)) \in Nat
  BY <1>3, WaitingFinite DEF RefsExact
<1>5. deps[c] = Cardinality(Waiting(c)) + Rest(x)
  BY <1>3 DEF DepsExact
<1>6. deps[c] \in Nat /\ deps[c] >= 1
  BY <1>1, <1>4, <1>5, RestInt
<1>7. pc[c] = "idle"
  BY <1>3, <1>6 DEF ReadyOnce
<1>8. queued[c] \in Nat /\ IsFiniteSet(Enqueuers(c)) /\ queued[c] + Cardinality(Enqueuers(c)) = 0
  <2>1. deps[c] # 0
    BY <1>6
  <2> QED
    BY <1>1, <1>2, <1>3, <2>1 DEF ReadyOnce, One, Types, SharedTypes
<1>9. queued[c] = 0 /\ Enqueuers(c) = {}
  BY <1>8, CardNat
<1>10. Holders(c) \in Nat /\ Holders(c) >= 1 /\ refs[c] = Holders(c)
  BY <1>2, <1>3, <1>7, HoldersNat DEF RefsExact
<1>11. c \notin freed
  BY <1>3, <1>10 DEF RefsExact
<1> QED
  BY <1>2, <1>4, <1>5, <1>6, <1>7, <1>8, <1>9, <1>10, <1>11 DEF Submitting

\* deps_ while submit_after goes on, and when it has ended.
LEMMA DepsSubmitting ==
    ASSUME NEW x \in Actors, Moves(x), NEW c,
           \A y \in Actors \ {x} : ~(Submitting(y) /\ cur[y] = c),
           Submitting(x)', cur'[x] = c, deps'[c] = Cardinality(Waiting(c)') + Rest(x)'
    PROVE  DepsExact(c)'
<1>1. \A y \in Actors \ {x} : ~(Submitting(y)' /\ cur'[y] = c)
  BY OneMoves
<1> QED
  BY <1>1 DEF DepsExact

LEMMA DepsSettled ==
    ASSUME NEW x \in Actors, Moves(x), NEW c,
           \A y \in Actors \ {x} : ~(Submitting(y) /\ cur[y] = c),
           ~(Submitting(x)' /\ cur'[x] = c), deps'[c] = Cardinality(Waiting(c)')
    PROVE  DepsExact(c)'
<1>1. \A y \in Actors : ~(Submitting(y)' /\ cur'[y] = c)
  BY OneMoves
<1> QED
  BY <1>1 DEF DepsExact

\* A holder is added to a task that has one.
LEMMA RefsUp ==
    ASSUME NEW t \in Tasks, RefsExact(t), Submitted(t), Submitted(t)', refs[t] >= 1,
           refs[t] \in Nat, refs'[t] = refs[t] + 1, t \notin freed, t \notin freed',
           IsFiniteSet(Held(t)'), IsFiniteSet(Attachers(t)'), Holders(t)' = Holders(t) + 1
    PROVE  RefsExact(t)'
  BY DEF RefsExact

\* attach_cont takes its reference.
LEMMA AddRefInv ==
    ASSUME Inv, Types', NEW x \in Actors, AddRef(x)
    PROVE  Inv'
<1>1. Types /\ FrameInv /\ FrameOK(x) /\ pc[x] = "attach" /\ par[x] <= Len(After[cur[x]])
  BY DEF Inv, FrameInv, AddRef
<1>2. Submitting(x)
  BY <1>1 DEF Submitting
<1>3. cur[x] \in Tasks
  BY <1>2, SubmittingFacts
<1> PICK c \in Tasks : c = cur[x]
  BY <1>3
<1>4. /\ c # x /\ Submitted(c) /\ pc[c] = "idle"
      /\ refs[c] \in Nat /\ refs[c] >= 1 /\ c \notin freed
  BY <1>2, SubmittingFacts
<1>5. /\ pc'[x] = "link" /\ refs'[c] = refs[c] + 1 /\ \A t \in Tasks \ {c} : refs'[t] = refs[t]
      /\ \A y \in Actors \ {x} : Same(y)
      /\ UNCHANGED <<deps, queued, sealed, completed, conts, freed, handle, op, cur, par, local, ret>>
  BY <1>1 DEF AddRef, TakeRef, GoTo, Same, shared, Types, SharedTypes, FrameTypes
<1>6. Moves(x)
  BY <1>5 DEF Moves
<1>7. Lists' = Lists /\ KeptLists /\ \A t \in Tasks : ListOK(t)'
  BY <1>1, <1>5, ListsKept
<1>8. /\ Attaching(x)' /\ ~Attaching(x) /\ Submitting(x)' /\ ~Resolved(x) /\ ~Resolved(x)'
      /\ ~Sealing(x) /\ ~Sealing(x)' /\ Rest(x)' = Rest(x) /\ cur'[x] = c
  BY <1>1, <1>5 DEF Attaching, Submitting, Resolved, Sealing, Rest
<1>9. \A t : KeptPlaces(t)
  BY <1>6, <1>7, <1>8, MovesPlaces
<1>10. \A t : Submitted(t)' <=> Submitted(t)
  BY <1>5 DEF Submitted
<1>11. \A t \in Tasks : /\ pc'[t] = "idle" <=> pc[t] = "idle"
                        /\ pc'[t] \in {"return", "done"} <=> pc[t] \in {"return", "done"}
  BY <1>1, <1>5 DEF Same, Actors
<1>12. Beside(x, c)
  BY <1>5, <1>6, <1>8, <1>10, <1>11 DEF Beside, Apart, Untouched
<1>13. KeptSubmitters(c)
  BY <1>2, <1>5, <1>6, <1>8, OneMoves DEF KeptSubmitters
<1>14. TaskOK(c)'
  <2>1. ReadyOnce(c) /\ RefsExact(c) /\ DepsExact(c)
    BY DEF Inv, TaskOK
  <2>2. Fresh(c)'
    BY <1>4, <1>10 DEF Fresh
  <2>3. ReadyOnce(c)'
    <3>1. Enqueuers(c)' = Enqueuers(c)
      BY <1>1, <1>5, <1>6, EnqueuersKept
    <3> QED
      BY <1>5, <1>10, <1>11, <2>1, <3>1, ReadyKept
  <2>4. DepsExact(c)'
    BY <1>5, <1>9, <1>13, <2>1, DepsKept DEF KeptPlaces
  <2>5. RefsExact(c)'
    <3>1. IsFiniteSet(Held(c)) /\ IsFiniteSet(Attachers(c)) /\ Held(c)' = Held(c)
      BY <1>9, <2>1 DEF RefsExact, KeptPlaces
    <3>2. /\ IsFiniteSet(Attachers(c)')
          /\ Cardinality(Attachers(c)') = Cardinality(Attachers(c)) + One(Attaching(x)') - One(Attaching(x))
      BY <1>6, <1>8, <3>1, MineAttachers
    <3>3. /\ Cardinality(Attachers(c)') = Cardinality(Attachers(c)) + 1
          /\ Cardinality(Held(c)) \in Nat /\ Cardinality(Attachers(c)) \in Nat
      BY <1>8, <3>1, <3>2, CardNat DEF One
    <3>4. Holders(c)' = Holders(c) + 1
      BY <1>5, <1>10, <1>11, <3>1, <3>3 DEF Holders, One
    <3> QED
      BY <1>4, <1>5, <1>10, <2>1, <3>1, <3>2, <3>4, RefsUp
  <2> QED
    BY <2>2, <2>3, <2>4, <2>5 DEF TaskOK
<1>15. ParentsSeen(c)'
  BY <1>7, <1>10, <1>13, ParentsKept DEF Inv
<1>16. FrameOK(x)'
  <2>1. InCall(x, "submit_after")' /\ cur'[x] \in Tasks /\ par'[x] \in 1 .. Len(After[cur'[x]]) + 1
    BY <1>1, <1>2, <1>5 DEF FrameOK, InCall
  <2> QED
    BY <1>1, <1>5, <1>8, <2>1 DEF FrameOK
<1>17. OthersStay({x})
  BY <1>1, <1>5 DEF OthersStay, FrameInv, FrameOK
<1>18. (\A t \in Tasks : TaskOK(t)') /\ (\A t \in Tasks : ParentsSeen(t)') /\ \A y \in {x} : FrameOK(y)'
  BY <1>7, <1>9, <1>12, <1>14, <1>15, <1>16, BesideTasks, BesideParents
<1> QED
  BY <1>5, <1>7, <1>17, <1>18, MoverInv

\* What remains of the parents of c when x, which submits c, moves on.
LEMMA ParentsMoved ==
    ASSUME NEW x \in Actors, Moves(x), NEW c \in Tasks, ParentsSeen(c), Submitted(c), KeptLists,
           \A i \in DOMAIN After[c] : par[x] <= i => Seen(c, i)'
    PROVE  ParentsSeen(c)'
<1>1. ASSUME NEW i \in DOMAIN After[c] PROVE Seen(c, i)'
  <2> DEFINE p == After[c][i]
  <2>1. p \in Tasks
    <3>1. After[c] \in Seq(Tasks)
      BY TaskAssumption
    <3> QED
      BY <3>1
  <2>2. CASE p \in sealed
    BY <2>2 DEF KeptLists, Seen
  <2>3. CASE \E m \in DOMAIN conts[p] : conts[p][m] = c
    <3>1. PICK m \in DOMAIN conts[p] : conts[p][m] = c
      BY <2>3
    <3>2. \/ p \in sealed'
          \/ m \in DOMAIN conts'[p] /\ conts'[p][m] = conts[p][m]
      BY <2>1 DEF KeptLists
    <3> QED
      BY <3>1, <3>2 DEF Seen
  <2>4. CASE \E y \in Actors : Submitting(y) /\ cur[y] = c /\ par[y] <= i
    <3>1. PICK y \in Actors : Submitting(y) /\ cur[y] = c /\ par[y] <= i
      BY <2>4
    <3>2. CASE y = x
      BY <3>1, <3>2
    <3>3. CASE y # x
      <4>1. Submitting(y)' /\ cur'[y] = c /\ par'[y] <= i
        BY <3>1, <3>3, OneMoves
      <4> QED
        BY <4>1 DEF Seen
    <3> QED
      BY <3>2, <3>3
  <2> QED
    BY <2>2, <2>3, <2>4 DEF ParentsSeen, Seen
<1> QED
  BY <1>1 DEF ParentsSeen, Seen

\* The parent had run: attach_cont gives its reference back.
LEMMA UnlinkInv ==
    ASSUME Inv, Types', NEW x \in Actors, Unlink(x)
    PROVE  Inv'
<1>1. Types /\ FrameInv /\ FrameOK(x) /\ pc[x] = "unlink"
  BY DEF Inv, FrameInv, Unlink
<1>2. Submitting(x)
  BY <1>1 DEF Submitting
<1>3. cur[x] \in Tasks
  BY <1>2, SubmittingFacts
<1> PICK c \in Tasks : c = cur[x]
  BY <1>3
<1>4. /\ c # x /\ Submitted(c) /\ pc[c] = "idle"
      /\ deps[c] = Cardinality(Waiting(c)) + Rest(x)
      /\ \A y \in Actors \ {x} : ~(Submitting(y) /\ cur[y] = c)
  BY <1>2, SubmittingFacts
<1>5. /\ pc'[x] = "attach" /\ ReleaseRef(c) /\ par'[x] = par[x] + 1
      /\ \A y \in Actors \ {x} : Same(y)
      /\ UNCHANGED <<deps, queued, sealed, completed, conts, handle, op, cur, local, ret>>
  BY <1>1 DEF Unlink, GoTo, Same, Types, FrameTypes
<1>6. Moves(x)
  BY <1>5 DEF Moves
<1>7. Lists' = Lists /\ KeptLists /\ \A t \in Tasks : ListOK(t)'
  BY <1>1, <1>5, ListsKept
<1>8. /\ ~Attaching(x)' /\ Attaching(x) /\ Submitting(x)' /\ ~Resolved(x) /\ ~Resolved(x)'
      /\ ~Sealing(x) /\ ~Sealing(x)' /\ cur'[x] = c
  BY <1>1, <1>5 DEF Attaching, Submitting, Resolved, Sealing
<1>9. par[x] \in Nat /\ Len(After[c]) \in Nat /\ par[x] >= 1 /\ par[x] <= Len(After[c])
      /\ Rest(x)' = Rest(x)
  <2>1. par[x] \in Nat /\ Len(After[c]) \in Nat /\ par[x] >= 1 /\ par[x] <= Len(After[c])
    BY <1>1, <1>2, RestInt DEF FrameOK
  <2>2. Rest(x) = Len(After[c]) - par[x] + 1
    BY <1>1 DEF Rest
  <2>3. Rest(x)' = Len(After[c]) - (par[x] + 1) + 2
    BY <1>5, <1>8 DEF Rest
  <2> QED
    BY <2>1, <2>2, <2>3
<1>10. \A t : KeptPlaces(t)
  BY <1>6, <1>7, <1>8, MovesPlaces
<1>11. \A t : Submitted(t)' <=> Submitted(t)
  BY <1>5 DEF Submitted
<1>12. \A t \in Tasks : /\ pc'[t] = "idle" <=> pc[t] = "idle"
                        /\ pc'[t] \in {"return", "done"} <=> pc[t] \in {"return", "done"}
  BY <1>1, <1>5 DEF Same, Actors
<1>13. Beside(x, c)
  <2>1. \A t \in Tasks \ {c} : refs'[t] = refs[t] /\ (t \in freed' <=> t \in freed)
    BY <1>1, <1>5, ReleaseOthers
  <2> QED
    BY <1>5, <1>6, <1>8, <1>11, <1>12, <2>1 DEF Beside, Apart, Untouched
<1>14. TaskOK(c)'
  <2>1. ReadyOnce(c) /\ RefsExact(c) /\ DepsExact(c)
    BY DEF Inv, TaskOK
  <2>2. Fresh(c)'
    BY <1>4, <1>11 DEF Fresh
  <2>3. ReadyOnce(c)'
    <3>1. Enqueuers(c)' = Enqueuers(c)
      BY <1>1, <1>5, <1>6, EnqueuersKept
    <3> QED
      BY <1>5, <1>11, <1>12, <2>1, <3>1, ReadyKept
  <2>4. DepsExact(c)'
    <3>1. deps'[c] = Cardinality(Waiting(c)') + Rest(x)'
      BY <1>4, <1>5, <1>9, <1>10 DEF KeptPlaces
    <3> QED
      BY <1>4, <1>6, <1>8, <3>1, DepsSubmitting
  <2>5. RefsExact(c)'
    <3>1. IsFiniteSet(Held(c)) /\ IsFiniteSet(Attachers(c)) /\ Held(c)' = Held(c)
      BY <1>10, <2>1 DEF RefsExact, KeptPlaces
    <3>2. /\ IsFiniteSet(Attachers(c)')
          /\ Cardinality(Attachers(c)') = Cardinality(Attachers(c)) + One(Attaching(x)') - One(Attaching(x))
      BY <1>6, <1>8, <3>1, MineAttachers
    <3>3. /\ Cardinality(Attachers(c)') = Cardinality(Attachers(c)) - 1
          /\ Cardinality(Held(c)) \in Nat /\ Cardinality(Attachers(c)) \in Nat
      BY <1>8, <3>1, <3>2, CardNat DEF One
    <3>4. Holders(c)' = Holders(c) - 1
      BY <1>5, <1>11, <1>12, <3>1, <3>3 DEF Holders, One
    <3> QED
      BY <1>1, <1>4, <1>5, <1>11, <2>1, <3>1, <3>2, <3>4, RefsDown
  <2> QED
    BY <2>2, <2>3, <2>4, <2>5 DEF TaskOK
<1>15. ParentsSeen(c)'
  <2>1. ASSUME NEW i \in DOMAIN After[c], par[x] <= i PROVE Seen(c, i)'
    <3>1. i \in Nat
      <4>1. After[c] \in Seq(Tasks)
        BY TaskAssumption
      <4> QED
        BY <4>1
    <3>2. CASE i = par[x]
      <4>1. After[c][i] \in sealed
        BY <1>1, <3>2 DEF FrameOK, Parent
      <4> QED
        BY <1>5, <4>1 DEF Seen
    <3>3. CASE i # par[x]
      <4>1. par'[x] <= i
        BY <1>5, <1>9, <2>1, <3>1, <3>3
      <4> QED
        BY <1>8, <4>1 DEF Seen
    <3> QED
      BY <3>2, <3>3
  <2> QED
    BY <1>4, <1>6, <1>7, <2>1, ParentsMoved DEF Inv
<1>16. FrameOK(x)'
  <2>1. InCall(x, "submit_after")' /\ cur'[x] \in Tasks
    BY <1>1, <1>2, <1>5 DEF FrameOK, InCall
  <2>2. par'[x] \in 1 .. Len(After[c]) + 1
    BY <1>5, <1>9
  <2> QED
    BY <1>1, <1>5, <1>8, <2>1, <2>2 DEF FrameOK
<1>17. OthersStay({x})
  BY <1>1, <1>5 DEF OthersStay, FrameInv, FrameOK
<1>18. (\A t \in Tasks : TaskOK(t)') /\ (\A t \in Tasks : ParentsSeen(t)') /\ \A y \in {x} : FrameOK(y)'
  BY <1>7, <1>10, <1>13, <1>14, <1>15, <1>16, BesideTasks, BesideParents
<1> QED
  BY <1>5, <1>7, <1>17, <1>18, MoverInv

\* The parent has run: its dependency is resolved, and the sentinel keeps
\* this from being the last one.
LEMMA LinkSealedInv ==
    ASSUME Inv, Types', NEW x \in Actors, LinkSealed(x)
    PROVE  Inv'
<1>1. Types /\ FrameInv /\ FrameOK(x) /\ pc[x] = "link" /\ Parent(x) \in sealed
  BY DEF Inv, FrameInv, LinkSealed, Open
<1>2. Submitting(x)
  BY <1>1 DEF Submitting
<1>3. cur[x] \in Tasks
  BY <1>2, SubmittingFacts
<1> PICK c \in Tasks : c = cur[x]
  BY <1>3
<1>4. /\ c # x /\ Submitted(c) /\ pc[c] = "idle"
      /\ deps[c] = Cardinality(Waiting(c)) + Rest(x) /\ Cardinality(Waiting(c)) \in Nat
      /\ deps[c] \in Nat /\ queued[c] = 0 /\ Enqueuers(c) = {}
      /\ \A y \in Actors \ {x} : ~(Submitting(y) /\ cur[y] = c)
  BY <1>2, SubmittingFacts
<1>5. /\ par[x] \in Nat /\ Len(After[c]) \in Nat /\ par[x] >= 1 /\ par[x] <= Len(After[c])
      /\ Rest(x) \in Nat /\ Rest(x) >= 2
  BY <1>1, <1>2, RestInt DEF FrameOK
<1>6. deps[c] >= 2 /\ ~LastDep(c)
  BY <1>4, <1>5 DEF LastDep
<1>7. /\ pc'[x] = "unlink" /\ deps'[c] = deps[c] - 1 /\ \A t \in Tasks \ {c} : deps'[t] = deps[t]
      /\ \A y \in Actors \ {x} : Same(y)
      /\ UNCHANGED <<refs, queued, sealed, completed, conts, freed, handle, op, cur, par, local, ret>>
  <2>1. /\ cur' = cur /\ deps' = [deps EXCEPT ![c] = @ - 1] /\ pc' = [pc EXCEPT ![x] = "unlink"]
        /\ UNCHANGED <<refs, queued, sealed, completed, conts, freed, handle, op, par, local, ret>>
    BY <1>6 DEF LinkSealed, Resolve, GoTo
  <2> QED
    BY <1>1, <2>1 DEF Same, Types, SharedTypes, FrameTypes
<1>8. Moves(x)
  BY <1>7 DEF Moves
<1>9. Lists' = Lists /\ KeptLists /\ \A t \in Tasks : ListOK(t)'
  BY <1>1, <1>7, ListsKept
<1>10. /\ Attaching(x)' /\ Attaching(x) /\ Submitting(x)' /\ ~Resolved(x) /\ ~Resolved(x)'
       /\ ~Sealing(x) /\ ~Sealing(x)' /\ cur'[x] = c
  BY <1>1, <1>7 DEF Attaching, Submitting, Resolved, Sealing
<1>11. Rest(x)' = Rest(x) - 1
  <2>1. Rest(x) = Len(After[c]) - par[x] + 2
    BY <1>1 DEF Rest
  <2>2. Rest(x)' = Len(After[c]) - par[x] + 1
    BY <1>7, <1>10 DEF Rest
  <2> QED
    BY <1>5, <2>1, <2>2
<1>12. \A t : KeptPlaces(t)
  BY <1>8, <1>9, <1>10, MovesPlaces
<1>13. \A t : Submitted(t)' <=> Submitted(t)
  BY <1>7 DEF Submitted
<1>14. \A t \in Tasks : /\ pc'[t] = "idle" <=> pc[t] = "idle"
                        /\ pc'[t] \in {"return", "done"} <=> pc[t] \in {"return", "done"}
  BY <1>1, <1>7 DEF Same, Actors
<1>15. Beside(x, c)
  BY <1>7, <1>8, <1>10, <1>13, <1>14 DEF Beside, Apart, Untouched
<1>16. TaskOK(c)'
  <2>1. ReadyOnce(c) /\ RefsExact(c) /\ DepsExact(c)
    BY DEF Inv, TaskOK
  <2>2. Fresh(c)'
    BY <1>4, <1>13 DEF Fresh
  <2>3. ReadyOnce(c)'
    <3>1. Enqueuers(c)' = {} /\ queued'[c] = 0 /\ Cardinality({}) = 0 /\ IsFiniteSet({})
      BY <1>1, <1>4, <1>7, <1>8, EnqueuersKept, FS_EmptySet
    <3>2. deps'[c] # 0 /\ pc'[c] = "idle"
      BY <1>4, <1>6, <1>7, <1>14
    <3> QED
      BY <3>1, <3>2 DEF ReadyOnce, One
  <2>4. DepsExact(c)'
    <3>1. deps'[c] = Cardinality(Waiting(c)') + Rest(x)'
      BY <1>4, <1>5, <1>7, <1>11, <1>12 DEF KeptPlaces
    <3> QED
      BY <1>4, <1>8, <1>10, <3>1, DepsSubmitting
  <2>5. RefsExact(c)'
    <3>1. Attachers(c)' = Attachers(c)
      <4>1. x \in Attachers(c)
        BY <1>10, MoverIn
      <4>2. Attachers(c)' = Attachers(c) \cup {x}
        BY <1>8, <1>10, OneMoves
      <4> QED
        BY <4>1, <4>2
    <3> QED
      BY <1>7, <1>12, <1>13, <1>14, <2>1, <3>1, RefsKept DEF KeptPlaces
  <2> QED
    BY <2>2, <2>3, <2>4, <2>5 DEF TaskOK
<1>17. ParentsSeen(c)'
  <2>1. ASSUME NEW i \in DOMAIN After[c], par[x] <= i PROVE Seen(c, i)'
    BY <1>7, <1>10, <2>1 DEF Seen
  <2> QED
    BY <1>4, <1>8, <1>9, <2>1, ParentsMoved DEF Inv
<1>18. FrameOK(x)'
  <2>1. InCall(x, "submit_after")' /\ cur'[x] \in Tasks /\ par'[x] \in 1 .. Len(After[cur'[x]]) + 1
    BY <1>1, <1>2, <1>7 DEF FrameOK, InCall
  <2>2. Parent(x)' \in sealed' /\ par'[x] <= Len(After[cur'[x]])
    BY <1>1, <1>5, <1>7 DEF Parent
  <2> QED
    BY <1>1, <1>7, <1>10, <2>1, <2>2 DEF FrameOK
<1>19. OthersStay({x})
  BY <1>1, <1>7 DEF OthersStay, FrameInv, FrameOK
<1>20. (\A t \in Tasks : TaskOK(t)') /\ (\A t \in Tasks : ParentsSeen(t)') /\ \A y \in {x} : FrameOK(y)'
  BY <1>9, <1>12, <1>15, <1>16, <1>17, <1>18, BesideTasks, BesideParents
<1> QED
  BY <1>7, <1>9, <1>19, <1>20, MoverInv

\* Every parent has been visited: the sentinel is resolved.
LEMMA SentinelInv ==
    ASSUME Inv, Types', NEW x \in Actors, Sentinel(x)
    PROVE  Inv'
<1>1. Types /\ FrameInv /\ FrameOK(x) /\ pc[x] = "attach" /\ par[x] > Len(After[cur[x]])
  BY DEF Inv, FrameInv, Sentinel
<1>2. Submitting(x)
  BY <1>1 DEF Submitting
<1>3. cur[x] \in Tasks
  BY <1>2, SubmittingFacts
<1> PICK c \in Tasks : c = cur[x]
  BY <1>3
<1>4. /\ c # x /\ Submitted(c) /\ pc[c] = "idle"
      /\ deps[c] = Cardinality(Waiting(c)) + Rest(x) /\ Cardinality(Waiting(c)) \in Nat
      /\ deps[c] \in Nat /\ queued[c] = 0 /\ Enqueuers(c) = {}
      /\ \A y \in Actors \ {x} : ~(Submitting(y) /\ cur[y] = c)
  BY <1>2, SubmittingFacts
<1>5. Rest(x) = 1 /\ Len(After[c]) \in Nat /\ par[x] = Len(After[c]) + 1
  <2>1. par[x] \in Nat /\ Len(After[c]) \in Nat /\ par[x] <= Len(After[c]) + 1
    BY <1>1, <1>2, RestInt
  <2>2. par[x] = Len(After[c]) + 1
    BY <1>1, <2>1
  <2>3. Rest(x) = Len(After[c]) - par[x] + 2
    BY <1>1 DEF Rest
  <2> QED
    BY <2>1, <2>2, <2>3
<1>6. /\ deps'[c] = deps[c] - 1 /\ \A t \in Tasks \ {c} : deps'[t] = deps[t]
      /\ \A y \in Actors \ {x} : Same(y)
      /\ pc'[x] = IF deps[c] = 1 THEN "enqueue" ELSE "body"
      /\ deps[c] = 1 => ret'[x] = "body"
      /\ UNCHANGED <<refs, queued, sealed, completed, conts, freed, handle, op, cur, par, local>>
  <2>1. /\ cur' = cur /\ deps' = [deps EXCEPT ![c] = @ - 1]
        /\ UNCHANGED <<refs, queued, sealed, completed, conts, freed, handle, op, par, local>>
    BY DEF Sentinel, Resolve, shared
  <2>2. deps[c] = 1 => pc' = [pc EXCEPT ![x] = "enqueue"] /\ ret' = [ret EXCEPT ![x] = "body"]
    BY <2>1 DEF Sentinel, Resolve, GoTo, LastDep
  <2>3. deps[c] # 1 => pc' = [pc EXCEPT ![x] = "body"] /\ ret' = ret
    BY <2>1 DEF Sentinel, Resolve, GoTo, LastDep
  <2> QED
    BY <1>1, <2>1, <2>2, <2>3 DEF Same, Types, SharedTypes, FrameTypes
<1>7. Moves(x)
  BY <1>6 DEF Moves
<1>8. Lists' = Lists /\ KeptLists /\ \A t \in Tasks : ListOK(t)'
  BY <1>1, <1>6, ListsKept
<1>9. /\ ~Attaching(x)' /\ ~Attaching(x) /\ ~Submitting(x)' /\ ~Resolved(x) /\ ~Resolved(x)'
      /\ ~Sealing(x) /\ ~Sealing(x)' /\ cur'[x] = c
  BY <1>1, <1>6 DEF Attaching, Submitting, Resolved, Sealing
<1>10. \A t : KeptPlaces(t)
  BY <1>7, <1>8, <1>9, MovesPlaces
<1>11. \A t : Submitted(t)' <=> Submitted(t)
  BY <1>6 DEF Submitted
<1>12. \A t \in Tasks : /\ pc'[t] = "idle" <=> pc[t] = "idle"
                        /\ pc'[t] \in {"return", "done"} <=> pc[t] \in {"return", "done"}
  BY <1>1, <1>6 DEF Same, Actors
<1>13. Beside(x, c)
  BY <1>6, <1>7, <1>9, <1>11, <1>12 DEF Beside, Apart, Untouched
<1>14. TaskOK(c)'
  <2>1. ReadyOnce(c) /\ RefsExact(c) /\ DepsExact(c)
    BY DEF Inv, TaskOK
  <2>2. Fresh(c)'
    BY <1>4, <1>11 DEF Fresh
  <2>3. ReadyOnce(c)'
    <3>1. /\ IsFiniteSet(Enqueuers(c)')
          /\ Cardinality(Enqueuers(c)') = Cardinality(Enqueuers(c))
                + One(pc'[x] = "enqueue") - One(pc[x] = "enqueue")
      BY <1>7, <1>9, <2>1, MineEnqueuers DEF ReadyOnce
    <3>2. Cardinality(Enqueuers(c)') = One(deps[c] = 1)
      BY <1>1, <1>4, <1>6, <3>1, FS_EmptySet DEF One
    <3>3. deps'[c] = 0 <=> deps[c] = 1
      BY <1>4, <1>6
    <3>4. pc'[c] = "idle" /\ queued'[c] = 0
      BY <1>4, <1>6, <1>12
    <3> QED
      BY <3>1, <3>2, <3>3, <3>4 DEF ReadyOnce, One
  <2>4. DepsExact(c)'
    <3>1. deps'[c] = Cardinality(Waiting(c)')
      BY <1>4, <1>5, <1>6, <1>10 DEF KeptPlaces
    <3> QED
      BY <1>4, <1>7, <1>9, <3>1, DepsSettled
  <2>5. RefsExact(c)'
    <3>1. Attachers(c)' = Attachers(c)
      BY <1>7, <1>9, AttachersKept
    <3> QED
      BY <1>6, <1>10, <1>11, <1>12, <2>1, <3>1, RefsKept DEF KeptPlaces
  <2> QED
    BY <2>2, <2>3, <2>4, <2>5 DEF TaskOK
<1>15. ParentsSeen(c)'
  <2>1. ASSUME NEW i \in DOMAIN After[c], par[x] <= i PROVE Seen(c, i)'
    <3>1. i \in 1 .. Len(After[c])
      BY TaskAssumption, ListDomain
    <3> QED
      BY <1>5, <2>1, <3>1
  <2> QED
    BY <1>4, <1>7, <1>8, <2>1, ParentsMoved DEF Inv
<1>16. FrameOK(x)'
  <2>1. pc'[x] = "enqueue" => cur'[x] \in Tasks /\ ret'[x] # "unlink"
    BY <1>6, <1>9
  <2> QED
    BY <1>1, <1>6, <1>9, <2>1 DEF FrameOK
<1>17. OthersStay({x})
  BY <1>1, <1>6 DEF OthersStay, FrameInv, FrameOK
<1>18. (\A t \in Tasks : TaskOK(t)') /\ (\A t \in Tasks : ParentsSeen(t)') /\ \A y \in {x} : FrameOK(y)'
  BY <1>8, <1>10, <1>13, <1>14, <1>15, <1>16, BesideTasks, BesideParents
<1> QED
  BY <1>6, <1>8, <1>17, <1>18, MoverInv

LEMMA ListsTypeNext ==
    ASSUME Types'
    PROVE  /\ Lists' \in [Tasks -> Seq(Tasks)]
           /\ \A p \in Tasks : Lists'[p] = conts'[p] \o local'[p]
<1>1. \A p \in Tasks : conts'[p] \in Seq(Tasks) /\ local'[p] \in Seq(Tasks)
  BY DEF Types, SharedTypes, FrameTypes, Actors
<1>2. \A p \in Tasks : conts'[p] \o local'[p] \in Seq(Tasks)
  BY <1>1, ConcatProperties
<1> QED
  BY <1>2 DEF Lists, Pending

LEMMA ConcatOne ==
    ASSUME NEW s \in Seq(Tasks)
    PROVE  s \o <<>> = s /\ <<>> \o s = s
  BY ConcatEmptySeq

\* An open list of p takes c: c has one place more, which waits.
LEMMA LinkPlaces ==
    ASSUME Inv, Types', NEW p \in Tasks, p \notin sealed, NEW c \in Tasks,
           conts' = [conts EXCEPT ![p] = Append(@, c)], local' = local,
           \A q \in Tasks : Resolved(q)' <=> Resolved(q)
    PROVE  /\ \A t \in Tasks \ {c} : KeptPlaces(t)
           /\ IsFiniteSet(Held(c)) => /\ IsFiniteSet(Held(c)')
                                      /\ Cardinality(Held(c)') = Cardinality(Held(c)) + 1
                                      /\ Cardinality(Waiting(c)') = Cardinality(Waiting(c)) + 1
<1> DEFINE A == {q \in Tasks : Resolved(q)}
<1>1. /\ Types /\ conts[p] \in Seq(Tasks) /\ conts'[p] = Append(conts[p], c) /\ local[p] = <<>>
      /\ \A q \in Tasks \ {p} : conts'[q] = conts[q] /\ local'[q] = local[q]
      /\ local'[p] = <<>> /\ conts'[p] \in Seq(Tasks)
  BY DEF Inv, FrameInv, ListOK, Types, SharedTypes
<1>2. /\ Lists \in [Tasks -> Seq(Tasks)] /\ Lists' \in [Tasks -> Seq(Tasks)]
      /\ \A q \in Tasks : Lists[q] = conts[q] \o local[q]
      /\ \A q \in Tasks : Lists'[q] = conts'[q] \o local'[q]
  BY <1>1, ListsType, ListsTypeNext
<1>3. Lists[p] = conts[p] /\ Lists'[p] = conts'[p]
  BY <1>1, <1>2, ConcatOne
<1>4. Grown(Lists, Lists', p, c)
  BY <1>1, <1>2, <1>3, ZenonT(60) DEF Grown
<1>5. p \notin A
  BY DEF Inv, FrameInv, FrameOK, Sealing, Actors
<1>6. A' = A
  OBVIOUS
<1>7. /\ \A t : Held(t) = Places(Lists, t, {}) /\ Held(t)' = Places(Lists', t, {})
      /\ \A t : Waiting(t) = Places(Lists, t, A) /\ Waiting(t)' = Places(Lists', t, A)
  BY <1>6 DEF Held, Waiting
<1> PICK B : B = A
  OBVIOUS
<1> PICK L \in [Tasks -> Seq(Tasks)] : L = Lists
  BY <1>2
<1> PICK M \in [Tasks -> Seq(Tasks)] : M = Lists'
  BY <1>2
<1>8. Grown(L, M, p, c) /\ p \notin B
  BY <1>4, <1>5
<1>9. /\ \A t : Held(t) = Places(L, t, {}) /\ Held(t)' = Places(M, t, {})
      /\ \A t : Waiting(t) = Places(L, t, B) /\ Waiting(t)' = Places(M, t, B)
  BY <1>7
<1> HIDE DEF A
<1>10. Gained(L, M, c, {}) /\ Gained(L, M, c, B)
  BY <1>8, PlacesAppend
<1>11. PICK z : /\ \A t \in Tasks \ {c} : Places(M, t, {}) = Places(L, t, {})
                /\ Places(M, c, {}) = Places(L, c, {}) \cup {z}
                /\ z \notin Places(L, c, {})
  BY <1>10 DEF Gained
<1>12. PICK w : /\ \A t \in Tasks \ {c} : Places(M, t, B) = Places(L, t, B)
                /\ Places(M, c, B) = Places(L, c, B) \cup {w}
                /\ w \notin Places(L, c, B)
  BY <1>10 DEF Gained
<1>13. \A t \in Tasks \ {c} : KeptPlaces(t)
  BY <1>11, <1>12, <1>9 DEF KeptPlaces
<1>14. ASSUME IsFiniteSet(Held(c))
       PROVE  /\ IsFiniteSet(Held(c)')
              /\ Cardinality(Held(c)') = Cardinality(Held(c)) + 1
              /\ Cardinality(Waiting(c)') = Cardinality(Waiting(c)) + 1
  <2>1. Held(c)' = Held(c) \cup {z} /\ z \notin Held(c)
    BY <1>11, <1>9
  <2>2. Waiting(c)' = Waiting(c) \cup {w} /\ w \notin Waiting(c) /\ IsFiniteSet(Waiting(c))
    BY <1>12, <1>14, <1>9, WaitingFinite
  <2>3. IsFiniteSet(Held(c) \cup {z}) /\ Cardinality(Held(c) \cup {z}) = Cardinality(Held(c)) + 1
    BY <1>14, <2>1, AddOne
  <2>4. Cardinality(Waiting(c) \cup {w}) = Cardinality(Waiting(c)) + 1
    BY <2>2, AddOne
  <2> QED
    BY <2>1, <2>2, <2>3, <2>4
<1> QED
  BY <1>13, <1>14

LEMMA LinkLists ==
    ASSUME Inv, NEW p \in Tasks, NEW c \in Tasks, sealed' = sealed,
           conts' = [conts EXCEPT ![p] = Append(@, c)]
    PROVE  /\ KeptLists
           /\ \E m \in DOMAIN conts'[p] : conts'[p][m] = c
<1>1. /\ conts[p] \in Seq(Tasks) /\ conts'[p] = Append(conts[p], c)
      /\ \A q \in Tasks \ {p} : conts'[q] = conts[q]
  BY DEF Inv, Types, SharedTypes
<1> DEFINE n == Len(conts[p])
           s == conts'[p]
<1>2. /\ n \in Nat /\ DOMAIN conts[p] = 1 .. n /\ s \in Seq(Tasks) /\ Len(s) = n + 1
      /\ s[n + 1] = c /\ \A i \in 1 .. n : s[i] = conts[p][i]
  BY <1>1, AppendProperties, ListDomain
<1>3. DOMAIN s = 1 .. n + 1
  BY <1>2, ListDomain
<1>4. n + 1 \in DOMAIN s /\ \A m \in DOMAIN conts[p] : m \in DOMAIN s /\ s[m] = conts[p][m]
  <2> HIDE DEF s, n
  <2> QED
    BY <1>2, <1>3
<1>5. \A q \in Tasks : \A m \in DOMAIN conts[q] : m \in DOMAIN conts'[q] /\ conts'[q][m] = conts[q][m]
  BY <1>1, <1>4
<1> QED
  BY <1>2, <1>4, <1>5 DEF KeptLists

\* An open list takes the child, and the reference goes with it.
LEMMA LinkInv ==
    ASSUME Inv, Types', NEW x \in Actors, Link(x)
    PROVE  Inv'
<1>1. Types /\ FrameInv /\ FrameOK(x) /\ pc[x] = "link" /\ Parent(x) \notin sealed
  BY DEF Inv, FrameInv, Link, Open
<1>2. Submitting(x)
  BY <1>1 DEF Submitting
<1>3. cur[x] \in Tasks /\ Parent(x) \in Tasks
  BY <1>1, <1>2, SubmittingFacts, CurTask
<1> PICK c \in Tasks : c = cur[x]
  BY <1>3
<1> PICK p \in Tasks : p = Parent(x)
  BY <1>3
<1>4. /\ c # x /\ Submitted(c) /\ pc[c] = "idle"
      /\ deps[c] = Cardinality(Waiting(c)) + Rest(x) /\ Cardinality(Waiting(c)) \in Nat
      /\ \A y \in Actors \ {x} : ~(Submitting(y) /\ cur[y] = c)
  BY <1>2, SubmittingFacts
<1>5. /\ par[x] \in Nat /\ Len(After[c]) \in Nat /\ par[x] >= 1 /\ par[x] <= Len(After[c])
      /\ Rest(x) \in Nat
  BY <1>1, <1>2, RestInt DEF FrameOK
<1>6. /\ pc'[x] = "attach" /\ par'[x] = par[x] + 1 /\ conts' = [conts EXCEPT ![p] = Append(@, c)]
      /\ \A y \in Actors \ {x} : Same(y)
      /\ UNCHANGED <<refs, deps, queued, sealed, completed, freed, handle, op, cur, local, ret>>
  BY <1>1 DEF Link, GoTo, Same, Types, FrameTypes
<1>7. Moves(x)
  BY <1>6 DEF Moves
<1>8. /\ ~Attaching(x)' /\ Attaching(x) /\ Submitting(x)' /\ ~Resolved(x) /\ ~Resolved(x)'
      /\ ~Sealing(x) /\ ~Sealing(x)' /\ cur'[x] = c
  BY <1>1, <1>6 DEF Attaching, Submitting, Resolved, Sealing
<1>9. \A q \in Tasks : Resolved(q)' <=> Resolved(q)
  BY <1>7, <1>8, OneMoves DEF Actors
<1>10. /\ \A t \in Tasks \ {c} : KeptPlaces(t)
       /\ IsFiniteSet(Held(c)) => /\ IsFiniteSet(Held(c)')
                                  /\ Cardinality(Held(c)') = Cardinality(Held(c)) + 1
                                  /\ Cardinality(Waiting(c)') = Cardinality(Waiting(c)) + 1
  BY <1>1, <1>6, <1>9, LinkPlaces
<1>11. KeptLists /\ \E m \in DOMAIN conts'[p] : conts'[p][m] = c
  BY <1>6, LinkLists
<1>12. \A t \in Tasks : ListOK(t)'
  BY <1>1, <1>6 DEF FrameInv, ListOK, Types, SharedTypes
<1>13. Rest(x)' = Rest(x) - 1
  <2>1. Rest(x) = Len(After[c]) - par[x] + 2
    BY <1>1 DEF Rest
  <2>2. Rest(x)' = Len(After[c]) - (par[x] + 1) + 2
    BY <1>6, <1>8 DEF Rest
  <2> QED
    BY <1>5, <2>1, <2>2
<1>14. \A t : Submitted(t)' <=> Submitted(t)
  BY <1>6 DEF Submitted
<1>15. \A t \in Tasks : /\ pc'[t] = "idle" <=> pc[t] = "idle"
                        /\ pc'[t] \in {"return", "done"} <=> pc[t] \in {"return", "done"}
  BY <1>1, <1>6 DEF Same, Actors
<1>16. Beside(x, c)
  BY <1>6, <1>7, <1>8, <1>14, <1>15 DEF Beside, Apart, Untouched
<1>17. TaskOK(c)'
  <2>1. ReadyOnce(c) /\ RefsExact(c) /\ DepsExact(c)
    BY DEF Inv, TaskOK
  <2>2. Fresh(c)'
    BY <1>4, <1>14 DEF Fresh
  <2>3. ReadyOnce(c)'
    <3>1. Enqueuers(c)' = Enqueuers(c)
      BY <1>1, <1>6, <1>7, EnqueuersKept
    <3> QED
      BY <1>6, <1>14, <1>15, <2>1, <3>1, ReadyKept
  <2>4. IsFiniteSet(Held(c)) /\ IsFiniteSet(Attachers(c))
    BY <2>1 DEF RefsExact
  <2>5. DepsExact(c)'
    <3>1. deps'[c] = Cardinality(Waiting(c)') + Rest(x)'
      BY <1>4, <1>5, <1>6, <1>10, <1>13, <2>4
    <3> QED
      BY <1>4, <1>7, <1>8, <3>1, DepsSubmitting
  <2>6. RefsExact(c)'
    <3>1. /\ IsFiniteSet(Attachers(c)')
          /\ Cardinality(Attachers(c)') = Cardinality(Attachers(c)) + One(Attaching(x)') - One(Attaching(x))
      BY <1>7, <1>8, <2>4, MineAttachers
    <3>2. /\ Cardinality(Attachers(c)') = Cardinality(Attachers(c)) - 1
          /\ Cardinality(Held(c)) \in Nat /\ Cardinality(Attachers(c)) \in Nat
      BY <1>8, <2>4, <3>1, CardNat DEF One
    <3>3. Holders(c)' = Holders(c)
      BY <1>6, <1>10, <1>14, <1>15, <2>4, <3>2 DEF Holders, One
    <3> QED
      BY <1>6, <1>10, <1>14, <2>1, <2>4, <3>1, <3>3 DEF RefsExact
  <2> QED
    BY <2>2, <2>3, <2>5, <2>6 DEF TaskOK
<1>18. ParentsSeen(c)'
  <2>1. ASSUME NEW i \in DOMAIN After[c], par[x] <= i PROVE Seen(c, i)'
    <3>1. i \in Nat
      <4>1. After[c] \in Seq(Tasks)
        BY TaskAssumption
      <4> QED
        BY <4>1
    <3>2. CASE i = par[x]
      <4>1. After[c][i] = p
        BY <3>2 DEF Parent
      <4> QED
        BY <1>11, <4>1 DEF Seen
    <3>3. CASE i # par[x]
      <4>1. par'[x] <= i
        BY <1>5, <1>6, <2>1, <3>1, <3>3
      <4> QED
        BY <1>8, <4>1 DEF Seen
    <3> QED
      BY <3>2, <3>3
  <2> QED
    BY <1>4, <1>7, <1>11, <2>1, ParentsMoved DEF Inv
<1>19. FrameOK(x)'
  <2>1. InCall(x, "submit_after")' /\ cur'[x] \in Tasks
    BY <1>1, <1>2, <1>6 DEF FrameOK, InCall
  <2>2. par'[x] \in 1 .. Len(After[c]) + 1
    BY <1>5, <1>6
  <2> QED
    BY <1>1, <1>6, <1>8, <2>1, <2>2 DEF FrameOK
<1>20. OthersStay({x})
  BY <1>1, <1>6 DEF OthersStay, FrameInv, FrameOK
<1>21. (\A t \in Tasks : TaskOK(t)') /\ (\A t \in Tasks : ParentsSeen(t)') /\ \A y \in {x} : FrameOK(y)'
  BY <1>10, <1>11, <1>16, <1>17, <1>18, <1>19, BesideTasks, BesideParents
<1> QED
  BY <1>6, <1>12, <1>20, <1>21, MoverInv

\* enqueue_ready hands c to the pool, which queues it or runs it on the spot.
Sent(x, c) ==
    /\ pc[x] = "enqueue" /\ cur[x] = c /\ pc'[x] = ret[x]
    /\ \/ pc'[c] = pc[c] /\ queued'[c] = queued[c] + 1
       \/ pc'[c] = "body" /\ queued'[c] = queued[c]
    /\ \A y \in Actors \ {x, c} : Same(y)
    /\ \A t \in Tasks \ {c} : queued'[t] = queued[t]
    /\ UNCHANGED <<refs, deps, sealed, completed, conts, freed, handle, op, cur, par, local, ret>>

LEMMA SentInv ==
    ASSUME Inv, Types', NEW x \in Actors, NEW c \in Tasks, Sent(x, c), c # x
    PROVE  Inv'
<1>1. Types /\ FrameInv /\ FrameOK(x) /\ pc[x] = "enqueue" /\ cur[x] = c
  BY DEF Inv, FrameInv, Sent
<1>2. /\ Submitted(c) /\ pc[c] = "idle" /\ deps[c] = 0
      /\ IsFiniteSet(Enqueuers(c)) /\ Cardinality(Enqueuers(c)) \in Nat /\ queued[c] \in Nat
      /\ queued[c] + Cardinality(Enqueuers(c)) = 1
  <2>1. x \in Enqueuers(c)
    BY <1>1, MoverIn
  <2> QED
    BY <2>1, ReadyFacts
<1>3. /\ pc'[x] = ret[x] /\ ret[x] \in {"body", "relcont"}
      /\ UNCHANGED <<refs, deps, sealed, completed, conts, freed, handle, op, cur, par, local, ret>>
      /\ \A t \in Tasks \ {c} : queued'[t] = queued[t]
      /\ \A y \in Actors \ {x, c} : Same(y)
      /\ pc'[c] \in {"idle", "body"}
  <2>1. ret[x] \in {"body", "unlink", "relcont"} /\ ret[x] # "unlink"
    BY <1>1 DEF FrameOK, Types, FrameTypes
  <2> QED
    BY <1>2, <2>1 DEF Sent
<1>4. Moves(x)
  BY <1>2, <1>3 DEF Moves, Neutral
<1>5. /\ ~Attaching(x)' /\ ~Attaching(x) /\ ~Submitting(x)' /\ ~Submitting(x)
      /\ Resolved(x)' <=> Resolved(x)
      /\ Sealing(x)' <=> Sealing(x)
      /\ cur'[x] = c
  BY <1>1, <1>3 DEF Attaching, Submitting, Resolved, Sealing
<1>6. Lists' = Lists /\ KeptLists /\ \A t \in Tasks : ListOK(t)'
  BY <1>1, <1>3, ListsKept
<1>7. \A t : KeptPlaces(t)
  BY <1>4, <1>5, <1>6, MovesPlaces
<1>8. \A t : Submitted(t)' <=> Submitted(t)
  BY <1>3 DEF Submitted
<1>9. \A t \in Tasks \ {c} : /\ pc'[t] = "idle" <=> pc[t] = "idle"
                             /\ pc'[t] \in {"return", "done"} <=> pc[t] \in {"return", "done"}
  BY <1>1, <1>3 DEF Same, Actors
<1>10. Beside(x, c)
  BY <1>1, <1>3, <1>4, <1>5, <1>8, <1>9 DEF Beside, Apart, Untouched
<1>11. KeptSubmitters(c)
  BY <1>4, <1>5, StillSubmitting
<1>12. TaskOK(c)'
  <2>1. ReadyOnce(c) /\ RefsExact(c) /\ DepsExact(c)
    BY DEF Inv, TaskOK
  <2>2. Fresh(c)'
    BY <1>2, <1>8 DEF Fresh
  <2>3. ReadyOnce(c)'
    <3>1. /\ IsFiniteSet(Enqueuers(c)')
          /\ Cardinality(Enqueuers(c)') = Cardinality(Enqueuers(c))
                + One(pc'[x] = "enqueue") - One(pc[x] = "enqueue")
      BY <1>1, <1>2, <1>4, <1>5, MineEnqueuers
    <3>2. Cardinality(Enqueuers(c)') = Cardinality(Enqueuers(c)) - 1
      BY <1>1, <1>2, <1>3, <3>1 DEF One
    <3>3. deps'[c] = 0
      BY <1>2, <1>3
    <3>4. CASE pc'[c] = pc[c] /\ queued'[c] = queued[c] + 1
      <4>1. queued'[c] + Cardinality(Enqueuers(c)') = 1 /\ pc'[c] = "idle"
        BY <1>2, <3>2, <3>4
      <4> QED
        BY <3>1, <3>3, <4>1 DEF ReadyOnce, One
    <3>5. CASE pc'[c] = "body" /\ queued'[c] = queued[c]
      <4>1. queued'[c] + Cardinality(Enqueuers(c)') = 0
        BY <1>2, <3>2, <3>5
      <4> QED
        BY <3>1, <3>3, <3>5, <4>1 DEF ReadyOnce, One
    <3> QED
      BY <3>4, <3>5 DEF Sent
  <2>4. DepsExact(c)'
    BY <1>3, <1>7, <1>11, <2>1, DepsKept DEF KeptPlaces
  <2>5. RefsExact(c)'
    <3>1. Attachers(c)' = Attachers(c)
      BY <1>4, <1>5, AttachersKept
    <3> QED
      BY <1>2, <1>3, <1>7, <1>8, <2>1, <3>1, RefsKept DEF KeptPlaces
  <2> QED
    BY <2>2, <2>3, <2>4, <2>5 DEF TaskOK
<1>13. ParentsSeen(c)'
  BY <1>6, <1>8, <1>11, ParentsKept DEF Inv
<1>14. FrameOK(x)'
  BY <1>1, <1>3, <1>5 DEF FrameOK
<1>15. FrameOK(c)'
  <2>1. FrameOK(c) /\ ~Sealing(c) /\ c \in Actors /\ op[c] >= 1
    BY <1>1, <1>2 DEF FrameInv, FrameOK, Actors, Sealing, Resolved
  <2>2. CASE pc'[c] = "body"
    BY <1>3, <2>1, <2>2, RestFrame
  <2>3. CASE pc'[c] = "idle"
    <3>1. Same(c)
      BY <1>2, <1>3, <2>3 DEF Same
    <3> QED
      BY <1>2, <1>3, <2>1, <3>1, FrameKept
  <2> QED
    BY <1>3, <2>2, <2>3
<1>16. OthersStay({x, c})
  BY <1>1, <1>3 DEF OthersStay, FrameInv, FrameOK
<1>17. (\A t \in Tasks : TaskOK(t)') /\ (\A t \in Tasks : ParentsSeen(t)') /\ \A y \in {x, c} : FrameOK(y)'
  BY <1>6, <1>7, <1>10, <1>12, <1>13, <1>14, <1>15, BesideTasks, BesideParents
<1>18. {x, c} \subseteq Actors
  BY DEF Actors
<1> QED
  BY <1>3, <1>6, <1>16, <1>17, <1>18, MoverInv

LEMMA EnqueueFacts ==
    ASSUME Inv, NEW x \in Actors, pc[x] = "enqueue"
    PROVE  cur[x] \in Tasks /\ cur[x] # x
<1>1. cur[x] \in Tasks
  BY DEF Inv, FrameInv, FrameOK
<1> PICK c \in Tasks : c = cur[x]
  BY <1>1
<1>2. Enqueuers(c) # {}
  BY MoverIn
<1>3. pc[c] = "idle"
  BY <1>2, ReadyFacts
<1> QED
  BY <1>3

LEMMA EnqueueInv ==
    ASSUME Inv, Types', NEW x \in Actors, Enqueue(x)
    PROVE  Inv'
<1>1. pc[x] = "enqueue" /\ Types
  BY DEF Enqueue, Inv
<1>2. cur[x] \in Tasks /\ cur[x] # x
  BY <1>1, EnqueueFacts
<1> PICK c \in Tasks : c = cur[x]
  BY <1>2
<1>3. Sent(x, c)
  BY <1>1, <1>2 DEF Sent, Enqueue, GoTo, shared, Same, Actors, Types, SharedTypes, FrameTypes
<1> QED
  BY <1>2, <1>3, SentInv

LEMMA EnqueueInlineInv ==
    ASSUME Inv, Types', NEW th \in Threads, NEW x \in Actors, EnqueueInline(th, x)
    PROVE  Inv'
<1>1. pc[x] = "enqueue" /\ Types
  BY DEF EnqueueInline, Inv
<1>2. cur[x] \in Tasks /\ cur[x] # x
  BY <1>1, EnqueueFacts
<1> PICK c \in Tasks : c = cur[x]
  BY <1>2
<1>3. Sent(x, c)
  BY <1>1, <1>2 DEF Sent, EnqueueInline, shared, Same, Actors, Types, SharedTypes, FrameTypes
<1> QED
  BY <1>2, <1>3, SentInv

\* Nobody holds, waits for or submits a task that has not been submitted.
LEMMA FreshFacts ==
    ASSUME Inv, NEW c \in Tasks, ~Submitted(c)
    PROVE  /\ refs[c] = 0 /\ deps[c] = 0 /\ pc[c] = "idle" /\ queued[c] = 0
           /\ c \notin handle /\ c \notin freed
           /\ Enqueuers(c) = {} /\ Held(c) = {} /\ Waiting(c) = {} /\ Attachers(c) = {}
           /\ \A y \in Actors : ~(Submitting(y) /\ cur[y] = c)
<1>1. Fresh(c) /\ RefsExact(c) /\ Types
  BY DEF Inv, TaskOK
<1>2. Held(c) = {} /\ Attachers(c) = {}
  <2>1. Holders(c) = 0 /\ IsFiniteSet(Held(c)) /\ IsFiniteSet(Attachers(c))
    BY <1>1 DEF Fresh, RefsExact
  <2> QED
    BY <2>1, HoldersNat
<1>3. Waiting(c) = {}
  <2>1. Waiting(c) \subseteq Held(c)
    BY DEF Waiting, Held, Places, IsPlace
  <2> QED
    BY <1>2, <2>1
<1>4. \A y \in Actors : ~(Submitting(y) /\ cur[y] = c)
  BY <1>1, OneSubmitter DEF Inv, FrameInv
<1> QED
  BY <1>1, <1>2, <1>3, <1>4 DEF Fresh

\* A call of x makes c: submit sends it to the pool, submit_after goes to
\* its parents.
Making(x, c) ==
    /\ pc[x] = "body" /\ op'[x] = op[x] + 1 /\ cur'[x] = c
    /\ refs'[c] = 2 /\ handle' = handle \cup {c}
    /\ \/ pc'[x] = "enqueue" /\ ret'[x] = "body" /\ deps'[c] = 0 /\ After[c] = <<>>
       \/ /\ pc'[x] = "attach" /\ par'[x] = 1 /\ deps'[c] = Len(After[c]) + 1
          /\ Prog[x][op[x]].op = "submit_after"
    /\ \A y \in Actors \ {x} : Same(y)
    /\ \A t \in Tasks \ {c} : refs'[t] = refs[t] /\ deps'[t] = deps[t]
    /\ UNCHANGED <<sealed, completed, conts, freed, queued, local>>

\* The new task has two references, and no one else knows it.
LEMMA MadeTask ==
    ASSUME Inv, NEW x \in Actors, NEW c \in Tasks, Making(x, c), Moves(x), KeptPlaces(c),
           ~Submitted(c), Submitted(c)', c # x
    PROVE  TaskOK(c)'
<1>1. /\ deps[c] = 0 /\ pc[c] = "idle" /\ queued[c] = 0 /\ c \notin freed
      /\ Enqueuers(c) = {} /\ Held(c) = {} /\ Waiting(c) = {} /\ Attachers(c) = {}
      /\ \A y \in Actors : ~(Submitting(y) /\ cur[y] = c)
  BY FreshFacts
<1>2. /\ Held(c)' = {} /\ Waiting(c)' = {} /\ pc'[c] = "idle" /\ queued'[c] = 0
      /\ c \notin freed' /\ c \in handle'
  BY <1>1 DEF KeptPlaces, Making, Same, Actors
<1>3. IsFiniteSet({}) /\ Cardinality({}) = 0
  BY FS_EmptySet
<1>4. Attachers(c)' = {}
  <2>1. ~Attaching(x) /\ ~Attaching(x)'
    BY DEF Making, Attaching
  <2> QED
    BY <1>1, <2>1, AttachersKept
<1>5. Fresh(c)'
  BY DEF Fresh
<1>6. RefsExact(c)'
  <2>1. refs'[c] = 2
    BY DEF Making
  <2>2. Holders(c)' = 2
    BY <1>2, <1>3, <1>4 DEF Holders, One
  <2> QED
    BY <1>2, <1>3, <1>4, <2>1, <2>2 DEF RefsExact
<1>7. /\ IsFiniteSet(Enqueuers(c)')
      /\ Cardinality(Enqueuers(c)') = One(pc'[x] = "enqueue")
  <2>1. /\ cur'[x] = c /\ pc[x] = "body" /\ pc[x] \in Neutral
    BY DEF Making, Neutral
  <2>2. /\ IsFiniteSet(Enqueuers(c)')
        /\ Cardinality(Enqueuers(c)') = Cardinality(Enqueuers(c))
              + One(pc'[x] = "enqueue") - One(pc[x] = "enqueue")
    BY <1>1, <1>3, <2>1, MineEnqueuers
  <2> QED
    BY <1>1, <1>3, <2>1, <2>2 DEF One
<1>8. CASE pc'[x] = "enqueue"
  <2>1. deps'[c] = 0 /\ ~Submitting(x)'
    BY <1>8 DEF Making, Submitting
  <2>2. ReadyOnce(c)'
    BY <1>2, <1>7, <1>8, <2>1 DEF ReadyOnce, One
  <2>3. deps'[c] = Cardinality(Waiting(c)')
    BY <1>2, <1>3, <2>1
  <2>4. DepsExact(c)'
    BY <1>1, <2>1, <2>3, DepsSettled
  <2> QED
    BY <1>5, <1>6, <2>2, <2>4 DEF TaskOK
<1>9. CASE pc'[x] = "attach"
  <2>1. /\ deps'[c] = Len(After[c]) + 1 /\ par'[x] = 1 /\ Submitting(x)' /\ cur'[x] = c
    BY <1>9 DEF Making, Submitting
  <2>2. Len(After[c]) \in Nat
    BY TaskAssumption, ListDomain
  <2>3. deps'[c] # 0
    BY <2>1, <2>2
  <2>4. ReadyOnce(c)'
    BY <1>2, <1>7, <1>9, <2>3 DEF ReadyOnce, One
  <2>5. Rest(x)' = Len(After[c]) - 1 + 2
    BY <1>9, <2>1 DEF Rest
  <2>6. deps'[c] = Cardinality(Waiting(c)') + Rest(x)'
    BY <1>2, <1>3, <2>1, <2>2, <2>5
  <2>7. DepsExact(c)'
    BY <1>1, <2>1, <2>6, DepsSubmitting
  <2> QED
    BY <1>5, <1>6, <2>4, <2>7 DEF TaskOK
<1> QED
  BY <1>8, <1>9 DEF Making

LEMMA MakingInv ==
    ASSUME Inv, Types', NEW x \in Actors, NEW c \in Tasks, Making(x, c),
           op[x] \in DOMAIN Prog[x], Submits(Prog[x][op[x]], c)
    PROVE  Inv'
<1>1. Types /\ FrameInv /\ FrameOK(x) /\ op[x] \in Nat
  BY DEF Inv, FrameInv, Types, FrameTypes
<1>2. ~Submitted(c)
  BY <1>1, NewTask
<1>3. /\ pc[x] = "body" /\ op'[x] = op[x] + 1 /\ cur'[x] = c
      /\ pc'[x] = "attach" \/ (pc'[x] = "enqueue" /\ ret'[x] = "body")
      /\ handle' = handle \cup {c}
      /\ \A y \in Actors \ {x} : Same(y)
      /\ \A t \in Tasks \ {c} : refs'[t] = refs[t] /\ deps'[t] = deps[t]
      /\ UNCHANGED <<sealed, completed, conts, freed, queued, local>>
  BY DEF Making
<1>4. pc[c] = "idle" /\ c # x
  BY <1>2, <1>3, FreshFacts
<1>5. Moves(x)
  BY <1>3 DEF Moves
<1>6. ~Resolved(x) /\ ~Resolved(x)' /\ ~Sealing(x) /\ ~Sealing(x)'
  BY <1>3 DEF Resolved, Sealing
<1>7. Lists' = Lists /\ KeptLists /\ \A t \in Tasks : ListOK(t)'
  BY <1>1, <1>3, ListsKept
<1>8. \A t : KeptPlaces(t)
  BY <1>5, <1>6, <1>7, MovesPlaces
<1>9. Submitted(c)'
  BY <1>1, <1>3 DEF Submitted
<1>10. ASSUME NEW t \in Tasks \ {c} PROVE Submitted(t)' <=> Submitted(t)
  <2>1. ~Submits(Prog[x][op[x]], t)
    BY DEF Submits
  <2>2. \A y \in Actors \ {x} : op'[y] = op[y]
    BY <1>3 DEF Same
  <2> QED
    BY <1>1, <1>3, <2>1, <2>2, SubmittedKept
<1>11. ASSUME NEW t \in Tasks PROVE
              /\ pc'[t] = "idle" <=> pc[t] = "idle"
              /\ pc'[t] \in {"return", "done"} <=> pc[t] \in {"return", "done"}
  BY <1>3 DEF Same, Actors
<1>12. Beside(x, c)
  <2>1. ASSUME NEW t \in Tasks \ {c} PROVE Untouched(t)
    BY <1>3, <1>11 DEF Untouched
  <2>2. ASSUME NEW t \in Tasks \ {c} PROVE Apart(x, t)
    BY <1>3 DEF Apart, Neutral
  <2> QED
    BY <1>5, <1>10, <2>1, <2>2 DEF Beside
<1>13. TaskOK(c)'
  BY <1>2, <1>4, <1>5, <1>8, <1>9, MadeTask
<1>14. ParentsSeen(c)'
  <2>1. ASSUME NEW i \in DOMAIN After[c] PROVE Seen(c, i)'
    <3>1. After[c] \in Seq(Tasks)
      BY TaskAssumption
    <3>2. i \in Nat /\ i >= 1 /\ After[c] # <<>>
      BY <3>1, ListDomain
    <3>3. pc'[x] = "attach" /\ par'[x] = 1
      BY <3>2 DEF Making
    <3> QED
      BY <1>3, <3>2, <3>3 DEF Seen, Submitting
  <2> QED
    BY <2>1 DEF ParentsSeen, Seen
<1>15. FrameOK(x)'
  <2>0. op'[x] >= 1 /\ op'[x] - 1 = op[x] /\ c \in Tasks
    BY <1>1, <1>3
  <2>1. CASE pc'[x] = "enqueue"
    <3>1. ~Submitting(x)' /\ ret'[x] = "body"
      BY <1>3, <2>1 DEF Submitting
    <3> QED
      BY <1>1, <1>3, <1>6, <2>0, <2>1, <3>1 DEF FrameOK
  <2>2. CASE pc'[x] = "attach"
    <3>1. par'[x] = 1 /\ Prog[x][op[x]].op = "submit_after" /\ Prog[x][op[x]].task = c
      BY <2>2 DEF Making, Submits
    <3>2. InCall(x, "submit_after")'
      BY <1>3, <2>0, <3>1 DEF InCall
    <3>3. Len(After[c]) \in Nat
      BY TaskAssumption, ListDomain
    <3>4. par'[x] \in 1 .. Len(After[c]) + 1
      BY <3>1, <3>3
    <3> QED
      BY <1>1, <1>3, <1>6, <2>0, <2>2, <3>2, <3>4 DEF FrameOK
  <2> QED
    BY <1>3, <2>1, <2>2
<1>16. OthersStay({x})
  BY <1>1, <1>3 DEF OthersStay, FrameInv, FrameOK
<1>17. (\A t \in Tasks : TaskOK(t)') /\ (\A t \in Tasks : ParentsSeen(t)') /\ \A y \in {x} : FrameOK(y)'
  BY <1>7, <1>8, <1>12, <1>13, <1>14, <1>15, BesideTasks, BesideParents
<1> QED
  BY <1>3, <1>7, <1>16, <1>17, MoverInv

LEMMA SubmitInv ==
    ASSUME Inv, Types', NEW x \in Actors, Submit(x)
    PROVE  Inv'
<1>1. Types /\ FrameOK(x) /\ op[x] >= 1 /\ AtCall(x, "submit")
  BY DEF Inv, FrameInv, FrameOK, Submit
<1>2. /\ op[x] \in DOMAIN Prog[x] /\ Prog[x][op[x]].op = "submit" /\ Arg(x) \in Tasks
      /\ Prog[x][op[x]].task = Arg(x) /\ pc[x] = "body"
  BY <1>1, AtCallFacts
<1> PICK c \in Tasks : c = Arg(x)
  BY <1>2
<1>3. Submits(Prog[x][op[x]], c) /\ After[c] = <<>>
  BY <1>2, ProgramAssumption DEF Submits
<1>4. Making(x, c)
  BY <1>1, <1>2, <1>3
     DEF Making, Submit, MakeTask, Begin, GoTo, Same, Types, SharedTypes, FrameTypes
<1> QED
  BY <1>2, <1>3, <1>4, MakingInv

LEMMA SubmitAfterInv ==
    ASSUME Inv, Types', NEW x \in Actors, SubmitAfter(x)
    PROVE  Inv'
<1>1. Types /\ FrameOK(x) /\ op[x] >= 1 /\ AtCall(x, "submit_after")
  BY DEF Inv, FrameInv, FrameOK, SubmitAfter
<1>2. /\ op[x] \in DOMAIN Prog[x] /\ Prog[x][op[x]].op = "submit_after" /\ Arg(x) \in Tasks
      /\ Prog[x][op[x]].task = Arg(x) /\ pc[x] = "body"
  BY <1>1, AtCallFacts
<1> PICK c \in Tasks : c = Arg(x)
  BY <1>2
<1>3. Submits(Prog[x][op[x]], c)
  BY <1>2 DEF Submits
<1>4. Making(x, c)
  BY <1>1, <1>2
     DEF Making, SubmitAfter, InitialDeps, MakeTask, Begin, GoTo, Same, Types, SharedTypes, FrameTypes
<1> QED
  BY <1>2, <1>3, <1>4, MakingInv

\* The first place of a list stops waiting: only its task sees that.
Dropped(L, x, c, A) ==
    /\ \A t \in Tasks \ {c} : Places(L, t, A \cup {x}) = Places(L, t, A)
    /\ Places(L, c, A \cup {x}) = Places(L, c, A) \ {<<x, 1>>}
    /\ <<x, 1>> \in Places(L, c, A)

LEMMA PlacesHead ==
    ASSUME NEW L \in [Tasks -> Seq(Tasks)], NEW x \in Tasks, NEW c \in Tasks, NEW A,
           x \notin A, L[x] # <<>>, Head(L[x]) = c
    PROVE  Dropped(L, x, c, A)
<1>1. L[x] \in Seq(Tasks) /\ 1 \in DOMAIN L[x] /\ L[x][1] = c
  <2>1. L[x] \in Seq(Tasks)
    OBVIOUS
  <2>2. DOMAIN L[x] = 1 .. Len(L[x]) /\ Len(L[x]) \in Nat /\ Len(L[x]) > 0
    BY <2>1, ListDomain, EmptySeq
  <2> QED
    BY <2>1, <2>2
<1>2. ASSUME NEW t, NEW p \in Tasks, NEW i \in Nat
      PROVE  <<p, i>> \in Places(L, t, A \cup {x}) <=>
                <<p, i>> \in Places(L, t, A) /\ ~(p = x /\ i = 1)
  <2>1. /\ <<p, i>> \in Places(L, t, A \cup {x}) <=> IsPlace(L, t, A \cup {x}, p, i)
        /\ <<p, i>> \in Places(L, t, A) <=> IsPlace(L, t, A, p, i)
    BY PlacesMember
  <2> QED
    BY <2>1 DEF IsPlace
<1>3. ASSUME NEW t PROVE <<x, 1>> \in Places(L, t, A) <=> t = c
  BY <1>1, PlacesMember DEF IsPlace
<1>4. ASSUME NEW t \in Tasks \ {c} PROVE Places(L, t, A \cup {x}) = Places(L, t, A)
  <2> DEFINE S == Places(L, t, A \cup {x})
             T == Places(L, t, A)
  <2>1. S \subseteq Tasks \X Nat /\ T \subseteq Tasks \X Nat
    BY PlacesPairs
  <2>2. \A p \in Tasks, i \in Nat : <<p, i>> \in S <=> <<p, i>> \in T
    BY <1>2, <1>3
  <2> HIDE DEF S, T
  <2>3. S = T
    BY <2>1, <2>2, PairExtension
  <2> QED
    BY <2>3 DEF S, T
<1>5. Places(L, c, A \cup {x}) = Places(L, c, A) \ {<<x, 1>>}
  <2> DEFINE S == Places(L, c, A \cup {x})
             T == Places(L, c, A) \ {<<x, 1>>}
  <2>1. S \subseteq Tasks \X Nat /\ T \subseteq Tasks \X Nat
    BY PlacesPairs
  <2>2. \A p \in Tasks, i \in Nat : <<p, i>> \in S <=> <<p, i>> \in T
    BY <1>2
  <2> HIDE DEF S, T
  <2>3. S = T
    BY <2>1, <2>2, PairExtension
  <2> QED
    BY <2>3 DEF S, T
<1> QED
  BY <1>3, <1>4, <1>5 DEF Dropped

\* In execute() the list of x is the one it has taken over.
LEMMA ExecuteList ==
    ASSUME Inv, NEW x \in Actors, pc[x] \in {"conts", "relcont"}, local[x] # <<>>
    PROVE  /\ x \in Tasks /\ x \in sealed /\ conts[x] = <<>> /\ Lists[x] = local[x]
           /\ local[x] \in Seq(Tasks) /\ Head(local[x]) \in Tasks
<1>1. Types /\ FrameInv /\ FrameOK(x)
  BY DEF Inv, FrameInv
<1>2. x \in Tasks
  BY <1>1, CurTask
<1>3. Sealing(x)
  BY DEF Sealing, Resolved
<1>4. x \in sealed /\ conts[x] = <<>>
  BY <1>1, <1>2, <1>3 DEF FrameInv, FrameOK, ListOK
<1>5. local[x] \in Seq(Tasks)
  BY <1>1 DEF Types, FrameTypes
<1>6. Lists[x] = local[x]
  BY <1>1, <1>2, <1>4, <1>5, ListsType, ConcatOne
<1>7. Head(local[x]) \in Tasks
  BY <1>5, HeadTailProperties
<1> QED
  BY <1>2, <1>4, <1>5, <1>6, <1>7

\* deps_ and the places that wait go down together, or stay together.
LEMMA DepsShift ==
    ASSUME Inv, NEW t \in Tasks, KeptSubmitters(t), NEW d \in Nat,
           deps'[t] = deps[t] - d,
           Cardinality(Waiting(t)) \in Nat, Cardinality(Waiting(t)') = Cardinality(Waiting(t)) - d
    PROVE  DepsExact(t)'
<1>1. DepsExact(t) /\ Types
  BY DEF Inv, TaskOK
<1>2. ASSUME NEW y \in Actors, (Submitting(y) /\ cur[y] = t)'
      PROVE  deps'[t] = Cardinality(Waiting(t)') + Rest(y)'
  <2>1. Submitting(y) /\ cur[y] = t /\ Rest(y)' = Rest(y)
    BY <1>2 DEF KeptSubmitters
  <2>2. deps[t] = Cardinality(Waiting(t)) + Rest(y)
    BY <1>1, <2>1 DEF DepsExact
  <2>3. Rest(y) \in Nat
    BY <1>1, <2>1, RestInt DEF Inv, FrameInv
  <2> QED
    BY <2>1, <2>2, <2>3
<1>3. ASSUME \A y \in Actors : Submitting(y)' => cur'[y] # t
      PROVE  deps'[t] = Cardinality(Waiting(t)')
  <2>1. \A y \in Actors : Submitting(y) => cur[y] # t
    BY <1>3 DEF KeptSubmitters
  <2> QED
    BY <1>1, <2>1 DEF DepsExact
<1> QED
  BY <1>2, <1>3 DEF DepsExact

\* A place that waits has a task with dependencies, which has not started.
LEMMA WaitingFacts ==
    ASSUME Inv, NEW c \in Tasks, NEW z \in Waiting(c)
    PROVE  /\ Submitted(c) /\ pc[c] = "idle" /\ deps[c] \in Nat /\ deps[c] >= 1
           /\ queued[c] = 0 /\ Enqueuers(c) = {}
           /\ IsFiniteSet(Waiting(c)) /\ Cardinality(Waiting(c)) \in Nat
<1>1. Types /\ ReadyOnce(c) /\ RefsExact(c) /\ DepsExact(c)
  BY DEF Inv, TaskOK
<1>2. Submitted(c)
  BY FreshFacts
<1>3. IsFiniteSet(Waiting(c)) /\ Cardinality(Waiting(c)) \in Nat /\ Cardinality(Waiting(c)) # 0
  BY <1>1, WaitingFinite, CardNat DEF RefsExact
<1>4. deps[c] \in Nat /\ deps[c] >= 1
  <2>1. CASE \E y \in Actors : Submitting(y) /\ cur[y] = c
    BY <2>1, SubmittingFacts
  <2>2. CASE \A y \in Actors : Submitting(y) => cur[y] # c
    BY <1>1, <1>3, <2>2 DEF DepsExact
  <2> QED
    BY <2>1, <2>2
<1>5. deps[c] # 0
  BY <1>4
<1>6. pc[c] = "idle"
  BY <1>1, <1>5 DEF ReadyOnce
<1>7. queued[c] \in Nat /\ IsFiniteSet(Enqueuers(c)) /\ queued[c] + Cardinality(Enqueuers(c)) = 0
  BY <1>1, <1>2, <1>5 DEF ReadyOnce, One, Types, SharedTypes
<1>8. queued[c] = 0 /\ Enqueuers(c) = {}
  BY <1>7, CardNat
<1> QED
  BY <1>2, <1>3, <1>4, <1>6, <1>8

\* The first continuation stops waiting for x.
LEMMA ResolvePlaces ==
    ASSUME Inv, NEW x \in Tasks, NEW c \in Tasks, Lists' = Lists,
           Lists[x] # <<>>, Head(Lists[x]) = c, ~Resolved(x), Resolved(x)',
           \A p \in Tasks \ {x} : Resolved(p)' <=> Resolved(p)
    PROVE  /\ \A t \in Tasks \ {c} : KeptPlaces(t)
           /\ Held(c)' = Held(c)
           /\ Waiting(c)' = Waiting(c) \ {<<x, 1>>} /\ <<x, 1>> \in Waiting(c)
<1>1. Lists \in [Tasks -> Seq(Tasks)]
  BY ListsType DEF Inv
<1> DEFINE S == {p \in Tasks : Resolved(p)}
<1>2. S' = S \cup {x} /\ x \notin S
  OBVIOUS
<1>3. /\ \A t : Held(t) = Places(Lists, t, {}) /\ Held(t)' = Places(Lists, t, {})
      /\ \A t : Waiting(t) = Places(Lists, t, S) /\ Waiting(t)' = Places(Lists, t, S \cup {x})
  BY <1>2 DEF Held, Waiting
<1> PICK A : A = S
  OBVIOUS
<1> PICK L \in [Tasks -> Seq(Tasks)] : L = Lists
  BY <1>1
<1>4. Dropped(L, x, c, A)
  BY <1>2, PlacesHead
<1>5. /\ \A t : Held(t)' = Held(t)
      /\ \A t : Waiting(t) = Places(L, t, A) /\ Waiting(t)' = Places(L, t, A \cup {x})
  BY <1>3
<1> QED
  BY <1>4, <1>5 DEF Dropped, KeptPlaces

LEMMA ResolveContInv ==
    ASSUME Inv, Types', NEW x \in Actors, ResolveCont(x)
    PROVE  Inv'
<1>1. Types /\ FrameInv /\ FrameOK(x) /\ pc[x] = "conts" /\ local[x] # <<>>
  BY DEF Inv, FrameInv, ResolveCont
<1>2. /\ x \in Tasks /\ x \in sealed /\ Lists[x] = local[x] /\ Head(local[x]) \in Tasks
  BY <1>1, ExecuteList
<1> PICK c \in Tasks : c = Head(local[x])
  BY <1>2
<1>3. /\ deps'[c] = deps[c] - 1 /\ \A t \in Tasks \ {c} : deps'[t] = deps[t]
      /\ \A y \in Actors \ {x} : Same(y)
      /\ cur'[x] = c
      /\ pc'[x] = IF deps[c] = 1 THEN "enqueue" ELSE "relcont"
      /\ deps[c] = 1 => ret'[x] = "relcont"
      /\ UNCHANGED <<refs, queued, sealed, completed, conts, freed, handle, op, par, local>>
  <2>1. /\ cur' = [cur EXCEPT ![x] = c] /\ cur'[x] = c
        /\ UNCHANGED <<refs, queued, sealed, completed, conts, freed, handle, op, par, local>>
    BY <1>1 DEF ResolveCont, shared, Types, FrameTypes
  <2>2. deps' = [deps EXCEPT ![c] = @ - 1]
    BY <2>1 DEF ResolveCont, Resolve
  <2>3. deps[c] = 1 => pc' = [pc EXCEPT ![x] = "enqueue"] /\ ret' = [ret EXCEPT ![x] = "relcont"]
    BY <2>1 DEF ResolveCont, Resolve, GoTo, LastDep
  <2>4. deps[c] # 1 => pc' = [pc EXCEPT ![x] = "relcont"] /\ ret' = ret
    BY <2>1 DEF ResolveCont, Resolve, GoTo, LastDep
  <2> QED
    BY <1>1, <2>1, <2>2, <2>3, <2>4, SMTT(40) DEF Same, Types, SharedTypes, FrameTypes
<1>4. Moves(x)
  BY <1>3 DEF Moves
<1>5. Lists' = Lists /\ KeptLists /\ \A t \in Tasks : ListOK(t)'
  BY <1>1, <1>3, ListsKept
<1>6. /\ ~Attaching(x)' /\ ~Attaching(x) /\ ~Submitting(x)' /\ ~Submitting(x)
      /\ ~Resolved(x) /\ Resolved(x)' /\ Sealing(x)' /\ pc[x] \in Neutral
  BY <1>1, <1>3 DEF Attaching, Submitting, Resolved, Sealing, Neutral
<1>7. /\ \A t \in Tasks \ {c} : KeptPlaces(t)
      /\ Held(c)' = Held(c)
      /\ Waiting(c)' = Waiting(c) \ {<<x, 1>>} /\ <<x, 1>> \in Waiting(c)
  <2>1. \A p \in Tasks \ {x} : Resolved(p)' <=> Resolved(p)
    BY <1>4, OneMoves DEF Actors
  <2>2. Lists[x] # <<>> /\ Head(Lists[x]) = c
    BY <1>1, <1>2
  <2> QED
    BY <1>2, <1>5, <1>6, <2>1, <2>2, ResolvePlaces
<1>8. /\ Submitted(c) /\ pc[c] = "idle" /\ deps[c] \in Nat /\ deps[c] >= 1
      /\ queued[c] = 0 /\ Enqueuers(c) = {}
      /\ IsFiniteSet(Waiting(c)) /\ Cardinality(Waiting(c)) \in Nat
  BY <1>7, WaitingFacts
<1>9. \A t : Submitted(t)' <=> Submitted(t)
  BY <1>3 DEF Submitted
<1>10. \A t \in Tasks : /\ pc'[t] = "idle" <=> pc[t] = "idle"
                        /\ pc'[t] \in {"return", "done"} <=> pc[t] \in {"return", "done"}
  BY <1>1, <1>3 DEF Same, Actors
<1>11. Beside(x, c)
  BY <1>3, <1>4, <1>6, <1>9, <1>10 DEF Beside, Apart, Untouched
<1>12. KeptSubmitters(c)
  BY <1>4, <1>6, StillSubmitting
<1>13. TaskOK(c)'
  <2>1. ReadyOnce(c) /\ RefsExact(c)
    BY DEF Inv, TaskOK
  <2>2. Fresh(c)'
    BY <1>8, <1>9 DEF Fresh
  <2>3. ReadyOnce(c)'
    <3>1. /\ IsFiniteSet(Enqueuers(c)')
          /\ Cardinality(Enqueuers(c)') = Cardinality(Enqueuers(c))
                + One(pc'[x] = "enqueue") - One(pc[x] = "enqueue")
      BY <1>3, <1>4, <1>6, <2>1, MineEnqueuers DEF ReadyOnce
    <3>2. Cardinality(Enqueuers(c)') = One(deps[c] = 1)
      <4>1. Cardinality(Enqueuers(c)) = 0
        BY <1>8, FS_EmptySet
      <4>2. One(pc[x] = "enqueue") = 0 /\ One(pc'[x] = "enqueue") = One(deps[c] = 1)
        BY <1>1, <1>3 DEF One
      <4> QED
        BY <3>1, <4>1, <4>2 DEF One
    <3>3. deps'[c] = 0 <=> deps[c] = 1
      BY <1>3, <1>8
    <3>4. pc'[c] = "idle" /\ queued'[c] = 0
      BY <1>3, <1>8, <1>10
    <3> QED
      BY <3>1, <3>2, <3>3, <3>4 DEF ReadyOnce, One
  <2>4. DepsExact(c)'
    <3>1. Cardinality(Waiting(c)') = Cardinality(Waiting(c)) - 1
      BY <1>7, <1>8, RemoveOne
    <3> QED
      BY <1>3, <1>8, <1>12, <3>1, DepsShift
  <2>5. RefsExact(c)'
    <3>1. Attachers(c)' = Attachers(c)
      BY <1>4, <1>6, AttachersKept
    <3> QED
      BY <1>3, <1>7, <1>9, <1>10, <2>1, <3>1, RefsKept
  <2> QED
    BY <2>2, <2>3, <2>4, <2>5 DEF TaskOK
<1>14. ParentsSeen(c)'
  BY <1>5, <1>9, <1>12, ParentsKept DEF Inv
<1>15. FrameOK(x)'
  <2>1. pc'[x] = "enqueue" => ret'[x] = "relcont"
    BY <1>3
  <2>2. x \notin Clients
    BY <1>2, TaskAssumption
  <2> QED
    BY <1>1, <1>2, <1>3, <1>6, <2>1, <2>2 DEF FrameOK
<1>16. OthersStay({x})
  BY <1>1, <1>3 DEF OthersStay, FrameInv, FrameOK
<1>17. (\A t \in Tasks : TaskOK(t)') /\ (\A t \in Tasks : ParentsSeen(t)') /\ \A y \in {x} : FrameOK(y)'
  BY <1>5, <1>7, <1>11, <1>13, <1>14, <1>15, BesideTasks, BesideParents
<1> QED
  BY <1>3, <1>5, <1>16, <1>17, MoverInv

\* The list of x loses its head, which x had resolved.
LEMMA ReleasePlaces ==
    ASSUME Inv, Types', NEW x \in Tasks, NEW c \in Tasks, conts' = conts, conts[x] = <<>>,
           local[x] # <<>>, Head(local[x]) = c, local'[x] = Tail(local[x]),
           \A y \in Actors \ {x} : local'[y] = local[y], Resolved(x), ~Resolved(x)',
           \A p \in Tasks \ {x} : Resolved(p)' <=> Resolved(p)
    PROVE  /\ \A t \in Tasks :
                 /\ IsFiniteSet(Held(t)')
                 /\ Cardinality(Held(t)') = Cardinality(Held(t)) - One(t = c)
                 /\ Cardinality(Held(t)) \in Nat
                 /\ Cardinality(Waiting(t)') = Cardinality(Waiting(t))
                 /\ Cardinality(Waiting(t)) \in Nat
<1>1. /\ Types /\ local[x] \in Seq(Tasks) /\ local'[x] \in Seq(Tasks)
      /\ \A t \in Tasks : IsFiniteSet(Held(t))
  BY DEF Inv, TaskOK, RefsExact, Types, FrameTypes, Actors
<1>2. /\ Lists \in [Tasks -> Seq(Tasks)] /\ Lists' \in [Tasks -> Seq(Tasks)]
      /\ \A p \in Tasks : Lists[p] = conts[p] \o local[p] /\ Lists'[p] = conts'[p] \o local'[p]
  BY <1>1, ListsType, ListsTypeNext
<1>3. Lists[x] = local[x] /\ Lists'[x] = local'[x]
  BY <1>1, <1>2, ConcatOne, ZenonT(60)
<1>4. ASSUME NEW p \in Tasks \ {x} PROVE Lists'[p] = Lists[p]
  <2>1. local'[p] = local[p]
    BY DEF Actors
  <2> QED
    BY <1>2, <2>1
<1>5. Shrunk(Lists, Lists', x)
  BY <1>3, <1>4 DEF Shrunk
<1> DEFINE S == {p \in Tasks : Resolved(p)}
<1>6. S = S' \cup {x} /\ x \notin S'
  OBVIOUS
<1>7. /\ \A t : Held(t) = Places(Lists, t, {}) /\ Held(t)' = Places(Lists', t, {})
      /\ \A t : Waiting(t) = Places(Lists, t, S' \cup {x}) /\ Waiting(t)' = Places(Lists', t, S')
  BY <1>6 DEF Held, Waiting
<1> PICK A : A = S'
  OBVIOUS
<1> PICK L \in [Tasks -> Seq(Tasks)] : L = Lists
  BY <1>2
<1> PICK M \in [Tasks -> Seq(Tasks)] : M = Lists'
  BY <1>2
<1>8. /\ \A t : Held(t) = Places(L, t, {}) /\ Held(t)' = Places(M, t, {})
      /\ \A t : Waiting(t) = Places(L, t, A \cup {x}) /\ Waiting(t)' = Places(M, t, A)
      /\ Shrunk(L, M, x) /\ L[x] # <<>> /\ Head(L[x]) = c /\ x \notin A
  BY <1>3, <1>5, <1>6, <1>7
<1> HIDE DEF S
<1>9. Dropped(L, x, c, {})
  BY <1>8, PlacesHead
<1> SUFFICES ASSUME NEW t \in Tasks
             PROVE  /\ IsFiniteSet(Held(t)')
                    /\ Cardinality(Held(t)') = Cardinality(Held(t)) - One(t = c)
                    /\ Cardinality(Held(t)) \in Nat
                    /\ Cardinality(Waiting(t)') = Cardinality(Waiting(t))
                    /\ Cardinality(Waiting(t)) \in Nat
  OBVIOUS
<1>10. /\ IsFiniteSet(Held(t)) /\ Cardinality(Held(t)) \in Nat
       /\ IsFiniteSet(Waiting(t)) /\ Cardinality(Waiting(t)) \in Nat
  BY <1>1, WaitingFinite, CardNat
<1>11. AsMany(L, M, t, A, A \cup {x})
  <2>1. IsFiniteSet(Places(L, t, A \cup {x}))
    BY <1>8, <1>10
  <2> QED
    BY <1>8, <2>1, PlacesTail
<1>12. /\ IsFiniteSet(Places(L, t, {} \cup {x}))
       /\ Cardinality(Places(L, t, {} \cup {x})) = Cardinality(Held(t)) - One(t = c)
  <2>1. CASE t = c
    <3>1. Places(L, t, {} \cup {x}) = Held(t) \ {<<x, 1>>} /\ <<x, 1>> \in Held(t)
      BY <1>8, <1>9, <2>1 DEF Dropped
    <3>2. /\ IsFiniteSet(Held(t) \ {<<x, 1>>})
          /\ Cardinality(Held(t) \ {<<x, 1>>}) = Cardinality(Held(t)) - 1
      BY <1>10, <3>1, RemoveOne
    <3> QED
      BY <2>1, <3>1, <3>2 DEF One
  <2>2. CASE t # c
    <3>1. Places(L, t, {} \cup {x}) = Held(t)
      BY <1>8, <1>9, <2>2 DEF Dropped
    <3> QED
      BY <1>10, <2>2, <3>1 DEF One
  <2> QED
    BY <2>1, <2>2
<1>13. AsMany(L, M, t, {}, {} \cup {x})
  BY <1>8, <1>12, PlacesTail
<1> QED
  BY <1>8, <1>10, <1>11, <1>12, <1>13 DEF AsMany

\* execute() lets go of a continuation that it has resolved.
LEMMA ReleaseContInv ==
    ASSUME Inv, Types', NEW x \in Actors, ReleaseCont(x)
    PROVE  Inv'
<1>1. Types /\ FrameInv /\ FrameOK(x) /\ pc[x] = "relcont"
  BY DEF Inv, FrameInv, ReleaseCont
<1>2. Resolved(x) /\ local[x] # <<>> /\ cur[x] = Head(local[x])
  BY <1>1 DEF Resolved, FrameOK
<1>3. x \in Tasks /\ x \in sealed /\ conts[x] = <<>> /\ Lists[x] = local[x] /\ Head(local[x]) \in Tasks
  BY <1>1, <1>2, ExecuteList
<1> PICK c \in Tasks : c = cur[x]
  BY <1>2, <1>3
<1>4. /\ ReleaseRef(c) /\ pc'[x] = "conts" /\ local'[x] = Tail(local[x])
      /\ \A y \in Actors \ {x} : Same(y)
      /\ UNCHANGED <<deps, queued, sealed, completed, conts, handle, op, cur, par, ret>>
  BY <1>1 DEF ReleaseCont, GoTo, Same, shared, Types, FrameTypes
<1>5. Moves(x)
  BY <1>4 DEF Moves
<1>6. /\ ~Attaching(x)' /\ ~Attaching(x) /\ ~Submitting(x)' /\ ~Submitting(x)
      /\ ~Resolved(x)' /\ Sealing(x)'
  BY <1>1, <1>4 DEF Attaching, Submitting, Resolved, Sealing
<1>7. \A t \in Tasks :
         /\ IsFiniteSet(Held(t)')
         /\ Cardinality(Held(t)') = Cardinality(Held(t)) - One(t = c)
         /\ Cardinality(Held(t)) \in Nat
         /\ Cardinality(Waiting(t)') = Cardinality(Waiting(t))
         /\ Cardinality(Waiting(t)) \in Nat
  <2>1. \A p \in Tasks \ {x} : Resolved(p)' <=> Resolved(p)
    BY <1>5, OneMoves DEF Actors
  <2>2. \A y \in Actors \ {x} : local'[y] = local[y]
    BY <1>4 DEF Same
  <2> QED
    BY <1>2, <1>3, <1>4, <1>6, <2>1, <2>2, ReleasePlaces
<1>8. \A t : Submitted(t)' <=> Submitted(t)
  BY <1>4 DEF Submitted
<1>9. \A t \in Tasks : /\ pc'[t] = "idle" <=> pc[t] = "idle"
                       /\ pc'[t] \in {"return", "done"} <=> pc[t] \in {"return", "done"}
  BY <1>1, <1>4 DEF Same, Actors
<1>10. KeptLists /\ \A t \in Tasks : ListOK(t)'
  <2>1. \A t \in Tasks \ {x} : local'[t] = local[t]
    BY <1>4 DEF Same, Actors
  <2>2. \A t \in Tasks : ListOK(t)'
    BY <1>1, <1>3, <1>4, <2>1 DEF FrameInv, ListOK
  <2> QED
    BY <1>4, <2>2 DEF KeptLists
<1>11. ASSUME NEW t \in Tasks PROVE TaskOK(t)' /\ ParentsSeen(t)'
  <2>1. Fresh(t) /\ ReadyOnce(t) /\ RefsExact(t) /\ DepsExact(t) /\ ParentsSeen(t)
    BY DEF Inv, TaskOK
  <2>2. /\ Enqueuers(t)' = Enqueuers(t) /\ Attachers(t)' = Attachers(t) /\ KeptSubmitters(t)
    BY <1>1, <1>4, <1>5, <1>6, EnqueuersKept, AttachersKept, StillSubmitting
  <2>3. ReadyOnce(t)'
    BY <1>4, <1>8, <1>9, <2>1, <2>2, ReadyKept
  <2>4. DepsExact(t)'
    <3>1. deps'[t] = deps[t] - 0 /\ Cardinality(Waiting(t)') = Cardinality(Waiting(t)) - 0
      BY <1>1, <1>4, <1>7 DEF Types, SharedTypes
    <3> QED
      BY <1>7, <2>2, <3>1, DepsShift
  <2>5. ParentsSeen(t)'
    BY <1>8, <1>10, <2>1, <2>2, ParentsKept
  <2>6. IsFiniteSet(Attachers(t)') /\ Cardinality(Attachers(t)) \in Nat /\ IsFiniteSet(Held(t)')
    BY <1>7, <2>1, <2>2, CardNat DEF RefsExact
  <2>7. CASE t = c
    <3>1. Submitted(c)
      <4>1. Cardinality(Held(c)) # 0
        <5>1. Cardinality(Held(c)') \in Nat
          BY <2>6, <2>7, CardNat
        <5> QED
          BY <1>7, <5>1 DEF One
      <4>2. Held(c) # {}
        BY <4>1, FS_EmptySet
      <4> QED
        BY <4>2, FreshFacts
    <3>2. Holders(c)' = Holders(c) - 1
      <4>1. Cardinality(Held(c)') = Cardinality(Held(c)) - 1 /\ Cardinality(Held(c)) \in Nat
        BY <1>7 DEF One
      <4> QED
        BY <1>4, <1>8, <1>9, <2>2, <2>6, <2>7, <4>1 DEF Holders, One
    <3>3. RefsExact(c)'
      BY <1>1, <1>4, <1>8, <2>1, <2>6, <2>7, <3>1, <3>2, RefsDown
    <3>4. Fresh(c)'
      BY <1>8, <3>1 DEF Fresh
    <3> QED
      BY <2>3, <2>4, <2>5, <2>7, <3>3, <3>4 DEF TaskOK
  <2>8. CASE t # c
    <3>1. refs'[t] = refs[t] /\ (t \in freed' <=> t \in freed)
      BY <1>1, <1>4, <2>8, ReleaseOthers
    <3>2. Fresh(t)'
      BY <1>4, <1>8, <1>9, <2>1, <2>2, <3>1 DEF Fresh
    <3>3. Holders(t)' = Holders(t)
      <4>1. Cardinality(Held(t)') = Cardinality(Held(t))
        BY <1>7, <2>8 DEF One
      <4> QED
        BY <1>4, <1>8, <1>9, <2>2, <4>1 DEF Holders, One
    <3>4. RefsExact(t)'
      BY <1>8, <2>1, <2>6, <3>1, <3>3 DEF RefsExact
    <3> QED
      BY <2>3, <2>4, <2>5, <3>2, <3>4 DEF TaskOK
  <2> QED
    BY <2>7, <2>8
<1>12. FrameOK(x)'
  <2>1. x \notin Clients
    BY <1>3, TaskAssumption
  <2> QED
    BY <1>1, <1>3, <1>4, <1>6, <2>1 DEF FrameOK
<1>13. OthersStay({x})
  BY <1>1, <1>4 DEF OthersStay, FrameInv, FrameOK
<1> QED
  BY <1>4, <1>10, <1>11, <1>12, <1>13, MoverInv

-----------------------------------------------------------------------------
(* The invariant holds *)

LEMMA InitInv ==
    ASSUME Init
    PROVE  Inv
<1>1. SharedTypes
  BY DEF Init, SharedTypes
<1>2. FrameTypes
  <2>1. \A th \in Threads : (IF th \in Clients THEN <<th>> ELSE <<>>) \in Seq(Actors)
    <3>1. \A th \in Clients : <<th>> \in Seq(Actors)
      BY DEF Actors
    <3>2. <<>> \in Seq(Actors)
      OBVIOUS
    <3> QED
      BY <3>1, <3>2
  <2>2. stack \in [Threads -> Seq(Actors)]
    BY <2>1 DEF Init
  <2> QED
    BY <2>2 DEF Init, FrameTypes, PCs
<1>3. /\ \A x \in Actors : /\ pc[x] \in {"body", "idle"} /\ op[x] = 1 /\ local[x] = <<>>
                           /\ x \in Clients => pc[x] = "body"
      /\ \A t \in Tasks : pc[t] = "idle" /\ local[t] = <<>> /\ conts[t] = <<>>
      /\ sealed = {} /\ completed = {}
  BY TaskAssumption DEF Init, Actors
<1>4. \A x \in Actors : ~Submitting(x) /\ ~Resolved(x) /\ ~Sealing(x) /\ ~Attaching(x)
  BY <1>3 DEF Submitting, Resolved, Sealing, Attaching
<1>5. FrameInv
  <2>1. \A x \in Actors : FrameOK(x)
    BY <1>3, <1>4 DEF FrameOK
  <2>2. \A t \in Tasks : ListOK(t)
    BY <1>3 DEF ListOK
  <2> QED
    BY <2>1, <2>2 DEF FrameInv
<1>6. ASSUME NEW t \in Tasks PROVE ~Submitted(t)
  <2>1. ASSUME NEW x \in Actors, NEW i \in DOMAIN Prog[x] PROVE ~(i < op[x])
    <3>1. Prog[x] \in Seq(Calls) /\ op[x] = 1
      BY <1>3, TaskAssumption
    <3>2. i \in 1 .. Len(Prog[x])
      BY <3>1
    <3> QED
      BY <3>1, <3>2
  <2> QED
    BY <2>1 DEF Submitted
<1>7. ASSUME NEW t \in Tasks PROVE Held(t) = {} /\ Waiting(t) = {}
  <2>1. ASSUME NEW p \in Tasks PROVE Lists[p] = <<>>
    BY <1>3, ConcatOne, EmptySeq DEF Lists, Pending
  <2>2. \A p \in Tasks, i \in Nat, A \in {{}, {q \in Tasks : Resolved(q)}} : ~IsPlace(Lists, t, A, p, i)
    BY <2>1 DEF IsPlace
  <2> QED
    BY <2>2 DEF Held, Waiting, Places
<1>8. ASSUME NEW t \in Tasks PROVE TaskOK(t) /\ ParentsSeen(t)
  <2>1. Enqueuers(t) = {} /\ Attachers(t) = {}
    BY <1>3, <1>4 DEF Enqueuers, Attachers
  <2>2. IsFiniteSet({}) /\ Cardinality({}) = 0
    BY FS_EmptySet
  <2>3. /\ refs[t] = 0 /\ deps[t] = 0 /\ queued[t] = 0 /\ t \notin handle /\ t \notin freed
        /\ pc[t] = "idle"
    BY <1>3 DEF Init
  <2>4. Fresh(t) /\ ReadyOnce(t)
    BY <1>6, <2>1, <2>2, <2>3 DEF Fresh, ReadyOnce
  <2>5. RefsExact(t)
    BY <1>6, <1>7, <2>1, <2>2, <2>3 DEF RefsExact, Holders, One
  <2>6. DepsExact(t)
    BY <1>4, <1>7, <2>2, <2>3 DEF DepsExact
  <2> QED
    BY <1>6, <2>4, <2>5, <2>6 DEF TaskOK, ParentsSeen, Seen
<1> QED
  BY <1>1, <1>2, <1>5, <1>8 DEF Inv, Types

LEMMA StutterInv ==
    ASSUME Inv, UNCHANGED vars
    PROVE  Inv'
<1>1. Types /\ FrameInv
  BY DEF Inv
<1>2. Types'
  BY <1>1 DEF vars, Types, SharedTypes, FrameTypes
<1>3. Lists' = Lists /\ KeptLists /\ \A t \in Tasks : ListOK(t)'
  BY <1>1, ListsKept DEF vars
<1>4. Quiet({})
  BY <1>3 DEF vars, Quiet, Same, Submitted
<1>5. OthersStay({})
  BY <1>1 DEF vars, OthersStay, FrameInv, FrameOK
<1>6. \A t \in Tasks : Untouched(t)
  BY DEF vars, Untouched
<1> QED
  BY <1>2, <1>3, <1>4, <1>5, <1>6, QuietInv

LEMMA NextInv ==
    ASSUME Inv, [Next]_vars
    PROVE  Inv'
<1>0. Types /\ FrameInv
  BY DEF Inv
<1>1. ASSUME NEW th \in Threads, NEW x \in Actors, Runs(th, x), ActorStep(th, x)
      PROVE  Inv'
  <2>1. Types'
    BY <1>0, <1>1, TypesActor DEF FrameInv
  <2>2. ASSUME NEW t \in Tasks, HelpTake(th, x, t) PROVE Inv'
    BY <2>1, <2>2, HelpTakeInv
  <2>3. CASE Submit(x) \/ SubmitAfter(x) \/ AddRef(x) \/ Link(x)
    BY <2>1, <2>3, SubmitInv, SubmitAfterInv, AddRefInv, LinkInv
  <2>4. CASE LinkSealed(x) \/ Unlink(x) \/ Sentinel(x) \/ Enqueue(x) \/ EnqueueInline(th, x)
    BY <2>1, <2>4, LinkSealedInv, UnlinkInv, SentinelInv, EnqueueInv, EnqueueInlineInv
  <2>5. CASE WaitNull(x) \/ WaitDone(x) \/ WaitBusy(x) \/ HelpMiss(x) \/ Reset(x) \/ Drop(x)
    BY <2>1, <2>5, WaitNullInv, WaitDoneInv, WaitBusyInv, ResetInv, DropInv
  <2>6. CASE Seal(x) \/ ResolveCont(x) \/ ReleaseCont(x) \/ Complete(x) \/ ReleaseSelf(x)
    BY <2>1, <2>6, SealInv, ResolveContInv, ReleaseContInv, CompleteInv, ReleaseSelfInv
  <2>7. CASE Return(th, x) \/ ClientEnds(th, x)
    BY <2>1, <2>7, ReturnInv
  <2> QED
    BY <1>1, <2>2, <2>3, <2>4, <2>5, <2>6, <2>7 DEF ActorStep
<1>2. ASSUME NEW th \in Workers, NEW t \in Tasks, WorkerTake(th, t) PROVE Inv'
  <2>1. Types'
    BY <1>0, <1>2, TypesWorker
  <2> QED
    BY <1>2, <2>1, WorkerTakeInv
<1>3. CASE UNCHANGED vars
  BY <1>3, StutterInv
<1> QED
  BY <1>1, <1>2, <1>3 DEF Next, ThreadStep

LEMMA SpecInv == Spec => []Inv
  BY InitInv, NextInv, PTL DEF Spec

-----------------------------------------------------------------------------
(* What the invariant says *)

LEMMA InvTypeOK ==
    ASSUME Inv
    PROVE  TypeOK
<1>1. Types
  BY DEF Inv
<1>2. ASSUME NEW t \in Tasks PROVE refs[t] \in Nat /\ deps[t] \in Nat
  <2>1. RefsExact(t) /\ DepsExact(t)
    BY DEF Inv, TaskOK
  <2>2. refs[t] \in Nat
    BY <2>1, HoldersNat DEF RefsExact
  <2>3. Cardinality(Waiting(t)) \in Nat
    BY <2>1, WaitingFinite DEF RefsExact
  <2>4. CASE \E x \in Actors : Submitting(x) /\ cur[x] = t
    BY <2>2, <2>4, SubmittingFacts
  <2>5. CASE \A x \in Actors : Submitting(x) => cur[x] # t
    BY <2>1, <2>2, <2>3, <2>5 DEF DepsExact
  <2> QED
    BY <2>4, <2>5
<1>3. refs \in [Tasks -> Nat] /\ deps \in [Tasks -> Nat]
  BY <1>1, <1>2 DEF Types, SharedTypes
<1> QED
  BY <1>1, <1>3 DEF TypeOK, Types, SharedTypes, FrameTypes

LEMMA InvRunsOnce ==
    ASSUME Inv
    PROVE  RunsOnce
<1> SUFFICES ASSUME NEW t \in Tasks
             PROVE  queued[t] + Cardinality(Enqueuers(t)) <= One(pc[t] = "idle")
  BY DEF RunsOnce
<1>1. Fresh(t) /\ ReadyOnce(t)
  BY DEF Inv, TaskOK
<1>2. CASE Submitted(t)
  BY <1>1, <1>2 DEF ReadyOnce, One
<1>3. CASE ~Submitted(t)
  <2>1. queued[t] = 0 /\ Enqueuers(t) = {}
    BY <1>1, <1>3 DEF Fresh
  <2>2. Cardinality(Enqueuers(t)) = 0
    BY <2>1, FS_EmptySet
  <2> QED
    BY <2>1, <2>2 DEF One
<1> QED
  BY <1>2, <1>3

\* A task has a reference or an activation exactly when it was submitted.
LEMMA MadeSubmitted ==
    ASSUME Inv, NEW t \in Tasks
    PROVE  Made(t) <=> Submitted(t)
<1>1. Fresh(t) /\ RefsExact(t)
  BY DEF Inv, TaskOK
<1>2. ASSUME Submitted(t), pc[t] \notin {"return", "done"} PROVE Made(t)
  <2>1. Holders(t) \in Nat /\ Holders(t) >= 1
    BY <1>1, <1>2, HoldersNat DEF RefsExact
  <2> QED
    BY <1>1, <2>1 DEF RefsExact, Made
<1>3. ASSUME ~Submitted(t) PROVE ~Made(t)
  BY <1>1, <1>3 DEF Fresh, Made
<1> QED
  BY <1>2, <1>3 DEF Made

LEMMA HeldPlaces ==
    ASSUME Types, NEW t \in Tasks
    PROVE  Held(t) = ContPlaces(t)
<1>1. Lists \in [Tasks -> Seq(Tasks)] /\ \A p \in Tasks : Lists[p] = Pending(p)
  BY ListsType DEF Pending
<1>2. \A p \in Tasks : DOMAIN Pending(p) \subseteq Nat
  <2>1. \A p \in Tasks : Pending(p) \in Seq(Tasks)
    BY <1>1
  <2> QED
    BY <2>1
<1> DEFINE S == Held(t)
           T == ContPlaces(t)
<1>3. S \subseteq Tasks \X Nat /\ T \subseteq Tasks \X Nat
  <2>1. S \subseteq Tasks \X Nat
    BY PlacesPairs DEF Held
  <2>2. T \subseteq Tasks \X Nat
    BY <1>2 DEF ContPlaces
  <2> QED
    BY <2>1, <2>2
<1>4. ASSUME NEW p \in Tasks, NEW i \in Nat PROVE <<p, i>> \in S <=> <<p, i>> \in T
  <2>1. <<p, i>> \in S <=> i \in DOMAIN Pending(p) /\ Pending(p)[i] = t
    BY <1>1, PlacesMember DEF Held, IsPlace
  <2>2. <<p, i>> \in T <=> i \in DOMAIN Pending(p) /\ Pending(p)[i] = t
    BY DEF ContPlaces
  <2> QED
    BY <2>1, <2>2
<1> HIDE DEF S, T
<1>5. S = T
  BY <1>3, <1>4, PairExtension
<1> QED
  BY <1>5 DEF S, T

LEMMA InvRefsHeld ==
    ASSUME Inv
    PROVE  RefsHeld
<1> SUFFICES ASSUME NEW t \in Tasks
             PROVE  refs[t] = One(t \in handle)
                              + One(Made(t) /\ pc[t] \notin {"return", "done"})
                              + Cardinality(ContPlaces(t)) + Cardinality(Attachers(t))
  BY DEF RefsHeld
<1>1. refs[t] = Holders(t) /\ Types
  BY DEF Inv, TaskOK, RefsExact
<1>2. Held(t) = ContPlaces(t)
  BY <1>1, HeldPlaces
<1>3. Submitted(t) /\ pc[t] \notin {"return", "done"} <=> Made(t) /\ pc[t] \notin {"return", "done"}
  BY MadeSubmitted
<1> QED
  BY <1>1, <1>2, <1>3 DEF Holders

\* A task without dependencies has parents whose functions have returned.
LEMMA ParentsFirst ==
    ASSUME Inv, NEW t \in Tasks, Submitted(t), deps[t] = 0, NEW i \in DOMAIN After[t]
    PROVE  After[t][i] \in sealed
<1>1. Types /\ ParentsSeen(t)
  BY DEF Inv
<1>2. \A z : z \notin Waiting(t)
  BY WaitingFacts
<1>3. \A x \in Actors : ~(Submitting(x) /\ cur[x] = t)
  BY SubmittingFacts
<1>4. After[t][i] \in Tasks
  <2>1. After[t] \in Seq(Tasks)
    BY TaskAssumption
  <2> QED
    BY <2>1
<1> PICK p \in Tasks : p = After[t][i]
  BY <1>4
<1>5. ASSUME NEW m \in DOMAIN conts[p], conts[p][m] = t, p \notin sealed PROVE FALSE
  <2>1. local[p] = <<>> /\ ~Resolved(p) /\ conts[p] \in Seq(Tasks)
    BY <1>1, <1>5 DEF Inv, FrameInv, ListOK, FrameOK, Sealing, Actors, Types, SharedTypes
  <2>2. Lists[p] = conts[p]
    BY <1>1, <2>1, ListsType, ConcatOne
  <2>3. m \in Nat
    BY <2>1
  <2>4. IsPlace(Lists, t, {q \in Tasks : Resolved(q)}, p, m)
    BY <1>5, <2>1, <2>2 DEF IsPlace
  <2>5. <<p, m>> \in Waiting(t)
    BY <2>3, <2>4, PlacesMember DEF Waiting
  <2> QED
    BY <1>2, <2>5
<1> QED
  BY <1>1, <1>3, <1>5 DEF ParentsSeen, Seen

LEMMA SealedClosed ==
    ASSUME Inv
    PROVE  Closed(sealed) /\ sealed \in SUBSET Tasks
<1>1. \A t \in sealed : t \in Tasks /\ pc[t] # "idle"
  BY DEF Inv, Types, SharedTypes, FrameInv, FrameOK, Sealing, Resolved, Actors
<1>2. \A t \in sealed : Submitted(t) /\ deps[t] = 0
  BY <1>1 DEF Inv, TaskOK, Fresh, ReadyOnce
<1> QED
  BY <1>1, <1>2, ParentsFirst DEF Closed

LEMMA InvWaitSeesGraph ==
    ASSUME Inv
    PROVE  WaitSeesGraph
<1> SUFFICES ASSUME NEW x \in Actors, pc[x] = "reset"
             PROVE  Ancestors(cur[x]) \subseteq sealed
  BY DEF WaitSeesGraph
<1>1. cur[x] \in completed /\ cur[x] \in Tasks
  BY DEF Inv, FrameInv, FrameOK, Types, SharedTypes
<1>2. cur[x] \in sealed
  BY <1>1 DEF Inv, FrameInv, ListOK
<1> QED
  BY <1>2, SealedClosed DEF Ancestors

-----------------------------------------------------------------------------
(* Theorems *)

\* Every variable has its type: deps_ and refs_ never go below zero.
THEOREM TaskTypes == Spec => []TypeOK
  BY SpecInv, InvTypeOK, PTL

\* enqueue_ready is called once for a task, by submit, by submit_after or by
\* the last parent that execute() lets go of, and not after the task began.
THEOREM TasksRunOnce == Spec => []RunsOnce
  BY SpecInv, InvRunsOnce, PTL

\* refs_ is the number of handles, executions and places that hold the task.
THEOREM ReferencesExact == Spec => []RefsHeld
  BY SpecInv, InvRefsHeld, PTL

\* When a wait finds completed_ set, all the ancestors of the task have run.
THEOREM WaitsSeeGraphs == Spec => []WaitSeesGraph
  BY SpecInv, InvWaitSeesGraph, PTL

-----------------------------------------------------------------------------
(* The task graph *)

\* What makes the status of a task a function of how far it has come.
Settled ==
    \A t \in Tasks :
       /\ Made(t) <=> Submitted(t)
       /\ t \in freed => t \in sealed
       /\ t \in sealed => pc[t] # "idle"
       /\ pc[t] # "idle" => Submitted(t)

LEMMA InvSettled ==
    ASSUME Inv
    PROVE  Settled
<1> SUFFICES ASSUME NEW t \in Tasks
             PROVE  /\ Made(t) <=> Submitted(t)
                    /\ t \in freed => t \in sealed
                    /\ t \in sealed => pc[t] # "idle"
                    /\ pc[t] # "idle" => Submitted(t)
  BY DEF Settled
<1>1. Fresh(t) /\ RefsExact(t) /\ FrameOK(t)
  BY DEF Inv, TaskOK, FrameInv, Actors
<1>2. t \in sealed <=> Sealing(t)
  BY <1>1 DEF FrameOK
<1>3. ASSUME t \in freed PROVE t \in sealed
  <2>1. Submitted(t) /\ Holders(t) = 0
    BY <1>1, <1>3 DEF RefsExact
  <2>2. pc[t] \in {"return", "done"}
    BY <1>1, <2>1, HoldersNat DEF RefsExact
  <2> QED
    BY <1>2, <2>2 DEF Sealing
<1>4. t \in sealed => pc[t] # "idle"
  BY <1>2 DEF Sealing, Resolved
<1> QED
  BY <1>1, <1>3, <1>4, MadeSubmitted DEF Fresh

LEMMA StatusIs ==
    ASSUME Settled, NEW t \in Tasks
    PROVE  /\ t \in freed => statusOf[t] = "reclaimed"
           /\ t \in sealed /\ t \notin freed => statusOf[t] = "finished"
           /\ pc[t] # "idle" /\ t \notin sealed => statusOf[t] = "running"
           /\ Submitted(t) /\ pc[t] = "idle" => statusOf[t] = "submitted"
           /\ ~Submitted(t) => statusOf[t] = "unmade"
  BY DEF Settled, statusOf

\* The same of the state after a step.
LEMMA StatusNext ==
    ASSUME Settled', NEW t \in Tasks
    PROVE  /\ t \in freed' => statusOf'[t] = "reclaimed"
           /\ t \in sealed' /\ t \notin freed' => statusOf'[t] = "finished"
           /\ pc'[t] # "idle" /\ t \notin sealed' => statusOf'[t] = "running"
           /\ Submitted(t)' /\ pc'[t] = "idle" => statusOf'[t] = "submitted"
           /\ ~Submitted(t)' => statusOf'[t] = "unmade"
  BY DEF Settled, statusOf

\* The step leaves t where it is.
Stays(t) ==
    /\ t \in freed' <=> t \in freed
    /\ t \in sealed' <=> t \in sealed
    /\ pc'[t] = "idle" <=> pc[t] = "idle"
    /\ Submitted(t)' <=> Submitted(t)

LEMMA StatusStays ==
    ASSUME Settled, Settled', NEW t \in Tasks, Stays(t)
    PROVE  statusOf'[t] = statusOf[t]
<1>1. CASE t \in freed
  BY <1>1, StatusIs, StatusNext DEF Stays
<1>2. CASE t \in sealed /\ t \notin freed
  BY <1>2, StatusIs, StatusNext DEF Stays
<1>3. CASE pc[t] # "idle" /\ t \notin sealed
  BY <1>3, StatusIs, StatusNext DEF Stays
<1>4. CASE Submitted(t) /\ pc[t] = "idle"
  BY <1>4, StatusIs, StatusNext DEF Stays
<1>5. CASE ~Submitted(t)
  BY <1>5, StatusIs, StatusNext DEF Stays
<1> QED
  BY <1>1, <1>2, <1>3, <1>4, <1>5

\* Only c moves, from one status to another.
LEMMA OneStatus ==
    ASSUME Settled, Settled', NEW c \in Tasks, \A t \in Tasks \ {c} : Stays(t),
           NEW from, NEW to, statusOf[c] = from, statusOf'[c] = to
    PROVE  Graph!Step(c, from, to)
<1>1. \A t \in Tasks \ {c} : statusOf'[t] = statusOf[t]
  BY StatusStays
<1>2. statusOf' = [statusOf EXCEPT ![c] = to]
  <2>1. statusOf = [t \in Tasks |-> statusOf[t]] /\ statusOf' = [t \in Tasks |-> statusOf'[t]]
    BY DEF statusOf
  <2> QED
    BY <1>1, <2>1
<1> QED
  BY <1>2 DEF Graph!Step

LEMMA StatusFunction ==
    ASSUME \A t \in Tasks : statusOf'[t] = statusOf[t]
    PROVE  statusOf' = statusOf
<1>1. statusOf = [t \in Tasks |-> statusOf[t]] /\ statusOf' = [t \in Tasks |-> statusOf'[t]]
  BY DEF statusOf
<1> QED
  BY <1>1

\* No task is submitted, starts or finishes; one may be freed.
Settles(c) ==
    /\ sealed' = sealed
    /\ freed' = freed \/ freed' = freed \cup {c}
    /\ \A t \in Tasks : /\ pc'[t] = "idle" <=> pc[t] = "idle"
                        /\ Submitted(t)' <=> Submitted(t)

LEMMA SettlesGraph ==
    ASSUME Settled, Settled', NEW c, Settles(c)
    PROVE  [Graph!Next]_statusOf
<1>1. CASE \A t \in Tasks : t \in freed' <=> t \in freed
  <2>1. \A t \in Tasks : Stays(t)
    BY <1>1 DEF Settles, Stays
  <2> QED
    BY <2>1, StatusStays, StatusFunction
<1>2. CASE c \in Tasks /\ c \in freed' /\ c \notin freed
  <2>1. \A t \in Tasks \ {c} : Stays(t)
    BY DEF Settles, Stays
  <2>2. c \in sealed' /\ c \in sealed
    BY <1>2 DEF Settled, Settles
  <2>3. statusOf[c] = "finished" /\ statusOf'[c] = "reclaimed"
    BY <1>2, <2>2, StatusIs, StatusNext
  <2>4. Graph!Step(c, "finished", "reclaimed")
    BY <1>2, <2>1, <2>3, OneStatus
  <2> QED
    BY <1>2, <2>4 DEF Graph!Next, Graph!Reclaim
<1> QED
  BY <1>1, <1>2 DEF Settles

\* A step of x that leaves sealed alone, between two steps of its function
\* or of execute(), and makes no task.
LEMMA StepSettles ==
    ASSUME Inv, NEW x \in Actors, NEW c, sealed' = sealed,
           freed' = freed \/ freed' = freed \cup {c},
           \A y \in Actors \ {x} : pc'[y] = pc[y] /\ op'[y] = op[y],
           pc[x] # "idle", pc'[x] # "idle",
           \/ op'[x] = op[x]
           \/ op'[x] = op[x] + 1 /\ (AtCall(x, "wait") \/ AtCall(x, "drop"))
    PROVE  Settles(c)
<1>1. Types /\ FrameOK(x)
  BY DEF Inv, FrameInv
<1>2. ASSUME NEW t \in Tasks PROVE Submitted(t)' <=> Submitted(t)
  <2>1. \/ op'[x] = op[x]
        \/ op'[x] = op[x] + 1 /\ (op[x] \in DOMAIN Prog[x] => ~Submits(Prog[x][op[x]], t))
    BY <1>1, NoSubmit
  <2> QED
    BY <1>1, <2>1, SubmittedKept
<1>3. \A t \in Tasks : pc'[t] = "idle" <=> pc[t] = "idle"
  BY DEF Actors
<1> QED
  BY <1>2, <1>3 DEF Settles

\* The steps that move no task from one status to another, or free one.
LEMMA QuietSteps ==
    ASSUME Inv, NEW th, NEW x \in Actors,
           \/ AddRef(x) \/ Link(x) \/ LinkSealed(x) \/ Unlink(x) \/ Sentinel(x) \/ Enqueue(x)
           \/ WaitNull(x) \/ WaitDone(x) \/ WaitBusy(x) \/ HelpMiss(x) \/ Reset(x) \/ Drop(x)
           \/ ResolveCont(x) \/ ReleaseCont(x) \/ Complete(x) \/ ReleaseSelf(x)
           \/ Return(th, x) \/ ClientEnds(th, x)
    PROVE  \E c : Settles(c)
<1>0. /\ Types /\ pc \in [Actors -> PCs] /\ op \in [Actors -> Nat]
      /\ ret[x] \in {"body", "unlink", "relcont"}
  BY DEF Inv, Types, FrameTypes
<1> USE DEF GoTo
<1>1. CASE AddRef(x) \/ Link(x) \/ WaitBusy(x) \/ HelpMiss(x) \/ Complete(x) \/ Return(th, x)
           \/ ClientEnds(th, x)
  <2>1. /\ sealed' = sealed /\ freed' = freed /\ op' = op /\ pc[x] # "idle" /\ pc'[x] # "idle"
        /\ \A y \in Actors \ {x} : pc'[y] = pc[y]
    BY <1>0, <1>1 DEF AddRef, Link, WaitBusy, HelpMiss, Complete, Return, ClientEnds, AtCall,
       BodyEnds, shared
  <2> QED
    BY <2>1, StepSettles
<1>2. CASE LinkSealed(x) \/ Sentinel(x) \/ ResolveCont(x)
  <2>1. /\ sealed' = sealed /\ freed' = freed /\ op' = op /\ pc[x] # "idle"
    BY <1>0, <1>2 DEF LinkSealed, Sentinel, ResolveCont, shared
  <2>2. ASSUME NEW l \in {"unlink", "body", "relcont"}, Resolve(x, l)
        PROVE  pc'[x] # "idle" /\ \A y \in Actors \ {x} : pc'[y] = pc[y]
    BY <1>0, <2>2 DEF Resolve
  <2>3. pc'[x] # "idle" /\ \A y \in Actors \ {x} : pc'[y] = pc[y]
    BY <1>2, <2>2 DEF LinkSealed, Sentinel, ResolveCont
  <2> QED
    BY <2>1, <2>3, StepSettles
<1>3. CASE Enqueue(x)
  <2>1. /\ sealed' = sealed /\ freed' = freed /\ op' = op /\ pc[x] # "idle" /\ pc'[x] # "idle"
        /\ \A y \in Actors \ {x} : pc'[y] = pc[y]
    BY <1>0, <1>3 DEF Enqueue, shared
  <2> QED
    BY <2>1, StepSettles
<1>4. CASE WaitNull(x) \/ WaitDone(x)
  <2>1. /\ sealed' = sealed /\ freed' = freed /\ pc[x] # "idle" /\ pc'[x] # "idle"
        /\ AtCall(x, "wait") /\ op'[x] = op[x] + 1
        /\ \A y \in Actors \ {x} : pc'[y] = pc[y] /\ op'[y] = op[y]
    BY <1>0, <1>4 DEF WaitNull, WaitDone, Begin, AtCall, shared
  <2> QED
    BY <2>1, StepSettles
<1>5. CASE Drop(x)
  <2>1. /\ sealed' = sealed /\ pc[x] # "idle" /\ pc' = pc
        /\ freed' = freed \/ freed' = freed \cup {Arg(x)}
        /\ AtCall(x, "drop") /\ op'[x] = op[x] + 1
        /\ \A y \in Actors \ {x} : op'[y] = op[y]
    BY <1>0, <1>5 DEF Drop, ReleaseRef, AtCall
  <2> QED
    BY <2>1, StepSettles
<1>6. CASE Unlink(x) \/ Reset(x) \/ ReleaseCont(x) \/ ReleaseSelf(x)
  <2>1. /\ sealed' = sealed /\ op' = op /\ pc[x] # "idle" /\ pc'[x] # "idle"
        /\ \A y \in Actors \ {x} : pc'[y] = pc[y]
    BY <1>0, <1>6 DEF Unlink, Reset, ReleaseCont, ReleaseSelf, shared
  <2>2. \E c : freed' = freed \/ freed' = freed \cup {c}
    BY <1>6 DEF Unlink, Reset, ReleaseCont, ReleaseSelf, ReleaseRef
  <2> QED
    BY <2>1, <2>2, StepSettles
<1> QED
  BY <1>1, <1>2, <1>3, <1>4, <1>5, <1>6

\* A task starts when its parents' functions have returned.
LEMMA StartGraph ==
    ASSUME Inv, Settled, Settled', NEW t \in Tasks, Submitted(t), deps[t] = 0, pc[t] = "idle",
           pc'[t] # "idle", UNCHANGED <<sealed, freed, op>>,
           \A u \in Tasks \ {t} : pc'[u] = "idle" <=> pc[u] = "idle"
    PROVE  [Graph!Next]_statusOf
<1>1. \A u \in Tasks \ {t} : Stays(u)
  BY DEF Stays, Submitted
<1>2. t \notin sealed
  BY DEF Settled
<1>3. statusOf[t] = "submitted" /\ statusOf'[t] = "running"
  BY <1>2, StatusIs, StatusNext
<1>4. Graph!Step(t, "submitted", "running")
  BY <1>1, <1>3, OneStatus
<1>5. ASSUME NEW i \in DOMAIN After[t] PROVE Graph!Finished(After[t][i])
  <2>1. After[t][i] \in sealed
    BY ParentsFirst
  <2>2. sealed \subseteq Tasks
    BY DEF Inv, Types, SharedTypes
  <2> QED
    BY <2>1, <2>2, StatusIs DEF Graph!Finished
<1> QED
  BY <1>4, <1>5 DEF Graph!Next, Graph!Start

LEMMA SealGraph ==
    ASSUME Inv, Settled, Settled', NEW x \in Actors, Seal(x)
    PROVE  [Graph!Next]_statusOf
<1>1. /\ x \in Tasks /\ sealed' = sealed \cup {x} /\ UNCHANGED <<freed, op>>
      /\ pc[x] = "body" /\ pc'[x] = "conts" /\ \A y \in Tasks \ {x} : pc'[y] = pc[y]
  BY DEF Seal, BodyEnds, GoTo, Inv, Types, FrameTypes, Actors
<1>2. x \notin sealed
  BY <1>1 DEF Inv, FrameInv, FrameOK, Sealing, Resolved
<1>3. x \notin freed
  BY <1>1, <1>2 DEF Settled
<1>4. \A t \in Tasks \ {x} : Stays(t)
  BY <1>1 DEF Stays, Submitted
<1>5. statusOf[x] = "running" /\ statusOf'[x] = "finished"
  BY <1>1, <1>2, <1>3, StatusIs, StatusNext
<1>6. Graph!Step(x, "running", "finished")
  BY <1>1, <1>4, <1>5, OneStatus
<1> QED
  BY <1>1, <1>6 DEF Graph!Next, Graph!Finish

LEMMA SubmitGraph ==
    ASSUME Inv, Settled, Settled', ParentsExist, NEW x \in Actors, Submit(x) \/ SubmitAfter(x)
    PROVE  [Graph!Next]_statusOf
<1>1. Types /\ FrameOK(x) /\ op[x] >= 1 /\ op[x] \in Nat
  BY DEF Inv, FrameInv, FrameOK, Types, FrameTypes
<1>2. PICK f \in {"submit", "submit_after"} : AtCall(x, f)
  BY DEF Submit, SubmitAfter
<1>3. /\ op[x] \in DOMAIN Prog[x] /\ Prog[x][op[x]].op = f /\ Arg(x) \in Tasks
      /\ Prog[x][op[x]].task = Arg(x) /\ pc[x] = "body"
  BY <1>1, <1>2, AtCallFacts
<1> PICK c \in Tasks : c = Arg(x)
  BY <1>3
<1>4. Submits(Prog[x][op[x]], c)
  BY <1>3 DEF Submits
<1>5. ~Submitted(c)
  BY <1>1, <1>3, <1>4, NewTask
<1>6. /\ UNCHANGED <<sealed, freed>> /\ op'[x] = op[x] + 1 /\ pc'[x] # "idle"
      /\ \A y \in Actors \ {x} : pc'[y] = pc[y] /\ op'[y] = op[y]
  BY <1>1 DEF Submit, SubmitAfter, Begin, GoTo, Types, FrameTypes
<1>7. pc[c] = "idle" /\ pc'[c] = "idle"
  BY <1>3, <1>5, <1>6, FreshFacts DEF Actors
<1>8. Submitted(c)'
  BY <1>1, <1>3, <1>4, <1>6 DEF Submitted
<1>9. ASSUME NEW t \in Tasks \ {c} PROVE Stays(t)
  <2>1. ~Submits(Prog[x][op[x]], t)
    BY <1>3 DEF Submits
  <2>2. Submitted(t)' <=> Submitted(t)
    BY <1>1, <1>6, <2>1, SubmittedKept
  <2>3. pc'[t] = "idle" <=> pc[t] = "idle"
    BY <1>3, <1>6 DEF Actors
  <2> QED
    BY <1>6, <2>2, <2>3 DEF Stays
<1>10. statusOf[c] = "unmade" /\ statusOf'[c] = "submitted"
  BY <1>5, <1>7, <1>8, StatusIs, StatusNext
<1>11. Graph!Step(c, "unmade", "submitted")
  BY <1>9, <1>10, OneStatus
<1>12. ASSUME NEW i \in DOMAIN After[c] PROVE statusOf[After[c][i]] # "unmade"
  <2>1. After[c] \in Seq(Tasks)
    BY TaskAssumption
  <2>2. After[c] # <<>> /\ After[c][i] \in Tasks
    BY <2>1
  <2>3. f = "submit_after"
    BY <1>3, <2>2, ProgramAssumption
  <2>4. Made(After[c][i])
    BY <1>2, <2>3 DEF ParentsExist
  <2>5. Submitted(After[c][i])
    BY <2>2, <2>4 DEF Settled
  <2> PICK p \in Tasks : p = After[c][i]
    BY <2>2
  <2>6. statusOf[p] \in {"reclaimed", "finished", "running", "submitted"}
    BY <2>5, StatusIs
  <2> QED
    BY <2>6
<1> QED
  BY <1>11, <1>12 DEF Graph!Next, Graph!Submit

LEMMA StartSteps ==
    ASSUME Inv, Settled, Settled', NEW th, NEW x \in Actors, NEW t \in Tasks,
           \/ HelpTake(th, x, t)
           \/ WorkerTake(th, t)
           \/ EnqueueInline(th, x) /\ t = cur[x]
    PROVE  [Graph!Next]_statusOf
<1>1. queued[t] > 0 \/ Enqueuers(t) # {}
  BY MoverIn DEF HelpTake, WorkerTake, EnqueueInline
<1>2. Submitted(t) /\ pc[t] = "idle" /\ deps[t] = 0
  BY <1>1, ReadyFacts
<1>3. /\ pc \in [Actors -> PCs] /\ ret[x] \in {"body", "unlink", "relcont"} /\ t \in Actors
  BY DEF Inv, Types, FrameTypes, Actors
<1>4. /\ pc'[t] = "body" /\ UNCHANGED <<sealed, freed, op>>
  BY <1>3 DEF HelpTake, WorkerTake, EnqueueInline, GoTo, shared
<1>5. \A u \in Tasks \ {t} : pc'[u] = "idle" <=> pc[u] = "idle"
  BY <1>3 DEF HelpTake, WorkerTake, EnqueueInline, GoTo, Actors
<1> QED
  BY <1>2, <1>4, <1>5, StartGraph

\* deps_, the sentinel and the sealed lists implement the task graph, for
\* callers that submit a task after tasks that exist.
THEOREM TasksImplementGraph == Spec /\ []ParentsExist => ImplementsTaskGraph
<1>1. Init => Graph!Init
  <2> SUFFICES ASSUME Init PROVE Graph!Init
    OBVIOUS
  <2>1. Inv
    BY InitInv
  <2>2. Settled
    BY <2>1, InvSettled
  <2>3. ASSUME NEW t \in Tasks PROVE statusOf[t] = "unmade"
    <3>1. ~Made(t)
      BY TaskAssumption DEF Init, Made, Actors
    <3> QED
      BY <2>2, <3>1, StatusIs DEF Settled
  <2>4. statusOf = [t \in Tasks |-> statusOf[t]]
    BY DEF statusOf
  <2> QED
    BY <2>3, <2>4 DEF Graph!Init
<1>2. ASSUME Inv, Settled, Settled', ParentsExist, [Next]_vars
      PROVE  [Graph!Next]_statusOf
  <2>1. ASSUME NEW th \in Threads, NEW x \in Actors, ActorStep(th, x)
        PROVE  [Graph!Next]_statusOf
    <3>1. ASSUME NEW t \in Tasks, HelpTake(th, x, t) PROVE [Graph!Next]_statusOf
      BY <1>2, <3>1, StartSteps
    <3>2. CASE EnqueueInline(th, x)
      <4>1. cur[x] \in Tasks
        BY <1>2, <3>2, EnqueueFacts DEF EnqueueInline
      <4> QED
        BY <1>2, <3>2, <4>1, StartSteps
    <3>3. CASE Submit(x) \/ SubmitAfter(x)
      BY <1>2, <3>3, SubmitGraph
    <3>4. CASE Seal(x)
      BY <1>2, <3>4, SealGraph
    <3>5. ASSUME \E c : Settles(c) PROVE [Graph!Next]_statusOf
      BY <1>2, <3>5, SettlesGraph
    <3> QED
      BY <1>2, <2>1, <3>1, <3>2, <3>3, <3>4, <3>5, QuietSteps DEF ActorStep
  <2>2. ASSUME NEW th \in Workers, NEW t \in Tasks, WorkerTake(th, t)
        PROVE  [Graph!Next]_statusOf
    BY <1>2, <2>2, StartSteps DEF Actors
  <2>3. CASE UNCHANGED vars
    BY <2>3 DEF vars, statusOf, Made
  <2> QED
    BY <1>2, <2>1, <2>2, <2>3 DEF Next, ThreadStep
<1>3. Inv => Settled
  BY InvSettled
<1> QED
  BY <1>1, <1>2, <1>3, SpecInv, PTL DEF Spec, ImplementsTaskGraph, Graph!Spec

\* Programs that pass their own handles to submit_after satisfy that.
THEOREM OwnHandlesSuffice == ASSUME OwnHandles PROVE Spec => ImplementsTaskGraph
<1>1. ASSUME Inv PROVE ParentsExist
  <2> SUFFICES ASSUME NEW x \in Actors, AtCall(x, "submit_after"), NEW i \in DOMAIN After[Arg(x)]
               PROVE  Made(After[Arg(x)][i])
    BY DEF ParentsExist
  <2>1. Types /\ op[x] >= 1
    BY <1>1 DEF Inv, FrameInv, FrameOK
  <2>2. /\ op[x] \in DOMAIN Prog[x] /\ Prog[x][op[x]].op = "submit_after"
        /\ Prog[x][op[x]].task = Arg(x) /\ Arg(x) \in Tasks
    BY <2>1, AtCallFacts
  <2>3. Submitted(After[Arg(x)][i])
    BY <2>2 DEF OwnHandles, Submitted
  <2>4. After[Arg(x)] \in Seq(Tasks)
    BY <2>2, TaskAssumption
  <2>5. After[Arg(x)][i] \in Tasks
    BY <2>4
  <2> QED
    BY <1>1, <2>3, <2>5, MadeSubmitted
<1> QED
  BY <1>1, SpecInv, TasksImplementGraph, PTL

-----------------------------------------------------------------------------
(* Leaks *)

LEMMA LeastNumber ==
    ASSUME NEW T, T \subseteq Nat, T # {}
    PROVE  \E n \in T : \A m \in T : n <= m
<1>1. PICK n \in T : \A m \in T : ~(<<m, n>> \in OpToRel(<, Nat))
  BY WFMin, NatLessThanWellFounded
<1>2. \A m \in T : ~(m < n)
  BY <1>1 DEF OpToRel
<1> QED
  BY <1>2

\* y is an activation of some thread.
OnStack(y) == \E th \in Threads : \E i \in 1 .. Len(stack[th]) : stack[th][i] = y

Awake(y) == pc[y] \notin {"idle", "done"}

StackInv == \A y \in Actors : Awake(y) => OnStack(y)

\* The running activation is on a stack; a step without a push or a pop.
LEMMA StackStays ==
    ASSUME StackInv, UNCHANGED stack, NEW x \in Actors, Awake(x),
           \A y \in Actors \ {x} : pc'[y] = pc[y]
    PROVE  StackInv'
  BY DEF StackInv, Awake, OnStack

LEMMA StackPush ==
    ASSUME StackInv, Types, NEW th \in Threads, NEW t \in Actors,
           stack' = [stack EXCEPT ![th] = Append(@, t)],
           \A y \in Actors : Awake(y)' => Awake(y) \/ y = t
    PROVE  StackInv'
<1>1. stack \in [Threads -> Seq(Actors)]
  BY DEF Types, FrameTypes
<1>2. /\ stack'[th] = Append(stack[th], t)
      /\ \A u \in Threads : u # th => stack'[u] = stack[u]
  BY <1>1
<1>3. /\ Len(stack[th]) \in Nat /\ Len(stack'[th]) = Len(stack[th]) + 1
      /\ \A i \in 1 .. Len(stack[th]) : stack'[th][i] = stack[th][i]
      /\ stack'[th][Len(stack[th]) + 1] = t
  <2>1. stack[th] \in Seq(Actors)
    BY <1>1
  <2> QED
    BY <1>2, <2>1, AppendProperties, LenProperties
<1>4. OnStack(t)'
  <2>1. Len(stack[th]) + 1 \in 1 .. Len(stack'[th])
    BY <1>3
  <2> QED
    BY <1>3, <2>1 DEF OnStack
<1>5. ASSUME NEW y, OnStack(y) PROVE OnStack(y)'
  <2>1. PICK u \in Threads : \E i \in 1 .. Len(stack[u]) : stack[u][i] = y
    BY <1>5 DEF OnStack
  <2>2. PICK i \in 1 .. Len(stack[u]) : stack[u][i] = y
    BY <2>1
  <2>3. i \in 1 .. Len(stack'[u]) /\ stack'[u][i] = y
    BY <1>2, <1>3, <2>2
  <2> QED
    BY <2>3 DEF OnStack
<1> QED
  BY <1>4, <1>5 DEF StackInv

LEMMA StackPop ==
    ASSUME StackInv, Types, NEW th \in Threads, NEW x \in Actors, Runs(th, x), Pop(th),
           GoTo(x, "done")
    PROVE  StackInv'
<1>1. stack \in [Threads -> Seq(Actors)] /\ stack[th] \in Seq(Actors) /\ pc \in [Actors -> PCs]
  BY DEF Types, FrameTypes
<1>2. /\ stack'[th] = SubSeq(stack[th], 1, Len(stack[th]) - 1)
      /\ \A u \in Threads : u # th => stack'[u] = stack[u]
  BY <1>1 DEF Pop
<1>3. /\ Len(stack[th]) \in Nat /\ Len(stack[th]) >= 1 /\ stack[th][Len(stack[th])] = x
      /\ \A i \in 1 .. Len(stack[th]) : stack[th][i] \in Actors
  BY <1>1, LenProperties, EmptySeq, ElementOfSeq DEF Runs
<1>4. /\ Len(stack'[th]) = Len(stack[th]) - 1
      /\ \A i \in 1 .. Len(stack[th]) - 1 : stack'[th][i] = stack[th][i]
  <2> DEFINE n == Len(stack[th]) - 1
  <2>1. \A i \in 1 .. n : stack[th][i] \in Actors
    BY <1>3
  <2>2. /\ Len(SubSeq(stack[th], 1, n)) = IF 1 <= n THEN n - 1 + 1 ELSE 0
        /\ \A i \in 1 .. n - 1 + 1 : SubSeq(stack[th], 1, n)[i] = stack[th][1 + i - 1]
    BY <1>1, <1>3, <2>1, SubSeqProperties
  <2> QED
    BY <1>2, <1>3, <2>2
<1>5. pc'[x] = "done" /\ \A y \in Actors \ {x} : pc'[y] = pc[y]
  BY <1>1 DEF GoTo
<1> SUFFICES ASSUME NEW y \in Actors, Awake(y)' PROVE OnStack(y)'
  BY DEF StackInv
<1>6. y # x /\ Awake(y)
  BY <1>5 DEF Awake
<1>7. PICK u \in Threads : \E i \in 1 .. Len(stack[u]) : stack[u][i] = y
  BY <1>6 DEF StackInv, OnStack
<1>8. PICK i \in 1 .. Len(stack[u]) : stack[u][i] = y
  BY <1>7
<1>9. i \in 1 .. Len(stack'[u]) /\ stack'[u][i] = y
  <2>1. CASE u = th
    BY <1>3, <1>4, <1>6, <1>8, <2>1
  <2>2. CASE u # th
    BY <1>2, <1>8, <2>2
  <2> QED
    BY <2>1, <2>2
<1> QED
  BY <1>9 DEF OnStack

LEMMA StackNext ==
    ASSUME StackInv, Inv, [Next]_vars
    PROVE  StackInv'
<1>0. Types /\ pc \in [Actors -> PCs] /\ stack \in [Threads -> Seq(Actors)] /\ Tasks \subseteq Actors
  BY DEF Inv, Types, FrameTypes, Actors
<1>1. ASSUME NEW th \in Threads, NEW x \in Actors, Runs(th, x), ActorStep(th, x)
      PROVE  StackInv'
  <2>1. CASE Return(th, x) \/ ClientEnds(th, x)
    BY <1>0, <1>1, <2>1, StackPop DEF Return, ClientEnds
  <2>2. CASE EnqueueInline(th, x)
    <3>1. cur[x] \in Tasks
      BY <2>2, EnqueueFacts DEF EnqueueInline
    <3>2. \A y \in Actors : Awake(y)' => Awake(y) \/ y = cur[x]
      BY <1>0, <2>2 DEF EnqueueInline, Awake
    <3> QED
      BY <1>0, <2>2, <3>1, <3>2, StackPush DEF EnqueueInline
  <2>3. ASSUME NEW t \in Tasks, HelpTake(th, x, t) PROVE StackInv'
    <3>1. \A y \in Actors : Awake(y)' => Awake(y) \/ y = t
      BY <1>0, <2>3 DEF HelpTake, Awake
    <3> QED
      BY <1>0, <2>3, <3>1, StackPush DEF HelpTake
  <2>4. CASE UNCHANGED stack /\ Awake(x) /\ \A y \in Actors \ {x} : pc'[y] = pc[y]
    BY <2>4, StackStays
  <2> USE <1>0 DEF GoTo, Begin, Resolve, Awake
  <2>5. CASE Submit(x) \/ SubmitAfter(x) \/ AddRef(x) \/ Link(x)
    BY <2>4, <2>5 DEF Submit, SubmitAfter, AddRef, Link, AtCall
  <2>6. CASE LinkSealed(x) \/ Unlink(x) \/ Sentinel(x) \/ Enqueue(x)
    BY <2>4, <2>6 DEF LinkSealed, Unlink, Sentinel, Enqueue
  <2>7. CASE WaitNull(x) \/ WaitDone(x) \/ WaitBusy(x) \/ HelpMiss(x) \/ Reset(x) \/ Drop(x)
    BY <2>4, <2>7 DEF WaitNull, WaitDone, WaitBusy, HelpMiss, Reset, Drop, AtCall
  <2>8. CASE Seal(x) \/ ResolveCont(x) \/ ReleaseCont(x) \/ Complete(x) \/ ReleaseSelf(x)
    BY <2>4, <2>8 DEF Seal, ResolveCont, ReleaseCont, Complete, ReleaseSelf, BodyEnds
  <2> QED
    BY <1>1, <2>1, <2>2, <2>3, <2>5, <2>6, <2>7, <2>8 DEF ActorStep
<1>2. ASSUME NEW th \in Workers, NEW t \in Tasks, WorkerTake(th, t) PROVE StackInv'
  <2>1. th \in Threads /\ stack[th] = <<>> /\ Append(<<>>, t) = <<t>>
    BY <1>2 DEF WorkerTake, Threads
  <2>2. stack' = [stack EXCEPT ![th] = Append(@, t)]
    BY <1>0, <1>2, <2>1 DEF WorkerTake
  <2>3. \A y \in Actors : Awake(y)' => Awake(y) \/ y = t
    BY <1>0, <1>2 DEF WorkerTake, GoTo, Awake
  <2> QED
    BY <1>0, <2>1, <2>2, <2>3, StackPush
<1>3. CASE UNCHANGED vars
  BY <1>3 DEF vars, StackInv, Awake, OnStack
<1> QED
  BY <1>1, <1>2, <1>3 DEF Next, ThreadStep

\* A task that has not begun has made no call; an activation that is over has
\* made them all and has let go of its continuations.
EndOK(x) ==
    /\ pc[x] = "idle" => op[x] = 1
    /\ Sealing(x) => op[x] > Len(Prog[x])
    /\ x \in Tasks /\ pc[x] \in {"release", "return", "done"} => local[x] = <<>>

EndInv == \A x \in Actors : EndOK(x)

LEMMA EndStays ==
    ASSUME EndInv, NEW x \in Actors, EndOK(x)', \A y \in Actors \ {x} : Same(y) \/ pc'[y] = "body"
    PROVE  EndInv'
<1> SUFFICES ASSUME NEW y \in Actors, y # x PROVE EndOK(y)'
  BY DEF EndInv
<1>1. CASE Same(y)
  BY <1>1 DEF EndInv, EndOK, Same, Sealing, Resolved
<1>2. CASE pc'[y] = "body"
  BY <1>2 DEF EndOK, Sealing, Resolved
<1> QED
  BY <1>1, <1>2

LEMMA EndNext ==
    ASSUME EndInv, Inv, [Next]_vars
    PROVE  EndInv'
<1>0. Types /\ FrameInv /\ Tasks \subseteq Actors
  BY DEF Inv, Actors
<1>f. /\ pc \in [Actors -> PCs] /\ op \in [Actors -> Nat] /\ cur \in [Actors -> Tasks \cup {NoTask}]
      /\ par \in [Actors -> Nat] /\ local \in [Actors -> Seq(Tasks)]
      /\ ret \in [Actors -> {"body", "unlink", "relcont"}]
  BY <1>0 DEF Types, FrameTypes
<1>1. ASSUME NEW th \in Threads, NEW x \in Actors, ActorStep(th, x)
      PROVE  EndInv'
  <2>0. EndOK(x)
    BY DEF EndInv
  <2>1. CASE EnqueueInline(th, x)
    <3>1. cur[x] \in Tasks /\ cur[x] # x
      BY <2>1, EnqueueFacts DEF EnqueueInline
    <3>2. EndOK(x)'
      BY <1>f, <2>0, <2>1, <3>1 DEF EnqueueInline, EndOK, Sealing, Resolved
    <3>3. \A y \in Actors \ {x} : Same(y) \/ pc'[y] = "body"
      BY <1>f, <2>1 DEF EnqueueInline, Same
    <3> QED
      BY <3>2, <3>3, EndStays
  <2>2. ASSUME NEW t \in Tasks, HelpTake(th, x, t) PROVE EndInv'
    <3>1. pc'[x] = "body"
      BY <1>f, <2>2 DEF HelpTake
    <3>2. EndOK(x)'
      BY <3>1 DEF EndOK, Sealing, Resolved
    <3>3. \A y \in Actors \ {x} : Same(y) \/ pc'[y] = "body"
      BY <1>f, <2>2 DEF HelpTake, Same
    <3> QED
      BY <3>2, <3>3, EndStays
  <2>3. ASSUME EndOK(x)', \A y \in Actors \ {x} : Same(y) PROVE EndInv'
    BY <2>3, EndStays
  <2> USE <1>f DEF GoTo, Begin, Resolve
  <2>5. CASE Submit(x) \/ SubmitAfter(x) \/ AddRef(x) \/ Link(x)
    <3>1. \A y \in Actors \ {x} : Same(y)
      BY <2>5 DEF Submit, SubmitAfter, AddRef, Link, Same
    <3>2. pc'[x] \in {"attach", "link"} \/ (pc'[x] = "enqueue" /\ ret'[x] = "body")
      <4>1. CASE Submit(x)
        BY <4>1 DEF Submit
      <4>2. CASE SubmitAfter(x)
        BY <4>2 DEF SubmitAfter
      <4>3. CASE AddRef(x) \/ Link(x)
        BY <4>3 DEF AddRef, Link
      <4> QED
        BY <2>5, <4>1, <4>2, <4>3
    <3>3. EndOK(x)'
      BY <3>2 DEF EndOK, Sealing, Resolved
    <3> QED
      BY <2>3, <3>1, <3>3
  <2>6. CASE LinkSealed(x) \/ Unlink(x) \/ Sentinel(x)
    <3>1. \A y \in Actors \ {x} : Same(y)
      BY <2>6 DEF LinkSealed, Unlink, Sentinel, Same
    <3>2. pc'[x] \in {"attach", "unlink", "body"} \/ (pc'[x] = "enqueue" /\ ret'[x] \in {"body", "unlink"})
      <4>1. CASE Unlink(x)
        BY <4>1 DEF Unlink
      <4>2. CASE LinkSealed(x)
        <5>1. \/ pc' = [pc EXCEPT ![x] = "enqueue"] /\ ret' = [ret EXCEPT ![x] = "unlink"]
              \/ pc' = [pc EXCEPT ![x] = "unlink"]
          BY <4>2 DEF LinkSealed
        <5> QED
          BY <5>1
      <4>3. CASE Sentinel(x)
        <5>1. \/ pc' = [pc EXCEPT ![x] = "enqueue"] /\ ret' = [ret EXCEPT ![x] = "body"]
              \/ pc' = [pc EXCEPT ![x] = "body"]
          BY <4>3 DEF Sentinel
        <5> QED
          BY <5>1
      <4> QED
        BY <2>6, <4>1, <4>2, <4>3
    <3>3. EndOK(x)'
      BY <3>2 DEF EndOK, Sealing, Resolved
    <3> QED
      BY <2>3, <3>1, <3>3
  <2>7. CASE Enqueue(x)
    <3>1. \A y \in Actors \ {x} : Same(y)
      BY <2>7 DEF Enqueue, Same
    <3>2. EndOK(x)'
      BY <2>0, <2>7 DEF Enqueue, EndOK, Sealing, Resolved
    <3> QED
      BY <2>3, <3>1, <3>2
  <2>8. CASE WaitNull(x) \/ WaitDone(x) \/ WaitBusy(x) \/ HelpMiss(x) \/ Reset(x) \/ Drop(x)
    <3>1. \A y \in Actors \ {x} : Same(y)
      BY <2>8 DEF WaitNull, WaitDone, WaitBusy, HelpMiss, Reset, Drop, Same
    <3>2. pc'[x] \in {"body", "help", "reset"}
      BY <2>8 DEF WaitNull, WaitDone, WaitBusy, HelpMiss, Reset, Drop, AtCall
    <3>3. EndOK(x)'
      BY <3>2 DEF EndOK, Sealing, Resolved
    <3> QED
      BY <2>3, <3>1, <3>3
  <2>9. CASE Seal(x) \/ ResolveCont(x) \/ ReleaseCont(x)
    <3>1. \A y \in Actors \ {x} : Same(y)
      BY <2>9 DEF Seal, ResolveCont, ReleaseCont, Same
    <3>2. op'[x] = op[x] /\ op[x] > Len(Prog[x])
      BY <2>0, <2>9 DEF Seal, ResolveCont, ReleaseCont, BodyEnds, EndOK, Sealing, Resolved
    <3>3. pc'[x] \notin {"idle", "release", "return", "done"}
      BY <2>9 DEF Seal, ResolveCont, ReleaseCont
    <3>4. EndOK(x)'
      BY <3>2, <3>3 DEF EndOK
    <3> QED
      BY <2>3, <3>1, <3>4
  <2>10. CASE Complete(x) \/ ReleaseSelf(x) \/ Return(th, x)
    <3>1. \A y \in Actors \ {x} : Same(y)
      BY <2>10 DEF Complete, ReleaseSelf, Return, Same
    <3>2. op'[x] = op[x] /\ op[x] > Len(Prog[x])
      BY <2>0, <2>10 DEF Complete, ReleaseSelf, Return, EndOK, Sealing
    <3>3. pc'[x] # "idle" /\ (x \in Tasks => local'[x] = <<>>)
      BY <2>0, <2>10 DEF Complete, ReleaseSelf, Return, EndOK
    <3>4. EndOK(x)'
      BY <3>2, <3>3 DEF EndOK
    <3> QED
      BY <2>3, <3>1, <3>4
  <2>11. CASE ClientEnds(th, x)
    <3>1. \A y \in Actors \ {x} : Same(y)
      BY <2>11 DEF ClientEnds, Same
    <3>2. op'[x] = op[x] /\ op[x] > Len(Prog[x]) /\ pc'[x] = "done" /\ x \notin Tasks
      BY <2>11, TaskAssumption DEF ClientEnds, BodyEnds
    <3>3. EndOK(x)'
      BY <3>2 DEF EndOK
    <3> QED
      BY <2>3, <3>1, <3>3
  <2> QED
    BY <1>1, <2>1, <2>2, <2>5, <2>6, <2>7, <2>8, <2>9, <2>10, <2>11 DEF ActorStep
<1>2. ASSUME NEW th \in Workers, NEW t \in Tasks, WorkerTake(th, t) PROVE EndInv'
  <2>1. pc'[t] = "body" /\ \A y \in Actors \ {t} : Same(y)
    BY <1>0, <1>f, <1>2 DEF WorkerTake, GoTo, Same
  <2>2. EndOK(t)'
    BY <2>1 DEF EndOK, Sealing, Resolved
  <2> QED
    BY <1>0, <2>1, <2>2, EndStays
<1>3. CASE UNCHANGED vars
  BY <1>3 DEF vars, EndInv, EndOK, Sealing, Resolved
<1> QED
  BY <1>1, <1>2, <1>3 DEF Next, ThreadStep

\* x has let go of its handle of t, or is about to.
LetGo(x, t) == t \notin handle \/ (pc[x] = "reset" /\ cur[x] = t)

\* A program that has come past the call that releases a handle has let it go.
HandleInv ==
    \A x \in Actors, t \in Tasks : \A i, j \in DOMAIN Prog[x] :
        Submits(Prog[x][i], t) /\ Releases(Prog[x][j], t) /\ i < j /\ j < op[x] => LetGo(x, t)

LEMMA HandleStays ==
    ASSUME HandleInv, UNCHANGED <<op, handle>>,
           \A y \in Actors : pc[y] = "reset" => pc'[y] = "reset" /\ cur'[y] = cur[y]
    PROVE  HandleInv'
  BY DEF HandleInv, LetGo

\* The calls that move the program counter of x.
LEMMA HandleMoves ==
    ASSUME HandleInv, Inv, NEW x \in Actors, pc[x] = "body",
           op[x] \in DOMAIN Prog[x], op' = [op EXCEPT ![x] = @ + 1],
           \A y \in Actors \ {x} : Same(y),
           \A t \in Tasks : t \in handle' => t \in handle \/ Submits(Prog[x][op[x]], t),
           \A t \in Tasks : Releases(Prog[x][op[x]], t) => LetGo(x, t)'
    PROVE  HandleInv'
<1> SUFFICES ASSUME NEW y \in Actors, NEW t \in Tasks, NEW i \in DOMAIN Prog[y], NEW j \in DOMAIN Prog[y],
                    Submits(Prog[y][i], t), Releases(Prog[y][j], t), i < j, j < op'[y]
             PROVE  LetGo(y, t)'
  BY DEF HandleInv
<1>0. op \in [Actors -> Nat] /\ i \in Nat /\ j \in Nat
  <2>1. Prog[y] \in Seq(Calls)
    BY TaskAssumption
  <2>2. i \in Nat /\ j \in Nat
    BY <2>1, ListDomain
  <2> QED
    BY <2>2 DEF Inv, Types, FrameTypes
<1>1. op'[x] = op[x] + 1 /\ \A z \in Actors \ {x} : op'[z] = op[z]
  BY <1>0
<1>2. CASE y = x /\ j = op[x]
  BY <1>2
<1>3. CASE ~(y = x /\ j = op[x])
  <2>1. j < op[y]
    BY <1>0, <1>1, <1>3
  <2>2. ~Submits(Prog[x][op[x]], t)
    <3>1. SUFFICES ASSUME Submits(Prog[x][op[x]], t) PROVE FALSE
      OBVIOUS
    <3>2. x = y /\ op[x] = i
      BY <3>1, SubmitsOnce
    <3> QED
      BY <1>0, <2>1, <3>2
  <2>3. LetGo(y, t)
    BY <2>1 DEF HandleInv
  <2>4. CASE t \notin handle
    BY <2>2, <2>4 DEF LetGo
  <2>5. CASE pc[y] = "reset" /\ cur[y] = t
    <3>1. y # x
      BY <2>5
    <3> QED
      BY <2>5, <3>1 DEF Same, LetGo
  <2> QED
    BY <2>3, <2>4, <2>5 DEF LetGo
<1> QED
  BY <1>2, <1>3

LEMMA HandleNext ==
    ASSUME HandleInv, Inv, [Next]_vars
    PROVE  HandleInv'
<1>0. Types /\ FrameInv /\ Tasks \subseteq Actors
  BY DEF Inv, Actors
<1>f. /\ pc \in [Actors -> PCs] /\ op \in [Actors -> Nat] /\ cur \in [Actors -> Tasks \cup {NoTask}]
      /\ par \in [Actors -> Nat] /\ local \in [Actors -> Seq(Tasks)]
      /\ ret \in [Actors -> {"body", "unlink", "relcont"}]
  BY <1>0 DEF Types, FrameTypes
<1>1. ASSUME NEW th \in Threads, NEW x \in Actors, ActorStep(th, x)
      PROVE  HandleInv'
  <2>a. ASSUME NEW f, AtCall(x, f)
        PROVE  /\ op[x] \in DOMAIN Prog[x] /\ Prog[x][op[x]] \in Calls
               /\ Prog[x][op[x]].op = f /\ Arg(x) \in Tasks /\ Prog[x][op[x]].task = Arg(x)
               /\ pc[x] = "body"
    BY <1>0, <2>a, AtCallFacts DEF FrameInv, FrameOK
  <2>1. CASE EnqueueInline(th, x)
    <3>1. cur[x] \in Tasks /\ pc[cur[x]] = "idle"
      <4>1. cur[x] \in Tasks /\ Enqueuers(cur[x]) # {}
        BY <2>1, EnqueueFacts, MoverIn DEF EnqueueInline
      <4> QED
        BY <4>1, ReadyFacts
    <3>2. /\ UNCHANGED <<op, handle>>
          /\ \A y \in Actors : pc[y] = "reset" => pc'[y] = "reset" /\ cur'[y] = cur[y]
      BY <1>f, <2>1, <3>1 DEF EnqueueInline, shared
    <3> QED
      BY <3>2, HandleStays
  <2>2. ASSUME NEW t \in Tasks, HelpTake(th, x, t) PROVE HandleInv'
    <3>1. pc[t] = "idle"
      BY <2>2, ReadyFacts DEF HelpTake
    <3>2. /\ UNCHANGED <<op, handle>>
          /\ \A y \in Actors : pc[y] = "reset" => pc'[y] = "reset" /\ cur'[y] = cur[y]
      BY <1>f, <2>2, <3>1 DEF HelpTake, shared
    <3> QED
      BY <3>2, HandleStays
  <2> USE <1>f DEF GoTo, Begin, Resolve, shared
  <2>3. CASE AddRef(x) \/ Link(x) \/ LinkSealed(x) \/ Unlink(x) \/ Sentinel(x) \/ Enqueue(x)
             \/ WaitBusy(x) \/ HelpMiss(x)
    <3>1. /\ UNCHANGED <<op, handle>> /\ pc[x] # "reset"
          /\ \A y \in Actors \ {x} : pc'[y] = pc[y] /\ cur'[y] = cur[y]
      BY <2>3 DEF AddRef, Link, LinkSealed, Unlink, Sentinel, Enqueue, WaitBusy, HelpMiss, AtCall
    <3> QED
      BY <3>1, HandleStays
  <2>4. CASE Seal(x) \/ ResolveCont(x) \/ ReleaseCont(x) \/ Complete(x) \/ ReleaseSelf(x)
             \/ Return(th, x) \/ ClientEnds(th, x)
    <3>1. /\ UNCHANGED <<op, handle>> /\ pc[x] # "reset"
          /\ \A y \in Actors \ {x} : pc'[y] = pc[y] /\ cur'[y] = cur[y]
      BY <2>4 DEF Seal, ResolveCont, ReleaseCont, Complete, ReleaseSelf, Return, ClientEnds, BodyEnds
    <3> QED
      BY <3>1, HandleStays
  <2>5. CASE Submit(x) \/ SubmitAfter(x)
    <3>1. PICK f \in {"submit", "submit_after"} : AtCall(x, f)
      BY <2>5 DEF Submit, SubmitAfter
    <3>2. /\ op' = [op EXCEPT ![x] = @ + 1] /\ handle' = handle \cup {Arg(x)}
          /\ \A y \in Actors \ {x} : Same(y)
      BY <2>5 DEF Submit, SubmitAfter, MakeTask, Same
    <3>3. \A t \in Tasks : /\ t \in handle' => t \in handle \/ Submits(Prog[x][op[x]], t)
                           /\ ~Releases(Prog[x][op[x]], t)
      BY <2>a, <3>1, <3>2 DEF Submits, Releases
    <3> QED
      BY <2>a, <3>1, <3>2, <3>3, HandleMoves
  <2>6. CASE WaitNull(x)
    <3>1. /\ AtCall(x, "wait") /\ Arg(x) \notin handle /\ UNCHANGED <<handle, pc, cur>>
          /\ op' = [op EXCEPT ![x] = @ + 1] /\ \A y \in Actors \ {x} : Same(y)
      BY <2>6 DEF WaitNull, Same
    <3>2. \A t \in Tasks : Releases(Prog[x][op[x]], t) => LetGo(x, t)'
      BY <2>a, <3>1 DEF Releases, LetGo
    <3> QED
      BY <2>a, <3>1, <3>2, HandleMoves
  <2>7. CASE WaitDone(x)
    <3>1. /\ AtCall(x, "wait") /\ UNCHANGED handle /\ pc'[x] = "reset" /\ cur'[x] = Arg(x)
          /\ op' = [op EXCEPT ![x] = @ + 1] /\ \A y \in Actors \ {x} : Same(y)
      BY <2>7 DEF WaitDone, Same
    <3>2. \A t \in Tasks : Releases(Prog[x][op[x]], t) => LetGo(x, t)'
      BY <2>a, <3>1 DEF Releases, LetGo
    <3> QED
      BY <2>a, <3>1, <3>2, HandleMoves
  <2>8. CASE Drop(x)
    <3>1. /\ AtCall(x, "drop") /\ handle' = handle \ {Arg(x)}
          /\ op' = [op EXCEPT ![x] = @ + 1] /\ \A y \in Actors \ {x} : Same(y)
      BY <2>8 DEF Drop, Same
    <3>2. \A t \in Tasks : Releases(Prog[x][op[x]], t) => LetGo(x, t)'
      BY <2>a, <3>1 DEF Releases, LetGo
    <3> QED
      BY <2>a, <3>1, <3>2, HandleMoves
  <2>9. CASE Reset(x)
    <3>1. /\ UNCHANGED op /\ handle' = handle \ {cur[x]}
          /\ \A y \in Actors \ {x} : pc'[y] = pc[y] /\ cur'[y] = cur[y]
      BY <2>9 DEF Reset
    <3>2. \A y \in Actors, t \in Tasks : LetGo(y, t) => LetGo(y, t)'
      BY <3>1 DEF LetGo
    <3> QED
      BY <3>1, <3>2 DEF HandleInv
  <2> QED
    BY <1>1, <2>1, <2>2, <2>3, <2>4, <2>5, <2>6, <2>7, <2>8, <2>9 DEF ActorStep
<1>2. ASSUME NEW th \in Workers, NEW t \in Tasks, WorkerTake(th, t) PROVE HandleInv'
  <2>1. pc[t] = "idle"
    BY <1>2, ReadyFacts DEF WorkerTake
  <2>2. /\ UNCHANGED <<op, handle>>
        /\ \A y \in Actors : pc[y] = "reset" => pc'[y] = "reset" /\ cur'[y] = cur[y]
    BY <1>0, <1>f, <1>2, <2>1 DEF WorkerTake, GoTo, shared
  <2> QED
    BY <2>2, HandleStays
<1>3. CASE UNCHANGED vars
  BY <1>3, HandleStays DEF vars
<1> QED
  BY <1>1, <1>2, <1>3 DEF Next, ThreadStep

\* A list of continuations holds children.
FromParents ==
    \A p \in Tasks : \A i \in DOMAIN conts[p] :
        \E j \in DOMAIN After[conts[p][i]] : After[conts[p][i]][j] = p

LEMMA ParentsNext ==
    ASSUME FromParents, Inv, [Next]_vars
    PROVE  FromParents'
<1>0. Types /\ FrameInv /\ conts \in [Tasks -> Seq(Tasks)]
  BY DEF Inv, Types, SharedTypes
<1>1. CASE UNCHANGED conts
  BY <1>1 DEF FromParents
<1>2. ASSUME NEW x \in Actors, Seal(x) PROVE FromParents'
  <2>1. x \in Tasks /\ conts' = [conts EXCEPT ![x] = <<>>]
    BY <1>2 DEF Seal
  <2> QED
    <3>1. conts'[x] = <<>> /\ \A p \in Tasks : p # x => conts'[p] = conts[p]
      BY <1>0, <2>1
    <3>2. DOMAIN conts'[x] = {}
      BY <3>1
    <3> QED
      BY <3>1, <3>2 DEF FromParents
<1>3. ASSUME NEW x \in Actors, Link(x) PROVE FromParents'
  <2>1. conts' = [conts EXCEPT ![Parent(x)] = Append(@, cur[x])] /\ pc[x] = "link"
    BY <1>3 DEF Link
  <2>2. Parent(x) \in Tasks /\ cur[x] \in Tasks
    BY <1>0, <2>1, CurTask DEF FrameInv, Submitting
  <2>3. par[x] \in DOMAIN After[cur[x]] /\ After[cur[x]][par[x]] = Parent(x)
    <3>1. par[x] \in 1 .. Len(After[cur[x]]) /\ After[cur[x]] \in Seq(Tasks)
      <4>1. FrameOK(x) /\ Submitting(x)
        BY <1>0, <2>1 DEF FrameInv, Submitting
      <4>2. par[x] \in 1 .. Len(After[cur[x]]) + 1 /\ par[x] <= Len(After[cur[x]])
        BY <2>1, <4>1 DEF FrameOK
      <4>3. After[cur[x]] \in Seq(Tasks)
        BY <2>2, TaskAssumption
      <4>4. Len(After[cur[x]]) \in Nat
        BY <4>3, ListDomain
      <4> QED
        BY <4>2, <4>3, <4>4
    <3> QED
      BY <3>1, ListDomain DEF Parent
  <2> PICK q \in Tasks : q = Parent(x)
    BY <2>2
  <2>4. /\ conts'[q] = Append(conts[q], cur[x]) /\ conts[q] \in Seq(Tasks)
        /\ \A p \in Tasks : p # q => conts'[p] = conts[p]
    BY <1>0, <2>1
  <2>5. /\ DOMAIN conts[q] = 1 .. Len(conts[q]) /\ DOMAIN conts'[q] = 1 .. Len(conts[q]) + 1
        /\ Len(conts[q]) \in Nat
        /\ \A i \in 1 .. Len(conts[q]) : conts'[q][i] = conts[q][i]
        /\ conts'[q][Len(conts[q]) + 1] = cur[x]
    BY <2>2, <2>4, AppendProperties, ListDomain
  <2>6. ASSUME NEW p \in Tasks, NEW i \in DOMAIN conts'[p]
        PROVE  \E j \in DOMAIN After[conts'[p][i]] : After[conts'[p][i]][j] = p
    <3>1. CASE p # q
      BY <2>4, <3>1 DEF FromParents
    <3>2. CASE p = q /\ i = Len(conts[q]) + 1
      BY <2>3, <2>5, <3>2
    <3>3. CASE p = q /\ i # Len(conts[q]) + 1
      <4>1. i \in DOMAIN conts[p] /\ conts'[p][i] = conts[p][i]
        BY <2>5, <3>3
      <4> QED
        BY <4>1 DEF FromParents
    <3> QED
      BY <3>1, <3>2, <3>3
  <2> QED
    BY <2>6 DEF FromParents
<1>4. ASSUME NEW th \in Threads, NEW x \in Actors, ActorStep(th, x), ~Seal(x), ~Link(x)
      PROVE  UNCHANGED conts
  BY <1>4 DEF ActorStep, Submit, SubmitAfter, AddRef, LinkSealed, Unlink, Sentinel, Enqueue, EnqueueInline,
     WaitNull, WaitDone, WaitBusy, HelpMiss, HelpTake, Reset, Drop, ResolveCont, ReleaseCont, Complete,
     ReleaseSelf, Return, ClientEnds, shared
<1>5. ASSUME NEW th \in Workers, NEW t \in Tasks, WorkerTake(th, t) PROVE UNCHANGED conts
  BY <1>5 DEF WorkerTake, shared
<1> QED
  BY <1>1, <1>2, <1>3, <1>4, <1>5 DEF Next, ThreadStep, vars

LeakInv == StackInv /\ EndInv /\ HandleInv /\ FromParents

LEMMA LeakInit == Init => LeakInv
<1> SUFFICES ASSUME Init PROVE LeakInv
  OBVIOUS
<1>1. StackInv
  <2> SUFFICES ASSUME NEW y \in Actors, Awake(y) PROVE OnStack(y)
    BY DEF StackInv
  <2>1. y \in Clients /\ y \in Threads /\ stack[y] = <<y>>
    BY DEF Init, Awake, Actors, Threads
  <2>2. 1 \in 1 .. Len(stack[y]) /\ stack[y][1] = y
    BY <2>1
  <2> QED
    BY <2>1, <2>2 DEF OnStack
<1>2. EndInv
  BY DEF Init, EndInv, EndOK, Sealing, Resolved
<1>3. HandleInv
  BY DEF Init, HandleInv, LetGo
<1>4. FromParents
  <2>1. \A p \in Tasks : DOMAIN conts[p] = {}
    BY DEF Init
  <2> QED
    BY <2>1 DEF FromParents
<1> QED
  BY <1>1, <1>2, <1>3, <1>4 DEF LeakInv

\* Nothing runs and nothing is queued.
AtRest == (\A th \in Threads : stack[th] = <<>>) /\ (\A t \in Tasks : queued[t] = 0)

\* Then every activation is over or has not begun, and no list is left except
\* with tasks that have not begun.
LEMMA RestFacts ==
    ASSUME Inv, LeakInv, AtRest
    PROVE  /\ \A x \in Actors : pc[x] \in {"idle", "done"}
           /\ \A x \in Actors : pc[x] = "done" => op[x] > Len(Prog[x])
           /\ \A t \in Tasks : Enqueuers(t) = {} /\ Attachers(t) = {}
           /\ \A p \in Tasks : pc[p] = "done" => Lists[p] = <<>>
           /\ \A p \in Tasks : pc[p] = "idle" => Lists[p] = conts[p]
<1>0. Types /\ FrameInv /\ Tasks \subseteq Actors
  BY DEF Inv, Actors
<1>1. ASSUME NEW x \in Actors PROVE pc[x] \in {"idle", "done"}
  <2>1. ~OnStack(x)
    <3>1. \A th \in Threads : Len(stack[th]) = 0
      BY DEF AtRest
    <3> QED
      BY <3>1 DEF OnStack
  <2> QED
    BY <2>1 DEF LeakInv, StackInv, Awake
<1>2. \A x \in Actors : pc[x] = "done" => op[x] > Len(Prog[x])
  BY DEF LeakInv, EndInv, EndOK, Sealing
<1>3. \A t \in Tasks : Enqueuers(t) = {} /\ Attachers(t) = {}
  BY <1>1 DEF Enqueuers, Attachers, Attaching
<1>4. ASSUME NEW p \in Tasks PROVE p \in sealed <=> pc[p] = "done"
  BY <1>0, <1>1 DEF FrameInv, FrameOK, Sealing, Resolved
<1>5. \A p \in Tasks : conts[p] \in Seq(Tasks) /\ local[p] \in Seq(Tasks)
  BY <1>0 DEF Types, SharedTypes, FrameTypes
<1>6. ASSUME NEW p \in Tasks, pc[p] = "done" PROVE Lists[p] = <<>>
  <2>1. conts[p] = <<>> /\ local[p] = <<>>
    BY <1>0, <1>4, <1>6 DEF LeakInv, EndInv, EndOK, FrameInv, ListOK
  <2>2. <<>> \o <<>> = <<>>
    OBVIOUS
  <2> QED
    BY <1>0, <2>1, <2>2, ListsType
<1>7. ASSUME NEW p \in Tasks, pc[p] = "idle" PROVE Lists[p] = conts[p]
  <2>1. local[p] = <<>>
    BY <1>0, <1>4, <1>7 DEF FrameInv, ListOK
  <2> QED
    BY <1>0, <1>5, <2>1, ListsType, ConcatOne
<1> QED
  BY <1>1, <1>2, <1>3, <1>6, <1>7

\* A task that waits at rest waits for a parent that has not begun.
LEMMA StuckParent ==
    ASSUME Inv, LeakInv, AtRest, NEW t \in Tasks, Submitted(t), pc[t] = "idle"
    PROVE  \E i \in DOMAIN After[t] : After[t][i] \in Tasks /\ pc[After[t][i]] = "idle"
<1>0. ReadyOnce(t) /\ DepsExact(t) /\ RefsExact(t) /\ Types
  BY DEF Inv, TaskOK
<1>1. deps[t] # 0
  <2>1. Enqueuers(t) = {} /\ queued[t] = 0
    BY RestFacts DEF AtRest
  <2>2. Cardinality(Enqueuers(t)) = 0
    BY <2>1, FS_EmptySet
  <2> QED
    BY <1>0, <2>1, <2>2 DEF ReadyOnce, One
<1>2. \A x \in Actors : Submitting(x) => cur[x] # t
  BY RestFacts DEF Submitting
<1>3. Waiting(t) # {}
  <2>1. deps[t] = Cardinality(Waiting(t))
    BY <1>0, <1>2 DEF DepsExact
  <2> QED
    BY <1>1, <2>1, FS_EmptySet
<1>4. PICK z \in Waiting(t) : TRUE
  BY <1>3
<1>5. /\ z[1] \in Tasks /\ z[2] \in DOMAIN Lists[z[1]] /\ Lists[z[1]][z[2]] = t
  BY <1>4 DEF Waiting, Places, IsPlace
<1> PICK p \in Tasks : p = z[1]
  BY <1>5
<1>6. pc[p] = "idle"
  <2>1. pc[p] # "done"
    <3>1. SUFFICES ASSUME pc[p] = "done" PROVE FALSE
      OBVIOUS
    <3>2. Lists[p] = <<>>
      BY <3>1, RestFacts
    <3> QED
      BY <1>5, <3>2
  <2> QED
    BY <2>1, RestFacts DEF Actors
<1>7. z[2] \in DOMAIN conts[p] /\ conts[p][z[2]] = t
  BY <1>5, <1>6, RestFacts
<1>8. PICK i \in DOMAIN After[t] : After[t][i] = p
  BY <1>7 DEF LeakInv, FromParents
<1> QED
  BY <1>6, <1>8

\* Submission order: a stuck task has a stuck parent that was submitted earlier,
\* so there is none.
LEMMA NoneStuck ==
    ASSUME OwnHandles, Inv, LeakInv, AtRest, NEW t \in Tasks, Submitted(t)
    PROVE  pc[t] = "done"
<1>0. Types /\ Tasks \subseteq Actors /\ op \in [Actors -> Nat]
  BY DEF Inv, Types, FrameTypes, Actors
<1>d. \A x \in Actors : DOMAIN Prog[x] = 1 .. Len(Prog[x]) /\ Len(Prog[x]) \in Nat
  BY TaskAssumption, ListDomain
<1> DEFINE At(u, x, k) == k \in DOMAIN Prog[x] /\ k < op[x] /\ Submits(Prog[x][k], u)
           S == {k \in Nat : \E u \in Tasks, x \in Actors : pc[u] = "idle" /\ At(u, x, k)}
<1>1. SUFFICES ASSUME pc[t] # "done" PROVE FALSE
  OBVIOUS
<1>2. S # {}
  <2>1. pc[t] = "idle"
    BY <1>0, <1>1, RestFacts
  <2>2. PICK x \in Actors : \E k \in DOMAIN Prog[x] : k < op[x] /\ Submits(Prog[x][k], t)
    BY DEF Submitted
  <2>3. PICK k \in DOMAIN Prog[x] : k < op[x] /\ Submits(Prog[x][k], t)
    BY <2>2
  <2>4. k \in Nat
    BY <1>d
  <2> QED
    BY <2>1, <2>3, <2>4
<1>3. PICK k \in S : \A m \in S : k <= m
  BY <1>2, LeastNumber
<1>4. PICK u \in Tasks, x \in Actors : pc[u] = "idle" /\ At(u, x, k)
  BY <1>3
<1>5. Submitted(u)
  BY <1>4 DEF Submitted
<1>6. PICK i \in DOMAIN After[u] : After[u][i] \in Tasks /\ pc[After[u][i]] = "idle"
  BY <1>4, <1>5, StuckParent
<1>7. Prog[x][k].op = "submit_after" /\ Prog[x][k].task = u
  <2>1. Prog[x][k].op \in {"submit", "submit_after"} /\ Prog[x][k].task = u
    BY <1>4 DEF Submits
  <2>2. ASSUME Prog[x][k].op = "submit" PROVE FALSE
    <3>1. After[u] = <<>>
      BY <1>4, <2>1, <2>2, ProgramAssumption
    <3> QED
      BY <1>6, <3>1
  <2> QED
    BY <2>1, <2>2
<1>8. PICK j \in DOMAIN Prog[x] : j < k /\ Submits(Prog[x][j], After[u][i])
  BY <1>4, <1>6, <1>7 DEF OwnHandles
<1>9. j \in Nat /\ k \in Nat /\ op[x] \in Nat
  BY <1>0, <1>d
<1>10. j < op[x]
  BY <1>4, <1>8, <1>9
<1>11. j \in S
  BY <1>6, <1>8, <1>9, <1>10
<1>12. k <= j
  BY <1>3, <1>11
<1> QED
  BY <1>8, <1>9, <1>12

LEMMA InvNoLeak ==
    ASSUME OwnHandles, HandlesReleased, Inv, LeakInv
    PROVE  NoLeak
<1> SUFFICES ASSUME AtRest, NEW t \in Tasks, Made(t) PROVE t \in freed
  BY DEF NoLeak, AtRest
<1>0. Types /\ Tasks \subseteq Actors /\ op \in [Actors -> Nat] /\ RefsExact(t)
  BY DEF Inv, Types, FrameTypes, Actors, TaskOK
<1>1. Submitted(t) /\ pc[t] = "done"
  BY MadeSubmitted, NoneStuck
<1>2. Attachers(t) = {} /\ Cardinality(Attachers(t)) = 0
  BY RestFacts, FS_EmptySet
<1>3. Held(t) = {}
  <2>1. SUFFICES ASSUME NEW z \in Held(t) PROVE FALSE
    OBVIOUS
  <2>2. z[1] \in Tasks /\ z[2] \in DOMAIN Lists[z[1]] /\ Lists[z[1]][z[2]] = t
    BY DEF Held, Places, IsPlace
  <2> PICK p \in Tasks : p = z[1]
    BY <2>2
  <2>3. CASE pc[p] = "done"
    <3>1. Lists[p] = <<>>
      BY <2>3, RestFacts
    <3> QED
      BY <2>2, <3>1
  <2>4. CASE pc[p] = "idle"
    <3>1. ~Resolved(p)
      BY <2>4 DEF Resolved
    <3>2. z \in Waiting(t)
      BY <2>2, <3>1 DEF Held, Waiting, Places, IsPlace
    <3>3. pc[t] = "idle"
      BY <3>2, WaitingFacts
    <3> QED
      BY <1>1, <3>3
  <2> QED
    BY <1>0, <2>3, <2>4, RestFacts
<1>4. t \notin handle
  <2>1. PICK x \in Actors : \E i \in DOMAIN Prog[x] : i < op[x] /\ Submits(Prog[x][i], t)
    BY <1>1 DEF Submitted
  <2>2. PICK i \in DOMAIN Prog[x] : i < op[x] /\ Submits(Prog[x][i], t)
    BY <2>1
  <2>3. PICK j \in DOMAIN Prog[x] : i < j /\ Releases(Prog[x][j], t)
    BY <2>2 DEF HandlesReleased
  <2>4. DOMAIN Prog[x] = 1 .. Len(Prog[x]) /\ Len(Prog[x]) \in Nat /\ op[x] \in Nat
    BY <1>0, TaskAssumption, ListDomain
  <2>5. pc[x] = "done"
    <3>1. pc[x] = "idle" => op[x] = 1
      BY DEF LeakInv, EndInv, EndOK
    <3>2. op[x] # 1
      BY <2>2, <2>4
    <3> QED
      BY <3>1, <3>2, RestFacts
  <2>6. j < op[x]
    <3>1. op[x] > Len(Prog[x])
      BY <2>5, RestFacts
    <3> QED
      BY <2>3, <2>4, <3>1
  <2>7. LetGo(x, t)
    BY <2>2, <2>3, <2>6 DEF LeakInv, HandleInv
  <2> QED
    BY <2>5, <2>7 DEF LetGo
<1>5. Cardinality(Held(t)) = 0
  BY <1>3, FS_EmptySet
<1>6. refs[t] = 0
  BY <1>0, <1>1, <1>2, <1>4, <1>5 DEF RefsExact, Holders, One
<1> QED
  BY <1>0, <1>1, <1>6 DEF RefsExact

\* When nothing runs and nothing is queued, every task that was submitted has gone
\* back to the memory pool, for programs that pass on their own handles and let
\* go of each: no order in which threads release, resolve and free tasks leaks one.
THEOREM NothingLeaks == ASSUME OwnHandles, HandlesReleased PROVE Spec => []NoLeak
<1>1. Inv /\ LeakInv => NoLeak
  BY InvNoLeak
<1>2. Inv /\ LeakInv /\ [Next]_vars => LeakInv'
  BY StackNext, EndNext, HandleNext, ParentsNext DEF LeakInv
<1> QED
  BY <1>1, <1>2, LeakInit, SpecInv, PTL DEF Spec
=============================================================================
