-------------------------- MODULE TaskScopeProofs --------------------------
(***************************************************************************)
(* Proofs about TaskScope, for any finite set of functions, any spawn      *)
(* relation and any set of functions that throw.                           *)
(***************************************************************************)
EXTENDS TaskScope, FiniteSetTheorems, TLAPS

ActiveFns == {f \in Fns : Active(f)}

\* The owner has seen every function end and has started none since.
Settled == {"check", "take", "clear", "returned", "threw", "leave", "gone", "terminated"}

\* The count, or the completed tasks, tell which functions have ended.
CountInv ==
    /\ kind = "pending" => pending = Cardinality(ActiveFns)
    /\ kind = "handles" => \A f \in completed : at[f] = "ended"

\* No function of a settled scope is between its start and its end.
SettledInv == owner \in Settled => \A f \in Fns : ~Active(f)

\* Where the exception of a failed function is: still on its way to the flag,
\* or recorded, being recorded or taken while the flag is set.
FailureInv ==
    /\ \A f \in Fns : at[f] \in {"catch", "record"} => f \in unreported
    /\ \A f \in unreported : hasException \/ at[f] = "catch"
    /\ owner # "clear" /\ hasException
         => first \in unreported \/ \E f \in Fns : at[f] = "record"
    /\ owner = "clear" => eptr \in unreported
    /\ owner = "take" => hasException
    /\ owner = "returned" => unreported = {}

\* A spawn that is under way belongs to a body that runs and makes no other.
SpawnInv ==
    /\ \A f \in Fns : at[f] = "counted" => kind = "pending"
    /\ \A g \in Fns : \A f \in Spawns[g] :
         at[f] = "counted" => at[g] = "body" /\ \A h \in Spawns[g] \ {f} : at[h] # "counted"

Inv == TypeOK /\ SpawnInv /\ CountInv /\ SettledInv /\ FailureInv /\ UnreportedTerminates

-----------------------------------------------------------------------------
LEMMA FiniteActive == IsFiniteSet(ActiveFns) /\ Cardinality(ActiveFns) \in Nat
  BY ScopeAssumption, FS_Subset, FS_CardinalityType, ActiveFns \in SUBSET Fns DEF ActiveFns

LEMMA SpawnsType ==
    \A g \in Fns : Spawns[g] \subseteq Fns /\ \A h \in Fns : h # g => Spawns[g] \cap Spawns[h] = {}
  BY ScopeAssumption

LEMMA InitInv == Init => Inv
<1> SUFFICES ASSUME Init PROVE Inv
  OBVIOUS
<1>1. TypeOK
  BY DEF Init, TypeOK, Ats, Owners
<1>2. ActiveFns = {}
  BY DEF Init, ActiveFns, Active
<1>3. CountInv
  BY <1>2, FS_EmptySet DEF Init, CountInv
<1>4. SettledInv /\ FailureInv /\ UnreportedTerminates
  BY DEF Init, SettledInv, Settled, FailureInv, UnreportedTerminates
<1>5. SpawnInv
  BY SpawnsType DEF Init, SpawnInv
<1> QED
  BY <1>1, <1>3, <1>4, <1>5 DEF Inv

\* A step of a function that stays active leaves the count right.
LEMMA SameActive ==
    ASSUME ActiveFns' = ActiveFns, CountInv, kind' = kind, pending' = pending,
           completed' = completed,
           \A f \in completed : at[f] = "ended" => at'[f] = "ended"
    PROVE  CountInv'
  BY DEF CountInv

\* One function becomes active, or ceases to be.
LEMMA OneMore ==
    ASSUME NEW f \in Fns, ~Active(f), ActiveFns' = ActiveFns \cup {f}
    PROVE  Cardinality(ActiveFns') = Cardinality(ActiveFns) + 1
  BY FiniteActive, FS_AddElement DEF ActiveFns

LEMMA OneLess ==
    ASSUME NEW f \in Fns, Active(f), ActiveFns' = ActiveFns \ {f}
    PROVE  /\ Cardinality(ActiveFns') = Cardinality(ActiveFns) - 1
           /\ Cardinality(ActiveFns') \in Nat
<1>1. f \in ActiveFns
  BY DEF ActiveFns
<1>2. IsFiniteSet(ActiveFns \ {f}) /\ Cardinality(ActiveFns \ {f}) = Cardinality(ActiveFns) - 1
  BY <1>1, FiniteActive, FS_RemoveElement
<1> QED
  BY <1>2, FS_CardinalityType

\* When the loop of a wait ends, no function is active.
LEMMA NoneActive == ASSUME Inv, AllEnded PROVE \A f \in Fns : ~Active(f)
<1>1. CASE kind = "pending"
  <2>1. Cardinality(ActiveFns) = 0
    BY <1>1 DEF Inv, CountInv, AllEnded
  <2>2. ActiveFns = {}
    BY <2>1, FiniteActive, FS_EmptySet
  <2> QED
    BY <2>2 DEF ActiveFns
<1>2. CASE kind = "handles"
  BY <1>2 DEF Inv, CountInv, AllEnded, Started, Active
<1> QED
  BY <1>1, <1>2 DEF Inv, TypeOK

-----------------------------------------------------------------------------
(* The steps of a function. *)

LEMMA SpawnCountInv == ASSUME Inv, NEW f \in Fns, SpawnCount(f), UNCHANGED scope PROVE Inv'
<1> USE DEF SpawnCount, Move, scope
<1>1. at[f] = "new" /\ at' = [at EXCEPT ![f] = "counted"]
  BY DEF MayStart
<1>2. TypeOK'
  BY DEF Inv, TypeOK, Ats, Owners, Count, StarterGoesOn
<1>3. ActiveFns' = ActiveFns \cup {f}
  BY <1>1 DEF Inv, TypeOK, ActiveFns, Active
<1>4. CountInv'
  BY <1>1, <1>3, OneMore DEF Inv, CountInv, Count, Active, TypeOK
<1>5. owner' \notin Settled /\ owner # "clear"
  <2>1. CASE f \in Roots
    <3>1. \A g \in Fns : f \notin Spawns[g]
      BY <2>1 DEF Roots
    <3> QED
      BY <2>1, <3>1 DEF MayStart, StarterGoesOn, Settled
  <2>2. CASE f \notin Roots
    <3>1. PICK g \in Fns : at[g] = "body"
      BY <2>2 DEF MayStart
    <3>2. owner \notin Settled
      BY <3>1 DEF Inv, SettledInv, Active
    <3> QED
      BY <2>2, <3>2 DEF StarterGoesOn, Settled
  <2> QED
    BY <2>1, <2>2
<1>6. SettledInv' /\ UnreportedTerminates'
  BY <1>5 DEF SettledInv, UnreportedTerminates, Settled
<1>7. FailureInv'
  BY <1>1, <1>5 DEF Inv, TypeOK, FailureInv, Settled
<1>8. SpawnInv'
  <2>1. ASSUME NEW g \in Fns, f \in Spawns[g]
        PROVE  at[g] = "body" /\ OneAtATime(Spawns[g])
    BY <2>1, SpawnsType DEF MayStart, Roots
  <2> QED
    BY <1>1, <2>1, SpawnsType DEF Inv, TypeOK, SpawnInv, OneAtATime
<1> QED
  BY <1>2, <1>4, <1>6, <1>7, <1>8 DEF Inv

LEMMA RunInv == ASSUME Inv, NEW f \in Fns, Run(f), UNCHANGED scope PROVE Inv'
<1> USE DEF Run, Move, scope
<1>1. at[f] = "new" /\ at' = [at EXCEPT ![f] = "ready"]
  BY DEF MayStart
<1>2. TypeOK'
  BY DEF Inv, TypeOK, Ats, Owners, StarterGoesOn
<1>4. CountInv'
  BY <1>1 DEF Inv, CountInv, TypeOK
<1>5. owner' \notin Settled /\ owner # "clear"
  BY DEF MayStart, StarterGoesOn, Settled
<1>6. SettledInv' /\ UnreportedTerminates'
  BY <1>5 DEF SettledInv, UnreportedTerminates, Settled
<1>7. FailureInv'
  BY <1>1, <1>5 DEF Inv, TypeOK, FailureInv, Settled
<1>8. SpawnInv'
  BY <1>1, SpawnsType DEF Inv, TypeOK, SpawnInv
<1> QED
  BY <1>2, <1>4, <1>6, <1>7, <1>8 DEF Inv

\* A scope with an active function is not settled.
LEMMA NotSettled == ASSUME Inv, NEW f \in Fns, Active(f) PROVE owner \notin Settled
  BY DEF Inv, SettledInv

\* A step of an active function that stays active.
LEMMA ActiveStep ==
    ASSUME Inv, NEW f \in Fns, NEW l \in Ats, Active(f), l \notin {"new", "ended"},
           Move(f, l), UNCHANGED <<kind, cancel, pending, completed, owner, unwinding, eptr>>,
           first' \in Fns \cup {NoFn}, hasException' \in BOOLEAN, unreported' \subseteq Fns,
           SpawnInv', FailureInv'
    PROVE  Inv'
<1> USE DEF Move
<1>1. TypeOK'
  BY DEF Inv, TypeOK
<1>2. ActiveFns' = ActiveFns
  BY DEF Inv, TypeOK, ActiveFns, Active
<1>3. CountInv'
  BY <1>2, SameActive DEF Inv, Active, TypeOK
<1>4. SettledInv' /\ UnreportedTerminates'
  BY NotSettled DEF SettledInv, UnreportedTerminates, Settled
<1> QED
  BY <1>1, <1>3, <1>4 DEF Inv

LEMMA SpawnSubmitInv == ASSUME Inv, NEW f \in Fns, SpawnSubmit(f), UNCHANGED scope PROVE Inv'
<1> USE DEF SpawnSubmit
<1>1. Active(f) /\ owner \notin Settled
  BY NotSettled DEF Active
<1>2. FailureInv'
  BY <1>1 DEF Inv, TypeOK, FailureInv, Settled, Move
<1>3. "ready" \in Ats
  BY DEF Ats
<1>5. SpawnInv'
  BY <1>1, SpawnsType DEF Inv, TypeOK, SpawnInv, Move, scope
<1> QED
  BY <1>1, <1>2, <1>3, <1>5, ActiveStep DEF Inv, TypeOK, scope

LEMMA BeginInv == ASSUME Inv, NEW f \in Fns, Begin(f), UNCHANGED scope PROVE Inv'
<1> USE DEF Begin
<1>1. Active(f) /\ owner \notin Settled
  BY NotSettled DEF Active
<1>2. PICK l \in {"body", "complete"} : Move(f, l)
  BY DEF SkipTo
<1>3. FailureInv'
  BY <1>1, <1>2 DEF Inv, TypeOK, FailureInv, Settled, Move
<1>4. l \in Ats
  BY DEF Ats
<1>5. SpawnInv'
  BY <1>1, <1>2, SpawnsType DEF Inv, TypeOK, SpawnInv, Move, scope
<1> QED
  BY <1>1, <1>2, <1>3, <1>4, <1>5, ActiveStep DEF Inv, TypeOK, scope

LEMMA EndBodyInv == ASSUME Inv, NEW f \in Fns, EndBody(f), UNCHANGED scope PROVE Inv'
<1> USE DEF EndBody
<1>1. Active(f) /\ owner \notin Settled
  BY NotSettled DEF Active
<1>2. PICK l \in {"catch", "complete"} : Move(f, l) /\ (l = "catch" <=> f \in Throws)
  BY Zenon
<1>3. FailureInv'
  BY <1>1, <1>2 DEF Inv, TypeOK, FailureInv, Settled, Move
<1>4. l \in Ats
  BY DEF Ats
<1>5. SpawnInv'
  BY <1>1, <1>2, SpawnsType DEF Inv, TypeOK, SpawnInv, Move, scope
<1> QED
  BY <1>1, <1>2, <1>3, <1>4, <1>5, ActiveStep DEF Inv, TypeOK, scope

LEMMA ExchangeInv == ASSUME Inv, NEW f \in Fns, Exchange(f), UNCHANGED scope PROVE Inv'
<1> USE DEF Exchange
<1>1. Active(f) /\ owner \notin Settled
  BY NotSettled DEF Active
<1>2. PICK l \in {"record", "complete"} : Move(f, l) /\ (l = "complete" <=> hasException)
  BY DEF Inv, TypeOK
<1>3. FailureInv'
  BY <1>1, <1>2 DEF Inv, TypeOK, FailureInv, Settled, Move
<1>4. l \in Ats
  BY DEF Ats
<1>5. SpawnInv'
  BY <1>1, <1>2, SpawnsType DEF Inv, TypeOK, SpawnInv, Move, scope
<1> QED
  BY <1>1, <1>2, <1>3, <1>4, <1>5, ActiveStep DEF Inv, TypeOK, scope

LEMMA StoreInv == ASSUME Inv, NEW f \in Fns, Store(f), UNCHANGED scope PROVE Inv'
<1> USE DEF Store
<1>1. Active(f) /\ owner \notin Settled
  BY NotSettled DEF Active
<1>2. FailureInv'
  BY <1>1 DEF Inv, TypeOK, FailureInv, Settled, Move
<1>3. "complete" \in Ats
  BY DEF Ats
<1>5. SpawnInv'
  BY <1>1, SpawnsType DEF Inv, TypeOK, SpawnInv, Move, scope
<1> QED
  BY <1>1, <1>2, <1>3, <1>5, ActiveStep DEF Inv, TypeOK, scope

LEMMA CompleteInv == ASSUME Inv, NEW f \in Fns, Complete(f), UNCHANGED scope PROVE Inv'
<1> USE DEF Complete, Move, ReadyToComplete
<1>1. Active(f) /\ owner \notin Settled
  BY NotSettled DEF Active
<1>2. ActiveFns' = ActiveFns \ {f}
  BY DEF Inv, TypeOK, ActiveFns, Active
<1>3. Cardinality(ActiveFns') = Cardinality(ActiveFns) - 1 /\ Cardinality(ActiveFns') \in Nat
  BY <1>1, <1>2, OneLess
<1>4. CountInv'
  BY <1>3 DEF Inv, CountInv, TypeOK, scope
<1>5. TypeOK'
  BY <1>3, <1>4 DEF Inv, TypeOK, Ats, scope, CountInv
<1>6. FailureInv'
  BY <1>1 DEF Inv, TypeOK, FailureInv, Settled
<1>7. SettledInv' /\ UnreportedTerminates'
  BY <1>1 DEF SettledInv, UnreportedTerminates, Settled
<1>8. SpawnInv'
  BY SpawnsType DEF Inv, TypeOK, SpawnInv, scope
<1> QED
  BY <1>4, <1>5, <1>6, <1>7, <1>8 DEF Inv

LEMMA SpawnFailsInv == ASSUME Inv, NEW f \in Fns, SpawnFails(f), UNCHANGED scope PROVE Inv'
<1> USE DEF SpawnFails
<1>1. Active(f) /\ owner \notin Settled
  BY NotSettled DEF Active
<1>2. kind = "pending" /\ kind' = kind
  BY DEF Inv, SpawnInv, scope
<1> DEFINE E == {g \in Fns : f \in Spawns[g]}
<1>3. /\ f \notin E
      /\ \A g \in E : at[g] = "body"
      /\ at' = [g \in Fns |-> IF g = f THEN "ended" ELSE IF g \in E THEN "catch" ELSE at[g]]
      /\ unreported' = unreported \cup E
  <2>1. at[f] = "counted" /\ \A g \in E : at[g] = "body"
    BY DEF Inv, SpawnInv
  <2>2. CASE f \in Roots /\ Move(f, "ended") /\ UNCHANGED unreported
    <3>1. E = {}
      BY <2>2 DEF Roots
    <3> QED
      BY <2>1, <2>2, <3>1 DEF Move, Inv, TypeOK
  <2>3. ASSUME NEW g \in Fns, f \in Spawns[g],
               at' = [at EXCEPT ![f] = "ended", ![g] = "catch"],
               unreported' = unreported \cup {g}
        PROVE  /\ at' = [h \in Fns |-> IF h = f THEN "ended"
                                         ELSE IF h \in E THEN "catch" ELSE at[h]]
               /\ unreported' = unreported \cup E
    <3>1. E = {g}
      BY <2>3, SpawnsType
    <3>2. g # f
      BY <2>1, <2>3
    <3> HIDE DEF E
    <3> QED
      BY <2>3, <3>1, <3>2 DEF Inv, TypeOK
  <2>4. f \notin E
    BY <2>1
  <2> HIDE DEF E
  <2> QED
    BY <2>1, <2>2, <2>3, <2>4
<1>4. ActiveFns' = ActiveFns \ {f}
  BY <1>3 DEF ActiveFns, Active
<1>5. Cardinality(ActiveFns') = Cardinality(ActiveFns) - 1 /\ Cardinality(ActiveFns') \in Nat
  BY <1>1, <1>4, OneLess
<1>6. CountInv'
  BY <1>2, <1>5 DEF Inv, CountInv
<1>7. TypeOK'
  <2>1. pending' \in Nat
    BY <1>2, <1>5, <1>6 DEF CountInv
  <2>2. at' \in [Fns -> Ats]
    BY <1>3 DEF Inv, TypeOK, Ats
  <2> QED
    BY <1>3, <2>1, <2>2 DEF Inv, TypeOK, scope
<1>8. FailureInv'
  BY <1>1, <1>3 DEF Inv, TypeOK, FailureInv, Settled
<1>9. SettledInv' /\ UnreportedTerminates'
  BY <1>1 DEF SettledInv, UnreportedTerminates, Settled
<1>10. SpawnInv'
  <2>1. ASSUME NEW g \in Fns, NEW h \in Spawns[g], at'[h] = "counted"
        PROVE  at'[g] = "body" /\ \A k \in Spawns[g] \ {h} : at'[k] # "counted"
    <3>1. h \in Fns /\ at[h] = "counted" /\ h # f
      BY <1>3, <2>1, SpawnsType
    <3>2. at[g] = "body" /\ \A k \in Spawns[g] \ {h} : at[k] # "counted"
      BY <2>1, <3>1 DEF Inv, SpawnInv
    <3>3. f \notin Spawns[g] /\ g # f
      BY <3>1, <3>2 DEF SpawnFails
    <3>4. g \notin E
      BY <3>3
    <3> QED
      BY <1>3, <3>2, <3>3, <3>4, SpawnsType
  <2> QED
    BY <1>2, <2>1 DEF SpawnInv
<1> QED
  BY <1>6, <1>7, <1>8, <1>9, <1>10 DEF Inv

-----------------------------------------------------------------------------
(* The steps of the owner. *)

\* A step that moves the owner and no function.
LEMMA OwnerMoves ==
    ASSUME Inv, UNCHANGED <<scope, pending, completed, at>>,
           owner' \in Owners, owner' \in Settled => \A f \in Fns : ~Active(f),
           first' \in Fns \cup {NoFn}, eptr' \in Fns \cup {NoFn},
           hasException' \in BOOLEAN, unwinding' \in BOOLEAN, unreported' \subseteq Fns,
           FailureInv', UnreportedTerminates'
    PROVE  Inv'
<1> USE DEF scope
<1>1. TypeOK' /\ SpawnInv'
  BY DEF Inv, TypeOK, SpawnInv
<1>2. ActiveFns' = ActiveFns
  BY DEF ActiveFns, Active
<1>3. CountInv'
  BY <1>2, SameActive DEF Inv
<1>4. SettledInv'
  BY DEF SettledInv, Active
<1> QED
  BY <1>1, <1>3, <1>4 DEF Inv

\* In a settled scope an exception that was not reported is in first_exception_,
\* or taken, and the flag says so.
LEMMA SettledFailure ==
    ASSUME Inv, owner \in Settled
    PROVE  /\ ~hasException => unreported = {}
           /\ hasException /\ owner # "clear" => first \in unreported
<1>1. \A f \in Fns : at[f] \notin {"catch", "record"}
  BY DEF Inv, SettledInv, Active
<1> QED
  BY <1>1 DEF Inv, FailureInv, TypeOK

\* The calls and the ends of the loops change nothing but the owner.
LEMMA CallOrLoopInv ==
    ASSUME Inv, CallWait \/ Destroy \/ EndWait \/ Join, UNCHANGED scope PROVE Inv'
<1>1. owner' \in {"wait", "join", "check", "leave"} /\ owner # "clear"
  BY DEF CallWait, Destroy, EndWait, Join
<1>2. UNCHANGED <<pending, completed, at, first, eptr, hasException, unreported>>
      /\ unwinding' \in BOOLEAN
  BY DEF CallWait, Destroy, EndWait, Join, Inv, TypeOK
<1>3. owner' \in Settled => \A f \in Fns : ~Active(f)
  BY NoneActive DEF CallWait, Destroy, EndWait, Join, Joined, Settled
<1>4. owner' \in Owners /\ UnreportedTerminates'
  BY <1>1 DEF Owners, UnreportedTerminates
<1>5. FailureInv'
  BY <1>1, <1>2 DEF Inv, FailureInv
<1> QED
  BY <1>2, <1>3, <1>4, <1>5, OwnerMoves DEF Inv, TypeOK

LEMMA CheckInv == ASSUME Inv, Check, UNCHANGED scope PROVE Inv'
<1> USE DEF Check
<1>1. owner \in Settled /\ owner # "clear"
  BY DEF Settled
<1>2. owner' \in Owners /\ UnreportedTerminates' /\ \A f \in Fns : ~Active(f)
  BY <1>1 DEF Owners, UnreportedTerminates, Inv, SettledInv
<1>3. FailureInv'
  BY <1>1, SettledFailure DEF Inv, FailureInv
<1> QED
  BY <1>2, <1>3, OwnerMoves DEF Inv, TypeOK

LEMMA TakeExceptionInv == ASSUME Inv, TakeException, UNCHANGED scope PROVE Inv'
<1> USE DEF TakeException
<1>1. owner \in Settled /\ owner # "clear"
  BY DEF Settled
<1>2. owner' \in Owners /\ UnreportedTerminates' /\ \A f \in Fns : ~Active(f)
  BY <1>1 DEF Owners, UnreportedTerminates, Inv, SettledInv
<1>3. FailureInv'
  BY <1>1, SettledFailure DEF Inv, FailureInv
<1> QED
  BY <1>2, <1>3, OwnerMoves DEF Inv, TypeOK

LEMMA ClearAndRethrowInv == ASSUME Inv, ClearAndRethrow, UNCHANGED scope PROVE Inv'
<1> USE DEF ClearAndRethrow
<1>1. owner \in Settled /\ eptr # NoFn
  BY ScopeAssumption DEF Settled, Inv, FailureInv, TypeOK
<1>2. \A f \in Fns : ~Active(f)
  BY <1>1 DEF Inv, SettledInv
<1>3. owner' \in Owners /\ UnreportedTerminates'
  BY <1>1 DEF Owners, UnreportedTerminates
<1>4. FailureInv'
  BY <1>1, <1>2 DEF FailureInv, Active
<1> QED
  BY <1>2, <1>3, <1>4, OwnerMoves DEF Inv, TypeOK

LEMMA LeaveInv == ASSUME Inv, Leave, UNCHANGED scope PROVE Inv'
<1> USE DEF Leave
<1>1. owner \in Settled /\ owner # "clear"
  BY DEF Settled
<1>2. owner' \in Owners /\ \A f \in Fns : ~Active(f)
  BY <1>1 DEF Owners, Inv, SettledInv
<1>3. UnreportedTerminates'
  BY <1>1, SettledFailure DEF UnreportedTerminates
<1>4. FailureInv'
  BY <1>1 DEF Inv, FailureInv
<1> QED
  BY <1>2, <1>3, <1>4, OwnerMoves DEF Inv, TypeOK

-----------------------------------------------------------------------------
LEMMA StutterInv == ASSUME Inv, UNCHANGED vars PROVE Inv'
<1> USE DEF vars
<1>1. UNCHANGED scope /\ FailureInv' /\ UnreportedTerminates'
  BY DEF scope, Inv, FailureInv, UnreportedTerminates
<1> QED
  BY <1>1, OwnerMoves DEF Inv, TypeOK, SettledInv

LEMMA NextInv == Inv /\ [Next]_vars => Inv'
<1> SUFFICES ASSUME Inv, [Next]_vars PROVE Inv'
  OBVIOUS
<1>1. CASE Call
  BY <1>1, CallOrLoopInv DEF Call
<1>2. CASE OwnerStep
  BY <1>2, CallOrLoopInv, CheckInv, TakeExceptionInv, ClearAndRethrowInv, LeaveInv
     DEF OwnerStep
<1>3. ASSUME NEW f \in Fns, Start(f) PROVE Inv'
  BY <1>3, SpawnCountInv, RunInv DEF Start
<1>4. ASSUME NEW f \in Fns, FnStep(f) PROVE Inv'
  BY <1>4, SpawnSubmitInv, SpawnFailsInv, BeginInv, EndBodyInv, ExchangeInv, StoreInv,
     CompleteInv DEF FnStep
<1>5. CASE UNCHANGED vars
  BY <1>5, StutterInv
<1> QED
  BY <1>1, <1>2, <1>3, <1>4, <1>5 DEF Next

LEMMA SpecInv == Spec => []Inv
  BY InitInv, NextInv, PTL DEF Spec

\* The variables keep their types: in particular the count of pending
\* functions never goes below zero.
THEOREM ScopeTypeCorrect == Spec => []TypeOK
  BY SpecInv, PTL DEF Inv

\* No function of the scope is left when wait() goes on to look for an
\* exception, or when the destructor is past its own wait: the lambdas, which
\* hold the scope by its address, never use it after it is gone.
THEOREM ScopeSafe == Spec => []ScopeOutlivesFns
<1>1. Inv => ScopeOutlivesFns
  BY DEF Inv, SettledInv, Settled, ScopeOutlivesFns
<1> QED
  BY <1>1, SpecInv, PTL

\* A wait() that finds has_exception_ set finds the exception of a failed
\* function in first_exception_, and one that returns normally leaves none
\* unreported, although the flag is set first and the exception stored later.
THEOREM ScopeReports == Spec => []FailureReported
<1>1. Inv => FailureReported
  BY SettledFailure DEF Inv, FailureInv, Settled, FailureReported
<1> QED
  BY <1>1, SpecInv, PTL

\* The destructor ends the program only for a failure no wait() has thrown,
\* and passes one over only while another exception is being handled.
THEOREM ScopeTerminates == Spec => []UnreportedTerminates
  BY SpecInv, PTL DEF Inv
=============================================================================
