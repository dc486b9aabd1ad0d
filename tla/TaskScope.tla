----------------------------- MODULE TaskScope -----------------------------
(***************************************************************************)
(* The two scopes of task_system.hpp, which wait in their destructor for   *)
(* the functions started in them and hand the first exception to wait().   *)
(* basic_task_scope ("handles") keeps a handle per function; only its      *)
(* owner starts functions.  basic_thread_local_task_scope ("pending")      *)
(* counts the functions that have not ended; functions may start others.   *)
(*                                                                         *)
(* A function that was submitted runs on any thread, the waiting owner's   *)
(* included, concurrently with the others: what TaskSystem shows.  The     *)
(* functions do not wait for one another, so the thread does not matter.   *)
(***************************************************************************)
EXTENDS Integers, FiniteSets

CONSTANTS
    Fns,       \* the functions; each is started once
    Throws,    \* the functions that throw
    Spawns,    \* Spawns[f]: the functions that f starts
    NoFn       \* stands for a null exception_ptr

ASSUME ScopeAssumption ==
    /\ IsFiniteSet(Fns)
    /\ Throws \subseteq Fns
    /\ Spawns \in [Fns -> SUBSET Fns]
    /\ \A f, g \in Fns : f # g => Spawns[f] \cap Spawns[g] = {}
    /\ NoFn \notin Fns

Roots == {f \in Fns : \A g \in Fns : f \notin Spawns[g]}

VARIABLES
    kind,           \* which of the two scopes: "handles" or "pending"
    cancel,         \* cancel_on_exception_
    pending,        \* pending_ ("pending")
    completed,      \* functions whose task has completed_ set ("handles")
    hasException,   \* has_exception_
    first,          \* first_exception_: the function that threw it, or NoFn
    at,             \* where each function's task is
    owner,          \* where the thread that owns the scope is
    unwinding,      \* whether the destructor runs because of an exception
    eptr,           \* local variable of rethrow_if_exception
    unreported      \* history: functions whose exception no wait() has answered for

vars == <<kind, cancel, pending, completed, hasException, first, at, owner,
          unwinding, eptr, unreported>>

scope == <<kind, cancel>>

Ats == {"new", "counted", "ready", "body", "catch", "record", "complete", "ended"}

Owners == {"run", "wait", "check", "take", "clear", "returned", "threw",
           "join", "leave", "gone", "terminated"}

Init ==
    /\ kind \in {"handles", "pending"}
    /\ cancel \in BOOLEAN
    /\ pending = 0
    /\ completed = {}
    /\ hasException = FALSE
    /\ first = NoFn
    /\ at = [f \in Fns |-> "new"]
    /\ owner = "run"
    /\ unwinding = FALSE
    /\ eptr = NoFn
    /\ unreported = {}

Move(f, l) == at' = [at EXCEPT ![f] = l]

-----------------------------------------------------------------------------
(* Starting a function: spawn and run. *)

\* No other spawn by the same caller is under way.
OneAtATime(S) == \A f \in S : at[f] # "counted"

\* f may be started now: by the owner, between its waits, or by the body of
\* a function that runs.
MayStart(f) ==
    /\ at[f] = "new"
    /\ \/ /\ f \in Roots /\ OneAtATime(Roots)
          /\ owner \in {"run", "returned", "threw"}
       \/ /\ kind = "pending"
          /\ \E g \in Fns : f \in Spawns[g] /\ at[g] = "body" /\ OneAtATime(Spawns[g])

\* The owner that starts a function is past the wait it may have made before.
StarterGoesOn(f) == owner' = IF f \in Roots THEN "run" ELSE owner

\* Faulty: the spawn is not counted.
CountFaulty(f) == pending' = pending

Count(f) == pending' = pending + 1

\* spawn: the count goes up before the task is submitted.
SpawnCount(f) ==
    /\ kind = "pending" /\ MayStart(f)
    /\ Count(f)
    /\ Move(f, "counted")
    /\ StarterGoesOn(f)
    /\ UNCHANGED <<completed, hasException, first, unwinding,
                   eptr, unreported>>

SpawnSubmit(f) ==
    /\ at[f] = "counted"
    /\ Move(f, "ready")
    /\ UNCHANGED <<pending, completed, hasException, first, owner, unwinding,
                   eptr, unreported>>

\* submit throws: the count goes down again and the function never runs.  The
\* exception goes to the owner's code, or ends the body that called spawn.
SpawnFails(f) ==
    /\ at[f] = "counted"
    /\ pending' = pending - 1
    /\ \/ /\ f \in Roots
          /\ Move(f, "ended")
          /\ UNCHANGED unreported
       \/ \E g \in Fns :
            /\ f \in Spawns[g]
            /\ at' = [at EXCEPT ![f] = "ended", ![g] = "catch"]
            /\ unreported' = unreported \cup {g}
    /\ UNCHANGED <<completed, hasException, first, owner, unwinding, eptr>>

\* run: the task is submitted and its handle kept.
Run(f) ==
    /\ kind = "handles" /\ MayStart(f)
    /\ Move(f, "ready")
    /\ StarterGoesOn(f)
    /\ UNCHANGED <<pending, completed, hasException, first, unwinding,
                   eptr, unreported>>

-----------------------------------------------------------------------------
(* The lambda that the task runs. *)

\* Faulty: a skipped function does not answer for itself.
SkipToFaulty == "ended"

SkipTo == "complete"

\* A function that starts after a failure was seen is skipped.
Begin(f) ==
    /\ at[f] = "ready"
    /\ Move(f, IF cancel /\ hasException THEN SkipTo ELSE "body")
    /\ UNCHANGED <<pending, completed, hasException, first, owner, unwinding,
                   eptr, unreported>>

\* The body has made its spawns and returns, or throws into the handler.
EndBody(f) ==
    /\ at[f] = "body"
    /\ kind = "pending" => \A g \in Spawns[f] : at[g] \notin {"new", "counted"}
    /\ Move(f, IF f \in Throws THEN "catch" ELSE "complete")
    /\ unreported' = IF f \in Throws THEN unreported \cup {f} ELSE unreported
    /\ UNCHANGED <<pending, completed, hasException, first, owner, unwinding,
                   eptr>>

\* record_exception: has_exception_.exchange(true); only the first goes on.
Exchange(f) ==
    /\ at[f] = "catch"
    /\ hasException' = TRUE
    /\ Move(f, IF hasException THEN "complete" ELSE "record")
    /\ UNCHANGED <<pending, completed, first, owner, unwinding,
                   eptr, unreported>>

\* ... and stores the exception under exception_lock_.
Store(f) ==
    /\ at[f] = "record"
    /\ first' = f
    /\ Move(f, "complete")
    /\ UNCHANGED <<pending, completed, hasException, owner, unwinding,
                   eptr, unreported>>

\* Faulty: the handler answers for the function before the exception is stored.
ReadyToCompleteFaulty(f) == at[f] \in {"record", "complete"}

ReadyToComplete(f) == at[f] = "complete"

\* complete_one, or completed_ of the task.
Complete(f) ==
    /\ ReadyToComplete(f)
    /\ IF kind = "pending"
         THEN pending' = pending - 1 /\ UNCHANGED completed
         ELSE completed' = completed \cup {f} /\ UNCHANGED pending
    /\ Move(f, "ended")
    /\ UNCHANGED <<hasException, first, owner, unwinding,
                   eptr, unreported>>

-----------------------------------------------------------------------------
(* The owner: wait, rethrow_if_exception, the destructor. *)

Started == {f \in Fns : at[f] # "new"}

\* What the loops of wait and wait_noexcept wait for.
AllEnded ==
    IF kind = "pending" THEN pending = 0 ELSE Started \subseteq completed

\* wait() is called when the owner is not in the middle of a spawn of its own.
CallWait ==
    /\ owner \in {"run", "returned", "threw"}
    /\ OneAtATime(Roots)
    /\ owner' = "wait"
    /\ UNCHANGED <<pending, completed, hasException, first, at, unwinding,
                   eptr, unreported>>

EndWait ==
    /\ owner = "wait" /\ AllEnded
    /\ owner' = "check"
    /\ UNCHANGED <<pending, completed, hasException, first, at, unwinding,
                   eptr, unreported>>

Check ==
    /\ owner = "check"
    /\ owner' = IF hasException THEN "take" ELSE "returned"
    /\ UNCHANGED <<pending, completed, hasException, first, at, unwinding,
                   eptr, unreported>>

TakeException ==
    /\ owner = "take"
    /\ eptr' = first
    /\ first' = NoFn
    /\ owner' = "clear"
    /\ UNCHANGED <<pending, completed, hasException, at, unreported, unwinding>>

\* has_exception_.store(false); the exception is rethrown if there is one.
ClearAndRethrow ==
    /\ owner = "clear"
    /\ hasException' = FALSE
    /\ owner' = IF eptr # NoFn THEN "threw" ELSE "returned"
    /\ unreported' = IF eptr # NoFn THEN {} ELSE unreported
    /\ eptr' = NoFn
    /\ UNCHANGED <<pending, completed, first, at, unwinding>>

Destroy ==
    /\ owner \in {"run", "returned", "threw"}
    /\ OneAtATime(Roots)
    /\ owner' = "join"
    /\ unwinding' \in BOOLEAN
    /\ UNCHANGED <<pending, completed, hasException, first, at, eptr, unreported>>

\* Faulty: the destructor does not wait.
JoinedFaulty == TRUE

Joined == AllEnded

\* wait_noexcept in the destructor.
Join ==
    /\ owner = "join" /\ Joined
    /\ owner' = "leave"
    /\ UNCHANGED <<pending, completed, hasException, first, at, unwinding,
                   eptr, unreported>>

\* A failure that no wait() has reported terminates the program, unless an
\* exception is under way already.
Leave ==
    /\ owner = "leave"
    /\ owner' = IF hasException /\ ~unwinding THEN "terminated" ELSE "gone"
    /\ UNCHANGED <<pending, completed, hasException, first, at, unwinding,
                   eptr, unreported>>

-----------------------------------------------------------------------------
Start(f) == (SpawnCount(f) \/ Run(f)) /\ UNCHANGED scope

FnStep(f) ==
    /\ owner # "terminated"
    /\ \/ SpawnSubmit(f) \/ SpawnFails(f)
       \/ Begin(f) \/ EndBody(f) \/ Exchange(f) \/ Store(f) \/ Complete(f)
    /\ UNCHANGED scope

OwnerStep ==
    /\ EndWait \/ Check \/ TakeException \/ ClearAndRethrow \/ Join \/ Leave
    /\ UNCHANGED scope

Call == (CallWait \/ Destroy) /\ UNCHANGED scope

Next == Call \/ OwnerStep \/ \E f \in Fns : Start(f) \/ FnStep(f)

Spec == Init /\ [][Next]_vars

(* A call that was begun goes on, a body that runs makes its spawns, and   *)
(* tasks run: the owner itself runs what is queued while it waits.         *)
FairSpec ==
    /\ Spec
    /\ WF_vars(OwnerStep)
    /\ \A f \in Fns \ Roots : WF_vars(Start(f))
    /\ \A f \in Fns : WF_vars(FnStep(f))

-----------------------------------------------------------------------------
(* Properties. *)

\* The type of every variable.
TypeOK ==
    /\ kind \in {"handles", "pending"} /\ cancel \in BOOLEAN
    /\ pending \in Nat
    /\ completed \subseteq Fns
    /\ hasException \in BOOLEAN
    /\ first \in Fns \cup {NoFn}
    /\ at \in [Fns -> Ats]
    /\ owner \in Owners
    /\ unwinding \in BOOLEAN
    /\ eptr \in Fns \cup {NoFn}
    /\ unreported \subseteq Fns

Active(f) == at[f] \notin {"new", "ended"}

\* The lambdas use the scope by its address: when wait() has seen the last
\* one end, or the destructor is past its wait, none is left that would
\* read or write it.
ScopeOutlivesFns ==
    owner \in {"check", "take", "clear", "leave", "gone", "terminated"}
      => \A f \in Fns : ~Active(f)

\* Although has_exception_ is set before first_exception_ is stored, a wait()
\* that finds the flag finds the exception, and one that returns normally
\* has none to report.
FailureReported ==
    /\ owner = "take" => first \in unreported
    /\ owner = "returned" => unreported = {}

\* The destructor terminates the program only for a failure that no wait() has
\* thrown, and passes one over only while another exception is being handled.
UnreportedTerminates ==
    /\ owner = "terminated" => unreported # {}
    /\ owner = "gone" => unreported = {} \/ unwinding

\* wait() and the destructor return.
OwnerReturns ==
    /\ owner = "wait" ~> owner \in {"returned", "threw"}
    /\ owner = "join" ~> owner \in {"gone", "terminated"}
=============================================================================
