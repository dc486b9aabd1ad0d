---------------------------- MODULE TaskSystem ----------------------------
(***************************************************************************)
(* stk::thread::task_system: tasks with dependencies on top of a pool.     *)
(* Every task carries a count of unresolved dependencies (deps_), a count  *)
(* of references (refs_), the list of the tasks that wait for it (conts_)  *)
(* and the flag that closes that list (sealed_).  Clients and task bodies  *)
(* submit tasks, wait for them and drop handles.                           *)
(*                                                                         *)
(* The pool is what WorkStealingPool shows of it: a task that is sent lies *)
(* in some queue until a thread takes it, or, when the queue is full, is   *)
(* run by the sender on the spot.  A thread that waits takes any queued    *)
(* task and runs it above the one that waits, so every thread has a stack  *)
(* of activations and only the topmost moves.  An activation is named by   *)
(* the task it executes or by the client whose code it is.  A poll that    *)
(* runs into a queue just before a task is pushed there counts as one made *)
(* a moment earlier.                                                       *)
(***************************************************************************)
EXTENDS Integers, Sequences, FiniteSets

CONSTANTS
    Clients,     \* threads outside the pool that use the task system
    Workers,     \* threads of the pool
    Tasks,       \* the tasks; each is submitted once
    NoTask,      \* not a task
    Prog,        \* Prog[x]: the calls that client x, or the body of task x, makes
    After,       \* After[t]: the parents that t is submitted after
    InlineSends  \* whether a send may find its queue full

Threads == Workers \cup Clients
Actors  == Tasks \cup Clients
Calls   == [op : {"submit", "submit_after", "wait", "drop"}, task : Tasks]

ASSUME TaskAssumption ==
    /\ NoTask \notin Tasks
    /\ Tasks \cap Clients = {} /\ Workers \cap Clients = {}
    /\ Prog \in [Actors -> Seq(Calls)]
    /\ After \in [Tasks -> Seq(Tasks)]
    /\ InlineSends \in BOOLEAN

Submits(c, t)  == c.op \in {"submit", "submit_after"} /\ c.task = t
Releases(c, t) == c.op \in {"wait", "drop"} /\ c.task = t

\* What the interface asks of its callers: a call of submit makes a new task,
\* a handle is an object that one thread uses, and submit has no parents.
ASSUME ProgramAssumption ==
    /\ \A t \in Tasks, x, y \in Actors :
          \A i \in DOMAIN Prog[x], j \in DOMAIN Prog[y] :
             /\ Submits(Prog[x][i], t) /\ Submits(Prog[y][j], t) => x = y /\ i = j
             /\ Releases(Prog[x][i], t) /\ Releases(Prog[y][j], t) => x = y
    /\ \A x \in Actors : \A i \in DOMAIN Prog[x] :
          Prog[x][i].op = "submit" => After[Prog[x][i].task] = <<>>

VARIABLES
    refs,        \* refs_ of each task
    deps,        \* deps_ of each task
    sealed,      \* the tasks with sealed_ set
    completed,   \* the tasks with completed_ set
    conts,       \* conts_ of each task
    locked,      \* the tasks whose conts_lock_ is held across steps
    freed,       \* the tasks that went back to the memory pool
    handle,      \* the tasks whose handle is not null
    queued,      \* how often each task lies in a queue of the pool
    stack,       \* the activations of each thread, the running one last
    pc,          \* where each activation is
    op,          \* the next call of each activation's program
    cur,         \* the task that the call in progress handles
    par,         \* the parent that submit_after has come to
    local,       \* the continuations that execute() has yet to release
    ret          \* where an activation goes on after enqueue_ready

shared == <<sealed, completed, conts, locked, handle>>
frames == <<pc, op, cur, par, local, ret>>
vars == <<refs, deps, sealed, completed, conts, locked, freed, handle,
          queued, stack, pc, op, cur, par, local, ret>>

PCs == {"idle", "body", "attach", "link", "unlink", "enqueue", "help",
        "reset", "conts", "relcont", "release", "return", "done"}

Init ==
    /\ refs = [t \in Tasks |-> 0]
    /\ deps = [t \in Tasks |-> 0]
    /\ sealed = {} /\ completed = {} /\ locked = {} /\ freed = {}
    /\ handle = {}
    /\ conts = [t \in Tasks |-> <<>>]
    /\ queued = [t \in Tasks |-> 0]
    /\ stack = [th \in Threads |-> IF th \in Clients THEN <<th>> ELSE <<>>]
    /\ pc = [x \in Actors |-> IF x \in Clients THEN "body" ELSE "idle"]
    /\ op = [x \in Actors |-> 1]
    /\ cur = [x \in Actors |-> NoTask]
    /\ par = [x \in Actors |-> 1]
    /\ local = [x \in Actors |-> <<>>]
    /\ ret = [x \in Actors |-> "body"]

-----------------------------------------------------------------------------
(* Activations. *)

\* x is the activation that thread th is in.
Runs(th, x) == stack[th] # <<>> /\ stack[th][Len(stack[th])] = x

GoTo(x, l) == pc' = [pc EXCEPT ![x] = l]

AtCall(x, f) ==
    /\ pc[x] = "body"
    /\ op[x] <= Len(Prog[x])
    /\ Prog[x][op[x]].op = f

Arg(x) == Prog[x][op[x]].task

\* x begins the call that is next in its program.
Begin(x, l) ==
    /\ GoTo(x, l)
    /\ op' = [op EXCEPT ![x] = @ + 1]
    /\ cur' = [cur EXCEPT ![x] = Arg(x)]

\* Faulty: fetch_sub is read as if it returned the new value.
LastRefFaulty(t) == refs[t] = 0

\* fetch_sub returns the value before the subtraction.
LastRef(t) == refs[t] = 1

\* One reference to t is given up; the last one frees the task.
ReleaseRef(t) ==
    /\ refs' = [refs EXCEPT ![t] = @ - 1]
    /\ freed' = IF LastRef(t) THEN freed \cup {t} ELSE freed

\* Faulty: off by one.
LastDepFaulty(t) == deps[t] <= 2

LastDep(t) == deps[t] = 1

\* One dependency of cur[x] is resolved; the last one makes it ready.
Resolve(x, l) ==
    LET t == cur'[x] IN
    /\ deps' = [deps EXCEPT ![t] = @ - 1]
    /\ IF LastDep(t)
         THEN GoTo(x, "enqueue") /\ ret' = [ret EXCEPT ![x] = l]
         ELSE GoTo(x, l) /\ UNCHANGED ret

-----------------------------------------------------------------------------
(* Submitting: submit, submit_after, attach_cont, enqueue_ready. *)

\* make_task: one reference for the handle, one for the execution.
MakeTask(t, n) ==
    /\ refs' = [refs EXCEPT ![t] = 2]
    /\ deps' = [deps EXCEPT ![t] = n]
    /\ handle' = handle \cup {t}

Submit(x) ==
    /\ AtCall(x, "submit")
    /\ MakeTask(Arg(x), 0)
    /\ Begin(x, "enqueue")
    /\ ret' = [ret EXCEPT ![x] = "body"]
    /\ UNCHANGED <<sealed, completed, conts, locked, freed, queued,
                   stack, par, local>>

\* Faulty: no sentinel while the parents are visited.
InitialDepsFaulty(t) == Len(After[t])

\* One dependency per parent, and the sentinel.
InitialDeps(t) == Len(After[t]) + 1

SubmitAfter(x) ==
    /\ AtCall(x, "submit_after")
    /\ MakeTask(Arg(x), InitialDeps(Arg(x)))
    /\ Begin(x, "attach")
    /\ par' = [par EXCEPT ![x] = 1]
    /\ UNCHANGED <<sealed, completed, conts, locked, freed, queued,
                   stack, local, ret>>

Parent(x) == After[cur[x]][par[x]]

\* Faulty: the list of continuations holds no reference.
TakeRefFaulty(t) == UNCHANGED refs

TakeRef(t) == refs' = [refs EXCEPT ![t] = @ + 1]

\* attach_cont takes a reference to the child before it looks at the parent.
AddRef(x) ==
    /\ pc[x] = "attach" /\ par[x] <= Len(After[cur[x]])
    /\ TakeRef(cur[x])
    /\ GoTo(x, "link")
    /\ UNCHANGED <<shared, deps, freed, queued, stack,
                   op, cur, par, local, ret>>

\* Faulty: the list is not looked at again under the lock.
OpenFaulty(p) == TRUE

Open(p) == p \notin sealed

\* Under the parent's lock: an open list takes the child ...
Link(x) ==
    /\ pc[x] = "link" /\ Parent(x) \notin locked
    /\ Open(Parent(x))
    /\ conts' = [conts EXCEPT ![Parent(x)] = Append(@, cur[x])]
    /\ par' = [par EXCEPT ![x] = @ + 1]
    /\ GoTo(x, "attach")
    /\ UNCHANGED <<refs, deps, sealed, completed, locked, freed, handle,
                   queued, stack, op, cur, local, ret>>

\* ... a sealed one means that the parent has run.  The lock is held until
\* the reference is given up, also while enqueue_ready runs the child.
LinkSealed(x) ==
    /\ pc[x] = "link" /\ Parent(x) \notin locked
    /\ ~Open(Parent(x))
    /\ locked' = locked \cup {Parent(x)}
    /\ UNCHANGED cur
    /\ Resolve(x, "unlink")
    /\ UNCHANGED <<refs, sealed, completed, conts, freed, handle, queued,
                   stack, op, par, local>>

Unlink(x) ==
    /\ pc[x] = "unlink"
    /\ ReleaseRef(cur[x])
    /\ locked' = locked \ {Parent(x)}
    /\ par' = [par EXCEPT ![x] = @ + 1]
    /\ GoTo(x, "attach")
    /\ UNCHANGED <<deps, sealed, completed, conts, handle, queued,
                   stack, op, cur, local, ret>>

\* The sentinel is resolved when every parent has been visited.
Sentinel(x) ==
    /\ pc[x] = "attach" /\ par[x] > Len(After[cur[x]])
    /\ UNCHANGED cur
    /\ Resolve(x, "body")
    /\ UNCHANGED <<shared, refs, freed, queued, stack,
                   op, par, local>>

\* enqueue_ready: the pool queues the task ...
Enqueue(x) ==
    /\ pc[x] = "enqueue"
    /\ queued' = [queued EXCEPT ![cur[x]] = @ + 1]
    /\ GoTo(x, ret[x])
    /\ UNCHANGED <<shared, refs, deps, freed, stack, op, cur, par, local, ret>>

\* ... or, when the queue is full, runs it on the sender's stack.
EnqueueInline(th, x) ==
    /\ InlineSends
    /\ pc[x] = "enqueue"
    /\ stack' = [stack EXCEPT ![th] = Append(@, cur[x])]
    /\ pc' = [pc EXCEPT ![x] = ret[x], ![cur[x]] = "body"]
    /\ UNCHANGED <<shared, refs, deps, freed, queued, op, cur, par, local, ret>>

-----------------------------------------------------------------------------
(* Waiting and dropping: wait_impl, task_handle::reset. *)

\* A null handle, one that was waited for or dropped before, is skipped.
WaitNull(x) ==
    /\ AtCall(x, "wait") /\ Arg(x) \notin handle
    /\ op' = [op EXCEPT ![x] = @ + 1]
    /\ UNCHANGED <<shared, refs, deps, freed, queued, stack,
                   pc, cur, par, local, ret>>

WaitDone(x) ==
    /\ AtCall(x, "wait") /\ Arg(x) \in handle
    /\ Arg(x) \in completed
    /\ Begin(x, "reset")
    /\ UNCHANGED <<shared, refs, deps, freed, queued, stack,
                   par, local, ret>>

WaitBusy(x) ==
    /\ AtCall(x, "wait") /\ Arg(x) \in handle
    /\ Arg(x) \notin completed
    /\ GoTo(x, "help")
    /\ UNCHANGED <<shared, refs, deps, freed, queued, stack,
                   op, cur, par, local, ret>>

\* do_work with nothing queued; the wait looks at completed_ again.
HelpMiss(x) ==
    /\ pc[x] = "help"
    /\ \A t \in Tasks : queued[t] = 0
    /\ GoTo(x, "body")
    /\ UNCHANGED <<shared, refs, deps, freed, queued, stack,
                   op, cur, par, local, ret>>

\* do_work takes a queued task and runs it above the waiting activation.
HelpTake(th, x, t) ==
    /\ pc[x] = "help"
    /\ queued[t] > 0
    /\ queued' = [queued EXCEPT ![t] = @ - 1]
    /\ stack' = [stack EXCEPT ![th] = Append(@, t)]
    /\ pc' = [pc EXCEPT ![x] = "body", ![t] = "body"]
    /\ UNCHANGED <<shared, refs, deps, freed, op, cur, par, local, ret>>

\* A worker with nothing to do takes a queued task.
WorkerTake(th, t) ==
    /\ th \in Workers /\ stack[th] = <<>>
    /\ queued[t] > 0
    /\ queued' = [queued EXCEPT ![t] = @ - 1]
    /\ stack' = [stack EXCEPT ![th] = <<t>>]
    /\ GoTo(t, "body")
    /\ UNCHANGED <<shared, refs, deps, freed, op, cur, par, local, ret>>

\* The wait is over: h.reset().
Reset(x) ==
    /\ pc[x] = "reset"
    /\ ReleaseRef(cur[x])
    /\ handle' = handle \ {cur[x]}
    /\ GoTo(x, "body")
    /\ UNCHANGED <<deps, sealed, completed, conts, locked, queued,
                   stack, op, cur, par, local, ret>>

\* A handle that goes out of scope without a wait.
Drop(x) ==
    /\ AtCall(x, "drop")
    /\ IF Arg(x) \in handle
         THEN ReleaseRef(Arg(x)) /\ handle' = handle \ {Arg(x)}
         ELSE UNCHANGED <<refs, freed, handle>>
    /\ op' = [op EXCEPT ![x] = @ + 1]
    /\ UNCHANGED <<deps, sealed, completed, conts, locked, queued,
                   stack, pc, cur, par, local, ret>>

-----------------------------------------------------------------------------
(* Executing: execute() after fn_ has returned. *)

BodyEnds(x) == pc[x] = "body" /\ op[x] > Len(Prog[x])

Seal(x) ==
    /\ BodyEnds(x) /\ x \in Tasks
    /\ x \notin locked
    /\ sealed' = sealed \cup {x}
    /\ local' = [local EXCEPT ![x] = conts[x]]
    /\ conts' = [conts EXCEPT ![x] = <<>>]
    /\ GoTo(x, "conts")
    /\ UNCHANGED <<refs, deps, completed, locked, freed, handle, queued,
                   stack, op, cur, par, ret>>

ResolveCont(x) ==
    /\ pc[x] = "conts" /\ local[x] # <<>>
    /\ cur' = [cur EXCEPT ![x] = Head(local[x])]
    /\ Resolve(x, "relcont")
    /\ UNCHANGED <<shared, refs, freed, queued, stack,
                   op, par, local>>

ReleaseCont(x) ==
    /\ pc[x] = "relcont"
    /\ ReleaseRef(cur[x])
    /\ local' = [local EXCEPT ![x] = Tail(@)]
    /\ GoTo(x, "conts")
    /\ UNCHANGED <<shared, deps, queued, stack, op, cur, par, ret>>

\* completed_ is published after the continuations have been resolved.
Complete(x) ==
    /\ pc[x] = "conts" /\ local[x] = <<>>
    /\ completed' = completed \cup {x}
    /\ GoTo(x, "release")
    /\ UNCHANGED <<refs, deps, sealed, conts, locked, freed, handle, queued,
                   stack, op, cur, par, local, ret>>

ReleaseSelf(x) ==
    /\ pc[x] = "release"
    /\ ReleaseRef(x)
    /\ GoTo(x, "return")
    /\ UNCHANGED <<shared, deps, queued, stack,
                   op, cur, par, local, ret>>

Pop(th) == stack' = [stack EXCEPT ![th] = SubSeq(@, 1, Len(@) - 1)]

\* execute() returns to the pool.
Return(th, x) ==
    /\ pc[x] = "return"
    /\ Pop(th)
    /\ GoTo(x, "done")
    /\ UNCHANGED <<shared, refs, deps, freed, queued, op, cur, par, local, ret>>

ClientEnds(th, x) ==
    /\ BodyEnds(x) /\ x \in Clients
    /\ Pop(th)
    /\ GoTo(x, "done")
    /\ UNCHANGED <<shared, refs, deps, freed, queued, op, cur, par, local, ret>>

-----------------------------------------------------------------------------
(* A step of the activation x that thread th is in. *)
ActorStep(th, x) ==
    \/ Submit(x)   \/ SubmitAfter(x) \/ AddRef(x)      \/ Link(x)
    \/ LinkSealed(x) \/ Unlink(x)    \/ Sentinel(x)    \/ Enqueue(x)
    \/ EnqueueInline(th, x)
    \/ WaitNull(x) \/ WaitDone(x)    \/ WaitBusy(x)    \/ HelpMiss(x)
    \/ (\E t \in Tasks : HelpTake(th, x, t))
    \/ Reset(x)    \/ Drop(x)
    \/ Seal(x)     \/ ResolveCont(x) \/ ReleaseCont(x) \/ Complete(x)
    \/ ReleaseSelf(x) \/ Return(th, x) \/ ClientEnds(th, x)

ThreadStep(th) == \E x \in Actors : Runs(th, x) /\ ActorStep(th, x)

Next ==
    \/ \E th \in Threads : ThreadStep(th)
    \/ \E th \in Workers, t \in Tasks : WorkerTake(th, t)

Spec == Init /\ [][Next]_vars

(* A thread that is in the middle of something goes on.  Nothing is asked  *)
(* of an idle worker: the pool may lose its wakeup, so what the clients    *)
(* wait for must happen without it.                                        *)
FairSpec == Spec /\ \A th \in Threads : WF_vars(ThreadStep(th))

-----------------------------------------------------------------------------
(* Properties. *)

\* The type of every variable; no counter goes below zero.
TypeOK ==
    /\ refs \in [Tasks -> Nat] /\ deps \in [Tasks -> Nat]
    /\ sealed \subseteq Tasks /\ completed \subseteq Tasks
    /\ locked \subseteq Tasks /\ freed \subseteq Tasks /\ handle \subseteq Tasks
    /\ conts \in [Tasks -> Seq(Tasks)]
    /\ queued \in [Tasks -> Nat]
    /\ stack \in [Threads -> Seq(Actors)]
    /\ pc \in [Actors -> PCs]
    /\ op \in [Actors -> Nat]
    /\ cur \in [Actors -> Tasks \cup {NoTask}]
    /\ par \in [Actors -> Nat]
    /\ local \in [Actors -> Seq(Tasks)]
    /\ ret \in [Actors -> {"body", "unlink", "relcont"}]

One(b) == IF b THEN 1 ELSE 0
Made(t) == refs[t] > 0 \/ pc[t] # "idle"

\* x has taken a reference to cur[x] in attach_cont and not passed it on.
Attaching(x) ==
    \/ pc[x] \in {"link", "unlink"}
    \/ pc[x] = "enqueue" /\ ret[x] = "unlink"

\* The continuations that p has yet to let go of, and the places in those
\* lists where t stands.
Pending(p) == conts[p] \o local[p]
ContPlaces(t) ==
    UNION {{p} \X {i \in DOMAIN Pending(p) : Pending(p)[i] = t} : p \in Tasks}

\* The calls of attach_cont that hold a reference to t.
Attachers(t) == {x \in Actors : Attaching(x) /\ cur[x] = t}

\* refs_ counts exactly the handle, the execution that is still to end and
\* the places that remember the task as a continuation, so that a task is
\* freed when the last of them lets go and none of them sees a freed task.
RefsHeld ==
    \A t \in Tasks :
        refs[t] = One(t \in handle)
                  + One(Made(t) /\ pc[t] \notin {"return", "done"})
                  + Cardinality(ContPlaces(t)) + Cardinality(Attachers(t))

Enqueuers(t) == {x \in Actors : pc[x] = "enqueue" /\ cur[x] = t}

\* A task is handed to the pool once: never again after execute() began,
\* and never from two of the three places that call enqueue_ready.
RunsOnce ==
    \A t \in Tasks : queued[t] + Cardinality(Enqueuers(t)) <= One(pc[t] = "idle")

\* Everything that t, and whatever was submitted before it in its graph,
\* has to wait for: the least set with t and the parents of its members.
Closed(S) == \A s \in S : \A i \in DOMAIN After[s] : After[s][i] \in S
Ancestors(t) == {s \in Tasks : \A S \in SUBSET Tasks : t \in S /\ Closed(S) => s \in S}

\* A wait that returns for the last task of a graph has waited for the
\* whole graph: completed_ of the join is seen only after every ancestor ran.
WaitSeesGraph ==
    \A x \in Actors : pc[x] = "reset" => Ancestors(cur[x]) \subseteq sealed

\* When nothing runs and nothing is queued, every task that was submitted
\* has gone back to the memory pool, whichever thread let go of it last.
NoLeak ==
    (\A th \in Threads : stack[th] = <<>>) /\ (\A t \in Tasks : queued[t] = 0)
      => \A t \in Tasks : Made(t) => t \in freed

\* Every client gets through its program, although workers may stay asleep:
\* a wait runs what is queued, and nothing it waits for can be stuck below it.
WaitsReturn == \A c \in Clients : <>(pc[c] = "done")

\* The task graph that a state of the task system stands for.
statusOf ==
    [t \in Tasks |->
        CASE t \in freed -> "reclaimed"
          [] t \notin freed /\ t \in sealed -> "finished"
          [] t \notin freed /\ t \notin sealed /\ pc[t] # "idle" -> "running"
          [] ~Made(t) -> "unmade"
          [] OTHER -> "submitted"]

\* What submit_after asks of its callers: they hold handles of the parents.
ParentsExist ==
    \A x \in Actors : AtCall(x, "submit_after") =>
        \A i \in DOMAIN After[Arg(x)] : Made(After[Arg(x)][i])

\* A program that passes the handles of tasks that it has submitted itself.
OwnHandles ==
    \A x \in Actors : \A k \in DOMAIN Prog[x] :
        Prog[x][k].op = "submit_after" =>
           \A i \in DOMAIN After[Prog[x][k].task] :
              \E j \in DOMAIN Prog[x] :
                 j < k /\ Submits(Prog[x][j], After[Prog[x][k].task][i])

\* A program lets go of every handle that it gets: task_handle::reset is called
\* by a wait, or by the destructor of the handle.
HandlesReleased ==
    \A x \in Actors, t \in Tasks : \A i \in DOMAIN Prog[x] :
        Submits(Prog[x][i], t) =>
           \E j \in DOMAIN Prog[x] : i < j /\ Releases(Prog[x][j], t)

Graph == INSTANCE TaskGraph WITH status <- statusOf

\* deps_, the sentinel and the sealed lists implement the task graph: a task
\* starts only after its parents' functions have returned, and runs once.
ImplementsTaskGraph == Graph!Spec
=============================================================================
