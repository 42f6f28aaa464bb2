----------------------------- MODULE StaticInit -----------------------------
(***************************************************************************)
(* One-time initialization: the guards of function-local statics           *)
(* (platform/runtime/libstdcxx/cxx_guard.cpp) and std::call_once           *)
(* (once in backend.cpp), as they nest in each other.                      *)
(*                                                                         *)
(* All guards share one recursive mutex, which a thread keeps while the    *)
(* initializer runs; a thread that meets a running once function polls.    *)
(* Initializers and once functions are user code: they reach further       *)
(* statics and call_onces, return or throw.  The threads run under the     *)
(* scheduler, so locking_required is true.                                 *)
(***************************************************************************)
EXTENDS Naturals, Sequences, FiniteSets

CONSTANTS
  Threads,
  Guards,          \* function-local statics
  Onces,           \* once_flags
  MaxDepth,        \* how deep initializations nest
  MaxThrows        \* how many of them end with an exception

ASSUME StaticInitAssumption ==
  /\ Guards \cap Onces = {}
  /\ MaxDepth \in Nat \ {0} /\ MaxThrows \in Nat

VARIABLES
  initialized,  \* guards whose INITIALIZED_BYTE is set
  in_progress,  \* guards whose IN_PROGRESS_BYTE is set
  owner, count, \* cxx_guard_mutex
  state,        \* OnceHandle::state
  stack,        \* what each thread is initializing, outermost first
  pc, target,   \* where a thread is inside the runtime, and for what
  fatal,        \* who called guard_failure for which guard
  throws        \* exceptions so far

guardVars == <<initialized, in_progress, owner, count>>
vars == <<guardVars, state, stack, pc, target, fatal, throws>>

None == "none"
NoFailure == <<None, None>>

Initializing(t) == {stack[t][i] : i \in DOMAIN stack[t]}
Innermost(t) == stack[t][Len(stack[t])]
Running(t, S) == pc[t] = "user" /\ stack[t] # <<>> /\ Innermost(t) \in S

\* User code of t may begin another initialization.
MayCall(t) == pc[t] = "user" /\ Len(stack[t]) < MaxDepth

Push(t, x) == stack' = [stack EXCEPT ![t] = Append(@, x)]
Pop(t) == stack' = [stack EXCEPT ![t] = SubSeq(@, 1, Len(@) - 1)]
GoTo(t, step) == pc' = [pc EXCEPT ![t] = step]

----------------------------------------------------------------------------
(* __cxa_guard_acquire, _release and _abort. *)

\* The first look, without the mutex; if the byte is set the call is over.
GuardAcquire(t, g) ==
  /\ MayCall(t)
  /\ g \notin initialized
  /\ GoTo(t, "lock")
  /\ target' = [target EXCEPT ![t] = g]
  /\ UNCHANGED <<guardVars, state, stack, fatal, throws>>

\* Mutant: the mutex is not recursive.
CanLock_NotRecursive(t) == owner = None

CanLock(t) == owner \in {None, t}

GuardLock(t) ==
  /\ pc[t] = "lock"
  /\ CanLock(t)
  /\ owner' = t /\ count' = count + 1
  /\ GoTo(t, "check")
  /\ UNCHANGED <<initialized, in_progress, state, stack, target, fatal, throws>>

MutexPut ==
  /\ count' = count - 1
  /\ owner' = IF count = 1 THEN None ELSE owner

\* Mutant: the guard is not looked at again under the mutex.
AlreadyInitialized_NotRechecked(t) == FALSE

AlreadyInitialized(t) == target[t] \in initialized

\* The second look: another thread was first.
GuardDone(t) ==
  /\ pc[t] = "check"
  /\ AlreadyInitialized(t)
  /\ MutexPut
  /\ GoTo(t, "user")
  /\ target' = [target EXCEPT ![t] = None]
  /\ UNCHANGED <<initialized, in_progress, state, stack, fatal, throws>>

\* guard_failure does not return.
GuardRecursion(t) ==
  /\ pc[t] = "check"
  /\ ~AlreadyInitialized(t) /\ target[t] \in in_progress
  /\ fatal' = <<t, target[t]>>
  /\ UNCHANGED <<guardVars, state, stack, pc, target, throws>>

\* The mutex stays locked across the initializer.
GuardBegin(t) ==
  /\ pc[t] = "check"
  /\ ~AlreadyInitialized(t) /\ target[t] \notin in_progress
  /\ in_progress' = in_progress \cup {target[t]}
  /\ Push(t, target[t])
  /\ GoTo(t, "user")
  /\ target' = [target EXCEPT ![t] = None]
  /\ UNCHANGED <<initialized, owner, count, state, fatal, throws>>

\* The initializer returns: __cxa_guard_release, store by store.
GuardReturns(t) ==
  /\ Running(t, Guards)
  /\ in_progress' = in_progress \ {Innermost(t)}
  /\ GoTo(t, "store")
  /\ UNCHANGED <<initialized, owner, count, state, stack, target, fatal, throws>>

GuardStore(t) ==
  /\ pc[t] = "store"
  /\ initialized' = initialized \cup {Innermost(t)}
  /\ GoTo(t, "put")
  /\ UNCHANGED <<in_progress, owner, count, state, stack, target, fatal, throws>>

\* The initializer throws: __cxa_guard_abort.
GuardThrows(t) ==
  /\ Running(t, Guards)
  /\ throws < MaxThrows
  /\ throws' = throws + 1
  /\ in_progress' = in_progress \ {Innermost(t)}
  /\ GoTo(t, "put")
  /\ UNCHANGED <<initialized, owner, count, state, stack, target, fatal>>

GuardPut(t) ==
  /\ pc[t] = "put"
  /\ MutexPut
  /\ Pop(t)
  /\ GoTo(t, "user")
  /\ UNCHANGED <<initialized, in_progress, state, target, fatal, throws>>

----------------------------------------------------------------------------
(* once. *)

\* A once function that reaches its own once_flag is an error of the caller.
OnceCall(t, o) ==
  /\ MayCall(t)
  /\ state[o] # 2
  /\ o \notin Initializing(t)
  /\ GoTo(t, "poll")
  /\ target' = [target EXCEPT ![t] = o]
  /\ UNCHANGED <<guardVars, state, stack, fatal, throws>>

MayRun(o) == state[o] = 0

\* One round of the loop: run the function, return, or sleep and try again.
OnceBegin(t) ==
  /\ pc[t] = "poll"
  /\ MayRun(target[t])
  /\ state' = [state EXCEPT ![target[t]] = 1]
  /\ Push(t, target[t])
  /\ GoTo(t, "user")
  /\ target' = [target EXCEPT ![t] = None]
  /\ UNCHANGED <<guardVars, fatal, throws>>

OnceDone(t) ==
  /\ pc[t] = "poll"
  /\ state[target[t]] = 2
  /\ GoTo(t, "user")
  /\ target' = [target EXCEPT ![t] = None]
  /\ UNCHANGED <<guardVars, state, stack, fatal, throws>>

OnceReturns(t) ==
  /\ Running(t, Onces)
  /\ state' = [state EXCEPT ![Innermost(t)] = 2]
  /\ Pop(t)
  /\ UNCHANGED <<guardVars, pc, target, fatal, throws>>

\* Mutant: the exception leaves the once_flag in progress.
AfterThrow_StillRunning == 1

AfterThrow == 0

OnceThrows(t) ==
  /\ Running(t, Onces)
  /\ throws < MaxThrows
  /\ throws' = throws + 1
  /\ state' = [state EXCEPT ![Innermost(t)] = AfterThrow]
  /\ Pop(t)
  /\ UNCHANGED <<guardVars, pc, target, fatal>>

----------------------------------------------------------------------------

Init ==
  /\ initialized = {} /\ in_progress = {}
  /\ owner = None /\ count = 0
  /\ state = [o \in Onces |-> 0]
  /\ stack = [t \in Threads |-> <<>>]
  /\ pc = [t \in Threads |-> "user"]
  /\ target = [t \in Threads |-> None]
  /\ fatal = NoFailure
  /\ throws = 0

\* What the runtime does for t, and the ends of the functions it called.
Step(t) ==
  \/ GuardLock(t) \/ GuardDone(t) \/ GuardRecursion(t) \/ GuardBegin(t)
  \/ GuardReturns(t) \/ GuardStore(t) \/ GuardPut(t)
  \/ OnceBegin(t) \/ OnceDone(t) \/ OnceReturns(t)

Next ==
  /\ fatal = NoFailure
  /\ \E t \in Threads :
       \/ \E g \in Guards : GuardAcquire(t, g)
       \/ \E o \in Onces : OnceCall(t, o)
       \/ Step(t)
       \/ GuardThrows(t) \/ OnceThrows(t)

\* Initializers end, the scheduler runs every ready thread, and a thread suspended on
\* the mutex is given it in its turn.
Fairness ==
  \A t \in Threads :
    /\ WF_vars(fatal = NoFailure /\ Step(t))
    /\ SF_vars(fatal = NoFailure /\ GuardLock(t))

Spec == Init /\ [][Next]_vars /\ Fairness

----------------------------------------------------------------------------

\* Two threads never initialize the same object at the same time, and none initializes
\* an object that is initialized already: neither the unlocked first look at a guard nor
\* an exception that others were waiting through lets a second one in.  guard_failure is
\* called only for a thread that entered the initializer it is running itself, as the
\* comment in __cxa_guard_acquire argues: another thread's byte is never seen.
InitializedOnce ==
  /\ fatal # NoFailure => fatal[2] \in Initializing(fatal[1])
  /\ \A t, u \in Threads : t # u => Initializing(t) \cap Initializing(u) = {}
  /\ \A t \in Threads :
       /\ \A g \in initialized : g \in Initializing(t) => pc[t] = "put" /\ Innermost(t) = g
       /\ \A o \in Onces : state[o] = 2 => o \notin Initializing(t)

\* t cannot go on before u does.
WaitsFor(t, u) ==
  \/ pc[t] = "lock" /\ ~CanLock(t) /\ owner = u
  \/ pc[t] = "poll" /\ state[target[t]] = 1 /\ target[t] \in Initializing(u)

\* A thread polls a once_flag from inside a static's initializer, keeping the mutex of
\* all guards.
PollsInInitializer(t) == pc[t] = "poll" /\ owner = t

\* Threads that wait for each other all have run into one pattern: one of them polls a
\* once_flag from inside a static's initializer, keeping the mutex of all guards, or all
\* of them are once functions of the user's own that call each other's once_flags.
\* Statics alone never deadlock, in whatever order threads nest them.
StandstillHoldsGuardMutex ==
  \A S \in SUBSET Threads :
    S # {} /\ (\A t \in S : \E u \in S : WaitsFor(t, u)) =>
      \/ \E t \in S : PollsInInitializer(t)
      \/ \A t \in S : pc[t] = "poll"

\* A thread that reaches a static or a call_once gets past it when initializers end,
\* unless some initializer of a static waits for a call_once.
CallsReturn ==
  \A t \in Threads :
    pc[t] \in {"lock", "poll"} ~>
      (pc[t] = "user" \/ fatal # NoFailure \/ \E u \in Threads : PollsInInitializer(u))

----------------------------------------------------------------------------
(* Inductive invariants. *)

TypeOK ==
  /\ initialized \subseteq Guards /\ in_progress \subseteq Guards
  /\ owner \in Threads \cup {None} /\ count \in Nat
  /\ state \in [Onces -> 0 .. 2]
  /\ stack \in [Threads -> Seq(Guards \cup Onces)]
  /\ pc \in [Threads -> {"user", "lock", "check", "store", "put", "poll"}]
  /\ target \in [Threads -> Guards \cup Onces \cup {None}]

\* The positions of the guards on a stack.
GuardsOn(s) == {i \in DOMAIN s : s[i] \in Guards}

\* The calls of a thread that are inside cxx_guard_mutex: the initializers it is in, and
\* the one it is about to begin.
Locked(t) == Cardinality(GuardsOn(stack[t])) + IF pc[t] = "check" THEN 1 ELSE 0

\* A thread's place agrees with what it is called for and with the top of its stack.
PlaceOK(t) ==
  /\ pc[t] \in {"lock", "check"} => target[t] \in Guards
  /\ pc[t] = "poll" => target[t] \in Onces
  /\ pc[t] \in {"store", "put"} =>
       stack[t] # <<>> /\ Innermost(t) \in Guards \ in_progress

PlaceInv == \A t \in Threads : PlaceOK(t)

\* The owner has locked the mutex once per call that is inside; nobody else is inside.
MutexOK(t) ==
  /\ owner = t => count = Locked(t) /\ count > 0
  /\ owner # t => GuardsOn(stack[t]) = {} /\ pc[t] \notin {"check", "store", "put"}

MutexInv ==
  /\ owner = None => count = 0
  /\ \A t \in Threads : MutexOK(t)

\* A thread is in no initializer twice; of those it is in, only the innermost can be
\* past its release, and the bytes of all others say that they run.
NestOK(t) ==
  /\ \A i, j \in DOMAIN stack[t] : stack[t][i] = stack[t][j] => i = j
  /\ \A i \in DOMAIN stack[t] :
       LET x == stack[t][i]
       IN  /\ x \in Onces => state[x] = 1
           /\ x \in Guards /\ ~(i = Len(stack[t]) /\ pc[t] \in {"store", "put"}) =>
                x \in in_progress
           /\ x \in initialized => i = Len(stack[t]) /\ pc[t] = "put"

NestInv == \A t \in Threads : NestOK(t)

\* A guard whose byte says that it runs is not initialized, and the owner runs it.
ProgressInv ==
  \A g \in in_progress :
    /\ g \notin initialized /\ owner # None
    /\ \E i \in DOMAIN stack[owner] : stack[owner][i] = g

ApartInv ==
  \A t, u \in Threads : \A i \in DOMAIN stack[t], j \in DOMAIN stack[u] :
    stack[t][i] = stack[u][j] => t = u

FatalInv ==
  fatal # NoFailure => \E i \in DOMAIN stack[fatal[1]] : stack[fatal[1]][i] = fatal[2]

StaticInv ==
  TypeOK /\ PlaceInv /\ MutexInv /\ NestInv /\ ProgressInv /\ ApartInv /\ FatalInv
=============================================================================
