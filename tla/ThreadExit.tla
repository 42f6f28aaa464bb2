----------------------------- MODULE ThreadExit -----------------------------
(***************************************************************************)
(* What a ThreadX thread runs when it ends: the destructors of its         *)
(* thread_local objects and the callbacks of notify_all_at_thread_exit     *)
(* (platform/runtime/libstdcxx/backend.cpp, tls.cpp and thread_exit.cpp).  *)
(*                                                                         *)
(* The callbacks hang on one thread-specific key, whose destructor is run  *)
(* by the passes that ThreadKeys models.  Destructors and callbacks are    *)
(* user code and register more of both.                                    *)
(***************************************************************************)
EXTENDS Naturals, Sequences

CONSTANTS
  Application, \* the thread that adopts what global constructors registered
  Others,
  Passes,      \* destructor_iterations
  MaxObjects   \* bound on registrations

VARIABLES
  startup_destructors,
  at,                \* where each thread is
  cleanup_started,
  tls_destructors,   \* tx_thread_runtime_tls_destructors
  callbacks,         \* the value of thread_exit_key
  calling,           \* what run_thread_exit_callbacks has still to call
  pass,              \* of run_thread_specific_destructors
  objects,           \* history: the registrations, with their thread, kind and phase
  ran                \* history: how often each was run

threadVars == <<at, cleanup_started, tls_destructors, callbacks, calling, pass>>
vars == <<startup_destructors, threadVars, objects, ran>>

AllThreads == Others \cup {Application}

\* User code runs in the thread, in its function, a destructor or a callback.
InUserCode(t) == at[t] \in {"function", "destructor", "callback"}

Move(t, place) == at' = [at EXCEPT ![t] = place]

-----------------------------------------------------------------------------
(* Creation *)

Register(t, kind) ==
  /\ Len(objects) < MaxObjects
  /\ objects' = Append(objects, [thread |-> t, kind |-> kind, phase |-> at[t]])
  /\ ran' = Append(ran, 0)

Newest == Len(objects) + 1

\* __cxa_thread_atexit in a global constructor, before there is a thread.
StartupRegisters ==
  /\ at[Application] = "none"
  /\ Register(Application, "thread_local")
  /\ startup_destructors' = <<Newest>> \o startup_destructors
  /\ UNCHANGED <<threadVars>>

\* runtime_tls_adopt_startup
Adopted(t) == IF t = Application THEN startup_destructors ELSE <<>>

\* runtime_libstdcxx_thread_create, runtime_tls_thread_create and, when it first runs,
\* runtime_libstdcxx_thread_started.
Create(t) ==
  /\ at[t] = "none"
  /\ t # Application => at[Application] # "none"
  /\ Move(t, "function")
  /\ cleanup_started' = [cleanup_started EXCEPT ![t] = FALSE]
  /\ tls_destructors' = [tls_destructors EXCEPT ![t] = Adopted(t)]
  /\ startup_destructors' = IF t = Application THEN <<>> ELSE startup_destructors
  /\ callbacks' = [callbacks EXCEPT ![t] = <<>>]
  /\ pass' = [pass EXCEPT ![t] = 0]
  /\ UNCHANGED <<calling, objects, ran>>

-----------------------------------------------------------------------------
(* Registration by running threads *)

\* __cxa_thread_atexit
ThreadAtExit(t) ==
  /\ InUserCode(t)
  /\ Register(t, "thread_local")
  /\ tls_destructors' = [tls_destructors EXCEPT ![t] = <<Newest>> \o @]
  /\ UNCHANGED <<startup_destructors, at, cleanup_started, callbacks, calling, pass>>

\* notify_all_at_thread_exit: __at_thread_exit puts the notifier, which owns the lock,
\* before those already there.
NotifyAtExit(t) ==
  /\ InUserCode(t)
  /\ Register(t, "notifier")
  /\ callbacks' = [callbacks EXCEPT ![t] = <<Newest>> \o @]
  /\ UNCHANGED <<startup_destructors, at, cleanup_started, tls_destructors, calling, pass>>

-----------------------------------------------------------------------------
(* The end of a thread *)

\* Mutant: the thread-specific destructors come first.
FirstPhase_Keys == "keys"

\* cleanup_thread_runtime runs the thread_local destructors first.
FirstPhase == "thread_locals"

Cleanup(t) ==
  /\ cleanup_started' = [cleanup_started EXCEPT ![t] = TRUE]
  /\ Move(t, FirstPhase)

\* The entry function returns: runtime_libstdcxx_thread_entry.
EntryReturns(t) ==
  /\ at[t] = "function"
  /\ Cleanup(t)
  /\ UNCHANGED <<startup_destructors, tls_destructors, callbacks, calling, pass,
                 objects, ran>>

\* A thread terminates itself, and ThreadX tells runtime_libstdcxx_thread_notify.
TerminatesItself(t) ==
  /\ InUserCode(t)
  /\ Move(t, "notify")
  /\ UNCHANGED <<startup_destructors, cleanup_started, tls_destructors, callbacks, calling,
                 pass, objects, ran>>

\* TX_THREAD_EXIT, of a thread that has cleaned up, has not, or did so when it
\* terminated itself.
ThreadNotify(t) ==
  /\ at[t] \in {"notify", "cleaned"}
  /\ \/ ~cleanup_started[t] /\ Cleanup(t)
     \/ cleanup_started[t] /\ Move(t, "exited") /\ UNCHANGED cleanup_started
  /\ UNCHANGED <<startup_destructors, tls_destructors, callbacks, calling, pass, objects, ran>>

\* Another thread terminates it: nothing is run.
Terminated(t) ==
  /\ InUserCode(t)
  /\ Move(t, "terminated")
  /\ UNCHANGED <<startup_destructors, cleanup_started, tls_destructors, callbacks, calling,
                 pass, objects, ran>>

\* runtime_tls_thread_delete discards what was not run.
Delete(t) ==
  /\ at[t] \in {"exited", "terminated"} /\ t # Application
  /\ Move(t, "deleted")
  /\ tls_destructors' = [tls_destructors EXCEPT ![t] = <<>>]
  /\ UNCHANGED <<startup_destructors, cleanup_started, callbacks, calling, pass,
                 objects, ran>>

Run(x) == ran' = [ran EXCEPT ![x] = @ + 1]

\* runtime_tls_thread_exit takes the newest from the list, then calls it.
Unlinked(t) == Tail(tls_destructors[t])

DestroyThreadLocal(t) ==
  /\ at[t] = "thread_locals" /\ tls_destructors[t] # <<>>
  /\ Run(Head(tls_destructors[t]))
  /\ tls_destructors' = [tls_destructors EXCEPT ![t] = Unlinked(t)]
  /\ Move(t, "destructor")
  /\ UNCHANGED <<startup_destructors, cleanup_started, callbacks, calling, pass,
                 objects>>

DestructorReturns(t) ==
  /\ at[t] = "destructor"
  /\ Move(t, "thread_locals")
  /\ UNCHANGED <<startup_destructors, cleanup_started, tls_destructors, callbacks, calling,
                 pass, objects, ran>>

ThreadLocalsDone(t) ==
  /\ at[t] = "thread_locals" /\ tls_destructors[t] = <<>>
  /\ Move(t, "keys")
  /\ UNCHANGED <<startup_destructors, cleanup_started, tls_destructors, callbacks, calling,
                 pass, objects, ran>>

\* A pass that finds the key's value clears it and runs its destructor,
\* run_thread_exit_callbacks; without a value, or after the last pass, it is over.
KeyPass(t) ==
  /\ at[t] = "keys"
  /\ \/ /\ callbacks[t] # <<>> /\ pass[t] < Passes
        /\ calling' = [calling EXCEPT ![t] = callbacks[t]]
        /\ callbacks' = [callbacks EXCEPT ![t] = <<>>]
        /\ pass' = [pass EXCEPT ![t] = @ + 1]
        /\ Move(t, "list")
     \/ /\ callbacks[t] = <<>> \/ pass[t] = Passes
        /\ Move(t, "cleaned")
        /\ UNCHANGED <<calling, callbacks, pass>>
  /\ UNCHANGED <<startup_destructors, cleanup_started, tls_destructors, objects,
                 ran>>

\* The next callback: notifier::run deletes the notifier, which unlocks and notifies.
CallNotifier(t) ==
  /\ at[t] = "list" /\ calling[t] # <<>>
  /\ Run(Head(calling[t]))
  /\ calling' = [calling EXCEPT ![t] = Tail(@)]
  /\ Move(t, "callback")
  /\ UNCHANGED <<startup_destructors, cleanup_started, tls_destructors, callbacks, pass,
                 objects>>

CallbackReturns(t) ==
  /\ at[t] = "callback"
  /\ Move(t, "list")
  /\ UNCHANGED <<startup_destructors, cleanup_started, tls_destructors, callbacks, calling,
                 pass, objects, ran>>

ListDone(t) ==
  /\ at[t] = "list" /\ calling[t] = <<>>
  /\ Move(t, "keys")
  /\ UNCHANGED <<startup_destructors, cleanup_started, tls_destructors, callbacks, calling,
                 pass, objects, ran>>

-----------------------------------------------------------------------------

Init ==
  /\ startup_destructors = <<>>
  /\ at = [t \in AllThreads |-> "none"]
  /\ cleanup_started = [t \in AllThreads |-> FALSE]
  /\ tls_destructors = [t \in AllThreads |-> <<>>]
  /\ callbacks = [t \in AllThreads |-> <<>>]
  /\ calling = [t \in AllThreads |-> <<>>]
  /\ pass = [t \in AllThreads |-> 0]
  /\ objects = <<>> /\ ran = <<>>

Next ==
  \/ StartupRegisters
  \/ \E t \in AllThreads :
       \/ Create(t) \/ ThreadAtExit(t) \/ NotifyAtExit(t)
       \/ EntryReturns(t) \/ TerminatesItself(t) \/ ThreadNotify(t) \/ Terminated(t) \/ Delete(t)
       \/ DestroyThreadLocal(t) \/ DestructorReturns(t) \/ ThreadLocalsDone(t)
       \/ KeyPass(t) \/ CallNotifier(t) \/ CallbackReturns(t) \/ ListDone(t)

Spec == Init /\ [][Next]_vars

-----------------------------------------------------------------------------

\* Registered before the callbacks of the key began.
BeforeKeys(x) == objects[x].phase # "callback"

\* No destructor or callback runs twice, and the end of a thread, by return or by its own
\* hand, runs each one registered, those that others register while it ends included; what
\* a callback of the key registers is not promised to run.  Whoever is woken by
\* notify_all_at_thread_exit finds the thread_local objects destroyed that were there when
\* it was called.
ExitRunsEachOnce ==
  \A x \in DOMAIN objects :
    LET mine == objects[x].thread
    IN  /\ ran[x] <= 1
        /\ at[mine] = "keys" /\ objects[x].kind = "thread_local" /\ BeforeKeys(x)
           => ran[x] = 1
        /\ at[mine] = "cleaned" /\ pass[mine] < Passes /\ objects[x].kind = "notifier"
           => ran[x] = 1
        /\ objects[x].kind = "notifier" /\ ran[x] > 0 /\ BeforeKeys(x)
           => \A y \in 1 .. x - 1 :
                objects[y].thread = mine /\ objects[y].kind = "thread_local" => ran[y] > 0

-----------------------------------------------------------------------------
(* Inductive invariants *)

Steps == {"none", "function", "thread_locals", "destructor", "keys", "list", "callback",
          "cleaned", "notify", "exited", "terminated", "deleted"}
Registrations == [thread : AllThreads, kind : {"thread_local", "notifier"}, phase : Steps]

TypeOK ==
  /\ startup_destructors \in Seq(Nat)
  /\ at \in [AllThreads -> Steps]
  /\ cleanup_started \in [AllThreads -> BOOLEAN]
  /\ tls_destructors \in [AllThreads -> Seq(Nat)]
  /\ callbacks \in [AllThreads -> Seq(Nat)] /\ calling \in [AllThreads -> Seq(Nat)]
  /\ pass \in [AllThreads -> Nat]
  /\ objects \in Seq(Registrations) /\ ran \in Seq(Nat) /\ Len(ran) = Len(objects)

Holds(list, x) == \E i \in DOMAIN list : list[i] = x
Once(list) == \A i, j \in DOMAIN list : list[i] = list[j] => i = j

\* The object is one of t that has not run.
Waits(x, t, kind) ==
  x \in DOMAIN objects /\ objects[x].thread = t /\ objects[x].kind = kind /\ ran[x] = 0

\* A list holds objects of its thread and kind that have not run, each once.
Sound(list, t, kind) == Once(list) /\ \A i \in DOMAIN list : Waits(list[i], t, kind)

\* What constructors registered moves from one list to the other when the thread is
\* created; so do the callbacks when a pass takes them.
StartupInv ==
  /\ Sound(startup_destructors, Application, "thread_local")
  /\ at[Application] # "none" => startup_destructors = <<>>

\* The list that run_thread_exit_callbacks walks is empty outside of it, and nothing that
\* was registered is lost before its list is taken.
IdleOK(t) ==
  /\ at[t] = "none" => tls_destructors[t] = <<>> /\ callbacks[t] = <<>>
  /\ \/ at[t] \in {"none", "function", "thread_locals", "destructor", "keys", "cleaned"}
     \/ at[t] = "notify" /\ ~cleanup_started[t]
     => calling[t] = <<>>
  /\ at[t] = "cleaned" /\ pass[t] < Passes => callbacks[t] = <<>>

\* cleanup_thread_runtime runs once.
CleanupOK(t) ==
  at[t] \in {"thread_locals", "destructor", "keys", "list", "callback", "cleaned"} =>
    cleanup_started[t]

ListOK(t) ==
  /\ Sound(tls_destructors[t], t, "thread_local")
  /\ Sound(callbacks[t], t, "notifier")
  /\ Sound(calling[t], t, "notifier")
  /\ \A i \in DOMAIN callbacks[t] : ~Holds(calling[t], callbacks[t][i])

ThreadInv == \A t \in AllThreads : IdleOK(t) /\ CleanupOK(t) /\ ListOK(t)

\* No object is lost: it ran, or it is in a list, or the thread was deleted.
KeptOK(x) ==
  LET t == objects[x].thread
  IN  /\ ran[x] <= 1
      /\ objects[x].kind = "thread_local" =>
           \/ ran[x] = 1
           \/ at[t] = "deleted"
           \/ Holds(tls_destructors[t], x)
           \/ Holds(startup_destructors, x) /\ t = Application
      /\ objects[x].kind = "notifier" =>
           ran[x] = 1 \/ Holds(callbacks[t], x) \/ Holds(calling[t], x)

\* Once the keys are reached, the thread_local objects registered before have run.
ReachedOK(x) ==
  LET t == objects[x].thread
  IN  /\ at[t] \in {"keys", "list", "callback", "cleaned"} =>
           (objects[x].kind = "thread_local" /\ BeforeKeys(x) => ran[x] = 1)
      /\ \/ at[t] \in {"none", "function", "thread_locals", "destructor"}
         \/ at[t] = "notify" /\ ~cleanup_started[t]
         => BeforeKeys(x)

ObjectInv == \A x \in DOMAIN objects : KeptOK(x) /\ ReachedOK(x)

\* What a callback registers comes after everything else of its thread.
OrderOK(x, y) ==
  y < x /\ objects[y].thread = objects[x].thread =>
    /\ BeforeKeys(x) => BeforeKeys(y)
    /\ objects[x].kind = "notifier" /\ ran[x] > 0 /\ BeforeKeys(x)
       /\ objects[y].kind = "thread_local" => ran[y] > 0

OrderInv == \A x, y \in DOMAIN objects : OrderOK(x, y)

ExitInv == TypeOK /\ StartupInv /\ ThreadInv /\ ObjectInv /\ OrderInv
=============================================================================
