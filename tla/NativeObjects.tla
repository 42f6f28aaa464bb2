---------------------------- MODULE NativeObjects ----------------------------
(***************************************************************************)
(* The ThreadX objects behind std::mutex, std::condition_variable and      *)
(* std::counting_semaphore, made at their first use (ensure_mutex,         *)
(* ensure_condition, ensure_semaphore in                                   *)
(* platform/runtime/libstdcxx/backend.cpp), and the semaphore calls.       *)
(*                                                                         *)
(* One handle of one of the three kinds.  An object is its address, which  *)
(* the allocator may give again.  What is done with a mutex or a condition *)
(* after its first use is in ConditionVariable.                            *)
(***************************************************************************)
EXTENDS Integers

CONSTANTS
  Users,      \* threads
  Addresses,  \* where objects can be, all positive
  MaxCount    \* bound on a semaphore's count

VARIABLES
  kind,
  alive,                \* the handle is constructed
  implementation,       \* of the handle; 0 is nullptr
  initial_count,        \* SemaphoreHandle::initial_count
  native,               \* the ThreadX objects: their count, Deleted if there is none
  initialization_mutex, \* its owner
  use,                  \* per thread: the call, where it is, and its object
  tokens                \* history: the initial count, plus the posts, less the waits

handleVars == <<kind, alive, implementation, initial_count>>
vars == <<handleVars, native, initialization_mutex, use, tokens>>

Nobody == 0
Deleted == -1
Idle == [pc |-> "idle", call |-> "none", object |-> 0]

Go(t, pc, object) == use' = [use EXCEPT ![t].pc = pc, ![t].object = object]
Finish(t) == use' = [use EXCEPT ![t] = Idle]

Calls == IF kind = "semaphore" THEN {"wait", "try_wait", "timed_wait", "post"} ELSE {"lock"}

Call(t, call) ==
  /\ alive /\ use[t] = Idle
  /\ use' = [use EXCEPT ![t] = [pc |-> "look", call |-> call, object |-> 0]]
  /\ UNCHANGED <<handleVars, native, initialization_mutex, tokens>>

-----------------------------------------------------------------------------
(* First use *)

\* load_implementation, without the mutex.
Look(t) ==
  /\ use[t].pc = "look"
  /\ \/ implementation # 0 /\ Go(t, "use", implementation)
     \/ implementation = 0 /\ Go(t, "lock", 0)
  /\ UNCHANGED <<implementation, native, initialization_mutex>>

Lock(t) ==
  /\ use[t].pc = "lock" /\ initialization_mutex = Nobody
  /\ initialization_mutex' = t
  /\ Go(t, "check", 0)
  /\ UNCHANGED <<implementation, native>>

\* Mutant: the handle is not looked at again under the mutex.
MustCreate_NotRechecked == TRUE

MustCreate == implementation = 0

\* Under the mutex: take the object of another thread, or make one with the count and
\* publish it; if there is no memory or ThreadX refuses, the handle stays empty.
Check(t, count) ==
  /\ use[t].pc = "check"
  /\ \/ ~MustCreate /\ Go(t, "unlock", implementation) /\ UNCHANGED <<implementation, native>>
     \/ \E a \in Addresses :
          /\ MustCreate /\ native[a] = Deleted
          /\ native' = [native EXCEPT ![a] = count]
          /\ implementation' = a
          /\ Go(t, "unlock", a)
     \/ MustCreate /\ Go(t, "unlock", 0) /\ UNCHANGED <<implementation, native>>
  /\ UNCHANGED initialization_mutex

\* Without an object the call returns ENOMEM.
Unlock(t) ==
  /\ use[t].pc = "unlock"
  /\ initialization_mutex' = Nobody
  /\ \/ use[t].object = 0 /\ Finish(t)
     \/ use[t].object # 0 /\ Go(t, "use", use[t].object)
  /\ UNCHANGED <<implementation, native>>

Ensure(t, count) ==
  /\ Look(t) \/ Lock(t) \/ Check(t, count) \/ Unlock(t)
  /\ UNCHANGED <<kind, alive, initial_count, tokens>>

ensure_mutex(t) == kind = "mutex" /\ Ensure(t, 1)
ensure_condition(t) == kind = "condition" /\ Ensure(t, 1)
ensure_semaphore(t) == kind = "semaphore" /\ Ensure(t, initial_count)

\* A mutex or a condition is found; the call goes on in ConditionVariable.
Found(t) ==
  /\ use[t].pc = "use" /\ use[t].call = "lock"
  /\ Finish(t)
  /\ UNCHANGED <<handleVars, native, initialization_mutex, tokens>>

-----------------------------------------------------------------------------
(* Semaphores *)

Using(t, call) == use[t].pc = "use" /\ use[t].call = call

\* tx_semaphore_get takes from the count, tx_semaphore_put adds to it.
Adds(t, n) ==
  /\ native' = [native EXCEPT ![use[t].object] = @ + n]
  /\ tokens' = tokens + n
  /\ Finish(t)
  /\ UNCHANGED <<handleVars, initialization_mutex>>

Available(t) == native[use[t].object] > 0

\* EAGAIN and ETIMEDOUT
ReturnsWithout(t) ==
  /\ ~Available(t)
  /\ Finish(t)
  /\ UNCHANGED <<handleVars, native, initialization_mutex, tokens>>

Takes(t) == Available(t) /\ Adds(t, -1)

semaphore_wait(t) == Using(t, "wait") /\ Takes(t)

semaphore_try_wait(t) == Using(t, "try_wait") /\ (Takes(t) \/ ReturnsWithout(t))

\* wait_until waits in parts until the deadline (Clock), which may come at any time.
semaphore_timed_wait(t) == Using(t, "timed_wait") /\ (Takes(t) \/ ReturnsWithout(t))

semaphore_post(t) == Using(t, "post") /\ tokens < MaxCount /\ Adds(t, 1)

-----------------------------------------------------------------------------
(* Construction and destruction, when no thread uses the handle *)

Unused == \A t \in Users : use[t] = Idle

Construct(count) ==
  /\ ~alive /\ alive' = TRUE
  /\ implementation' = 0 /\ initial_count' = count /\ tokens' = count
  /\ UNCHANGED <<kind, native, initialization_mutex, use>>

\* The ThreadX object, if there is one, is deleted.
Destroy ==
  /\ alive /\ Unused /\ alive' = FALSE
  /\ native' = [a \in Addresses |-> IF a = implementation THEN Deleted ELSE native[a]]
  /\ implementation' = 0 /\ initial_count' = 0 /\ tokens' = 0
  /\ UNCHANGED <<kind, initialization_mutex, use>>

mutex_init == kind = "mutex" /\ Construct(0)
destroy_mutex == kind = "mutex" /\ Destroy
condition_init == kind = "condition" /\ Construct(0)
condition_destroy == kind = "condition" /\ Destroy
semaphore_init == kind = "semaphore" /\ \E count \in 0 .. MaxCount - 1 : Construct(count)
semaphore_destroy == kind = "semaphore" /\ Destroy

-----------------------------------------------------------------------------

Init ==
  /\ kind \in {"mutex", "condition", "semaphore"}
  /\ alive = FALSE /\ implementation = 0 /\ initial_count = 0 /\ tokens = 0
  /\ native = [a \in Addresses |-> Deleted]
  /\ initialization_mutex = Nobody
  /\ use = [t \in Users |-> Idle]

Next ==
  \/ \E t \in Users :
       \/ \E call \in Calls : Call(t, call)
       \/ ensure_mutex(t) \/ ensure_condition(t) \/ ensure_semaphore(t) \/ Found(t)
       \/ semaphore_wait(t) \/ semaphore_try_wait(t) \/ semaphore_timed_wait(t)
       \/ semaphore_post(t)
  \/ mutex_init \/ destroy_mutex \/ condition_init \/ condition_destroy
  \/ semaphore_init \/ semaphore_destroy

Spec == Init /\ [][Next]_vars

-----------------------------------------------------------------------------

\* Threads that use a handle for the first time together use one ThreadX object, the
\* published one, and none is left behind, whichever creations fail; a semaphore so has
\* what was posted and not waited for, wherever its first calls came from.
OneObjectPerHandle ==
  /\ \A t \in Users : use[t].object # 0 => use[t].object = implementation
  /\ \A a \in Addresses : native[a] # Deleted => a = implementation
  /\ kind = "semaphore" =>
       tokens = IF implementation = 0 THEN initial_count ELSE native[implementation]

-----------------------------------------------------------------------------
(* Inductive invariants *)

Kinds == {"mutex", "condition", "semaphore"}
Places == {"idle", "look", "lock", "check", "unlock", "use"}
CallNames == {"none", "lock", "wait", "try_wait", "timed_wait", "post"}
UseRecords == [pc : Places, call : CallNames, object : Addresses \cup {0}]

TypeOK ==
  /\ kind \in Kinds /\ alive \in BOOLEAN
  /\ implementation \in Addresses \cup {0} /\ initial_count \in Nat /\ tokens \in Nat
  /\ native \in [Addresses -> Nat \cup {Deleted}]
  /\ initialization_mutex \in Users \cup {Nobody}
  /\ use \in [Users -> UseRecords]

\* A thread has an object only from the published pointer, and only after looking at it;
\* between Lock and Unlock it owns the mutex.  A call is made on a living handle.
UseOK(t) ==
  /\ use[t].object # 0 => use[t].object = implementation
  /\ use[t].pc \in {"idle", "look", "lock", "check"} => use[t].object = 0
  /\ use[t].pc = "use" => use[t].object # 0
  /\ use[t].pc \in {"check", "unlock"} => initialization_mutex = t
  /\ use[t].pc = "idle" => use[t].call = "none"
  /\ use[t].call \notin {"none", "lock"} => kind = "semaphore"
  /\ use[t].pc # "idle" => alive

UseInv == \A t \in Users : UseOK(t)

\* The published object is the one that exists, and it holds the tokens.
ObjectInv ==
  /\ \A a \in Addresses : native[a] # Deleted <=> a = implementation
  /\ kind = "semaphore" =>
       tokens = IF implementation = 0 THEN initial_count ELSE native[implementation]
  /\ ~alive => implementation = 0

NativeInv == TypeOK /\ UseInv /\ ObjectInv
=============================================================================
