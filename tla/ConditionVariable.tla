-------------------------- MODULE ConditionVariable --------------------------
(***************************************************************************)
(* One std::condition_variable and the std::mutex used with it             *)
(* (platform/runtime/libstdcxx/backend.cpp).                               *)
(*                                                                         *)
(* The condition keeps a list of waiters, each with a semaphore, that live *)
(* on the stacks of the waiting threads, and a mutex that guards the list. *)
(* A waiter is named by its thread.  A section under the condition mutex   *)
(* that cannot let another thread see it half done is one step; the wait   *)
(* releases the user's mutex, and a notification puts a semaphore, inside  *)
(* the section, so those sections are several steps.                       *)
(*                                                                         *)
(* Calls that change nothing (EPERM on a foreign unlock, EDEADLK on a      *)
(* second lock, a notification without an implementation) are no steps.    *)
(* The mutex has been locked before, so it has an implementation.          *)
(***************************************************************************)
EXTENDS Integers, Sequences

CONSTANTS
  Threads,      \* the threads that use the objects
  None,         \* no thread
  Recursive,    \* the mutex is a recursive one (condition_wait_recursive)
  MaxDepth,     \* bound on the ownership count of a recursive mutex
  MayAbort,     \* tx_thread_wait_abort may hit a thread suspended in these calls
  WaitUnlocked, \* a thread may wait without owning the mutex (EPERM)
  MayDestroy    \* the condition variable may be destroyed

ASSUME ConditionAssumption ==
  /\ None \notin Threads
  /\ MaxDepth \in Nat \ {0}
  /\ {Recursive, MayAbort, WaitUnlocked, MayDestroy} \subseteq BOOLEAN

VARIABLES
  holder,         \* tx_mutex_owner of the user's mutex
  count,          \* its tx_mutex_ownership_count
  implementation, \* of the condition: "null" | "live" | "deleted"
  guard,          \* the owner of the condition's own mutex
  waiters,        \* the list from first to last
  semaphore,      \* [Threads -> -1 | 0 | 1..]: the waiter's, -1 when deleted
  pc,             \* [Threads -> Steps]: where a thread is in a call
  timed,          \* [Threads -> BOOLEAN]: its wait has a deadline
  wait_status,    \* [Threads -> Results]: what its wait will return
  notified,       \* history: threads whose current wait was notified
  closing,        \* condition_destroy was called and did not refuse
  fatal           \* fatal_error was called, or a deleted object used

mutexVars == <<holder, count>>
conditionVars == <<implementation, guard, waiters>>
waitVars == <<semaphore, timed, wait_status, notified>>
vars == <<mutexVars, conditionVars, waitVars, pc, closing, fatal>>

Results == {"ok", "ETIMEDOUT", "EINVAL", "EPERM"}

Steps == {"idle", "lock", "timed_lock", "append", "unlock", "release",
          "release_failed", "unlink", "sleep", "late", "relock", "signal",
          "broadcast", "wake", "notify_release", "destroy", "destroy_delete"}

Init ==
  /\ holder = None
  /\ count = 0
  /\ implementation = "null"
  /\ guard = None
  /\ waiters = <<>>
  /\ semaphore = [t \in Threads |-> -1]
  /\ pc = [t \in Threads |-> "idle"]
  /\ timed = [t \in Threads |-> FALSE]
  /\ wait_status = [t \in Threads |-> "ok"]
  /\ notified = {}
  /\ closing = FALSE
  /\ fatal = FALSE

Goto(t, step) == pc' = [pc EXCEPT ![t] = step]

linked(t) == \E i \in 1..Len(waiters) : waiters[i] = t

\* waiters without the entry of t.
remove_waiter(t) ==
  LET i == CHOOSE k \in 1..Len(waiters) : waiters[k] = t
  IN  SubSeq(waiters, 1, i - 1) \o SubSeq(waiters, i + 1, Len(waiters))

\* A step that needs the condition's mutex while the condition exists.
EnterCondition(t, step) ==
  /\ ~fatal
  /\ pc[t] = step
  /\ implementation = "live"
  /\ guard = None

-----------------------------------------------------------------------------
(* The mutex                                                               *)

\* A second lock by the owner is refused with EDEADLK, unless it is recursive.
CanLock(t) == holder = t => Recursive /\ count < MaxDepth

\* mutex_lock, recursive_mutex_lock and the timed locks up to the wait.
LockBegin(t, step) ==
  /\ ~fatal
  /\ pc[t] = "idle"
  /\ CanLock(t)
  /\ step \in {"lock", "timed_lock"}
  /\ Goto(t, step)
  /\ UNCHANGED <<mutexVars, conditionVars, waitVars, closing, fatal>>

\* tx_mutex_get returns TX_SUCCESS.
LockAcquire(t) ==
  /\ ~fatal
  /\ pc[t] \in {"lock", "timed_lock"}
  /\ holder \in {None, t}
  /\ holder' = t
  /\ count' = count + 1
  /\ Goto(t, "idle")
  /\ UNCHANGED <<conditionVars, waitVars, closing, fatal>>

\* wait_until's last attempt after the deadline fails: ETIMEDOUT.
LockTimeout(t) ==
  /\ ~fatal
  /\ pc[t] = "timed_lock"
  /\ holder \notin {None, t}
  /\ Goto(t, "idle")
  /\ UNCHANGED <<mutexVars, conditionVars, waitVars, closing, fatal>>

\* Another thread aborts the wait for the mutex: EINVAL.
LockAborted(t) ==
  /\ ~fatal
  /\ MayAbort
  /\ pc[t] \in {"lock", "timed_lock"}
  /\ holder \notin {None, t}
  /\ Goto(t, "idle")
  /\ UNCHANGED <<mutexVars, conditionVars, waitVars, closing, fatal>>

\* try_lock on a free mutex, or on one's own recursive mutex.
TryLock(t) ==
  /\ ~fatal
  /\ pc[t] = "idle"
  /\ holder \in {None, t}
  /\ CanLock(t)
  /\ holder' = t
  /\ count' = count + 1
  /\ UNCHANGED <<conditionVars, waitVars, pc, closing, fatal>>

\* tx_mutex_put by the owner.
Put(t) ==
  /\ holder = t
  /\ count' = count - 1
  /\ holder' = IF count = 1 THEN None ELSE holder

Unlock(t) ==
  /\ ~fatal
  /\ pc[t] = "idle"
  /\ Put(t)
  /\ UNCHANGED <<conditionVars, waitVars, pc, closing, fatal>>

-----------------------------------------------------------------------------
(* condition_wait_common                                                   *)

\* The call's checks.  condition_wait_recursive refuses a mutex that is not
\* owned exactly once; condition_wait leaves that to mutex_unlock.
WaitCall(t) ==
  /\ ~fatal
  /\ ~closing
  /\ pc[t] = "idle"
  /\ (Recursive \/ ~WaitUnlocked) => holder = t
  /\ Recursive => count = 1
  /\ implementation # "deleted"
  /\ implementation' = "live"
  /\ UNCHANGED <<mutexVars, guard, waiters, closing, fatal>>

\* ensure_condition publishes an implementation, the waiter is made.
WaitBegin(t, deadline) ==
  /\ WaitCall(t)
  /\ semaphore' = [semaphore EXCEPT ![t] = 0]
  /\ timed' = [timed EXCEPT ![t] = deadline]
  /\ wait_status' = [wait_status EXCEPT ![t] = "ok"]
  /\ notified' = notified \ {t}
  /\ Goto(t, "append")

\* No semaphore for the waiter: EAGAIN, the implementation stays.
WaitNoSemaphore(t) ==
  /\ WaitCall(t)
  /\ UNCHANGED <<waitVars, pc>>

\* Mutant: the wait forgets to release the mutex.
AppendStep_NoUnlock == "release"

\* Where the wait stands once the waiter is in the list.
AppendStep == "unlock"

\* The condition's mutex is taken and the waiter is linked.
WaitAppend(t) ==
  /\ EnterCondition(t, "append")
  /\ guard' = t
  /\ waiters' = Append(waiters, t)
  /\ Goto(t, AppendStep)
  /\ UNCHANGED <<mutexVars, implementation, waitVars, closing, fatal>>

\* mutex_unlock(mutex), with the condition's mutex held.
WaitUnlock(t) ==
  /\ ~fatal
  /\ pc[t] = "unlock"
  /\ Put(t)
  /\ Goto(t, "release")
  /\ UNCHANGED <<conditionVars, waitVars, closing, fatal>>

\* mutex_unlock(mutex) fails: the caller does not own the mutex.
WaitUnlockFails(t) ==
  /\ ~fatal
  /\ pc[t] = "unlock"
  /\ holder # t
  /\ wait_status' = [wait_status EXCEPT ![t] = "EPERM"]
  /\ Goto(t, "release_failed")
  /\ UNCHANGED <<mutexVars, conditionVars, semaphore, timed, notified, closing,
                 fatal>>

\* The condition's mutex is released.
WaitRelease(t) ==
  /\ ~fatal
  /\ pc[t] \in {"release", "release_failed"}
  /\ guard' = None
  /\ Goto(t, IF pc[t] = "release" THEN "sleep" ELSE "unlink")
  /\ UNCHANGED <<mutexVars, implementation, waiters, waitVars, closing, fatal>>

\* After the failed unlock: the waiter is unlinked, if nobody did it, and gone.
WaitUnlink(t) ==
  /\ EnterCondition(t, "unlink")
  /\ waiters' = IF linked(t) THEN remove_waiter(t) ELSE waiters
  /\ semaphore' = [semaphore EXCEPT ![t] = -1]
  /\ Goto(t, "idle")
  /\ UNCHANGED <<mutexVars, implementation, guard, timed, wait_status, notified,
                 closing, fatal>>

\* Mutant: the waiter expects one put more than it gets.
SemaphoreAvailable_OffByOne(t) == semaphore[t] > 1

\* tx_semaphore_get(&waiter.semaphore) can succeed.
SemaphoreAvailable(t) == semaphore[t] > 0

\* tx_semaphore_get succeeds; the waiter's semaphore is deleted.
WaitNotified(t) ==
  /\ ~fatal
  /\ pc[t] = "sleep"
  /\ SemaphoreAvailable(t)
  /\ semaphore' = [semaphore EXCEPT ![t] = -1]
  /\ Goto(t, "relock")
  /\ UNCHANGED <<mutexVars, conditionVars, timed, wait_status, notified, closing,
                 fatal>>

\* wait_until's last attempt after the deadline fails.
WaitTimeout(t) ==
  /\ ~fatal
  /\ pc[t] = "sleep"
  /\ timed[t]
  /\ semaphore[t] = 0
  /\ wait_status' = [wait_status EXCEPT ![t] = "ETIMEDOUT"]
  /\ Goto(t, "late")
  /\ UNCHANGED <<mutexVars, conditionVars, semaphore, timed, notified, closing,
                 fatal>>

\* Another thread aborts the wait for the notification.
WaitAborted(t) ==
  /\ ~fatal
  /\ MayAbort
  /\ pc[t] = "sleep"
  /\ semaphore[t] = 0
  /\ wait_status' = [wait_status EXCEPT ![t] = "EINVAL"]
  /\ Goto(t, "late")
  /\ UNCHANGED <<mutexVars, conditionVars, semaphore, timed, notified, closing,
                 fatal>>

\* A notification that came after the timeout turns the wait into a success.
LateStatus(t) ==
  IF ~linked(t) /\ SemaphoreAvailable(t) THEN "ok" ELSE wait_status[t]

\* Mutant: a wait that timed out leaves its waiter in the list.
LateList_Keep(t) == waiters

\* A waiter still in the list takes itself out.
LateList(t) == IF linked(t) THEN remove_waiter(t) ELSE waiters

\* After a timeout or an abort: the section that settles the race with a
\* notification; then the semaphore is deleted.
WaitLate(t) ==
  /\ EnterCondition(t, "late")
  /\ waiters' = LateList(t)
  /\ wait_status' = [wait_status EXCEPT ![t] = LateStatus(t)]
  /\ semaphore' = [semaphore EXCEPT ![t] = -1]
  /\ Goto(t, "relock")
  /\ UNCHANGED <<mutexVars, implementation, guard, timed, notified, closing,
                 fatal>>

\* mutex_lock(mutex) succeeds: the call returns wait_status.
WaitRelock(t) ==
  /\ ~fatal
  /\ pc[t] = "relock"
  /\ holder = None
  /\ holder' = t
  /\ count' = 1
  /\ Goto(t, "idle")
  /\ UNCHANGED <<conditionVars, waitVars, closing, fatal>>

\* mutex_lock(mutex) is aborted: EINVAL replaces wait_status, and the call returns
\* without the mutex, whether it had been notified or not.
RelockAborted(t) ==
  /\ ~fatal
  /\ MayAbort
  /\ pc[t] = "relock"
  /\ holder # None
  /\ wait_status' = [wait_status EXCEPT ![t] = "EINVAL"]
  /\ Goto(t, "idle")
  /\ UNCHANGED <<mutexVars, conditionVars, semaphore, timed, notified, closing,
                 fatal>>

-----------------------------------------------------------------------------
(* condition_signal and condition_broadcast                                *)

NotifyBegin(t, step) ==
  /\ ~fatal
  /\ ~closing
  /\ pc[t] = "idle"
  /\ implementation = "live"
  /\ step \in {"signal", "broadcast"}
  /\ Goto(t, step)
  /\ UNCHANGED <<mutexVars, conditionVars, waitVars, closing, fatal>>

\* The first waiter is unlinked and its semaphore is put.
WakeFirst ==
  /\ waiters # <<>>
  /\ waiters' = Tail(waiters)
  /\ notified' = notified \cup {Head(waiters)}
  /\ IF semaphore[Head(waiters)] # -1
     THEN /\ semaphore' = [semaphore EXCEPT ![Head(waiters)] = @ + 1]
          /\ UNCHANGED fatal
     ELSE fatal' = TRUE /\ UNCHANGED semaphore
  /\ UNCHANGED <<mutexVars, implementation, timed, wait_status, closing>>

SignalWake(t) ==
  /\ EnterCondition(t, "signal")
  /\ guard' = t
  /\ Goto(t, "notify_release")
  /\ WakeFirst

SignalNobody(t) ==
  /\ EnterCondition(t, "signal")
  /\ waiters = <<>>
  /\ Goto(t, "idle")
  /\ UNCHANGED <<mutexVars, conditionVars, waitVars, closing, fatal>>

BroadcastEnter(t) ==
  /\ EnterCondition(t, "broadcast")
  /\ guard' = t
  /\ Goto(t, "wake")
  /\ UNCHANGED <<mutexVars, implementation, waiters, waitVars, closing, fatal>>

BroadcastWake(t) ==
  /\ ~fatal
  /\ pc[t] = "wake"
  /\ WakeFirst
  /\ UNCHANGED <<guard, pc>>

\* The condition's mutex is released.
NotifyRelease(t) ==
  /\ ~fatal
  /\ pc[t] = "notify_release" \/ (pc[t] = "wake" /\ waiters = <<>>)
  /\ guard' = None
  /\ Goto(t, "idle")
  /\ UNCHANGED <<mutexVars, implementation, waiters, waitVars, closing, fatal>>

-----------------------------------------------------------------------------
(* condition_destroy                                                       *)

\* The destructor.  As C++ demands, nobody else begins to use the object: the
\* threads inside it have been notified or have the condition's mutex.
DestroyBegin(t) ==
  /\ ~fatal
  /\ MayDestroy
  /\ ~closing
  /\ pc[t] = "idle"
  /\ implementation = "live"
  /\ \A u \in Threads : pc[u] \notin {"append", "signal", "broadcast"}
  /\ closing' = TRUE
  /\ Goto(t, "destroy")
  /\ UNCHANGED <<mutexVars, conditionVars, waitVars, fatal>>

\* Mutant: condition_destroy does not look at the list.
Busy_Never == FALSE

\* The condition that makes condition_destroy return EBUSY.
Busy == waiters # <<>>

DestroyRefused(t) ==
  /\ EnterCondition(t, "destroy")
  /\ Busy
  /\ closing' = FALSE
  /\ Goto(t, "idle")
  /\ UNCHANGED <<mutexVars, conditionVars, waitVars, fatal>>

DestroyCheck(t) ==
  /\ EnterCondition(t, "destroy")
  /\ ~Busy
  /\ Goto(t, "destroy_delete")
  /\ UNCHANGED <<mutexVars, conditionVars, waitVars, closing, fatal>>

\* The condition's mutex and the implementation are deleted.
DestroyDelete(t) ==
  /\ ~fatal
  /\ pc[t] = "destroy_delete"
  /\ implementation' = "deleted"
  /\ Goto(t, "idle")
  /\ UNCHANGED <<mutexVars, guard, waiters, waitVars, closing, fatal>>

\* A thread inside the condition touches it after the deletion.
UseAfterDelete(t) ==
  /\ ~fatal
  /\ implementation = "deleted"
  /\ pc[t] \in {"append", "unlock", "release", "release_failed", "unlink", "late",
                "signal", "broadcast", "wake", "notify_release"}
  /\ fatal' = TRUE
  /\ UNCHANGED <<mutexVars, conditionVars, waitVars, pc, closing>>

\* The wait for the condition's own mutex is aborted: raw_mutex_get does not accept that
\* and calls fatal_error.
GuardAborted(t) ==
  /\ ~fatal
  /\ MayAbort
  /\ implementation = "live"
  /\ guard # None
  /\ pc[t] \in {"append", "unlink", "late", "signal", "broadcast", "destroy"}
  /\ fatal' = TRUE
  /\ UNCHANGED <<mutexVars, conditionVars, waitVars, pc, closing>>

-----------------------------------------------------------------------------

\* Every thread is outside, asleep without a notification, or waits for the
\* user's mutex: only user code can go on.
Quiet ==
  \A t \in Threads :
    \/ pc[t] = "idle"
    \/ pc[t] = "sleep" /\ semaphore[t] = 0
    \/ pc[t] \in {"lock", "timed_lock", "relock"} /\ holder # None

Idle == (Quiet \/ fatal) /\ UNCHANGED vars

\* Calls user code may make; nothing obliges it to.
UserCall(t) ==
  \/ \E step \in {"lock", "timed_lock"} : LockBegin(t, step)
  \/ TryLock(t)
  \/ Unlock(t)
  \/ \E deadline \in BOOLEAN : WaitBegin(t, deadline)
  \/ WaitNoSemaphore(t)
  \/ \E step \in {"signal", "broadcast"} : NotifyBegin(t, step)
  \/ DestroyBegin(t)

\* What goes on inside the calls.
Inside(t) ==
  \/ WaitAppend(t)
  \/ WaitUnlock(t)
  \/ WaitUnlockFails(t)
  \/ WaitRelease(t)
  \/ WaitUnlink(t)
  \/ WaitNotified(t)
  \/ WaitLate(t)
  \/ SignalWake(t)
  \/ SignalNobody(t)
  \/ BroadcastEnter(t)
  \/ BroadcastWake(t)
  \/ NotifyRelease(t)
  \/ DestroyRefused(t)
  \/ DestroyCheck(t)
  \/ DestroyDelete(t)

\* Deadlines that pass.
Clock(t) ==
  \/ LockTimeout(t)
  \/ WaitTimeout(t)

\* tx_thread_wait_abort by another thread, wherever the calls suspend.
Abort(t) ==
  \/ LockAborted(t)
  \/ WaitAborted(t)
  \/ RelockAborted(t)
  \/ GuardAborted(t)

Next ==
  \/ \E t \in Threads : UserCall(t)
  \/ \E t \in Threads : Inside(t)
  \/ \E t \in Threads : Clock(t)
  \/ \E t \in Threads : LockAcquire(t)
  \/ \E t \in Threads : WaitRelock(t)
  \/ \E t \in Threads : Abort(t)
  \/ \E t \in Threads : UseAfterDelete(t)
  \/ Idle

SafetySpec == Init /\ [][Next]_vars

(* ThreadX runs every ready thread eventually and hands a mutex to the       *)
(* longest suspended thread, so a thread that waits for one gets it if it is *)
(* released again and again.  User code owes nothing.                        *)
Fairness ==
  \A t \in Threads :
    /\ SF_vars(Inside(t))
    /\ SF_vars(LockAcquire(t))
    /\ SF_vars(WaitRelock(t))
    /\ WF_vars(Clock(t))

Spec == SafetySpec /\ Fairness

-----------------------------------------------------------------------------
(* The abstract condition variable.                                        *)

\* A waiter in the list counts as waiting once the user's mutex is released.
waiting == {t \in Threads : linked(t) /\ pc[t] \in {"release", "sleep", "late"}}

ahead(t, u) ==
  \E i, j \in 1..Len(waiters) : i < j /\ waiters[i] = t /\ waiters[j] = u

longer == {pair \in waiting \X waiting : ahead(pair[1], pair[2])}

\* Those notified, on their way to a successful return, and those that will report
\* something else.
granted ==
  {t \in notified : pc[t] \in {"sleep", "late"}}
  \cup {t \in Threads : pc[t] = "relock" /\ wait_status[t] = "ok"}

expired ==
  {t \in Threads : pc[t] = "relock" /\ wait_status[t] # "ok"}

Contract == INSTANCE ConditionContract

-----------------------------------------------------------------------------
(* Properties                                                              *)

\* The calls implement a condition variable whose wait is atomic.  A wait returns success,
\* with the mutex, exactly if a notification reached it, even after its deadline or an abort
\* of its sleep.  The one exception is an abort while it waits for the mutex again: then it
\* returns EINVAL without the mutex, and a notification it had got is lost.
ImplementsContractSteps == Contract!SafetySpec

\* The list never holds a waiter whose wait has returned or whose semaphore is
\* gone: the waiter lives on the stack of condition_wait_common.
NoDanglingWaiter ==
  /\ \A i \in 1..Len(waiters) :
       /\ semaphore[waiters[i]] = 0
       /\ pc[waiters[i]] \in {"unlock", "release", "release_failed", "unlink",
                              "sleep", "late"}
  /\ \A i, j \in 1..Len(waiters) : waiters[i] = waiters[j] => i = j

\* Destroying the condition variable as soon as every waiter is notified is
\* safe: nobody is left asleep in it without a notification, and nobody still
\* needs it but a thread whose wait timed out or was aborted and that has not
\* found out yet that it was notified.
DestroySparesNotified ==
  implementation = "deleted" =>
    \A t \in Threads :
      /\ pc[t] \notin {"append", "unlock", "release", "release_failed", "signal",
                       "broadcast", "wake", "notify_release"}
      /\ pc[t] \in {"sleep", "late", "unlink"} => t \in notified

\* A wait that was notified or has a deadline returns, if the mutex keeps becoming free,
\* unless an abort hits a wait for the condition's own mutex, which is a fatal error.
WaitsReturn ==
  \A t \in Threads :
    []<>(holder = None) =>
      ((pc[t] = "sleep" /\ (semaphore[t] > 0 \/ timed[t]))
         ~> (pc[t] = "idle" \/ fatal))

-----------------------------------------------------------------------------
(* An inductive invariant                                                  *)

TypeOK ==
  /\ holder \in Threads \cup {None}
  /\ count \in Nat
  /\ implementation \in {"null", "live", "deleted"}
  /\ guard \in Threads \cup {None}
  /\ waiters \in Seq(Threads)
  /\ semaphore \in [Threads -> {-1} \cup Nat]
  /\ pc \in [Threads -> Steps]
  /\ timed \in [Threads -> BOOLEAN]
  /\ wait_status \in [Threads -> Results]
  /\ notified \subseteq Threads
  /\ closing \in BOOLEAN
  /\ fatal \in BOOLEAN

\* The mutex is owned once, unless it is recursive and its owner is not about to wait.
MutexInv ==
  /\ holder = None <=> count = 0
  /\ ~Recursive => count \in {0, 1}
  /\ \A t \in Threads :
       /\ pc[t] \in {"lock", "timed_lock"} /\ holder = t => Recursive
       /\ pc[t] \in {"append", "unlock"} /\ holder = t => count = 1

\* The steps under the condition's mutex.
Guarded == {"unlock", "release", "release_failed", "wake", "notify_release"}

GuardInv == \A t \in Threads : guard = t <=> pc[t] \in Guarded

\* From its append to its removal a waiter is in the list or notified, and not both; its
\* semaphore counts the notification.
WaiterOK(t) ==
  /\ pc[t] = "append" => semaphore[t] = 0 /\ t \notin notified
  /\ pc[t] \in {"unlock", "release", "release_failed", "unlink", "sleep", "late"} =>
       /\ linked(t) <=> t \notin notified
       /\ semaphore[t] = IF t \in notified THEN 1 ELSE 0
  /\ pc[t] \in {"unlock", "release", "release_failed"} =>
       Len(waiters) > 0 /\ waiters[Len(waiters)] = t
  /\ pc[t] \in {"append", "unlock", "release", "sleep"} => wait_status[t] = "ok"
  /\ pc[t] = "late" => wait_status[t] # "ok"

WaiterInv == \A t \in Threads : WaiterOK(t)

\* One thread at a time destroys, and from then on nobody comes in; it deletes when it
\* has seen the list empty.
DestroyInv ==
  /\ implementation = "deleted" => closing /\ guard = None
  /\ closing => \A t \in Threads : pc[t] \notin {"append", "signal", "broadcast"}
  /\ \A t \in Threads :
       /\ pc[t] \in {"destroy", "destroy_delete"} => closing /\ implementation = "live"
       /\ pc[t] \in {"destroy", "destroy_delete"} =>
            \A u \in Threads : pc[u] \in {"destroy", "destroy_delete"} => u = t
       /\ pc[t] = "destroy_delete" => guard = None
  /\ implementation = "deleted" \/ (\E t \in Threads : pc[t] = "destroy_delete") =>
       waiters = <<>>

ConditionInv ==
  TypeOK /\ MutexInv /\ GuardInv /\ NoDanglingWaiter /\ WaiterInv /\ DestroyInv
=============================================================================
