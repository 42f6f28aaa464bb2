----------------------- MODULE ConditionVariableProofs -----------------------
(***************************************************************************)
(* Proofs about ConditionVariable, for any set of threads and any number   *)
(* of calls: its inductive invariant, what follows from it, and that the   *)
(* calls implement ConditionContract.                                      *)
(***************************************************************************)
EXTENDS ConditionVariable, SequenceTheorems, TLAPS

-----------------------------------------------------------------------------
(* The list of waiters *)

Distinct(s) == \A i, j \in 1..Len(s) : s[i] = s[j] => i = j

\* r is s without its entry k.
Without(r, s, k) ==
  /\ k \in 1..Len(s)
  /\ r \in Seq(Threads)
  /\ Len(r) = Len(s) - 1
  /\ \A j \in 1..Len(r) : r[j] = s[IF j < k THEN j ELSE j + 1]

\* Taking the first waiter, as a notification does.
LEMMA FirstTaken ==
  ASSUME waiters \in Seq(Threads), waiters # <<>>, waiters' = Tail(waiters)
  PROVE  Without(waiters', waiters, 1) /\ Head(waiters) = waiters[1] /\ waiters[1] \in Threads
BY DEF Without

\* remove_waiter takes out the entry of a linked waiter and no other.
LEMMA WaiterRemoved ==
  ASSUME waiters \in Seq(Threads), NEW t \in Threads, linked(t), waiters' = remove_waiter(t)
  PROVE  \E k \in 1..Len(waiters) : waiters[k] = t /\ Without(waiters', waiters, k)
<1> DEFINE i == CHOOSE k \in 1..Len(waiters) : waiters[k] = t
           front == SubSeq(waiters, 1, i - 1)
           back == SubSeq(waiters, i + 1, Len(waiters))
<1>1. i \in 1..Len(waiters) /\ waiters[i] = t
  BY DEF linked
<1>2. waiters' = front \o back
  BY DEF remove_waiter
<1> HIDE DEF i
<1>3. Len(waiters) \in Nat
  OBVIOUS
<1>4. /\ front \in Seq(Threads) /\ Len(front) = i - 1
      /\ \A j \in 1..i - 1 : front[j] = waiters[j]
  BY <1>1, <1>3, SubSeqProperties
<1>5. /\ back \in Seq(Threads) /\ Len(back) = Len(waiters) - i
      /\ \A j \in 1..Len(waiters) - i : back[j] = waiters[i + j]
  BY <1>1, <1>3, SubSeqProperties
<1> HIDE DEF front, back
<1>6. front \o back \in Seq(Threads) /\ Len(front \o back) = Len(waiters) - 1
  <2>1. front \o back \in Seq(Threads) /\ Len(front \o back) = Len(front) + Len(back)
    BY <1>4, <1>5, ConcatProperties
  <2> QED
    BY <1>1, <1>3, <1>4, <1>5, <2>1
<1>7. ASSUME NEW j \in 1..Len(waiters) - 1
      PROVE  (front \o back)[j] = waiters[IF j < i THEN j ELSE j + 1]
  <2>0. j \in 1..Len(front) + Len(back)
    BY <1>1, <1>3, <1>4, <1>5
  <2>1. (front \o back)[j] = IF j <= Len(front) THEN front[j] ELSE back[j - Len(front)]
    BY <1>4, <1>5, <2>0, ConcatProperties
  <2>2. CASE j < i
    BY <1>1, <1>3, <1>4, <2>1, <2>2
  <2>3. CASE j >= i
    <3>1. j - (i - 1) \in 1..Len(waiters) - i /\ i + (j - (i - 1)) = j + 1
      BY <1>1, <1>3, <2>3
    <3>2. (front \o back)[j] = back[j - (i - 1)]
      BY <1>1, <1>3, <1>4, <2>1, <2>3
    <3> QED
      BY <1>1, <1>5, <2>3, <3>1, <3>2
  <2>4. j < i \/ j >= i
    BY <1>1, <1>3
  <2> QED
    BY <2>2, <2>3, <2>4
<1> QED
  BY <1>1, <1>2, <1>6, <1>7 DEF Without

\* Without one entry the list has the other waiters, each once and in their order.
LEMMA WithoutOne ==
  ASSUME waiters \in Seq(Threads), Distinct(waiters), NEW k, Without(waiters', waiters, k)
  PROVE  /\ Distinct(waiters')
         /\ \A u \in Threads : linked(u)' <=> linked(u) /\ u # waiters[k]
         /\ \A u, v \in Threads : 
              ahead(u, v)' <=> ahead(u, v) /\ u # waiters[k] /\ v # waiters[k]
<1> USE DEF Without
<1> DEFINE old(j) == IF j < k THEN j ELSE j + 1
           new(j) == IF j < k THEN j ELSE j - 1
<1>0. Len(waiters) \in Nat /\ Len(waiters') \in Nat
  OBVIOUS
<1>1. \A j \in 1..Len(waiters') :
        old(j) \in 1..Len(waiters) /\ old(j) # k /\ waiters'[j] = waiters[old(j)]
  BY <1>0
<1>2. \A j \in 1..Len(waiters) : j # k =>
        new(j) \in 1..Len(waiters') /\ waiters'[new(j)] = waiters[j]
  BY <1>0, <1>1
<1>3. /\ \A i, j \in 1..Len(waiters') : i < j <=> old(i) < old(j)
      /\ \A i, j \in 1..Len(waiters) : i # k /\ j # k /\ i < j => new(i) < new(j)
      /\ \A i, j \in 1..Len(waiters') : old(i) = old(j) => i = j
  BY <1>0
<1> HIDE DEF old, new, Without
<1>4. k \in 1..Len(waiters)
  BY DEF Without
<1>5. Distinct(waiters')
  BY <1>1, <1>3 DEF Distinct
<1>6. ASSUME NEW u \in Threads PROVE linked(u)' <=> linked(u) /\ u # waiters[k]
  <2>1. ASSUME linked(u)' PROVE linked(u) /\ u # waiters[k]
    BY <1>1, <1>4, <2>1 DEF linked, Distinct
  <2>2. ASSUME linked(u), u # waiters[k] PROVE linked(u)'
    BY <1>2, <2>2 DEF linked
  <2> QED
    BY <2>1, <2>2
<1>7. ASSUME NEW u \in Threads, NEW v \in Threads
      PROVE  ahead(u, v)' <=> ahead(u, v) /\ u # waiters[k] /\ v # waiters[k]
  <2>1. ASSUME ahead(u, v)' PROVE ahead(u, v) /\ u # waiters[k] /\ v # waiters[k]
    BY <1>1, <1>3, <1>4, <2>1 DEF ahead, Distinct
  <2>2. ASSUME ahead(u, v), u # waiters[k], v # waiters[k] PROVE ahead(u, v)'
    BY <1>2, <1>3, <1>4, <2>2 DEF ahead
  <2> QED
    BY <2>1, <2>2
<1> QED
  BY <1>5, <1>6, <1>7

\* A waiter is appended.
LEMMA WaiterAppended ==
  ASSUME waiters \in Seq(Threads), Distinct(waiters), NEW t \in Threads, ~linked(t),
         waiters' = Append(waiters, t)
  PROVE  /\ waiters' \in Seq(Threads) /\ Distinct(waiters')
         /\ Len(waiters') > 0 /\ waiters'[Len(waiters')] = t
         /\ \A u \in Threads : linked(u)' <=> linked(u) \/ u = t
         /\ \A u, v \in Threads : u # t /\ v # t => (ahead(u, v)' <=> ahead(u, v))
<1>1. /\ waiters' \in Seq(Threads) /\ Len(waiters') = Len(waiters) + 1
      /\ \A i \in 1..Len(waiters) : waiters'[i] = waiters[i]
      /\ waiters'[Len(waiters) + 1] = t /\ Len(waiters) \in Nat
  OBVIOUS
<1>2. Distinct(waiters')
  BY <1>1 DEF Distinct, linked
<1>3. ASSUME NEW u \in Threads PROVE linked(u)' <=> linked(u) \/ u = t
  BY <1>1 DEF linked
<1>4. ASSUME NEW u \in Threads, NEW v \in Threads, u # t, v # t
      PROVE  ahead(u, v)' <=> ahead(u, v)
  BY <1>1, <1>4 DEF ahead
<1> QED
  BY <1>1, <1>2, <1>3, <1>4

-----------------------------------------------------------------------------
(* The inductive invariant *)

\* NoDanglingWaiter, thread by thread.
LEMMA DanglingByThread ==
  ASSUME waiters \in Seq(Threads)
  PROVE  NoDanglingWaiter <=>
           /\ Distinct(waiters)
           /\ \A t \in Threads : linked(t) =>
                /\ semaphore[t] = 0
                /\ pc[t] \in {"unlock", "release", "release_failed", "unlink", "sleep", "late"}
BY DEF NoDanglingWaiter, Distinct, linked

\* Nothing has been called yet.
LEMMA ConditionInit == Init => ConditionInv
<1> SUFFICES ASSUME Init PROVE ConditionInv
  OBVIOUS
<1> USE ConditionAssumption DEF Init
<1>1. TypeOK
  <2>1. closing \in BOOLEAN /\ fatal \in BOOLEAN /\ timed \in [Threads -> BOOLEAN]
    OBVIOUS
  <2>2. waiters \in Seq(Threads)
    OBVIOUS
  <2> QED
    BY <2>1, <2>2 DEF TypeOK, Steps, Results
<1>2. MutexInv /\ GuardInv /\ DestroyInv
  BY DEF MutexInv, GuardInv, Guarded, DestroyInv
<1>3. NoDanglingWaiter /\ WaiterInv
  BY DEF NoDanglingWaiter, WaiterInv, WaiterOK
<1> QED
  BY <1>1, <1>2, <1>3 DEF ConditionInv

\* A lock begins.
LEMMA ConditionLockBegin ==
  ASSUME ConditionInv, NEW t \in Threads, NEW step \in {"lock", "timed_lock"}, LockBegin(t, step)
  PROVE  ConditionInv'
<1> USE ConditionAssumption
    DEF ConditionInv, LockBegin, Goto, CanLock, mutexVars, conditionVars, waitVars
<1>1. TypeOK'
  BY DEF TypeOK, Steps, Results
<1>2. MutexInv'
  BY DEF TypeOK, MutexInv
<1>3. GuardInv'
  BY DEF TypeOK, GuardInv, Guarded
<1>4. NoDanglingWaiter'
  BY DEF TypeOK, NoDanglingWaiter
<1>5. WaiterInv'
  BY DEF TypeOK, WaiterInv, WaiterOK, linked
<1>6. DestroyInv'
  BY DEF TypeOK, DestroyInv
<1> QED
  BY <1>1, <1>2, <1>3, <1>4, <1>5, <1>6

\* The mutex is acquired, or not in time, or the wait for it is aborted.
LEMMA ConditionLock ==
  ASSUME ConditionInv, NEW t \in Threads, LockAcquire(t) \/ LockTimeout(t) \/ LockAborted(t)
  PROVE  ConditionInv'
<1> USE ConditionAssumption
    DEF ConditionInv, LockAcquire, LockTimeout, LockAborted, Goto, mutexVars, conditionVars, waitVars
<1>1. TypeOK'
  BY DEF TypeOK, Steps, Results
<1>2. MutexInv'
  BY DEF TypeOK, MutexInv
<1>3. GuardInv'
  BY DEF TypeOK, GuardInv, Guarded
<1>4. NoDanglingWaiter'
  BY DEF TypeOK, NoDanglingWaiter
<1>5. WaiterInv'
  BY DEF TypeOK, WaiterInv, WaiterOK, linked
<1>6. DestroyInv'
  BY DEF TypeOK, DestroyInv
<1> QED
  BY <1>1, <1>2, <1>3, <1>4, <1>5, <1>6

\* The mutex is acquired at once.
LEMMA ConditionTryLock ==
  ASSUME ConditionInv, NEW t \in Threads, TryLock(t)
  PROVE  ConditionInv'
<1> USE ConditionAssumption
    DEF ConditionInv, TryLock, CanLock, mutexVars, conditionVars, waitVars
<1>1. TypeOK'
  BY DEF TypeOK, Steps, Results
<1>2. MutexInv'
  BY DEF TypeOK, MutexInv
<1>3. GuardInv'
  BY DEF TypeOK, GuardInv, Guarded
<1>4. NoDanglingWaiter'
  BY DEF TypeOK, NoDanglingWaiter
<1>5. WaiterInv'
  BY DEF TypeOK, WaiterInv, WaiterOK, linked
<1>6. DestroyInv'
  BY DEF TypeOK, DestroyInv
<1> QED
  BY <1>1, <1>2, <1>3, <1>4, <1>5, <1>6

\* The mutex is released.
LEMMA ConditionUnlock ==
  ASSUME ConditionInv, NEW t \in Threads, Unlock(t)
  PROVE  ConditionInv'
<1> USE ConditionAssumption
    DEF ConditionInv, Unlock, Put, mutexVars, conditionVars, waitVars
<1>1. TypeOK'
  BY DEF TypeOK, MutexInv, Steps, Results
<1>2. MutexInv'
  BY DEF TypeOK, MutexInv
<1>3. GuardInv'
  BY DEF TypeOK, GuardInv, Guarded
<1>4. NoDanglingWaiter'
  BY DEF TypeOK, NoDanglingWaiter
<1>5. WaiterInv'
  BY DEF TypeOK, WaiterInv, WaiterOK, linked
<1>6. DestroyInv'
  BY DEF TypeOK, DestroyInv
<1> QED
  BY <1>1, <1>2, <1>3, <1>4, <1>5, <1>6

\* A wait begins.
LEMMA ConditionWaitBegin ==
  ASSUME ConditionInv, NEW t \in Threads, NEW deadline \in BOOLEAN, WaitBegin(t, deadline)
  PROVE  ConditionInv'
<1> USE ConditionAssumption
    DEF ConditionInv, WaitBegin, WaitCall, Goto, mutexVars
<1>1. TypeOK'
  BY DEF TypeOK, Steps, Results
<1>2. MutexInv'
  BY DEF TypeOK, MutexInv
<1>3. GuardInv'
  BY DEF TypeOK, GuardInv, Guarded
<1>4. NoDanglingWaiter'
  BY DEF TypeOK, NoDanglingWaiter
<1>5. WaiterInv'
  BY DEF TypeOK, WaiterInv, WaiterOK, linked
<1>6. DestroyInv'
  BY DEF TypeOK, DestroyInv
<1> QED
  BY <1>1, <1>2, <1>3, <1>4, <1>5, <1>6

\* A wait fails at once.
LEMMA ConditionWaitNoSemaphore ==
  ASSUME ConditionInv, NEW t \in Threads, WaitNoSemaphore(t)
  PROVE  ConditionInv'
<1> USE ConditionAssumption
    DEF ConditionInv, WaitNoSemaphore, WaitCall, mutexVars, waitVars
<1>1. TypeOK'
  BY DEF TypeOK, Steps, Results
<1>2. MutexInv'
  BY DEF TypeOK, MutexInv
<1>3. GuardInv'
  BY DEF TypeOK, GuardInv, Guarded
<1>4. NoDanglingWaiter'
  BY DEF TypeOK, NoDanglingWaiter
<1>5. WaiterInv'
  BY DEF TypeOK, WaiterInv, WaiterOK, linked
<1>6. DestroyInv'
  BY DEF TypeOK, DestroyInv
<1> QED
  BY <1>1, <1>2, <1>3, <1>4, <1>5, <1>6

\* The wait releases the user's mutex, with the condition's mutex held.
LEMMA ConditionWaitUnlock ==
  ASSUME ConditionInv, NEW t \in Threads, WaitUnlock(t)
  PROVE  ConditionInv'
<1> USE ConditionAssumption
    DEF ConditionInv, WaitUnlock, Put, Goto, mutexVars, conditionVars, waitVars
<1>1. TypeOK'
  BY DEF TypeOK, MutexInv, Steps, Results
<1>2. MutexInv'
  BY DEF TypeOK, MutexInv
<1>3. GuardInv'
  BY DEF TypeOK, GuardInv, Guarded
<1>4. NoDanglingWaiter'
  BY DEF TypeOK, NoDanglingWaiter
<1>5. WaiterInv'
  BY DEF TypeOK, WaiterInv, WaiterOK, linked
<1>6. DestroyInv'
  BY DEF TypeOK, DestroyInv
<1> QED
  BY <1>1, <1>2, <1>3, <1>4, <1>5, <1>6

\* The wait finds that the caller does not own the mutex.
LEMMA ConditionWaitUnlockFails ==
  ASSUME ConditionInv, NEW t \in Threads, WaitUnlockFails(t)
  PROVE  ConditionInv'
<1> USE ConditionAssumption
    DEF ConditionInv, WaitUnlockFails, Goto, mutexVars, conditionVars
<1>1. TypeOK'
  BY DEF TypeOK, Steps, Results
<1>2. MutexInv'
  BY DEF TypeOK, MutexInv
<1>3. GuardInv'
  BY DEF TypeOK, GuardInv, Guarded
<1>4. NoDanglingWaiter'
  BY DEF TypeOK, NoDanglingWaiter
<1>5. WaiterInv'
  BY DEF TypeOK, WaiterInv, WaiterOK, linked
<1>6. DestroyInv'
  BY DEF TypeOK, DestroyInv
<1> QED
  BY <1>1, <1>2, <1>3, <1>4, <1>5, <1>6

\* The wait releases the condition's mutex.
LEMMA ConditionWaitRelease ==
  ASSUME ConditionInv, NEW t \in Threads, WaitRelease(t)
  PROVE  ConditionInv'
<1> USE ConditionAssumption
    DEF ConditionInv, WaitRelease, Goto, mutexVars, waitVars
<1>1. TypeOK'
  BY DEF TypeOK, Steps, Results
<1>2. MutexInv'
  BY DEF TypeOK, MutexInv
<1>3. GuardInv'
  BY DEF TypeOK, GuardInv, Guarded
<1>4. NoDanglingWaiter'
  BY DEF TypeOK, NoDanglingWaiter
<1>5. WaiterInv'
  BY DEF TypeOK, WaiterInv, WaiterOK, linked
<1>6. DestroyInv'
  BY DEF TypeOK, DestroyInv
<1> QED
  BY <1>1, <1>2, <1>3, <1>4, <1>5, <1>6

\* The wait ends by a notification.
LEMMA ConditionWaitNotified ==
  ASSUME ConditionInv, NEW t \in Threads, WaitNotified(t)
  PROVE  ConditionInv'
<1> USE ConditionAssumption
    DEF ConditionInv, WaitNotified, SemaphoreAvailable, Goto, mutexVars, conditionVars
<1>1. TypeOK'
  BY DEF TypeOK, Steps, Results
<1>2. MutexInv'
  BY DEF TypeOK, MutexInv
<1>3. GuardInv'
  BY DEF TypeOK, GuardInv, Guarded
<1>4. NoDanglingWaiter'
  BY DEF TypeOK, NoDanglingWaiter
<1>5. WaiterInv'
  BY DEF TypeOK, WaiterInv, WaiterOK, linked
<1>6. DestroyInv'
  BY DEF TypeOK, DestroyInv
<1> QED
  BY <1>1, <1>2, <1>3, <1>4, <1>5, <1>6

\* The wait ends without one.
LEMMA ConditionWaitEnds ==
  ASSUME ConditionInv, NEW t \in Threads, WaitTimeout(t) \/ WaitAborted(t)
  PROVE  ConditionInv'
<1> USE ConditionAssumption
    DEF ConditionInv, WaitTimeout, WaitAborted, Goto, mutexVars, conditionVars
<1>1. TypeOK'
  BY DEF TypeOK, Steps, Results
<1>2. MutexInv'
  BY DEF TypeOK, MutexInv
<1>3. GuardInv'
  BY DEF TypeOK, GuardInv, Guarded
<1>4. NoDanglingWaiter'
  BY DEF TypeOK, NoDanglingWaiter
<1>5. WaiterInv'
  BY SMTT(40) DEF TypeOK, WaiterInv, WaiterOK, linked
<1>6. DestroyInv'
  BY DEF TypeOK, DestroyInv
<1> QED
  BY <1>1, <1>2, <1>3, <1>4, <1>5, <1>6

\* The wait has the user's mutex again.
LEMMA ConditionWaitRelock ==
  ASSUME ConditionInv, NEW t \in Threads, WaitRelock(t)
  PROVE  ConditionInv'
<1> USE ConditionAssumption
    DEF ConditionInv, WaitRelock, Goto, conditionVars, waitVars
<1>1. TypeOK'
  BY DEF TypeOK, Steps, Results
<1>2. MutexInv'
  BY DEF TypeOK, MutexInv
<1>3. GuardInv'
  BY DEF TypeOK, GuardInv, Guarded
<1>4. NoDanglingWaiter'
  BY DEF TypeOK, NoDanglingWaiter
<1>5. WaiterInv'
  BY DEF TypeOK, WaiterInv, WaiterOK, linked
<1>6. DestroyInv'
  BY DEF TypeOK, DestroyInv
<1> QED
  BY <1>1, <1>2, <1>3, <1>4, <1>5, <1>6

\* The wait returns without the user's mutex.
LEMMA ConditionRelockAborted ==
  ASSUME ConditionInv, NEW t \in Threads, RelockAborted(t)
  PROVE  ConditionInv'
<1> USE ConditionAssumption
    DEF ConditionInv, RelockAborted, Goto, mutexVars, conditionVars
<1>1. TypeOK'
  BY DEF TypeOK, Steps, Results
<1>2. MutexInv'
  BY DEF TypeOK, MutexInv
<1>3. GuardInv'
  BY DEF TypeOK, GuardInv, Guarded
<1>4. NoDanglingWaiter'
  BY DEF TypeOK, NoDanglingWaiter
<1>5. WaiterInv'
  BY DEF TypeOK, WaiterInv, WaiterOK, linked
<1>6. DestroyInv'
  BY DEF TypeOK, DestroyInv
<1> QED
  BY <1>1, <1>2, <1>3, <1>4, <1>5, <1>6

\* A notification begins.
LEMMA ConditionNotifyBegin ==
  ASSUME ConditionInv, NEW t \in Threads, NEW step \in {"signal", "broadcast"}, NotifyBegin(t, step)
  PROVE  ConditionInv'
<1> USE ConditionAssumption
    DEF ConditionInv, NotifyBegin, Goto, mutexVars, conditionVars, waitVars
<1>1. TypeOK'
  BY DEF TypeOK, Steps, Results
<1>2. MutexInv'
  BY DEF TypeOK, MutexInv
<1>3. GuardInv'
  BY DEF TypeOK, GuardInv, Guarded
<1>4. NoDanglingWaiter'
  BY DEF TypeOK, NoDanglingWaiter
<1>5. WaiterInv'
  BY DEF TypeOK, WaiterInv, WaiterOK, linked
<1>6. DestroyInv'
  BY DEF TypeOK, DestroyInv
<1> QED
  BY <1>1, <1>2, <1>3, <1>4, <1>5, <1>6

\* A notification finds nobody, enters or ends.
LEMMA ConditionNotify ==
  ASSUME ConditionInv, NEW t \in Threads, SignalNobody(t) \/ BroadcastEnter(t) \/ NotifyRelease(t)
  PROVE  ConditionInv'
<1> USE ConditionAssumption
    DEF ConditionInv, SignalNobody, BroadcastEnter, NotifyRelease, EnterCondition, Goto,
        mutexVars, conditionVars, waitVars
<1>1. TypeOK'
  BY DEF TypeOK, Steps, Results
<1>2. MutexInv'
  BY DEF TypeOK, MutexInv
<1>3. GuardInv'
  BY DEF TypeOK, GuardInv, Guarded
<1>4. NoDanglingWaiter'
  BY DEF TypeOK, NoDanglingWaiter
<1>5. WaiterInv'
  BY DEF TypeOK, WaiterInv, WaiterOK, linked
<1>6. DestroyInv'
  BY DEF TypeOK, DestroyInv
<1> QED
  BY <1>1, <1>2, <1>3, <1>4, <1>5, <1>6

\* The destruction begins.
LEMMA ConditionDestroyBegin ==
  ASSUME ConditionInv, NEW t \in Threads, DestroyBegin(t)
  PROVE  ConditionInv'
<1> USE ConditionAssumption
    DEF ConditionInv, DestroyBegin, Goto, mutexVars, conditionVars, waitVars
<1>1. TypeOK'
  BY DEF TypeOK, Steps, Results
<1>2. MutexInv'
  BY DEF TypeOK, MutexInv
<1>3. GuardInv'
  BY DEF TypeOK, GuardInv, Guarded
<1>4. NoDanglingWaiter'
  BY DEF TypeOK, NoDanglingWaiter
<1>5. WaiterInv'
  BY DEF TypeOK, WaiterInv, WaiterOK, linked
<1>6. DestroyInv'
  BY DEF TypeOK, DestroyInv
<1> QED
  BY <1>1, <1>2, <1>3, <1>4, <1>5, <1>6

\* Somebody waits.
LEMMA ConditionDestroyRefused ==
  ASSUME ConditionInv, NEW t \in Threads, DestroyRefused(t)
  PROVE  ConditionInv'
<1> USE ConditionAssumption
    DEF ConditionInv, DestroyRefused, EnterCondition, Busy, Goto, mutexVars, conditionVars, waitVars
<1>1. TypeOK'
  BY DEF TypeOK, Steps, Results
<1>2. MutexInv'
  BY DEF TypeOK, MutexInv
<1>3. GuardInv'
  BY DEF TypeOK, GuardInv, Guarded
<1>4. NoDanglingWaiter'
  BY DEF TypeOK, NoDanglingWaiter
<1>5. WaiterInv'
  BY DEF TypeOK, WaiterInv, WaiterOK, linked
<1>6. DestroyInv'
  BY DEF TypeOK, DestroyInv
<1> QED
  BY <1>1, <1>2, <1>3, <1>4, <1>5, <1>6

\* Nobody is in the list.
LEMMA ConditionDestroyCheck ==
  ASSUME ConditionInv, NEW t \in Threads, DestroyCheck(t)
  PROVE  ConditionInv'
<1> USE ConditionAssumption
    DEF ConditionInv, DestroyCheck, EnterCondition, Busy, Goto, mutexVars, conditionVars, waitVars
<1>1. TypeOK'
  BY DEF TypeOK, Steps, Results
<1>2. MutexInv'
  BY DEF TypeOK, MutexInv
<1>3. GuardInv'
  BY DEF TypeOK, GuardInv, Guarded
<1>4. NoDanglingWaiter'
  BY DEF TypeOK, NoDanglingWaiter
<1>5. WaiterInv'
  BY DEF TypeOK, WaiterInv, WaiterOK, linked
<1>6. DestroyInv'
  BY DEF TypeOK, DestroyInv
<1> QED
  BY <1>1, <1>2, <1>3, <1>4, <1>5, <1>6

\* The condition is deleted, or the system stops.
LEMMA ConditionDestroyDelete ==
  ASSUME ConditionInv, NEW t \in Threads, DestroyDelete(t) \/ UseAfterDelete(t) \/ GuardAborted(t)
  PROVE  ConditionInv'
<1> USE ConditionAssumption
    DEF ConditionInv, DestroyDelete, UseAfterDelete, GuardAborted, Goto, mutexVars, conditionVars, waitVars
<1>1. TypeOK'
  BY DEF TypeOK, Steps, Results
<1>2. MutexInv'
  BY DEF TypeOK, MutexInv
<1>3. GuardInv'
  BY DEF TypeOK, GuardInv, Guarded
<1>4. NoDanglingWaiter'
  BY DEF TypeOK, NoDanglingWaiter
<1>5. WaiterInv'
  BY DEF TypeOK, WaiterInv, WaiterOK, linked
<1>6. DestroyInv'
  BY DEF TypeOK, DestroyInv
<1> QED
  BY <1>1, <1>2, <1>3, <1>4, <1>5, <1>6

\* The waiter is linked, at the end of the list.
LEMMA ConditionWaitAppend ==
  ASSUME ConditionInv, NEW t \in Threads, WaitAppend(t)
  PROVE  ConditionInv'
<1> USE ConditionAssumption
    DEF ConditionInv, WaitAppend, EnterCondition, AppendStep, Goto, mutexVars, waitVars
<1>1. Distinct(waiters) /\ ~linked(t)
  BY DanglingByThread DEF TypeOK
<1>2. /\ waiters' \in Seq(Threads) /\ Distinct(waiters')
      /\ Len(waiters') > 0 /\ waiters'[Len(waiters')] = t
      /\ \A u \in Threads : linked(u)' <=> linked(u) \/ u = t
  BY <1>1, WaiterAppended DEF TypeOK
<1>3. TypeOK'
  BY <1>2 DEF TypeOK, Steps
<1>4. MutexInv' /\ GuardInv'
  BY DEF TypeOK, MutexInv, GuardInv, Guarded
<1>5. NoDanglingWaiter'
  <2>1. ASSUME NEW u \in Threads, linked(u)'
        PROVE  /\ semaphore'[u] = 0
               /\ pc'[u] \in {"unlock", "release", "release_failed", "unlink", "sleep", "late"}
    BY <1>2, <2>1, DanglingByThread DEF TypeOK, WaiterInv, WaiterOK
  <2> QED
    BY <1>2, <2>1 DEF NoDanglingWaiter, Distinct, linked
<1>6. ASSUME NEW u \in Threads PROVE WaiterOK(u)'
  BY <1>2 DEF TypeOK, WaiterInv, WaiterOK, GuardInv, Guarded
<1>7. DestroyInv'
  BY DEF TypeOK, DestroyInv
<1> QED
  BY <1>3, <1>4, <1>5, <1>6, <1>7 DEF WaiterInv

\* A wait that ends without a notification settles the race with one: its waiter is taken
\* out of the list if it is still there.
LEMMA ConditionWaitSettles ==
  ASSUME ConditionInv, NEW t \in Threads, WaitUnlink(t) \/ WaitLate(t)
  PROVE  ConditionInv'
<1> USE ConditionAssumption
    DEF ConditionInv, WaitUnlink, WaitLate, EnterCondition, LateList, Goto, mutexVars
<1>1. /\ Distinct(waiters)
      /\ \A u \in Threads : linked(u) =>
           /\ semaphore[u] = 0
           /\ pc[u] \in {"unlock", "release", "release_failed", "unlink", "sleep", "late"}
  BY DanglingByThread DEF TypeOK
<1>2. /\ waiters' \in Seq(Threads) /\ Distinct(waiters')
      /\ \A u \in Threads : linked(u)' <=> linked(u) /\ u # t
      /\ waiters = <<>> => waiters' = <<>>
  <2>1. CASE linked(t)
    <3>1. PICK k \in 1..Len(waiters) : waiters[k] = t /\ Without(waiters', waiters, k)
      BY <2>1, WaiterRemoved DEF TypeOK
    <3>2. waiters # <<>>
      BY <2>1 DEF linked
    <3> QED
      BY <1>1, <3>1, <3>2, WithoutOne DEF TypeOK, Without
  <2>2. CASE ~linked(t)
    BY <1>1, <2>2 DEF TypeOK, linked
  <2> QED
    BY <2>1, <2>2
<1>3. TypeOK'
  BY <1>2 DEF TypeOK, Steps, Results, LateStatus
<1>4. MutexInv' /\ GuardInv'
  BY DEF TypeOK, MutexInv, GuardInv, Guarded
<1>5. NoDanglingWaiter'
  <2>1. ASSUME NEW u \in Threads, linked(u)'
        PROVE  /\ semaphore'[u] = 0
               /\ pc'[u] \in {"unlock", "release", "release_failed", "unlink", "sleep", "late"}
    BY <1>1, <1>2, <2>1 DEF TypeOK
  <2> QED
    BY <1>2, <2>1 DEF NoDanglingWaiter, Distinct, linked
<1>6. ASSUME NEW u \in Threads PROVE WaiterOK(u)'
  BY <1>2 DEF TypeOK, WaiterInv, WaiterOK, GuardInv, Guarded
<1>7. DestroyInv'
  BY <1>2 DEF TypeOK, DestroyInv
<1> QED
  BY <1>3, <1>4, <1>5, <1>6, <1>7 DEF WaiterInv

\* The first waiter is taken, and its semaphore is there to be put.
LEMMA ConditionWake ==
  ASSUME ConditionInv, NEW t \in Threads, SignalWake(t) \/ BroadcastWake(t)
  PROVE  ConditionInv'
<1> USE ConditionAssumption
    DEF ConditionInv, SignalWake, BroadcastWake, WakeFirst, EnterCondition, Goto, mutexVars
<1> DEFINE first == waiters[1]
<1>1. /\ Distinct(waiters)
      /\ \A u \in Threads : linked(u) =>
           /\ semaphore[u] = 0
           /\ pc[u] \in {"unlock", "release", "release_failed", "unlink", "sleep", "late"}
  BY DanglingByThread DEF TypeOK
<1>2. /\ waiters \in Seq(Threads) /\ waiters # <<>> /\ waiters' = Tail(waiters)
      /\ Without(waiters', waiters, 1) /\ Head(waiters) = first /\ first \in Threads
  BY FirstTaken DEF TypeOK
<1>3. /\ waiters' \in Seq(Threads) /\ Distinct(waiters')
      /\ \A u \in Threads : linked(u)' <=> linked(u) /\ u # first
  BY <1>1, <1>2, WithoutOne DEF Without
<1>4. linked(first)
  BY <1>2 DEF linked
<1>5. /\ semaphore' = [semaphore EXCEPT ![first] = @ + 1] /\ fatal' = fatal
      /\ notified' = notified \cup {first}
  BY <1>1, <1>2, <1>4
<1>6. guard' = t /\ guard \in {None, t} /\ (guard = None => pc[t] = "signal")
  BY DEF GuardInv, Guarded
<1>7. pc[first] \in {"unlink", "sleep", "late"} /\ first # t
  BY <1>1, <1>2, <1>4, <1>6 DEF GuardInv, Guarded
<1>8. TypeOK'
  BY <1>2, <1>3, <1>5, <1>6 DEF TypeOK, Steps
<1>9. MutexInv' /\ GuardInv'
  BY <1>6 DEF TypeOK, MutexInv, GuardInv, Guarded
<1>10. NoDanglingWaiter'
  <2>1. ASSUME NEW u \in Threads, linked(u)'
        PROVE  /\ semaphore'[u] = 0
               /\ pc'[u] \in {"unlock", "release", "release_failed", "unlink", "sleep", "late"}
    BY <1>1, <1>3, <1>5, <2>1 DEF TypeOK
  <2> QED
    BY <1>3, <2>1 DEF NoDanglingWaiter, Distinct, linked
<1>11. ASSUME NEW u \in Threads PROVE WaiterOK(u)'
  <2>1. CASE u = first
    BY <1>3, <1>4, <1>5, <1>7, <2>1 DEF TypeOK, WaiterInv, WaiterOK
  <2>2. CASE u # first
    BY <1>3, <1>5, <1>6, <2>2 DEF TypeOK, WaiterInv, WaiterOK, GuardInv, Guarded
  <2> QED
    BY <2>1, <2>2
<1>12. DestroyInv'
  BY <1>2, <1>5 DEF TypeOK, DestroyInv, GuardInv, Guarded
<1> QED
  BY <1>8, <1>9, <1>10, <1>11, <1>12 DEF WaiterInv

\* Every step keeps the invariant.
LEMMA ConditionStep == ConditionInv /\ [Next]_vars => ConditionInv'
<1> SUFFICES ASSUME ConditionInv, [Next]_vars PROVE ConditionInv'
  OBVIOUS
<1>1. CASE UNCHANGED vars
  <2> USE <1>1 DEF vars, mutexVars, conditionVars, waitVars, ConditionInv
  <2>1. TypeOK' /\ MutexInv' /\ GuardInv' /\ NoDanglingWaiter' /\ DestroyInv'
    BY DEF TypeOK, MutexInv, GuardInv, NoDanglingWaiter, DestroyInv
  <2>2. WaiterInv'
    BY DEF WaiterInv, WaiterOK, linked
  <2> QED
    BY <2>1, <2>2
<1>2. ASSUME NEW t \in Threads, UserCall(t) PROVE ConditionInv'
  BY <1>2, ConditionLockBegin, ConditionTryLock, ConditionUnlock, ConditionWaitBegin,
     ConditionWaitNoSemaphore, ConditionNotifyBegin, ConditionDestroyBegin
     DEF UserCall
<1>3. ASSUME NEW t \in Threads, Inside(t) PROVE ConditionInv'
  BY <1>3, ConditionWaitAppend, ConditionWaitUnlock, ConditionWaitUnlockFails,
     ConditionWaitRelease, ConditionWaitSettles, ConditionWaitNotified, ConditionWake,
     ConditionNotify, ConditionDestroyRefused, ConditionDestroyCheck, ConditionDestroyDelete
     DEF Inside
<1>4. ASSUME NEW t \in Threads,
             Clock(t) \/ LockAcquire(t) \/ WaitRelock(t) \/ Abort(t) \/ UseAfterDelete(t)
      PROVE  ConditionInv'
  BY <1>4, ConditionLock, ConditionWaitEnds, ConditionWaitRelock, ConditionRelockAborted,
     ConditionDestroyDelete
     DEF Clock, Abort
<1> QED
  BY <1>1, <1>2, <1>3, <1>4 DEF Next, Idle

\* The inductive invariant holds in every reachable state.
THEOREM ConditionInvariant == SafetySpec => []ConditionInv
BY ConditionInit, ConditionStep, PTL DEF SafetySpec

\* The list never holds a waiter that is gone from the stack of its wait, nor one twice.
THEOREM ListIsSound == SafetySpec => []NoDanglingWaiter
<1>1. ConditionInv => NoDanglingWaiter
  BY DEF ConditionInv
<1> QED
  BY <1>1, ConditionInvariant, PTL

\* When the condition variable is deleted, nobody sleeps in it without a notification, and
\* nobody but a wait that timed out or was aborted and then notified still needs it.
THEOREM DestructionIsSafe == SafetySpec => []DestroySparesNotified
<1>1. ConditionInv => DestroySparesNotified
  <2> SUFFICES ASSUME ConditionInv, implementation = "deleted", NEW t \in Threads
               PROVE  /\ pc[t] \notin {"append", "unlock", "release", "release_failed", "signal",
                                       "broadcast", "wake", "notify_release"}
                      /\ pc[t] \in {"sleep", "late", "unlink"} => t \in notified
    BY DEF DestroySparesNotified
  <2>1. closing /\ guard = None /\ waiters = <<>>
    BY DEF ConditionInv, DestroyInv
  <2>2. pc[t] \notin Guarded /\ pc[t] \notin {"append", "signal", "broadcast"}
    BY <2>1, ConditionAssumption DEF ConditionInv, GuardInv, DestroyInv
  <2>3. ~linked(t)
    BY <2>1 DEF linked
  <2> QED
    BY <2>2, <2>3 DEF ConditionInv, WaiterInv, WaiterOK, Guarded
<1> QED
  BY <1>1, ConditionInvariant, PTL

-----------------------------------------------------------------------------
(* The contract *)

\* Who waits, and for how long, depends on the list and on who is past the unlock.
LEMMA SameWaiting ==
  ASSUME waiters' = waiters,
         \A u \in Threads : pc'[u] \in {"release", "sleep", "late"}
                              <=> pc[u] \in {"release", "sleep", "late"}
  PROVE  waiting' = waiting /\ longer' = longer
<1>1. waiting' = waiting
  BY DEF waiting, linked
<1> QED
  BY <1>1 DEF longer, ahead

\* A step of a thread that does not change who was notified, gave up or waits.
LEMMA SameResults ==
  ASSUME ConditionInv, NEW t \in Threads,
         pc' = [pc EXCEPT ![t] = pc'[t]],
         \A u \in Threads \ {t} :
           (u \in notified' <=> u \in notified) /\ wait_status'[u] = wait_status[u],
         t \in granted' <=> t \in granted, t \in expired' <=> t \in expired,
         notified' \subseteq Threads
  PROVE  granted' = granted /\ expired' = expired
<1>1. notified \subseteq Threads /\ \A u \in Threads \ {t} : pc'[u] = pc[u]
  BY DEF ConditionInv, TypeOK
<1>2. \A u \in Threads : u \in granted' <=> u \in granted
  BY <1>1 DEF granted
<1>3. \A u \in Threads : u \in expired' <=> u \in expired
  BY <1>1 DEF expired
<1>4. granted \subseteq Threads /\ granted' \subseteq Threads
  BY <1>1 DEF granted
<1>5. expired \subseteq Threads /\ expired' \subseteq Threads
  BY DEF expired
<1> QED
  BY <1>2, <1>3, <1>4, <1>5

\* Locking and unlocking the user's mutex.
LEMMA ContractMutex ==
  ASSUME ConditionInv, NEW t \in Threads,
         (\E step \in {"lock", "timed_lock"} : LockBegin(t, step)) \/ LockTimeout(t)
           \/ LockAborted(t) \/ LockAcquire(t) \/ TryLock(t) \/ Unlock(t)
  PROVE  [Contract!Next]_Contract!vars
<1> USE DEF LockBegin, LockTimeout, LockAborted, LockAcquire, TryLock, Unlock, Goto, mutexVars, conditionVars,
            waitVars
<1>1. waiters' = waiters /\ notified' = notified /\ wait_status' = wait_status
  OBVIOUS
<1>2. pc[t] \in {"idle", "lock", "timed_lock"} /\ pc'[t] \in {"idle", "lock", "timed_lock"}
      /\ pc' = [pc EXCEPT ![t] = pc'[t]]
  BY DEF ConditionInv, TypeOK
<1>3. waiting' = waiting /\ longer' = longer
  BY <1>1, <1>2, SameWaiting DEF ConditionInv, TypeOK
<1>4. granted' = granted /\ expired' = expired
  BY <1>1, <1>2 DEF ConditionInv, TypeOK, granted, expired
<1>5. \/ holder' = holder
      \/ holder = None /\ holder' = t
      \/ holder # None /\ holder' = None
  BY ConditionAssumption DEF Put
<1> QED
  BY <1>3, <1>4, <1>5 DEF Contract!Next, Contract!vars, Contract!Acquire, Contract!Release

\* The steps of a thread that the contract does not see: they leave the list, the mutex
\* and who is past the unlock alone.
LEMMA ContractUnseen ==
  ASSUME ConditionInv, NEW t \in Threads,
         \/ \E deadline \in BOOLEAN : WaitBegin(t, deadline)
         \/ WaitNoSemaphore(t)
         \/ WaitUnlockFails(t) \/ WaitRelease(t)
         \/ WaitNotified(t) \/ WaitTimeout(t) \/ WaitAborted(t)
         \/ \E step \in {"signal", "broadcast"} : NotifyBegin(t, step)
         \/ SignalNobody(t) \/ BroadcastEnter(t) \/ NotifyRelease(t)
         \/ DestroyBegin(t) \/ DestroyRefused(t) \/ DestroyCheck(t) \/ DestroyDelete(t)
         \/ UseAfterDelete(t) \/ GuardAborted(t)
  PROVE  UNCHANGED Contract!vars
<1> USE DEF ConditionInv, mutexVars, conditionVars, waitVars, Goto
<1>1. ASSUME UNCHANGED <<holder, waiters>>, notified' \subseteq Threads,
             pc' = [pc EXCEPT ![t] = pc'[t]],
             \A u \in Threads \ {t} :
               (u \in notified' <=> u \in notified) /\ wait_status'[u] = wait_status[u],
             t \in granted' <=> t \in granted, t \in expired' <=> t \in expired,
             linked(t) => (pc'[t] \in {"release", "sleep", "late"}
                             <=> pc[t] \in {"release", "sleep", "late"})
      PROVE  UNCHANGED Contract!vars
  <2>1. granted' = granted /\ expired' = expired
    BY <1>1, SameResults
  <2>2. \A u \in Threads \ {t} : pc'[u] = pc[u]
    BY <1>1 DEF TypeOK
  <2>3. waiting' = waiting
    BY <1>1, <2>2 DEF waiting, linked
  <2>4. longer' = longer
    BY <1>1, <2>3 DEF longer, ahead
  <2> QED
    BY <1>1, <2>1, <2>3, <2>4 DEF Contract!vars
<1>2. CASE \E deadline \in BOOLEAN : WaitBegin(t, deadline)
  BY <1>1, <1>2 DEF WaitBegin, WaitCall, TypeOK, granted, expired
<1>3. CASE \/ WaitNoSemaphore(t) \/ SignalNobody(t) \/ BroadcastEnter(t) \/ NotifyRelease(t)
           \/ (\E step \in {"signal", "broadcast"} : NotifyBegin(t, step))
           \/ DestroyBegin(t) \/ DestroyRefused(t) \/ DestroyCheck(t) \/ DestroyDelete(t)
           \/ UseAfterDelete(t) \/ GuardAborted(t)
  <2>1. /\ UNCHANGED <<holder, waiters, notified, wait_status>>
        /\ pc' = [pc EXCEPT ![t] = pc'[t]]
    BY <1>3
       DEF WaitNoSemaphore, WaitCall, SignalNobody, BroadcastEnter, NotifyRelease, NotifyBegin,
           DestroyBegin, DestroyRefused, DestroyCheck, DestroyDelete, UseAfterDelete,
           GuardAborted, TypeOK
  <2>2. \/ pc'[t] = pc[t]
        \/ /\ pc[t] \notin {"release", "sleep", "late", "relock"}
           /\ pc'[t] \notin {"release", "sleep", "late", "relock"}
    BY <1>3
       DEF WaitNoSemaphore, WaitCall, SignalNobody, BroadcastEnter, NotifyRelease, NotifyBegin,
           DestroyBegin, DestroyRefused, DestroyCheck, DestroyDelete, UseAfterDelete,
           GuardAborted, EnterCondition, TypeOK
  <2> QED
    BY <1>1, <2>1, <2>2 DEF TypeOK, granted, expired
<1>4. CASE WaitUnlockFails(t)
  BY <1>1, <1>4 DEF WaitUnlockFails, TypeOK, granted, expired
<1>5. CASE WaitRelease(t)
  <2>1. pc[t] = "release" => t \notin notified
    <3>1. pc[t] = "release" => Len(waiters) > 0 /\ waiters[Len(waiters)] = t
      BY DEF WaiterInv, WaiterOK
    <3>2. pc[t] = "release" => linked(t)
      BY <3>1 DEF linked, TypeOK
    <3> QED
      BY <3>2 DEF WaiterInv, WaiterOK
  <2> QED
    BY <1>1, <1>5, <2>1 DEF WaitRelease, TypeOK, granted, expired
<1>6. CASE WaitNotified(t)
  <2>1. pc[t] = "sleep" /\ t \in notified /\ ~linked(t) /\ wait_status[t] = "ok"
    BY <1>6 DEF WaitNotified, SemaphoreAvailable, WaiterInv, WaiterOK
  <2> QED
    BY <1>1, <1>6, <2>1 DEF WaitNotified, TypeOK, granted, expired
<1>7. CASE WaitTimeout(t) \/ WaitAborted(t)
  BY <1>1, <1>7 DEF WaitTimeout, WaitAborted, TypeOK, granted, expired
<1> QED
  BY <1>2, <1>3, <1>4, <1>5, <1>6, <1>7

\* The waiter is linked: it does not count as waiting yet.
LEMMA ContractAppend ==
  ASSUME ConditionInv, NEW t \in Threads, WaitAppend(t)
  PROVE  UNCHANGED Contract!vars
<1> USE DEF ConditionInv, WaitAppend, EnterCondition, AppendStep, Goto, mutexVars, waitVars
<1>1. Distinct(waiters) /\ ~linked(t)
  BY DanglingByThread DEF TypeOK
<1>2. /\ \A u \in Threads : linked(u)' <=> linked(u) \/ u = t
      /\ \A u, v \in Threads : u # t /\ v # t => (ahead(u, v)' <=> ahead(u, v))
  BY <1>1, WaiterAppended DEF TypeOK
<1>3. waiting' = waiting /\ t \notin waiting
  BY <1>1, <1>2 DEF waiting, TypeOK
<1>4. longer' = longer
  <2>1. waiting \subseteq Threads
    BY DEF waiting
  <2>2. \A pair \in waiting \X waiting : ahead(pair[1], pair[2])' <=> ahead(pair[1], pair[2])
    BY <1>2, <1>3, <2>1
  <2> QED
    BY <1>3, <2>2 DEF longer
<1>5. granted' = granted /\ expired' = expired
  BY DEF granted, expired, TypeOK
<1> QED
  BY <1>3, <1>4, <1>5 DEF Contract!vars

\* The wait releases the mutex: from here on it waits, behind all that wait already.
LEMMA ContractWait ==
  ASSUME ConditionInv, NEW t \in Threads, WaitUnlock(t)
  PROVE  Contract!Wait(t)
<1> USE DEF ConditionInv, WaitUnlock, Goto, mutexVars, conditionVars, waitVars
<1>1. Distinct(waiters) /\ waiters \in Seq(Threads)
  BY DanglingByThread DEF TypeOK
<1>2. Len(waiters) > 0 /\ waiters[Len(waiters)] = t
  BY DEF WaiterInv, WaiterOK
<1>3. linked(t) /\ t \notin notified
  <2>1. linked(t)
    BY <1>1, <1>2 DEF linked
  <2> QED
    BY <2>1 DEF WaiterInv, WaiterOK
<1>4. holder = t /\ holder' = None
  BY DEF Put, MutexInv
<1>5. waiting' = waiting \cup {t} /\ t \notin waiting /\ waiting \subseteq Threads
  BY <1>3 DEF waiting, linked, TypeOK
<1>6. \A u, v \in Threads : ahead(u, v)' <=> ahead(u, v)
  BY DEF ahead
<1>7. \A u \in Threads : ~ahead(t, u)
  BY <1>1, <1>2 DEF ahead, Distinct
<1>8. \A u \in waiting : ahead(u, t)
  <2> SUFFICES ASSUME NEW u \in waiting PROVE ahead(u, t)
    OBVIOUS
  <2>1. PICK i \in 1..Len(waiters) : waiters[i] = u
    BY DEF waiting, linked
  <2>2. i < Len(waiters) /\ Len(waiters) \in 1..Len(waiters)
    BY <1>1, <1>2, <1>5, <2>1
  <2> QED
    BY <1>2, <2>1, <2>2 DEF ahead
<1>9. longer' = longer \cup (waiting \X {t})
  <2>1. longer' = {pair \in waiting' \X waiting' : ahead(pair[1], pair[2])}
    BY <1>5, <1>6 DEF longer
  <2>2. ASSUME NEW u, NEW v PROVE <<u, v>> \in longer' <=> <<u, v>> \in longer \cup (waiting \X {t})
    BY <1>5, <1>7, <1>8, <2>1 DEF longer
  <2>3. /\ \A pair \in longer' : pair = <<pair[1], pair[2]>>
        /\ \A pair \in longer \cup (waiting \X {t}) : pair = <<pair[1], pair[2]>>
    BY <2>1 DEF longer
  <2> QED
    BY <2>2, <2>3
<1>10. granted' = granted /\ expired' = expired
  BY DEF granted, expired, TypeOK
<1> QED
  BY <1>4, <1>5, <1>9, <1>10 DEF Contract!Wait

\* One waiter leaves the list: who waits, and in which order, is as before without it.
LEMMA ContractLeave ==
  ASSUME ConditionInv, NEW k, Without(waiters', waiters, k), waiters[k] \in Threads,
         \A u \in Threads \ {waiters[k]} :
           pc'[u] \in {"release", "sleep", "late"} <=> pc[u] \in {"release", "sleep", "late"}
  PROVE  /\ waiting' = waiting \ {waiters[k]}
         /\ longer' = {pair \in longer : waiters[k] \notin {pair[1], pair[2]}}
<1> DEFINE t == waiters[k]
<1>1. /\ \A u \in Threads : linked(u)' <=> linked(u) /\ u # t
      /\ \A u, v \in Threads : ahead(u, v)' <=> ahead(u, v) /\ u # t /\ v # t
  BY WithoutOne, DanglingByThread DEF ConditionInv, TypeOK
<1> HIDE DEF t
<1>2. \A u \in Threads \ {t} :
        pc'[u] \in {"release", "sleep", "late"} <=> pc[u] \in {"release", "sleep", "late"}
  BY DEF t
<1>3. waiting' = waiting \ {t} /\ waiting \subseteq Threads
  BY <1>1, <1>2 DEF waiting
<1>4. longer' = {pair \in longer : t \notin {pair[1], pair[2]}}
  <2>1. longer' = {pair \in waiting' \X waiting' : ahead(pair[1], pair[2])'}
    BY DEF longer
  <2>2. ASSUME NEW u, NEW v
        PROVE  <<u, v>> \in longer' <=> <<u, v>> \in {pair \in longer : t \notin {pair[1], pair[2]}}
    BY <1>1, <1>3, <2>1 DEF longer
  <2>3. /\ \A pair \in longer' : pair = <<pair[1], pair[2]>>
        /\ \A pair \in longer : pair = <<pair[1], pair[2]>>
    BY <2>1 DEF longer
  <2> QED
    BY <2>2, <2>3
<1> QED
  BY <1>3, <1>4 DEF t

\* A wait settles the race: it expires if nobody notified it, else nothing is seen.
LEMMA ContractSettles ==
  ASSUME ConditionInv, NEW t \in Threads, WaitUnlink(t) \/ WaitLate(t)
  PROVE  Contract!Expire(t) \/ UNCHANGED Contract!vars
<1> USE DEF ConditionInv, WaitUnlink, WaitLate, EnterCondition, LateList, Goto, mutexVars
<1>1. pc[t] \in {"unlink", "late"} /\ pc' = [pc EXCEPT ![t] = pc'[t]] /\ holder' = holder
      /\ notified' = notified
  BY DEF TypeOK
<1>2. \A u \in Threads \ {t} : pc'[u] = pc[u] /\ wait_status'[u] = wait_status[u]
  BY DEF TypeOK
<1>3. CASE linked(t)
  <2>1. PICK k \in 1..Len(waiters) : waiters[k] = t /\ Without(waiters', waiters, k)
    BY <1>3, WaiterRemoved DEF TypeOK
  <2>2. /\ waiting' = waiting \ {t}
        /\ longer' = {pair \in longer : t \notin {pair[1], pair[2]}}
    BY <1>2, <2>1, ContractLeave
  <2>3. t \notin notified
    BY <1>1, <1>3 DEF WaiterInv, WaiterOK
  <2>4. CASE WaitUnlink(t)
    <3>1. t \notin waiting /\ \A pair \in longer : t \notin {pair[1], pair[2]}
      BY <2>4 DEF waiting, longer
    <3>2. granted' = granted /\ expired' = expired
      BY <2>3, <2>4 DEF granted, expired, TypeOK
    <3> QED
      BY <1>1, <2>2, <3>1, <3>2 DEF Contract!vars
  <2>5. CASE WaitLate(t)
    <3>1. t \in waiting
      BY <1>3, <2>5 DEF waiting
    <3>2. wait_status'[t] # "ok"
      BY <1>3, <2>5 DEF LateStatus, WaiterInv, WaiterOK, TypeOK
    <3>3. granted' = granted /\ expired' = expired \cup {t}
      BY <1>2, <2>3, <2>5, <3>2 DEF granted, expired, TypeOK
    <3> QED
      BY <1>1, <2>2, <3>1, <3>3 DEF Contract!Expire, Contract!Leave
  <2> QED
    BY <2>4, <2>5
<1>4. CASE ~linked(t)
  <2>1. waiters' = waiters /\ t \in notified /\ semaphore[t] = 1
    BY <1>1, <1>4 DEF WaiterInv, WaiterOK
  <2>2. waiting' = waiting
    BY <1>2, <1>4, <2>1 DEF waiting, linked
  <2>3. longer' = longer
    BY <2>1, <2>2 DEF longer, ahead
  <2>4. granted' = granted /\ expired' = expired
    <3>1. CASE WaitUnlink(t)
      BY <1>2, <2>1, <3>1 DEF granted, expired, TypeOK
    <3>2. CASE WaitLate(t)
      <4>1. wait_status'[t] = "ok" /\ pc[t] = "late" /\ pc'[t] = "relock"
        BY <1>4, <2>1, <3>2 DEF LateStatus, SemaphoreAvailable, TypeOK
      <4> QED
        BY <1>1, <1>2, <2>1, <4>1 DEF granted, expired, TypeOK
    <3> QED
      BY <3>1, <3>2
  <2> QED
    BY <1>1, <2>2, <2>3, <2>4 DEF Contract!vars
<1> QED
  BY <1>3, <1>4

\* The wait returns with the mutex.
LEMMA ContractResume ==
  ASSUME ConditionInv, NEW t \in Threads, WaitRelock(t)
  PROVE  Contract!Resume(t)
<1> USE DEF ConditionInv, WaitRelock, Goto, conditionVars, waitVars
<1>1. waiting' = waiting /\ longer' = longer
  BY SameWaiting DEF TypeOK
<1>2. t \in granted \cup expired /\ granted' = granted \ {t} /\ expired' = expired \ {t}
  BY DEF granted, expired, TypeOK
<1> QED
  BY <1>1, <1>2 DEF Contract!Resume

\* The wait is aborted while it is kept waiting for the mutex.
LEMMA ContractAbandon ==
  ASSUME ConditionInv, NEW t \in Threads, RelockAborted(t)
  PROVE  Contract!Abandon(t)
<1> USE DEF ConditionInv, RelockAborted, Goto, mutexVars, conditionVars
<1>1. waiting' = waiting /\ longer' = longer
  BY SameWaiting DEF TypeOK
<1>2. t \in granted \cup expired /\ granted' = granted \ {t} /\ expired' = expired \ {t}
  BY DEF granted, expired, TypeOK
<1> QED
  BY <1>1, <1>2 DEF Contract!Abandon

\* A notification takes the first of the list: the longest waiting thread, or one whose
\* wait failed because it did not own the mutex, which the contract does not see.
LEMMA ContractNotify ==
  ASSUME ConditionInv, NEW t \in Threads, SignalWake(t) \/ BroadcastWake(t)
  PROVE  (\E u \in Threads : Contract!Notify(u)) \/ UNCHANGED Contract!vars
<1> USE DEF ConditionInv, SignalWake, BroadcastWake, WakeFirst, EnterCondition, Goto, mutexVars
<1> DEFINE first == waiters[1]
<1>1. /\ waiters \in Seq(Threads) /\ waiters # <<>> /\ Distinct(waiters)
      /\ Without(waiters', waiters, 1) /\ Head(waiters) = first /\ first \in Threads
  BY FirstTaken, DanglingByThread DEF TypeOK
<1>2. linked(first) /\ 1 \in 1..Len(waiters)
  BY <1>1 DEF linked
<1>3. pc[first] \in {"unlock", "release", "release_failed", "unlink", "sleep", "late"}
      /\ guard \in {None, t} /\ pc[t] \in {"signal", "wake"} /\ pc'[t] \in {"notify_release", "wake"}
  BY <1>1, <1>2, DanglingByThread DEF TypeOK, GuardInv, Guarded
<1>4. pc[first] \in {"unlink", "sleep", "late"} /\ first # t
  BY <1>1, <1>3, ConditionAssumption DEF GuardInv, Guarded
<1>5. /\ \A u \in Threads \ {t} : pc'[u] = pc[u]
      /\ notified' = notified \cup {first}
      /\ wait_status' = wait_status /\ holder' = holder
  BY <1>1 DEF TypeOK
<1>6. /\ waiting' = waiting \ {first}
      /\ longer' = {pair \in longer : first \notin {pair[1], pair[2]}}
  <2>1. \A u \in Threads \ {first} :
          pc'[u] \in {"release", "sleep", "late"} <=> pc[u] \in {"release", "sleep", "late"}
    BY <1>3, <1>5
  <2> QED
    BY <1>1, <2>1, ContractLeave
<1> HIDE DEF first
<1>7. expired' = expired
  BY <1>3, <1>5 DEF expired
<1>8. CASE pc[first] = "unlink"
  <2>1. first \notin waiting /\ \A pair \in longer : first \notin {pair[1], pair[2]}
    BY <1>8 DEF waiting, longer
  <2>2. granted' = granted
    BY <1>3, <1>4, <1>5, <1>8 DEF granted, TypeOK
  <2> QED
    BY <1>5, <1>6, <1>7, <2>1, <2>2 DEF Contract!vars
<1>9. CASE pc[first] \in {"sleep", "late"}
  <2>1. first \in waiting
    BY <1>1, <1>2, <1>9 DEF waiting
  <2>2. granted' = granted \cup {first}
    BY <1>1, <1>3, <1>4, <1>5, <1>9 DEF granted, TypeOK
  <2>3. \A u \in waiting : <<u, first>> \notin longer
    <3>1. \A u \in Threads : ~ahead(u, first)
      BY <1>1, <1>2 DEF ahead, Distinct, first
    <3> QED
      BY <3>1 DEF longer, waiting
  <2>4. Contract!Notify(first)
    BY <1>5, <1>6, <1>7, <2>1, <2>2, <2>3 DEF Contract!Notify, Contract!Leave
  <2> QED
    BY <1>1, <2>4
<1> QED
  BY <1>4, <1>8, <1>9

\* The calls implement the condition variable of the contract: every step of theirs is a
\* step of it or none.  Nothing loses a notification but an abort of the thread that got it,
\* while that waits for the mutex (condition_wait_common, condition_signal and _broadcast).
THEOREM ContractHolds == SafetySpec => ImplementsContractSteps
<1>1. Init => Contract!Init
  BY DEF Init, Contract!Init, waiting, longer, granted, expired, linked
<1>2. ConditionInv /\ [Next]_vars => [Contract!Next]_Contract!vars
  <2> SUFFICES ASSUME ConditionInv, [Next]_vars PROVE [Contract!Next]_Contract!vars
    OBVIOUS
  <2>1. CASE UNCHANGED vars
    <3>1. waiting' = waiting /\ longer' = longer
      BY <2>1, SameWaiting DEF vars, conditionVars
    <3>2. granted' = granted /\ expired' = expired
      BY <2>1 DEF vars, waitVars, granted, expired
    <3> QED
      BY <2>1, <3>1, <3>2 DEF vars, mutexVars, Contract!vars
  <2>2. ASSUME NEW t \in Threads, UserCall(t) PROVE [Contract!Next]_Contract!vars
    BY <2>2, ContractMutex, ContractUnseen DEF UserCall
  <2>3. ASSUME NEW t \in Threads, Inside(t) PROVE [Contract!Next]_Contract!vars
    BY <2>3, ContractUnseen, ContractAppend, ContractWait, ContractSettles, ContractNotify
       DEF Inside, Contract!Next
  <2>4. ASSUME NEW t \in Threads,
               Clock(t) \/ LockAcquire(t) \/ WaitRelock(t) \/ Abort(t) \/ UseAfterDelete(t)
        PROVE  [Contract!Next]_Contract!vars
    BY <2>4, ContractMutex, ContractUnseen, ContractResume, ContractAbandon
       DEF Clock, Abort, Contract!Next
  <2> QED
    BY <2>1, <2>2, <2>3, <2>4 DEF Next, Idle
<1> QED
  BY <1>1, <1>2, ConditionInvariant, PTL
     DEF SafetySpec, ImplementsContractSteps, Contract!SafetySpec
=============================================================================
