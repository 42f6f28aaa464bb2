--------------------------- MODULE FirstUseProofs ---------------------------
(***************************************************************************)
(* Proofs about first use: statics and call_onces (StaticInit), the        *)
(* objects behind the C++ primitives (NativeObjects), and the runtime and  *)
(* newlib's locks (RuntimeStartup over LibcLocks).                         *)
(***************************************************************************)
EXTENDS MCFirstUse, Integers, FiniteSetTheorems, SequenceTheorems, TLAPS

-----------------------------------------------------------------------------
(* The objects behind handles.                                             *)

\* Go moves one call and leaves its name and all other calls alone.
LEMMA GoMoves ==
  ASSUME Native!TypeOK, NEW t \in Users, NEW p \in Native!Places,
         NEW o \in Addresses \cup {0}, Native!Go(t, p, o)
  PROVE  /\ use' \in [Users -> Native!UseRecords]
         /\ use'[t].pc = p /\ use'[t].object = o /\ use'[t].call = use[t].call
         /\ \A u \in Users : u # t => use'[u] = use[u]
  BY DEF Native!TypeOK, Native!Go, Native!UseRecords

LEMMA FinishMoves ==
  ASSUME Native!TypeOK, NEW t \in Users, Native!Finish(t)
  PROVE  /\ use' \in [Users -> Native!UseRecords]
         /\ use'[t].pc = "idle" /\ use'[t].object = 0 /\ use'[t].call = "none"
         /\ \A u \in Users : u # t => use'[u] = use[u]
  BY DEF Native!TypeOK, Native!Finish, Native!Idle, Native!UseRecords, Native!Places,
         Native!CallNames

LEMMA NativeInitially == Native!Init => Native!NativeInv
  <1> SUFFICES ASSUME Native!Init PROVE Native!NativeInv
    OBVIOUS
  <1>1. \A t \in Users : use[t].pc = "idle" /\ use[t].object = 0 /\ use[t].call = "none"
    BY DEF Native!Init, Native!Idle
  <1>2. Native!Idle \in Native!UseRecords
    BY DEF Native!Idle, Native!UseRecords, Native!Places, Native!CallNames
  <1>3. Native!TypeOK
    BY <1>2 DEF Native!Init, Native!TypeOK, Native!Kinds, Native!Deleted
  <1>4. Native!UseInv
    BY <1>1 DEF Native!UseInv, Native!UseOK
  <1>5. Native!ObjectInv
    BY FirstUseAssumption DEF Native!Init, Native!ObjectInv
  <1>6. QED  BY <1>3, <1>4, <1>5 DEF Native!NativeInv

LEMMA CallKeeps ==
  ASSUME Native!NativeInv, NEW t \in Users, NEW call \in Native!Calls, Native!Call(t, call)
  PROVE  Native!NativeInv'
  <1>1. /\ use' \in [Users -> Native!UseRecords]
        /\ use'[t].pc = "look" /\ use'[t].object = 0
        /\ use'[t].call \notin {"none", "lock"} => kind = "semaphore"
        /\ \A u \in Users : u # t => use'[u] = use[u]
    BY DEF Native!NativeInv, Native!TypeOK, Native!Call, Native!Calls, Native!UseRecords,
           Native!Places, Native!CallNames
  <1>2. Native!TypeOK' /\ Native!ObjectInv'
    BY <1>1 DEF Native!NativeInv, Native!TypeOK, Native!ObjectInv, Native!Call,
                Native!handleVars
  <1>3. Native!UseInv'
    BY <1>1 DEF Native!NativeInv, Native!UseInv, Native!UseOK, Native!Call, Native!handleVars
  <1>4. QED  BY <1>2, <1>3 DEF Native!NativeInv

LEMMA LookKeeps ==
  ASSUME Native!NativeInv, NEW t \in Users, Native!Look(t),
         UNCHANGED <<kind, alive, initial_count, tokens>>
  PROVE  Native!NativeInv'
  <1>1. PICK p \in {"use", "lock"}, o \in Addresses \cup {0} :
          /\ Native!Go(t, p, o) /\ o \in {0, implementation}
          /\ p = "use" <=> o # 0
    BY DEF Native!NativeInv, Native!TypeOK, Native!Look
  <1>2. /\ use' \in [Users -> Native!UseRecords]
        /\ use'[t].pc = p /\ use'[t].object = o /\ use'[t].call = use[t].call
        /\ \A u \in Users : u # t => use'[u] = use[u]
    BY <1>1, GoMoves, ZenonT(40) DEF Native!NativeInv, Native!Places
  <1>3. Native!TypeOK' /\ Native!ObjectInv'
    BY <1>2 DEF Native!NativeInv, Native!TypeOK, Native!ObjectInv, Native!Look
  <1>4. Native!UseInv'
    BY <1>1, <1>2 DEF Native!NativeInv, Native!UseInv, Native!UseOK, Native!Look
  <1>5. QED  BY <1>3, <1>4 DEF Native!NativeInv

LEMMA LockKeeps ==
  ASSUME Native!NativeInv, NEW t \in Users, Native!Lock(t),
         UNCHANGED <<kind, alive, initial_count, tokens>>
  PROVE  Native!NativeInv'
  <1>1. /\ use' \in [Users -> Native!UseRecords]
        /\ use'[t].pc = "check" /\ use'[t].object = 0
        /\ use'[t].call = use[t].call
        /\ \A u \in Users : u # t => use'[u] = use[u]
    BY GoMoves DEF Native!NativeInv, Native!Places, Native!Lock
  <1>2. Native!TypeOK' /\ Native!ObjectInv'
    BY <1>1 DEF Native!NativeInv, Native!TypeOK, Native!ObjectInv, Native!Lock
  <1>3. Native!UseInv'
    BY <1>1, FirstUseAssumption
    DEF Native!NativeInv, Native!UseInv, Native!UseOK, Native!Lock, Native!Nobody
  <1>4. QED  BY <1>2, <1>3 DEF Native!NativeInv

LEMMA CheckKeeps ==
  ASSUME Native!NativeInv, NEW t \in Users, NEW n \in Nat, Native!Check(t, n),
         kind = "semaphore" => n = initial_count,
         UNCHANGED <<kind, alive, initial_count, tokens>>
  PROVE  Native!NativeInv'
  <1>1. CASE Native!Go(t, "unlock", implementation) /\ UNCHANGED <<implementation, native>>
    <2>1. /\ use' \in [Users -> Native!UseRecords]
          /\ use'[t].pc = "unlock" /\ use'[t].object = implementation
          /\ use'[t].call = use[t].call
          /\ \A u \in Users : u # t => use'[u] = use[u]
      BY <1>1, GoMoves DEF Native!NativeInv, Native!Places, Native!TypeOK
    <2>2. Native!TypeOK' /\ Native!ObjectInv'
      BY <1>1, <2>1 DEF Native!NativeInv, Native!TypeOK, Native!ObjectInv, Native!Check
    <2>3. Native!UseInv'
      BY <1>1, <2>1 DEF Native!NativeInv, Native!UseInv, Native!UseOK, Native!Check
    <2>4. QED  BY <2>2, <2>3 DEF Native!NativeInv
  <1>2. CASE \E a \in Addresses :
               /\ Native!MustCreate /\ native[a] = Native!Deleted
               /\ native' = [native EXCEPT ![a] = n]
               /\ implementation' = a
               /\ Native!Go(t, "unlock", a)
    <2>1. PICK a \in Addresses :
               /\ implementation = 0
               /\ native' = [native EXCEPT ![a] = n]
               /\ implementation' = a
               /\ Native!Go(t, "unlock", a)
      BY <1>2 DEF Native!MustCreate
    <2>2. /\ use' \in [Users -> Native!UseRecords]
          /\ use'[t].pc = "unlock" /\ use'[t].object = a
          /\ use'[t].call = use[t].call
          /\ \A u \in Users : u # t => use'[u] = use[u]
      BY <2>1, GoMoves DEF Native!NativeInv, Native!Places
    <2>3. Native!TypeOK'
      BY <2>1, <2>2 DEF Native!NativeInv, Native!TypeOK, Native!Check
    <2>4. Native!ObjectInv'
      <3>1. \A b \in Addresses : native[b] = Native!Deleted
        BY <2>1, FirstUseAssumption DEF Native!NativeInv, Native!ObjectInv
      <3>2. native'[a] = n /\ \A b \in Addresses : b # a => native'[b] = native[b]
        BY <2>1 DEF Native!NativeInv, Native!TypeOK
      <3>3. \A b \in Addresses : native'[b] # Native!Deleted <=> b = a
        BY <3>1, <3>2 DEF Native!Deleted
      <3>4. alive /\ a # 0
        BY FirstUseAssumption
        DEF Native!NativeInv, Native!UseInv, Native!UseOK, Native!Check
      <3>5. kind = "semaphore" => tokens = n
        BY <2>1 DEF Native!NativeInv, Native!ObjectInv
      <3>6. QED  BY <2>1, <3>2, <3>3, <3>4, <3>5 DEF Native!ObjectInv
    <2>5. Native!UseInv'
      BY <2>1, <2>2, FirstUseAssumption
      DEF Native!NativeInv, Native!UseInv, Native!UseOK, Native!Check
    <2>6. QED  BY <2>3, <2>4, <2>5 DEF Native!NativeInv
  <1>3. CASE Native!Go(t, "unlock", 0) /\ UNCHANGED <<implementation, native>>
    <2>1. /\ use' \in [Users -> Native!UseRecords]
          /\ use'[t].pc = "unlock" /\ use'[t].object = 0
          /\ use'[t].call = use[t].call
          /\ \A u \in Users : u # t => use'[u] = use[u]
      BY <1>3, GoMoves DEF Native!NativeInv, Native!Places
    <2>2. Native!TypeOK' /\ Native!ObjectInv'
      BY <1>3, <2>1 DEF Native!NativeInv, Native!TypeOK, Native!ObjectInv, Native!Check
    <2>3. Native!UseInv'
      BY <1>3, <2>1 DEF Native!NativeInv, Native!UseInv, Native!UseOK, Native!Check
    <2>4. QED  BY <2>2, <2>3 DEF Native!NativeInv
  <1>4. QED  BY <1>1, <1>2, <1>3 DEF Native!Check

LEMMA UnlockKeeps ==
  ASSUME Native!NativeInv, NEW t \in Users, Native!Unlock(t),
         UNCHANGED <<kind, alive, initial_count, tokens>>
  PROVE  Native!NativeInv'
  <1>1. CASE use[t].object = 0 /\ Native!Finish(t)
    <2>1. /\ use' \in [Users -> Native!UseRecords]
          /\ use'[t].pc = "idle" /\ use'[t].object = 0 /\ use'[t].call = "none"
          /\ \A u \in Users : u # t => use'[u] = use[u]
      BY <1>1, FinishMoves DEF Native!NativeInv
    <2>2. Native!TypeOK' /\ Native!ObjectInv'
      BY <2>1 DEF Native!NativeInv, Native!TypeOK, Native!ObjectInv, Native!Unlock
    <2>3. Native!UseInv'
      BY <2>1 DEF Native!NativeInv, Native!UseInv, Native!UseOK, Native!Unlock
    <2>4. QED  BY <2>2, <2>3 DEF Native!NativeInv
  <1>2. CASE use[t].object # 0 /\ Native!Go(t, "use", use[t].object)
    <2>1. /\ use' \in [Users -> Native!UseRecords]
          /\ use'[t].pc = "use" /\ use'[t].object = use[t].object
          /\ use'[t].call = use[t].call
          /\ \A u \in Users : u # t => use'[u] = use[u]
      <3>1. use[t].object \in Addresses \cup {0}
        BY DEF Native!NativeInv, Native!TypeOK, Native!UseRecords
      <3>2. QED  BY <1>2, <3>1, GoMoves DEF Native!NativeInv, Native!Places
    <2>2. Native!TypeOK' /\ Native!ObjectInv'
      BY <2>1 DEF Native!NativeInv, Native!TypeOK, Native!ObjectInv, Native!Unlock
    <2>3. Native!UseInv'
      BY <1>2, <2>1 DEF Native!NativeInv, Native!UseInv, Native!UseOK, Native!Unlock
    <2>4. QED  BY <2>2, <2>3 DEF Native!NativeInv
  <1>3. QED  BY <1>1, <1>2 DEF Native!Unlock

LEMMA EnsureKeeps ==
  ASSUME Native!NativeInv, NEW t \in Users,
         Native!ensure_mutex(t) \/ Native!ensure_condition(t) \/ Native!ensure_semaphore(t)
  PROVE  Native!NativeInv'
  <1>1. PICK n \in Nat : Native!Ensure(t, n) /\ (kind = "semaphore" => n = initial_count)
    BY DEF Native!ensure_mutex, Native!ensure_condition, Native!ensure_semaphore,
           Native!NativeInv, Native!TypeOK
  <1>2. QED
    BY <1>1, LookKeeps, LockKeeps, CheckKeeps, UnlockKeeps DEF Native!Ensure

LEMMA FinishKeeps ==
  ASSUME Native!NativeInv, NEW t \in Users, Native!Finish(t), use[t].pc = "use",
         UNCHANGED <<kind, alive, implementation, initial_count, native,
                     initialization_mutex, tokens>>
  PROVE  Native!NativeInv'
  <1>1. /\ use' \in [Users -> Native!UseRecords]
        /\ use'[t].pc = "idle" /\ use'[t].object = 0 /\ use'[t].call = "none"
        /\ \A u \in Users : u # t => use'[u] = use[u]
    BY FinishMoves DEF Native!NativeInv
  <1>2. Native!TypeOK' /\ Native!ObjectInv'
    BY <1>1 DEF Native!NativeInv, Native!TypeOK, Native!ObjectInv
  <1>3. Native!UseInv'
    BY <1>1 DEF Native!NativeInv, Native!UseInv, Native!UseOK
  <1>4. QED  BY <1>2, <1>3 DEF Native!NativeInv

\* tx_semaphore_get and tx_semaphore_put on the published object.
LEMMA AddsKeeps ==
  ASSUME Native!NativeInv, NEW t \in Users, use[t].pc = "use", kind = "semaphore",
         NEW n \in {-1, 1}, n = -1 => Native!Available(t), Native!Adds(t, n)
  PROVE  Native!NativeInv'
  <1> DEFINE a == use[t].object
  <1>1. /\ use' \in [Users -> Native!UseRecords]
        /\ use'[t].pc = "idle" /\ use'[t].object = 0 /\ use'[t].call = "none"
        /\ \A u \in Users : u # t => use'[u] = use[u]
    BY FinishMoves DEF Native!NativeInv, Native!Adds
  <1>2. a \in Addresses /\ a = implementation /\ a # 0
    BY DEF Native!NativeInv, Native!TypeOK, Native!UseInv, Native!UseOK
  <1>3. native[a] \in Nat /\ native[a] + n \in Nat /\ tokens = native[a]
    BY <1>2 DEF Native!NativeInv, Native!TypeOK, Native!ObjectInv, Native!Available
  <1>4. /\ native' \in [Addresses -> Nat \cup {Native!Deleted}]
        /\ native'[a] = native[a] + n
        /\ \A b \in Addresses : b # a => native'[b] = native[b]
    BY <1>2, <1>3 DEF Native!NativeInv, Native!TypeOK, Native!Adds
  <1>5. tokens' = native'[a]
    BY <1>3, <1>4 DEF Native!Adds
  <1>6. Native!TypeOK'
    BY <1>1, <1>3, <1>4, <1>5
    DEF Native!NativeInv, Native!TypeOK, Native!Adds, Native!handleVars
  <1>7. Native!ObjectInv'
    <2>1. \A b \in Addresses : native'[b] # Native!Deleted <=> b = implementation
      BY <1>2, <1>3, <1>4 DEF Native!NativeInv, Native!ObjectInv, Native!Deleted
    <2>2. QED
      BY <1>2, <1>5, <2>1
      DEF Native!NativeInv, Native!ObjectInv, Native!Adds, Native!handleVars
  <1>8. Native!UseInv'
    BY <1>1 DEF Native!NativeInv, Native!UseInv, Native!UseOK, Native!Adds,
                Native!handleVars
  <1>9. QED  BY <1>6, <1>7, <1>8 DEF Native!NativeInv

LEMMA SemaphoreKeeps ==
  ASSUME Native!NativeInv, NEW t \in Users,
         \/ Native!semaphore_wait(t) \/ Native!semaphore_try_wait(t)
         \/ Native!semaphore_timed_wait(t) \/ Native!semaphore_post(t)
  PROVE  Native!NativeInv'
  <1>1. use[t].pc = "use" /\ kind = "semaphore"
    BY DEF Native!semaphore_wait, Native!semaphore_try_wait, Native!semaphore_timed_wait,
           Native!semaphore_post, Native!Using, Native!NativeInv, Native!UseInv, Native!UseOK
  <1>2. CASE Native!ReturnsWithout(t)
    BY <1>1, <1>2, FinishKeeps DEF Native!ReturnsWithout, Native!handleVars
  <1>3. CASE Native!Takes(t)
    BY <1>1, <1>3, AddsKeeps DEF Native!Takes
  <1>4. CASE Native!Adds(t, 1)
    BY <1>1, <1>4, AddsKeeps
  <1>5. QED
    BY <1>2, <1>3, <1>4
    DEF Native!semaphore_wait, Native!semaphore_try_wait, Native!semaphore_timed_wait,
        Native!semaphore_post

LEMMA ConstructKeeps ==
  ASSUME Native!NativeInv, NEW n \in Nat, Native!Construct(n)
  PROVE  Native!NativeInv'
  <1>1. Native!TypeOK'
    BY DEF Native!NativeInv, Native!TypeOK, Native!Construct
  <1>2. Native!UseInv'
    BY DEF Native!NativeInv, Native!UseInv, Native!UseOK, Native!ObjectInv, Native!Construct
  <1>3. Native!ObjectInv'
    BY DEF Native!NativeInv, Native!ObjectInv, Native!Construct
  <1>4. QED  BY <1>1, <1>2, <1>3 DEF Native!NativeInv

LEMMA DestroyKeeps ==
  ASSUME Native!NativeInv, Native!Destroy
  PROVE  Native!NativeInv'
  <1>1. \A t \in Users : use[t].pc = "idle" /\ use[t].object = 0 /\ use[t].call = "none"
    BY DEF Native!Destroy, Native!Unused, Native!Idle
  <1>2. \A a \in Addresses : native'[a] = Native!Deleted
    BY DEF Native!Destroy, Native!NativeInv, Native!ObjectInv
  <1>3. Native!TypeOK'
    BY DEF Native!NativeInv, Native!TypeOK, Native!Destroy
  <1>4. Native!UseInv'
    BY <1>1 DEF Native!UseInv, Native!UseOK, Native!Destroy
  <1>5. Native!ObjectInv'
    BY <1>2, FirstUseAssumption DEF Native!ObjectInv, Native!Destroy
  <1>6. QED  BY <1>3, <1>4, <1>5 DEF Native!NativeInv

\* However the first uses of a handle interleave with each other, with failures to create
\* the object and with construction and destruction (ensure_mutex, ensure_condition,
\* ensure_semaphore), all threads use the one published object.
THEOREM HandleHasOneObject == Native!Spec => []OneObjectPerHandle
  <1>1. Native!NativeInv /\ [Native!Next]_(Native!vars) => Native!NativeInv'
    <2> SUFFICES ASSUME Native!NativeInv, [Native!Next]_(Native!vars)
                 PROVE  Native!NativeInv'
      OBVIOUS
    <2>1. CASE UNCHANGED Native!vars
      BY <2>1 DEF Native!vars, Native!handleVars, Native!NativeInv, Native!TypeOK,
                  Native!UseInv, Native!UseOK, Native!ObjectInv
    <2>2. ASSUME NEW t \in Users, NEW call \in Native!Calls, Native!Call(t, call)
          PROVE  Native!NativeInv'
      BY <2>2, CallKeeps
    <2>3. ASSUME NEW t \in Users, Native!Found(t)
          PROVE  Native!NativeInv'
      BY <2>3, FinishKeeps DEF Native!Found, Native!handleVars
    <2>4. ASSUME NEW t \in Users,
                 Native!ensure_mutex(t) \/ Native!ensure_condition(t)
                   \/ Native!ensure_semaphore(t)
          PROVE  Native!NativeInv'
      BY <2>4, EnsureKeeps
    <2>5. ASSUME NEW t \in Users,
                 \/ Native!semaphore_wait(t) \/ Native!semaphore_try_wait(t)
                 \/ Native!semaphore_timed_wait(t) \/ Native!semaphore_post(t)
          PROVE  Native!NativeInv'
      BY <2>5, SemaphoreKeeps
    <2>6. CASE Native!mutex_init \/ Native!condition_init \/ Native!semaphore_init
      <3>1. PICK n \in Nat : Native!Construct(n)
        BY <2>6, FirstUseAssumption
        DEF Native!mutex_init, Native!condition_init, Native!semaphore_init
      <3>2. QED  BY <3>1, ConstructKeeps
    <2>7. CASE Native!destroy_mutex \/ Native!condition_destroy \/ Native!semaphore_destroy
      BY <2>7, DestroyKeeps
      DEF Native!destroy_mutex, Native!condition_destroy, Native!semaphore_destroy
    <2>8. QED  BY <2>1, <2>2, <2>3, <2>4, <2>5, <2>6, <2>7 DEF Native!Next
  <1>2. Native!NativeInv => OneObjectPerHandle
    BY DEF Native!NativeInv, OneObjectPerHandle, Native!OneObjectPerHandle, Native!UseInv,
           Native!UseOK, Native!ObjectInv
  <1>3. QED  BY <1>1, <1>2, NativeInitially, PTL DEF Native!Spec

-----------------------------------------------------------------------------
(* newlib's locks.                                                         *)

LEMMA CallMoves ==
  ASSUME Boot!LibcTypeOK, NEW t \in Boot!Executions, NEW p \in Boot!LibcPlaces, NEW i \in Nat,
         Boot!CallTo(t, p, i)
  PROVE  /\ libc_call' \in [Boot!Executions -> Boot!LibcCalls]
         /\ libc_call'[t].at = p /\ libc_call'[t].lock = i
         /\ \A u \in Boot!Executions : u # t => libc_call'[u] = libc_call[u]
  BY DEF Boot!LibcTypeOK, Boot!CallTo, Boot!LibcCalls

LEMMA SeqUpdate ==
  ASSUME NEW S, NEW d \in Seq(S), NEW i \in DOMAIN d, NEW r \in S
  PROVE  /\ [d EXCEPT ![i] = r] \in Seq(S) /\ Len([d EXCEPT ![i] = r]) = Len(d)
         /\ DOMAIN [d EXCEPT ![i] = r] = DOMAIN d /\ [d EXCEPT ![i] = r][i] = r
         /\ \A j \in DOMAIN d : j # i => [d EXCEPT ![i] = r][j] = d[j]
  OBVIOUS

LEMMA SetAllocated ==
  ASSUME NEW d \in Boot!Locks
  PROVE  /\ [d EXCEPT !.allocated = TRUE] \in Boot!Locks
         /\ [d EXCEPT !.allocated = TRUE].allocated
         /\ [d EXCEPT !.allocated = TRUE].created = d.created
  BY DEF Boot!Locks

LEMMA ClearAllocated ==
  ASSUME NEW d \in Boot!Locks
  PROVE  /\ [d EXCEPT !.allocated = FALSE] \in Boot!Locks
         /\ ~[d EXCEPT !.allocated = FALSE].allocated
         /\ [d EXCEPT !.allocated = FALSE].created = d.created
  BY DEF Boot!Locks

LEMMA Domains ==
  ASSUME Boot!LibcTypeOK
  PROVE  /\ DOMAIN handles = DOMAIN dynamic_locks
         /\ \A i \in DOMAIN handles : i \in Nat /\ handles[i] \in Nat
  BY DEF Boot!LibcTypeOK

\* At most one execution is in the pool, be it startup code or a thread.
LEMMA PoolAlone ==
  ASSUME Boot!PoolInv, NEW t \in Boot!Executions, NEW u \in Boot!Executions,
         Boot!InPool(t), Boot!InPool(u)
  PROVE  t = u
  BY DEF Boot!PoolInv, Boot!PoolOK, Boot!InPool, Boot!Executions

LEMMA LibcInitially == Boot!LibcInit => Boot!LibcInv
  <1> SUFFICES ASSUME Boot!LibcInit PROVE Boot!LibcInv
    OBVIOUS
  <1>1. \A t \in Boot!Executions : libc_call[t] = Boot!NotCalling /\ libc_call[t].at = "user"
    BY DEF Boot!LibcInit, Boot!NotCalling, Boot!Executions
  <1>2. Boot!NotCalling \in Boot!LibcCalls
    BY DEF Boot!NotCalling, Boot!LibcCalls, Boot!LibcPlaces
  <1>3. Boot!LibcTypeOK
    <2>1. libc_call \in [Boot!Executions -> Boot!LibcCalls]
      BY <1>2 DEF Boot!LibcInit, Boot!Executions
    <2>2. dynamic_locks = <<>> /\ handles = <<>>
      BY DEF Boot!LibcInit
    <2>3. /\ dynamic_locks \in Seq(Boot!Locks) /\ handles \in Seq(Nat)
          /\ Len(dynamic_locks) = Len(handles)
      BY <2>2
    <2>4. phase \in {"constructors", "define", "threads"} /\ libc_locks_ready \in BOOLEAN
      BY DEF Boot!LibcInit
    <2>5. QED  BY <2>1, <2>3, <2>4 DEF Boot!LibcTypeOK
  <1>4. Boot!PoolInv /\ Boot!LockInv /\ Boot!ClosingInv
    BY <1>1 DEF Boot!PoolInv, Boot!PoolOK, Boot!LockInv, Boot!LockOK, Boot!ClosingInv,
                Boot!Closing, Boot!InPool
  <1>5. Boot!ReadyInv /\ Boot!HandleInv /\ libc_failure # "use"
    BY DEF Boot!LibcInit, Boot!ReadyInv, Boot!HandleInv
  <1>6. QED  BY <1>3, <1>4, <1>5 DEF Boot!LibcInv

LEMMA LockInitKeeps ==
  ASSUME Boot!LibcInv, NEW t \in Boot!Executions, Boot!LockInit(t)
  PROVE  Boot!LibcInv'
  <1>1. /\ libc_call' \in [Boot!Executions -> Boot!LibcCalls]
        /\ libc_call'[t].at = "pool for init" /\ libc_call'[t].lock = 0
        /\ \A u \in Boot!Executions : u # t => libc_call'[u] = libc_call[u]
    BY CallMoves DEF Boot!LibcInv, Boot!LibcPlaces, Boot!LockInit
  <1>2. Boot!LibcTypeOK'
    BY <1>1
    DEF Boot!LibcInv, Boot!LibcTypeOK, Boot!LockInit, Boot!poolVars, Boot!InUser,
        Boot!Executing
  <1>3. Boot!ReadyInv'
    BY <1>1
    DEF Boot!LibcInv, Boot!ReadyInv, Boot!LockInit, Boot!poolVars, Boot!InUser,
        Boot!Executing
  <1>4. Boot!HandleInv'
    BY <1>1
    DEF Boot!LibcInv, Boot!HandleInv, Boot!LockInit, Boot!poolVars, Boot!InUser,
        Boot!Executing
  <1>5. Boot!ClosingInv'
    <2> SUFFICES ASSUME NEW u \in Boot!Executions, NEW v \in Boot!Executions,
                        Boot!Closing(u)', Boot!Closing(v)', u # v,
                        libc_call'[u].lock = libc_call'[v].lock
                 PROVE  FALSE
      BY DEF Boot!ClosingInv
    <2> QED  BY <1>1 DEF Boot!LibcInv, Boot!ClosingInv, Boot!Closing
  <1>6. Boot!PoolInv'
    BY <1>1
    DEF Boot!LibcInv, Boot!PoolInv, Boot!PoolOK, Boot!InPool, Boot!LockInit,
        Boot!poolVars, Boot!InUser, Boot!Executing
  <1>7. Boot!LockInv'
    BY <1>1
    DEF Boot!LibcInv, Boot!LockInv, Boot!LockOK, Boot!Closing, Boot!LockInit,
        Boot!poolVars, Boot!InUser, Boot!Executing
  <1>8. libc_failure' # "use"
    BY DEF Boot!LibcInv, Boot!LockInit
  <1>9. QED
    BY <1>2, <1>3, <1>4, <1>5, <1>6, <1>7, <1>8 DEF Boot!LibcInv

LEMMA LockPoolKeeps ==
  ASSUME Boot!LibcInv, NEW t \in Boot!Executions, Boot!lock_dynamic_pool(t)
  PROVE  Boot!LibcInv'
  <1>1. PICK p \in {"search", "mark"} :
          /\ Boot!CallTo(t, p, libc_call[t].lock)
          /\ p = "mark" <=> libc_call[t].at = "pool for close"
    BY DEF Boot!lock_dynamic_pool
  <1>2. libc_call[t].lock \in Nat
    BY DEF Boot!LibcInv, Boot!LibcTypeOK, Boot!LibcCalls
  <1>3. /\ libc_call' \in [Boot!Executions -> Boot!LibcCalls]
        /\ libc_call'[t].at = p /\ libc_call'[t].lock = libc_call[t].lock
        /\ \A u \in Boot!Executions : u # t => libc_call'[u] = libc_call[u]
    BY <1>1, <1>2, CallMoves, ZenonT(40) DEF Boot!LibcInv, Boot!LibcPlaces
  <1>4. t \in LibcThreads => dynamic_pool_mutex = "none" /\ dynamic_pool_mutex' = t
    BY FirstUseAssumption
    DEF Boot!lock_dynamic_pool, Boot!PoolIsFree, Boot!locking_required, Boot!NoOwner
  <1>5. t \notin LibcThreads => t = Startup /\ dynamic_pool_mutex' = dynamic_pool_mutex
    BY DEF Boot!lock_dynamic_pool, Boot!locking_required, Boot!Executions
  <1>6. Boot!LibcTypeOK'
    BY <1>1, <1>3
    DEF Boot!LibcInv, Boot!LibcTypeOK, Boot!lock_dynamic_pool, Boot!poolVars,
        Boot!Executing
  <1>7. Boot!ReadyInv'
    BY <1>1, <1>3
    DEF Boot!LibcInv, Boot!ReadyInv, Boot!lock_dynamic_pool, Boot!poolVars, Boot!Executing
  <1>8. Boot!HandleInv'
    BY <1>1, <1>3
    DEF Boot!LibcInv, Boot!HandleInv, Boot!lock_dynamic_pool, Boot!poolVars,
        Boot!Executing
  <1>9. Boot!ClosingInv'
    <2> SUFFICES ASSUME NEW u \in Boot!Executions, NEW v \in Boot!Executions,
                        Boot!Closing(u)', Boot!Closing(v)', u # v,
                        libc_call'[u].lock = libc_call'[v].lock
                 PROVE  FALSE
      BY DEF Boot!ClosingInv
    <2> QED  BY <1>1, <1>3, ZenonT(40) DEF Boot!LibcInv, Boot!ClosingInv, Boot!Closing
  <1>10. Boot!PoolInv'
    BY <1>1, <1>3, <1>4, <1>5, FirstUseAssumption, ZenonT(40)
    DEF Boot!LibcInv, Boot!PoolInv, Boot!PoolOK, Boot!InPool, Boot!lock_dynamic_pool,
        Boot!poolVars, Boot!Executing
  <1>11. Boot!LockInv'
    BY <1>1, <1>3
    DEF Boot!LibcInv, Boot!LockInv, Boot!LockOK, Boot!Closing, Boot!lock_dynamic_pool,
        Boot!poolVars, Boot!Executing
  <1>12. libc_failure' # "use"
    BY DEF Boot!LibcInv, Boot!lock_dynamic_pool
  <1>13. QED
    BY <1>6, <1>7, <1>8, <1>9, <1>10, <1>11, <1>12 DEF Boot!LibcInv

LEMMA UnlockPoolKeeps ==
  ASSUME Boot!LibcInv, NEW t \in Boot!Executions, Boot!unlock_dynamic_pool(t)
  PROVE  Boot!LibcInv'
  <1>1. /\ libc_call' \in [Boot!Executions -> Boot!LibcCalls]
        /\ libc_call'[t].at = "user" /\ libc_call'[t] = Boot!NotCalling
        /\ \A u \in Boot!Executions : u # t => libc_call'[u] = libc_call[u]
    BY DEF Boot!LibcInv, Boot!LibcTypeOK, Boot!unlock_dynamic_pool, Boot!Return,
           Boot!NotCalling, Boot!LibcCalls, Boot!LibcPlaces
  <1>2. \A u \in Boot!Executions : u # t => ~Boot!InPool(u)
    BY PoolAlone DEF Boot!LibcInv, Boot!unlock_dynamic_pool, Boot!InPool
  <1>3. Boot!LibcTypeOK'
    BY <1>1
    DEF Boot!LibcInv, Boot!LibcTypeOK, Boot!unlock_dynamic_pool, Boot!poolVars
  <1>4. Boot!ReadyInv'
    BY <1>1
    DEF Boot!LibcInv, Boot!ReadyInv, Boot!unlock_dynamic_pool, Boot!poolVars
  <1>5. Boot!HandleInv'
    BY <1>1
    DEF Boot!LibcInv, Boot!HandleInv, Boot!unlock_dynamic_pool, Boot!poolVars
  <1>6. Boot!ClosingInv'
    <2> SUFFICES ASSUME NEW u \in Boot!Executions, NEW v \in Boot!Executions,
                        Boot!Closing(u)', Boot!Closing(v)', u # v,
                        libc_call'[u].lock = libc_call'[v].lock
                 PROVE  FALSE
      BY DEF Boot!ClosingInv
    <2> QED  BY <1>1 DEF Boot!LibcInv, Boot!ClosingInv, Boot!Closing
  <1>7. Boot!PoolInv'
    BY <1>1, <1>2
    DEF Boot!LibcInv, Boot!PoolInv, Boot!PoolOK, Boot!InPool, Boot!unlock_dynamic_pool,
        Boot!poolVars
  <1>8. Boot!LockInv'
    BY <1>1
    DEF Boot!LibcInv, Boot!LockInv, Boot!LockOK, Boot!Closing, Boot!unlock_dynamic_pool,
        Boot!poolVars
  <1>9. libc_failure' # "use"
    BY DEF Boot!LibcInv, Boot!unlock_dynamic_pool
  <1>10. QED
    BY <1>3, <1>4, <1>5, <1>6, <1>7, <1>8, <1>9 DEF Boot!LibcInv

LEMMA SearchKeeps ==
  ASSUME Boot!LibcInv, NEW t \in Boot!Executions, Boot!SearchFinds(t)
  PROVE  Boot!LibcInv'
  <1>1. PICK i \in Boot!Closed : Boot!CallTo(t, "take", i)
    BY DEF Boot!SearchFinds
  <1>2. i \in Nat /\ i \in DOMAIN handles /\ ~dynamic_locks[i].allocated
    BY DEF Boot!Closed, Boot!LibcInv, Boot!LibcTypeOK
  <1>3. /\ libc_call' \in [Boot!Executions -> Boot!LibcCalls]
        /\ libc_call'[t].at = "take" /\ libc_call'[t].lock = i
        /\ \A u \in Boot!Executions : u # t => libc_call'[u] = libc_call[u]
    BY <1>1, <1>2, CallMoves DEF Boot!LibcInv, Boot!LibcPlaces
  <1>4. Boot!LibcTypeOK'
    BY <1>2, <1>3
    DEF Boot!LibcInv, Boot!LibcTypeOK, Boot!SearchFinds, Boot!poolVars
  <1>5. Boot!ReadyInv'
    BY <1>2, <1>3
    DEF Boot!LibcInv, Boot!ReadyInv, Boot!SearchFinds, Boot!poolVars
  <1>6. Boot!HandleInv'
    BY <1>2, <1>3
    DEF Boot!LibcInv, Boot!HandleInv, Boot!SearchFinds, Boot!poolVars
  <1>7. Boot!ClosingInv'
    <2> SUFFICES ASSUME NEW u \in Boot!Executions, NEW v \in Boot!Executions,
                        Boot!Closing(u)', Boot!Closing(v)', u # v,
                        libc_call'[u].lock = libc_call'[v].lock
                 PROVE  FALSE
      BY DEF Boot!ClosingInv
    <2> QED  BY <1>2, <1>3 DEF Boot!LibcInv, Boot!ClosingInv, Boot!Closing
  <1>8. Boot!PoolInv'
    BY <1>2, <1>3
    DEF Boot!LibcInv, Boot!PoolInv, Boot!PoolOK, Boot!InPool, Boot!SearchFinds,
        Boot!poolVars
  <1>9. Boot!LockInv'
    BY <1>2, <1>3
    DEF Boot!LibcInv, Boot!LockInv, Boot!LockOK, Boot!Closing, Boot!SearchFinds,
        Boot!poolVars
  <1>10. libc_failure' # "use"
    BY DEF Boot!LibcInv, Boot!SearchFinds
  <1>11. QED
    BY <1>4, <1>5, <1>6, <1>7, <1>8, <1>9, <1>10 DEF Boot!LibcInv

LEMMA TakeKeeps ==
  ASSUME Boot!LibcInv, NEW t \in Boot!Executions, Boot!Take(t)
  PROVE  Boot!LibcInv'
  <1> DEFINE i == libc_call[t].lock
  <1>1. i \in DOMAIN handles /\ i \in DOMAIN dynamic_locks /\ ~dynamic_locks[i].allocated
    BY DEF Boot!Take, Boot!LibcInv, Boot!LibcTypeOK, Boot!LockInv, Boot!LockOK
  <1>2. handles[i] = 0
    BY <1>1 DEF Boot!LibcInv, Boot!LibcTypeOK, Boot!HandleInv
  <1>3. /\ libc_call' \in [Boot!Executions -> Boot!LibcCalls]
        /\ libc_call'[t].at = "unlock" /\ libc_call'[t].lock = 0
        /\ \A u \in Boot!Executions : u # t => libc_call'[u] = libc_call[u]
    BY CallMoves DEF Boot!LibcInv, Boot!LibcPlaces, Boot!Take
  <1>4. /\ dynamic_locks' \in Seq(Boot!Locks) /\ Len(dynamic_locks') = Len(dynamic_locks)
        /\ DOMAIN dynamic_locks' = DOMAIN dynamic_locks
        /\ dynamic_locks'[i].allocated
        /\ dynamic_locks'[i].created = dynamic_locks[i].created
        /\ \A j \in DOMAIN dynamic_locks : j # i => dynamic_locks'[j] = dynamic_locks[j]
    <2> DEFINE r == [dynamic_locks[i] EXCEPT !.allocated = TRUE]
    <2>1. dynamic_locks \in Seq(Boot!Locks) /\ dynamic_locks' = [dynamic_locks EXCEPT ![i] = r]
      BY DEF Boot!Take, Boot!LibcInv, Boot!LibcTypeOK
    <2>2. i \in DOMAIN dynamic_locks
      BY <1>1
    <2> HIDE DEF i
    <2>3. dynamic_locks[i] \in Boot!Locks
      BY <2>1, <2>2
    <2>4. r \in Boot!Locks /\ r.allocated /\ r.created = dynamic_locks[i].created
      BY <2>3, SetAllocated
    <2> HIDE DEF r
    <2>5. /\ dynamic_locks' \in Seq(Boot!Locks) /\ Len(dynamic_locks') = Len(dynamic_locks)
          /\ DOMAIN dynamic_locks' = DOMAIN dynamic_locks /\ dynamic_locks'[i] = r
          /\ \A j \in DOMAIN dynamic_locks : j # i => dynamic_locks'[j] = dynamic_locks[j]
      BY <2>1, <2>2, <2>4, SeqUpdate
    <2>6. dynamic_locks'[i].allocated
      BY <2>4, <2>5
    <2>7. dynamic_locks'[i].created = dynamic_locks[i].created
      BY <2>4, <2>5
    <2>8. QED  BY <2>5, <2>6, <2>7
  <1>5. /\ handles' \in Seq(Nat) /\ Len(handles') = Len(handles)
        /\ DOMAIN handles' = DOMAIN handles /\ handles'[i] = 1
        /\ \A j \in DOMAIN handles : j # i => handles'[j] = handles[j]
    BY <1>1, <1>2 DEF Boot!Take, Boot!LibcInv, Boot!LibcTypeOK
  <1>6. \A u \in Boot!Executions : u # t => ~Boot!InPool(u)
    BY PoolAlone DEF Boot!LibcInv, Boot!Take, Boot!InPool
  <1>7. DOMAIN handles = DOMAIN dynamic_locks
    BY DEF Boot!LibcInv, Boot!LibcTypeOK
  <1> HIDE DEF i
  <1>8. Boot!LibcTypeOK'
    BY <1>3, <1>4, <1>5
    DEF Boot!LibcInv, Boot!LibcTypeOK, Boot!Take, Boot!poolVars
  <1>9. Boot!ReadyInv'
    BY <1>3, <1>4, <1>5
    DEF Boot!LibcInv, Boot!ReadyInv, Boot!Take, Boot!poolVars
  <1>10. Boot!HandleInv'
    BY <1>3, <1>4, <1>5, <1>7
    DEF Boot!LibcInv, Boot!HandleInv, Boot!Take, Boot!poolVars
  <1>11. Boot!ClosingInv'
    <2> SUFFICES ASSUME NEW u \in Boot!Executions, NEW v \in Boot!Executions,
                        Boot!Closing(u)', Boot!Closing(v)', u # v,
                        libc_call'[u].lock = libc_call'[v].lock
                 PROVE  FALSE
      BY DEF Boot!ClosingInv
    <2> QED  BY <1>3, <1>4, <1>5 DEF Boot!LibcInv, Boot!ClosingInv, Boot!Closing
  <1>12. Boot!PoolInv'
    BY <1>3, <1>4, <1>5, <1>6
    DEF Boot!LibcInv, Boot!PoolInv, Boot!PoolOK, Boot!InPool, Boot!Take, Boot!poolVars
  <1>13. Boot!LockInv'
    <2> SUFFICES ASSUME NEW u \in Boot!Executions PROVE Boot!LockOK(u)'
      BY DEF Boot!LockInv
    <2>1. Boot!LockOK(u)
      BY DEF Boot!LibcInv, Boot!LockInv
    <2>2. CASE u = t
      BY <1>3, <2>2 DEF Boot!LockOK, Boot!Closing
    <2>3. CASE u # t
      <3>1. libc_call'[u] = libc_call[u] /\ libc_call[u].at # "take"
        BY <1>3, <1>6, <2>3 DEF Boot!InPool
      <3>2. Boot!Closing(u) => libc_call[u].lock # i
        BY <1>1, <2>1 DEF Boot!LockOK
      <3>3. QED  BY <1>4, <1>5, <1>7, <2>1, <3>1, <3>2 DEF Boot!LockOK, Boot!Closing
    <2>4. QED  BY <2>2, <2>3
  <1>14. libc_failure' # "use"
    BY DEF Boot!LibcInv, Boot!Take
  <1>15. QED
    BY <1>8, <1>9, <1>10, <1>11, <1>12, <1>13, <1>14 DEF Boot!LibcInv

LEMMA MarkKeeps ==
  ASSUME Boot!LibcInv, NEW t \in Boot!Executions, Boot!MarkClosed(t)
  PROVE  Boot!LibcInv'
  <1> DEFINE i == libc_call[t].lock
  <1>1. i \in DOMAIN handles /\ i \in DOMAIN dynamic_locks /\ handles[i] = 0
    BY Domains DEF Boot!MarkClosed, Boot!LibcInv, Boot!LockInv, Boot!LockOK, Boot!Closing
  <1>2. /\ libc_call' \in [Boot!Executions -> Boot!LibcCalls]
        /\ libc_call'[t].at = "unlock" /\ libc_call'[t].lock = 0
        /\ \A u \in Boot!Executions : u # t => libc_call'[u] = libc_call[u]
    BY CallMoves DEF Boot!LibcInv, Boot!LibcPlaces, Boot!MarkClosed
  <1>3. /\ dynamic_locks' \in Seq(Boot!Locks) /\ Len(dynamic_locks') = Len(dynamic_locks)
        /\ DOMAIN dynamic_locks' = DOMAIN dynamic_locks
        /\ ~dynamic_locks'[i].allocated
        /\ dynamic_locks'[i].created = dynamic_locks[i].created
        /\ \A j \in DOMAIN dynamic_locks : j # i => dynamic_locks'[j] = dynamic_locks[j]
    <2> DEFINE r == [dynamic_locks[i] EXCEPT !.allocated = FALSE]
    <2>1. dynamic_locks \in Seq(Boot!Locks) /\ dynamic_locks' = [dynamic_locks EXCEPT ![i] = r]
      BY DEF Boot!MarkClosed, Boot!LibcInv, Boot!LibcTypeOK
    <2>2. i \in DOMAIN dynamic_locks
      BY <1>1
    <2> HIDE DEF i
    <2>3. dynamic_locks[i] \in Boot!Locks
      BY <2>1, <2>2
    <2>4. r \in Boot!Locks /\ ~r.allocated /\ r.created = dynamic_locks[i].created
      BY <2>3, ClearAllocated
    <2> HIDE DEF r
    <2>5. /\ dynamic_locks' \in Seq(Boot!Locks) /\ Len(dynamic_locks') = Len(dynamic_locks)
          /\ DOMAIN dynamic_locks' = DOMAIN dynamic_locks /\ dynamic_locks'[i] = r
          /\ \A j \in DOMAIN dynamic_locks : j # i => dynamic_locks'[j] = dynamic_locks[j]
      BY <2>1, <2>2, <2>4, SeqUpdate
    <2>6. ~dynamic_locks'[i].allocated
      BY <2>4, <2>5
    <2>7. dynamic_locks'[i].created = dynamic_locks[i].created
      BY <2>4, <2>5
    <2>8. QED  BY <2>5, <2>6, <2>7
  <1>4. \A u \in Boot!Executions : u # t /\ Boot!Closing(u) => libc_call[u].lock # i
    BY DEF Boot!MarkClosed, Boot!LibcInv, Boot!ClosingInv, Boot!Closing
  <1>5. DOMAIN handles = DOMAIN dynamic_locks
    BY DEF Boot!LibcInv, Boot!LibcTypeOK
  <1> HIDE DEF i
  <1>6. Boot!LibcTypeOK'
    BY <1>2, <1>3
    DEF Boot!LibcInv, Boot!LibcTypeOK, Boot!MarkClosed, Boot!poolVars, Boot!InPool
  <1>7. Boot!ReadyInv'
    BY <1>2, <1>3
    DEF Boot!LibcInv, Boot!ReadyInv, Boot!MarkClosed, Boot!poolVars, Boot!InPool
  <1>8. Boot!HandleInv'
    <2>1. handles' = handles
      BY DEF Boot!MarkClosed
    <2>2. QED  BY <1>1, <1>3, <1>5, <2>1 DEF Boot!LibcInv, Boot!HandleInv
  <1>9. Boot!ClosingInv'
    <2> SUFFICES ASSUME NEW u \in Boot!Executions, NEW v \in Boot!Executions,
                        Boot!Closing(u)', Boot!Closing(v)', u # v,
                        libc_call'[u].lock = libc_call'[v].lock
                 PROVE  FALSE
      BY DEF Boot!ClosingInv
    <2> QED  BY <1>2, <1>3 DEF Boot!LibcInv, Boot!ClosingInv, Boot!Closing
  <1>10. Boot!PoolInv'
    BY <1>2, <1>3
    DEF Boot!LibcInv, Boot!PoolInv, Boot!PoolOK, Boot!InPool, Boot!MarkClosed,
        Boot!poolVars, Boot!InPool
  <1>11. Boot!LockInv'
    <2> SUFFICES ASSUME NEW u \in Boot!Executions PROVE Boot!LockOK(u)'
      BY DEF Boot!LockInv
    <2>1. Boot!LockOK(u)
      BY DEF Boot!LibcInv, Boot!LockInv
    <2>2. CASE u = t
      BY <1>2, <1>3, <1>4, <1>5, <2>1, <2>2 DEF Boot!LockOK, Boot!Closing, Boot!MarkClosed
    <2>3. CASE u # t
      BY <1>2, <1>3, <1>4, <1>5, <2>1, <2>3 DEF Boot!LockOK, Boot!Closing, Boot!MarkClosed
    <2>4. QED  BY <2>2, <2>3
  <1>12. libc_failure' # "use"
    BY DEF Boot!LibcInv, Boot!MarkClosed
  <1>13. QED
    BY <1>6, <1>7, <1>8, <1>9, <1>10, <1>11, <1>12 DEF Boot!LibcInv

LEMMA LockCloseKeeps ==
  ASSUME Boot!LibcInv, NEW t \in Boot!Executions, NEW i \in DOMAIN dynamic_locks,
         Boot!LockClose(t, i)
  PROVE  Boot!LibcInv'
  <1>1. i \in Nat /\ i \in DOMAIN handles /\ handles[i] = 1 /\ dynamic_locks[i].allocated
    <2>1. i \in DOMAIN handles /\ i \in Nat /\ handles[i] \in Nat
      BY Domains DEF Boot!LibcInv
    <2>2. handles[i] > 0
      BY DEF Boot!LockClose
    <2>3. handles[i] <= 1 /\ (handles[i] = 1 => dynamic_locks[i].allocated)
      BY <2>1 DEF Boot!LibcInv, Boot!HandleInv
    <2>4. QED  BY <2>1, <2>2, <2>3
  <1>2. /\ libc_call' \in [Boot!Executions -> Boot!LibcCalls]
        /\ libc_call'[t].at = "pool for close" /\ libc_call'[t].lock = i
        /\ \A u \in Boot!Executions : u # t => libc_call'[u] = libc_call[u]
    BY <1>1, CallMoves DEF Boot!LibcInv, Boot!LibcPlaces, Boot!LockClose
  <1>3. /\ handles' \in Seq(Nat) /\ Len(handles') = Len(handles)
        /\ DOMAIN handles' = DOMAIN handles /\ handles'[i] = 0
        /\ \A j \in DOMAIN handles : j # i => handles'[j] = handles[j]
    <2>1. handles \in Seq(Nat) /\ handles' = [handles EXCEPT ![i] = @ - 1]
      BY DEF Boot!LockClose, Boot!LibcInv, Boot!LibcTypeOK
    <2>2. QED  BY <1>1, <2>1
  <1>4. \A u \in Boot!Executions : Boot!Closing(u) => libc_call[u].lock # i
    BY <1>1 DEF Boot!LibcInv, Boot!LockInv, Boot!LockOK
  <1>5. /\ UNCHANGED <<phase, libc_locks_ready, dynamic_locks, dynamic_pool_mutex>>
        /\ phase = "threads" <=> t \in LibcThreads
    BY DEF Boot!LockClose, Boot!InUser, Boot!Executing
  <1>6. Boot!LibcTypeOK'
    BY <1>1, <1>2, <1>3, <1>5 DEF Boot!LibcInv, Boot!LibcTypeOK
  <1>7. Boot!ReadyInv'
    BY <1>1, <1>2, <1>3, <1>5 DEF Boot!LibcInv, Boot!ReadyInv
  <1>8. Boot!HandleInv'
    <2> SUFFICES ASSUME NEW j \in DOMAIN handles'
                 PROVE  handles'[j] <= 1 /\ (handles'[j] = 1 => dynamic_locks'[j].allocated)
      BY DEF Boot!HandleInv
    <2>1. dynamic_locks' = dynamic_locks /\ j \in DOMAIN handles
      BY <1>3, <1>5
    <2>2. CASE j = i
      BY <1>3, <2>2
    <2>3. CASE j # i
      BY <1>3, <2>1, <2>3 DEF Boot!LibcInv, Boot!HandleInv
    <2>4. QED  BY <2>2, <2>3
  <1>9. Boot!ClosingInv'
    <2> SUFFICES ASSUME NEW u \in Boot!Executions, NEW v \in Boot!Executions,
                        Boot!Closing(u)', Boot!Closing(v)', u # v,
                        libc_call'[u].lock = libc_call'[v].lock
                 PROVE  FALSE
      BY DEF Boot!ClosingInv
    <2>1. CASE u # t /\ v # t
      BY <1>2, <2>1 DEF Boot!LibcInv, Boot!ClosingInv, Boot!Closing
    <2>2. CASE u = t \/ v = t
      BY <1>2, <1>4, <2>2 DEF Boot!Closing
    <2>3. QED  BY <2>1, <2>2
  <1>10. Boot!PoolInv'
    BY <1>1, <1>2, <1>3, <1>5 DEF Boot!LibcInv, Boot!PoolInv, Boot!PoolOK, Boot!InPool
  <1>11. Boot!LockInv'
    <2> SUFFICES ASSUME NEW u \in Boot!Executions PROVE Boot!LockOK(u)'
      BY DEF Boot!LockInv
    <2>1. Boot!LockOK(u)
      BY DEF Boot!LibcInv, Boot!LockInv
    <2>2. CASE u = t
      BY <1>1, <1>2, <1>3, <1>5, <2>1, <2>2 DEF Boot!LockOK, Boot!Closing
    <2>3. CASE u # t
      BY <1>1, <1>2, <1>3, <1>4, <1>5, <2>1, <2>3 DEF Boot!LockOK, Boot!Closing
    <2>4. QED  BY <2>2, <2>3
  <1>12. libc_failure' # "use"
    BY DEF Boot!LibcInv, Boot!LockClose
  <1>13. QED
    BY <1>6, <1>7, <1>8, <1>9, <1>10, <1>11, <1>12 DEF Boot!LibcInv

LEMMA NewLockKeeps ==
  ASSUME Boot!LibcInv, NEW t \in Boot!Executions, Boot!NewLock(t)
  PROVE  Boot!LibcInv'
  <1>1. CASE libc_failure' = "creation" /\ UNCHANGED <<dynamic_locks, held, handles, libc_call>>
    BY <1>1
    DEF Boot!NewLock, Boot!LibcInv, Boot!LibcTypeOK, Boot!ReadyInv, Boot!HandleInv,
        Boot!ClosingInv, Boot!Closing, Boot!PoolInv, Boot!PoolOK, Boot!InPool, Boot!LockInv,
        Boot!LockOK
  <1>2. CASE libc_failure' # "creation"
    <2> DEFINE n == Len(dynamic_locks) + 1
               new == [allocated |-> TRUE, created |-> libc_locks_ready]
    <2>1. /\ dynamic_locks' = Append(dynamic_locks, new) /\ handles' = Append(handles, 1)
          /\ Boot!CallTo(t, "unlock", 0) /\ UNCHANGED libc_failure
      BY <1>2 DEF Boot!NewLock
    <2>2. new \in Boot!Locks /\ new.allocated = TRUE /\ new.created = libc_locks_ready
      BY DEF Boot!LibcInv, Boot!LibcTypeOK, Boot!Locks
    <2> HIDE DEF new
    <2>3. /\ libc_call' \in [Boot!Executions -> Boot!LibcCalls]
          /\ libc_call'[t].at = "unlock" /\ libc_call'[t].lock = 0
          /\ \A u \in Boot!Executions : u # t => libc_call'[u] = libc_call[u]
      BY <2>1, CallMoves DEF Boot!LibcInv, Boot!LibcPlaces
    <2>4. /\ dynamic_locks' \in Seq(Boot!Locks) /\ Len(dynamic_locks') = n
          /\ DOMAIN dynamic_locks' = 1 .. n /\ dynamic_locks'[n] = new
          /\ \A j \in DOMAIN dynamic_locks :
               j \in DOMAIN dynamic_locks' /\ dynamic_locks'[j] = dynamic_locks[j]
      BY <2>1, <2>2 DEF Boot!LibcInv, Boot!LibcTypeOK
    <2>5. /\ handles' \in Seq(Nat) /\ Len(handles') = n
          /\ DOMAIN handles' = 1 .. n /\ handles'[n] = 1
          /\ \A j \in DOMAIN handles : j \in DOMAIN handles' /\ handles'[j] = handles[j]
      BY <2>1 DEF Boot!LibcInv, Boot!LibcTypeOK
    <2>6. /\ DOMAIN handles = 1 .. n - 1 /\ DOMAIN dynamic_locks = 1 .. n - 1 /\ n \in Nat
          /\ \A j \in 1 .. n : j \in 1 .. n - 1 \/ j = n
      BY DEF Boot!LibcInv, Boot!LibcTypeOK
    <2> HIDE DEF n
    <2>7. Boot!LibcTypeOK'
      BY <2>3, <2>4, <2>5 DEF Boot!LibcInv, Boot!LibcTypeOK, Boot!NewLock
    <2>8. Boot!ReadyInv'
      BY <2>2, <2>4, <2>6 DEF Boot!LibcInv, Boot!ReadyInv, Boot!NewLock
    <2>9. Boot!HandleInv'
      BY <2>2, <2>4, <2>5, <2>6 DEF Boot!LibcInv, Boot!HandleInv
    <2>10. Boot!ClosingInv'
      BY <2>3 DEF Boot!LibcInv, Boot!ClosingInv, Boot!Closing
    <2>11. Boot!PoolInv'
      BY <2>3 DEF Boot!LibcInv, Boot!PoolInv, Boot!PoolOK, Boot!InPool, Boot!NewLock
    <2>12. Boot!LockInv'
      <3> SUFFICES ASSUME NEW u \in Boot!Executions PROVE Boot!LockOK(u)'
        BY DEF Boot!LockInv
      <3>1. Boot!LockOK(u)
        BY DEF Boot!LibcInv, Boot!LockInv
      <3>2. CASE u = t
        BY <2>3, <3>2 DEF Boot!LockOK, Boot!Closing
      <3>3. CASE u # t
        <4>1. libc_call'[u] = libc_call[u]
          BY <2>3, <3>3
        <4>2. \A j \in DOMAIN handles :
                /\ j \in DOMAIN handles' /\ handles'[j] = handles[j]
                /\ dynamic_locks'[j] = dynamic_locks[j]
          BY <2>4, <2>5, <2>6
        <4>3. QED  BY <3>1, <4>1, <4>2 DEF Boot!LockOK, Boot!Closing
      <3>4. QED  BY <3>2, <3>3
    <2>13. QED
      <3>1. libc_failure' # "use"
        BY <2>1 DEF Boot!LibcInv
      <3>2. QED  BY <2>7, <2>8, <2>9, <2>10, <2>11, <2>12, <3>1 DEF Boot!LibcInv
  <1>3. QED  BY <1>1, <1>2 DEF Boot!NewLock, Boot!poolVars, Boot!Executing

\* A thread only runs after the kernel was entered, when every lock has its mutex.
LEMMA LockFailsNever ==
  ASSUME Boot!LibcInv, NEW t \in Boot!Executions, NEW i \in DOMAIN dynamic_locks
  PROVE  ~Boot!LockFails(t, i)
  BY DEF Boot!LockFails, Boot!locking_required, Boot!InUser, Boot!Executing, Boot!Executions,
         Boot!Usable, Boot!LibcInv, Boot!ReadyInv

LEMMA HoldKeeps ==
  ASSUME Boot!LibcInv, NEW t, NEW i, Boot!Acquire(t, i) \/ Boot!Release(t, i)
  PROVE  Boot!LibcInv'
  <1>1. UNCHANGED <<phase, libc_locks_ready, dynamic_locks, handles, dynamic_pool_mutex,
                    libc_call, libc_failure>>
    BY DEF Boot!Acquire, Boot!Release
  <1>2. QED
    BY <1>1
    DEF Boot!LibcInv, Boot!LibcTypeOK, Boot!ReadyInv, Boot!HandleInv, Boot!ClosingInv,
        Boot!Closing, Boot!PoolInv, Boot!PoolOK, Boot!InPool, Boot!LockInv, Boot!LockOK

LEMMA LibcKeeps ==
  ASSUME Boot!LibcInv, Boot!LibcNext
  PROVE  Boot!LibcInv'
  <1>1. PICK t \in Boot!Executions :
          \/ Boot!LockInit(t) \/ Boot!lock_dynamic_pool(t) \/ Boot!SearchFinds(t)
          \/ Boot!Take(t) \/ Boot!NewLock(t) \/ Boot!MarkClosed(t)
          \/ Boot!unlock_dynamic_pool(t)
          \/ \E i \in DOMAIN dynamic_locks :
               \/ Boot!LockClose(t, i) \/ Boot!LockFails(t, i) \/ Boot!Acquire(t, i)
               \/ Boot!Release(t, i)
    BY DEF Boot!LibcNext, Boot!Executions
  <1>2. QED
    BY <1>1, LockInitKeeps, LockPoolKeeps, UnlockPoolKeeps, SearchKeeps, TakeKeeps, MarkKeeps,
       LockCloseKeeps, NewLockKeeps, LockFailsNever, HoldKeeps

-----------------------------------------------------------------------------
(* Startup.                                                                *)

LEMMA LibcStutters ==
  ASSUME Boot!LibcInv,
         UNCHANGED <<phase, libc_locks_ready, dynamic_locks, handles, dynamic_pool_mutex,
                     libc_call, libc_failure>>
  PROVE  Boot!LibcInv'
  BY DEF Boot!LibcInv, Boot!LibcTypeOK, Boot!ReadyInv, Boot!HandleInv, Boot!ClosingInv,
         Boot!Closing, Boot!PoolInv, Boot!PoolOK, Boot!InPool, Boot!LockInv, Boot!LockOK

\* Before the threads run only startup code is inside a call, and at its steps not even it.
LEMMA NobodyCalls ==
  ASSUME Boot!LibcInv, Boot!InUser(Startup)
  PROVE  phase # "threads" /\ \A t \in Boot!Executions : libc_call[t] = Boot!NotCalling
  BY FirstUseAssumption
  DEF Boot!LibcInv, Boot!PoolInv, Boot!PoolOK, Boot!InUser, Boot!Executing, Boot!Executions

\* runtime_libc_initialize gives every lock of the pool its mutex.
LEMMA EnterKeeps ==
  ASSUME Boot!LibcInv, Boot!InUser(Startup), Boot!LibcInitialize, phase' = "define"
  PROVE  Boot!LibcInv'
  <1>1. \A t \in Boot!Executions : libc_call[t] = Boot!NotCalling /\ libc_call[t].at = "user"
    BY NobodyCalls DEF Boot!NotCalling
  <1>2. UNCHANGED <<held, handles, dynamic_pool_mutex, libc_call, libc_failure>>
    BY DEF Boot!LibcInitialize
  <1>3. /\ dynamic_locks' \in Seq(Boot!Locks) /\ Len(dynamic_locks') = Len(dynamic_locks)
        /\ DOMAIN dynamic_locks' = DOMAIN dynamic_locks
        /\ \A i \in DOMAIN dynamic_locks :
             /\ dynamic_locks'[i].created
             /\ dynamic_locks[i].allocated => dynamic_locks'[i].allocated
    <2> DEFINE r(i) == [dynamic_locks[i] EXCEPT
                          !.created = @ \/ Boot!Deferred(dynamic_locks[i])]
    <2>1. /\ dynamic_locks \in Seq(Boot!Locks)
          /\ dynamic_locks' = [i \in DOMAIN dynamic_locks |-> r(i)]
      BY DEF Boot!LibcInitialize, Boot!LibcInv, Boot!LibcTypeOK
    <2>2. ASSUME NEW i \in DOMAIN dynamic_locks
          PROVE  r(i) \in Boot!Locks /\ r(i).created
                 /\ (dynamic_locks[i].allocated => r(i).allocated)
      <3>1. dynamic_locks[i] \in Boot!Locks
        BY <2>1
      <3>2. QED  BY <3>1 DEF Boot!Locks, Boot!Deferred
    <2> HIDE DEF r
    <2>3. /\ dynamic_locks' \in Seq(Boot!Locks) /\ Len(dynamic_locks') = Len(dynamic_locks)
          /\ DOMAIN dynamic_locks' = DOMAIN dynamic_locks
          /\ \A i \in DOMAIN dynamic_locks : dynamic_locks'[i] = r(i)
      BY <2>1, <2>2
    <2>4. QED  BY <2>2, <2>3
  <1>4. Boot!LibcTypeOK'
    BY <1>2, <1>3 DEF Boot!LibcInv, Boot!LibcTypeOK, Boot!LibcInitialize
  <1>5. Boot!ReadyInv'
    BY <1>3 DEF Boot!ReadyInv, Boot!LibcInitialize
  <1>6. Boot!HandleInv'
    <2>1. DOMAIN handles = DOMAIN dynamic_locks
      BY Domains DEF Boot!LibcInv
    <2>2. QED  BY <1>2, <1>3, <2>1 DEF Boot!LibcInv, Boot!HandleInv
  <1>7. Boot!ClosingInv' /\ Boot!PoolInv' /\ Boot!LockInv'
    BY <1>1, <1>2
    DEF Boot!ClosingInv, Boot!Closing, Boot!PoolInv, Boot!PoolOK, Boot!InPool, Boot!LockInv,
        Boot!LockOK
  <1>8. QED  BY <1>2, <1>4, <1>5, <1>6, <1>7 DEF Boot!LibcInv

LEMMA StartKeeps ==
  ASSUME Boot!LibcInv, Boot!InUser(Startup), phase \in {"define", "threads"},
         phase' = "threads",
         UNCHANGED <<libc_locks_ready, dynamic_locks, held, handles, dynamic_pool_mutex,
                     libc_call, libc_failure>>
  PROVE  Boot!LibcInv'
  <1>1. \A t \in Boot!Executions : libc_call[t] = Boot!NotCalling /\ libc_call[t].at = "user"
    BY NobodyCalls DEF Boot!NotCalling
  <1>2. Boot!LibcTypeOK' /\ Boot!ReadyInv' /\ Boot!HandleInv'
    BY DEF Boot!LibcInv, Boot!LibcTypeOK, Boot!ReadyInv, Boot!HandleInv
  <1>3. Boot!ClosingInv' /\ Boot!PoolInv' /\ Boot!LockInv'
    BY <1>1
    DEF Boot!ClosingInv, Boot!Closing, Boot!PoolInv, Boot!PoolOK, Boot!InPool, Boot!LockInv,
        Boot!LockOK
  <1>4. QED  BY <1>2, <1>3 DEF Boot!LibcInv

\* The order of initialize, unfolded.
LEMMA CreationOrder ==
  /\ DOMAIN Boot!Creations = 1 .. 5 /\ Len(Boot!Creations) = 5
  /\ Boot!Creations[1] = "initialization_mutex" /\ Boot!Creations[2] = "cxx_guard_mutex"
  /\ Boot!Creations[3] = "cleanup_queue" /\ Boot!Creations[4] = "rollover_timer"
  /\ Boot!Creations[5] = "reaper_thread"
  BY DEF Boot!Creations

LEMMA CreationNames ==
  \A n \in 1 .. 5 :
    /\ Boot!Creations[n] \notin {"tx_kernel_enter", "application_thread", "halted", "scheduler",
                                 "none", "terminate"}
    /\ \A m \in 1 .. 5 : Boot!Creations[m] = Boot!Creations[n] => m = n
  BY CreationOrder

LEMMA StartupInitially == Boot!Init => Boot!StartupInv
  BY CreationOrder, CreationNames DEF Boot!Init, Boot!StartupInv, Boot!LibcInit

LEMMA KernelEnterKeeps ==
  ASSUME Boot!BootInv, Boot!KernelEnter
  PROVE  Boot!BootInv'
  <1>1. Boot!LibcInv'
    BY EnterKeeps DEF Boot!BootInv, Boot!KernelEnter, Boot!AtStartup
  <1>2. Boot!StartupInv'
    <2>1. /\ next_step = "tx_kernel_enter" /\ next_step' = "application_thread"
          /\ phase' = "define" /\ UNCHANGED <<objects, runtime_initialized>>
      BY DEF Boot!KernelEnter, Boot!AtStartup
    <2>2. objects = {} /\ ~runtime_initialized
      BY <2>1, CreationOrder, CreationNames DEF Boot!BootInv, Boot!StartupInv
    <2>3. QED  BY <2>1, <2>2 DEF Boot!StartupInv
  <1>3. QED  BY <1>1, <1>2 DEF Boot!BootInv

LEMMA ApplicationDefineKeeps ==
  ASSUME Boot!BootInv, Boot!ApplicationDefine
  PROVE  Boot!BootInv'
  <1>1. /\ next_step = "application_thread" /\ UNCHANGED phase
        /\ UNCHANGED runtime_initialized
        /\ \/ /\ next_step' = Boot!Creations[1]
              /\ objects' = objects \cup {"application_thread"}
           \/ next_step' = "halted" /\ objects' = objects
    BY DEF Boot!ApplicationDefine, Boot!AtStartup, Boot!Halt, Boot!libcVars
  <1>2. Boot!LibcInv'
    BY LibcStutters
    DEF Boot!BootInv, Boot!ApplicationDefine, Boot!Halt, Boot!libcVars, Boot!poolVars
  <1>3. objects = {} /\ ~runtime_initialized /\ phase = "define"
    BY <1>1, CreationOrder, CreationNames
    DEF Boot!BootInv, Boot!StartupInv, Boot!LibcInv, Boot!LibcTypeOK
  <1>4. Boot!Made(0) = {"application_thread"}
    BY DEF Boot!Made
  <1>5. Boot!StartupInv'
    BY <1>1, <1>3, <1>4, CreationOrder, CreationNames DEF Boot!StartupInv
  <1>6. QED  BY <1>2, <1>5 DEF Boot!BootInv

LEMMA RuntimeCreateKeeps ==
  ASSUME Boot!BootInv, Boot!RuntimeCreate
  PROVE  Boot!BootInv'
  <1>1. PICK n \in 1 .. 5 :
          /\ Boot!AtStartup(Boot!Creations[n])
          /\ \/ /\ objects' = objects \cup {Boot!Creations[n]}
                /\ next_step' = IF n = 5 THEN "scheduler" ELSE Boot!Creations[n + 1]
                /\ runtime_initialized' = (n = 5)
             \/ /\ objects' = objects \ Boot!RolledBack(n)
                /\ next_step' = "terminate"
                /\ UNCHANGED runtime_initialized
          /\ UNCHANGED Boot!libcVars
    BY CreationOrder DEF Boot!RuntimeCreate
  <1>2. Boot!LibcInv'
    BY <1>1, LibcStutters DEF Boot!BootInv, Boot!libcVars, Boot!poolVars
  <1>3. next_step = Boot!Creations[n] /\ UNCHANGED phase
    BY <1>1 DEF Boot!AtStartup, Boot!libcVars
  <1>4. phase = "define" /\ ~runtime_initialized /\ objects = Boot!Made(n - 1)
    BY <1>3, CreationOrder, CreationNames
    DEF Boot!BootInv, Boot!StartupInv, Boot!LibcInv, Boot!LibcTypeOK
  <1>5. CASE /\ objects' = objects \cup {Boot!Creations[n]}
             /\ next_step' = IF n = 5 THEN "scheduler" ELSE Boot!Creations[n + 1]
             /\ runtime_initialized' = (n = 5)
    <2>1. Boot!Made(n) = Boot!Made(n - 1) \cup {Boot!Creations[n]}
      BY DEF Boot!Made
    <2>2. CASE n = 5
      <3>1. next_step' = "scheduler" /\ objects' = Boot!Made(Len(Boot!Creations))
        BY <1>4, <1>5, <2>1, <2>2, CreationOrder
      <3>2. runtime_initialized'
        BY <1>5, <2>2
      <3>3. QED  BY <1>2, <1>3, <1>4, <3>1, <3>2 DEF Boot!BootInv, Boot!StartupInv
    <2>3. CASE n # 5
      <3>1. n + 1 \in 1 .. 5 /\ (n + 1) - 1 = n
        BY <2>3
      <3>2. next_step' = Boot!Creations[n + 1] /\ objects' = Boot!Made((n + 1) - 1)
        BY <1>4, <1>5, <2>1, <2>3, <3>1
      <3>3. ~runtime_initialized'
        BY <1>5, <2>3
      <3>4. next_step' \notin {"tx_kernel_enter", "scheduler", "none"}
        BY <3>1, <3>2, CreationNames
      <3>5. \E m \in DOMAIN Boot!Creations :
              next_step' = Boot!Creations[m] /\ objects' = Boot!Made(m - 1)
        BY <3>1, <3>2, CreationOrder
      <3>6. QED  BY <1>2, <1>3, <1>4, <3>3, <3>4, <3>5 DEF Boot!BootInv, Boot!StartupInv
    <2>4. QED  BY <2>2, <2>3
  <1>6. CASE /\ objects' = objects \ Boot!RolledBack(n)
             /\ next_step' = "terminate"
             /\ UNCHANGED runtime_initialized
    <2>1. Boot!Made(n - 1) \ Boot!RolledBack(n) = {"application_thread"}
      BY CreationOrder, CreationNames DEF Boot!Made, Boot!RolledBack
    <2>2. QED  BY <1>2, <1>3, <1>4, <1>6, <2>1 DEF Boot!BootInv, Boot!StartupInv
  <1>7. QED  BY <1>1, <1>5, <1>6

LEMMA StartThreadsKeeps ==
  ASSUME Boot!BootInv, Boot!StartThreads
  PROVE  Boot!BootInv'
  <1>1. /\ next_step = "scheduler" /\ next_step' = "none" /\ phase' = "threads"
        /\ UNCHANGED <<objects, runtime_initialized>> /\ Boot!InUser(Startup)
    BY DEF Boot!StartThreads, Boot!AtStartup
  <1>2. phase = "define"
    <2>1. phase \in {"constructors", "define", "threads"}
      BY DEF Boot!BootInv, Boot!LibcInv, Boot!LibcTypeOK
    <2>2. QED  BY <1>1, <2>1 DEF Boot!BootInv, Boot!StartupInv
  <1>3. runtime_initialized /\ objects = Boot!Made(Len(Boot!Creations))
    BY <1>1, CreationOrder, CreationNames DEF Boot!BootInv, Boot!StartupInv
  <1>4. Boot!LibcInv'
    BY <1>1, <1>2, StartKeeps DEF Boot!BootInv, Boot!StartThreads, Boot!poolVars
  <1>5. Boot!StartupInv'
    BY <1>1, <1>3 DEF Boot!StartupInv
  <1>6. QED  BY <1>4, <1>5 DEF Boot!BootInv

LEMMA PhaseStays ==
  ASSUME Boot!LibcNext
  PROVE  UNCHANGED phase
  BY DEF Boot!LibcNext, Boot!LockInit, Boot!lock_dynamic_pool, Boot!SearchFinds, Boot!Take,
         Boot!NewLock, Boot!MarkClosed, Boot!unlock_dynamic_pool, Boot!LockClose,
         Boot!LockFails, Boot!Acquire, Boot!Release

\* The inductive invariant of startup and newlib's locks holds of every behaviour, for any
\* number of threads and locks.
THEOREM BootInvariant == Boot!Spec => []Boot!BootInv
  <1>1. Boot!Init => Boot!BootInv
    BY LibcInitially, StartupInitially DEF Boot!Init, Boot!BootInv
  <1>2. Boot!BootInv /\ [Boot!Next]_(Boot!vars) => Boot!BootInv'
    <2> SUFFICES ASSUME Boot!BootInv, [Boot!Next]_(Boot!vars) PROVE Boot!BootInv'
      OBVIOUS
    <2>1. CASE UNCHANGED Boot!vars
      <3>1. Boot!LibcInv'
        BY <2>1, LibcStutters DEF Boot!BootInv, Boot!vars, Boot!libcVars, Boot!poolVars
      <3>2. Boot!StartupInv'
        BY <2>1 DEF Boot!BootInv, Boot!StartupInv, Boot!vars, Boot!libcVars, Boot!startupVars
      <3>3. QED  BY <3>1, <3>2 DEF Boot!BootInv
    <2>2. CASE Boot!LibcNext /\ UNCHANGED Boot!startupVars
      <3>1. Boot!LibcInv'
        BY <2>2, LibcKeeps DEF Boot!BootInv
      <3>2. Boot!StartupInv'
        BY <2>2, PhaseStays DEF Boot!BootInv, Boot!StartupInv, Boot!startupVars
      <3>3. QED  BY <3>1, <3>2 DEF Boot!BootInv
    <2>3. QED
      BY <2>1, <2>2, KernelEnterKeeps, ApplicationDefineKeeps, RuntimeCreateKeeps,
         StartThreadsKeeps
      DEF Boot!Next
  <1>3. QED  BY <1>1, <1>2, PTL DEF Boot!Spec

\* Locks that global constructors made and closed work when threads are given them, and no
\* two of newlib's locks are one mutex (__retarget_lock_init, __retarget_lock_close,
\* runtime_libc_initialize).
THEOREM LibcLocksWork == Boot!Spec => []LocksWork
  <1>1. Boot!BootInv => LocksWork
    BY DEF Boot!BootInv, Boot!LibcInv, Boot!HandleInv, LocksWork, Boot!LocksWork
  <1>2. QED  BY <1>1, BootInvariant, PTL

\* The runtime exists as a whole or not at all, whichever creation of initialize fails.
THEOREM RuntimeAllOrNothing == Boot!Spec => []RuntimeIsWhole
  <1>1. Boot!BootInv => RuntimeIsWhole
    <2> SUFFICES ASSUME Boot!BootInv PROVE RuntimeIsWhole
      OBVIOUS
    <2> DEFINE mine == {Boot!Creations[i] : i \in DOMAIN Boot!Creations}
    <2>1. runtime_initialized => mine \subseteq objects
      BY CreationOrder, CreationNames DEF Boot!BootInv, Boot!StartupInv, Boot!Made
    <2>2. phase = "threads" => runtime_initialized
      BY DEF Boot!BootInv, Boot!StartupInv
    <2>3. next_step = "terminate" => objects \cap mine = {}
      BY CreationOrder, CreationNames DEF Boot!BootInv, Boot!StartupInv
    <2>4. "reaper_thread" \in objects => "application_thread" \in objects
      BY DEF Boot!BootInv, Boot!StartupInv, Boot!Made
    <2>5. QED  BY <2>1, <2>2, <2>3, <2>4 DEF RuntimeIsWhole, Boot!RuntimeIsWhole
  <1>2. QED  BY <1>1, BootInvariant, PTL

-----------------------------------------------------------------------------
(* Statics and call_onces.                                                 *)

LEMMA PushOn ==
  ASSUME NEW S, NEW s \in Seq(S), NEW x \in S
  PROVE  /\ Append(s, x) \in Seq(S) /\ Len(Append(s, x)) = Len(s) + 1 /\ Len(s) \in Nat
         /\ Append(s, x) # <<>> /\ DOMAIN Append(s, x) = DOMAIN s \cup {Len(s) + 1}
         /\ Len(s) + 1 \notin DOMAIN s /\ Append(s, x)[Len(s) + 1] = x
         /\ \A i \in DOMAIN s : Append(s, x)[i] = s[i] /\ i # Len(s) + 1
  OBVIOUS

LEMMA PopOff ==
  ASSUME NEW S, NEW s \in Seq(S), s # <<>>, NEW p, p = SubSeq(s, 1, Len(s) - 1)
  PROVE  /\ p \in Seq(S) /\ DOMAIN p = DOMAIN s \ {Len(s)} /\ Len(s) \in DOMAIN s
         /\ \A i \in DOMAIN p : p[i] = s[i]
  <1>1. Len(s) \in Nat \ {0}
    OBVIOUS
  <1>2. p \in Seq(S) /\ DOMAIN p = 1 .. Len(s) - 1 /\ \A i \in 1 .. Len(s) - 1 : p[i] = s[i]
    BY <1>1
  <1>3. QED  BY <1>1, <1>2

LEMMA GuardsFinite ==
  ASSUME NEW S, NEW s \in Seq(S)
  PROVE  IsFiniteSet(GuardsOn(s)) /\ Cardinality(GuardsOn(s)) \in Nat
  <1>1. DOMAIN s = 1 .. Len(s) /\ Len(s) \in Nat
    OBVIOUS
  <1>2. IsFiniteSet(1 .. Len(s))
    BY <1>1, FS_Interval
  <1>3. GuardsOn(s) \subseteq 1 .. Len(s)
    BY <1>1 DEF GuardsOn
  <1>4. QED  BY <1>2, <1>3, FS_Subset, FS_CardinalityType

\* Pushing a guard adds one to the guards on a stack, popping it takes one off, and a
\* once_flag does not count.
LEMMA GuardsPush ==
  ASSUME NEW S, NEW s \in Seq(S), NEW x \in S
  PROVE  /\ x \in Guards =>
              Cardinality(GuardsOn(Append(s, x))) = Cardinality(GuardsOn(s)) + 1
         /\ x \notin Guards => GuardsOn(Append(s, x)) = GuardsOn(s)
  <1>1. x \notin Guards => GuardsOn(Append(s, x)) = GuardsOn(s)
    BY PushOn DEF GuardsOn
  <1>2. ASSUME x \in Guards
        PROVE  Cardinality(GuardsOn(Append(s, x))) = Cardinality(GuardsOn(s)) + 1
    <2>1. GuardsOn(Append(s, x)) = GuardsOn(s) \cup {Len(s) + 1}
      BY <1>2, PushOn DEF GuardsOn
    <2>2. Len(s) + 1 \notin GuardsOn(s)
      BY PushOn DEF GuardsOn
    <2>3. QED  BY <2>1, <2>2, GuardsFinite, FS_AddElement
  <1>3. QED  BY <1>1, <1>2

LEMMA GuardsPop ==
  ASSUME NEW S, NEW s \in Seq(S), s # <<>>, NEW p, p = SubSeq(s, 1, Len(s) - 1)
  PROVE  /\ GuardsOn(p) = GuardsOn(s) \ {Len(s)}
         /\ s[Len(s)] \in Guards => Cardinality(GuardsOn(p)) = Cardinality(GuardsOn(s)) - 1
         /\ s[Len(s)] \notin Guards => GuardsOn(p) = GuardsOn(s)
  <1>1. GuardsOn(p) = GuardsOn(s) \ {Len(s)}
    BY PopOff DEF GuardsOn
  <1>2. s[Len(s)] \notin Guards => GuardsOn(p) = GuardsOn(s)
    BY PopOff DEF GuardsOn
  <1>3. ASSUME s[Len(s)] \in Guards
        PROVE  Cardinality(GuardsOn(p)) = Cardinality(GuardsOn(s)) - 1
    <2>1. Len(s) \in GuardsOn(s)
      BY <1>3, PopOff DEF GuardsOn
    <2>2. QED  BY <1>1, <2>1, GuardsFinite, FS_RemoveElement
  <1>4. QED  BY <1>1, <1>2, <1>3

LEMMA StaticInitially == Init => StaticInv
  <1> SUFFICES ASSUME Init PROVE StaticInv
    OBVIOUS
  <1>1. TypeOK
    BY DEF Init, TypeOK
  <1>2. \A t \in Threads : stack[t] = <<>> /\ pc[t] = "user" /\ DOMAIN stack[t] = {}
    BY DEF Init
  <1>3. PlaceInv /\ MutexInv /\ NestInv /\ ProgressInv /\ ApartInv /\ FatalInv
    BY <1>2, FirstUseAssumption
    DEF Init, PlaceInv, PlaceOK, MutexInv, MutexOK, GuardsOn, NestInv, NestOK, ProgressInv,
        ApartInv, FatalInv
  <1>4. QED  BY <1>1, <1>3 DEF StaticInv

\* Facts about one thread, from the invariants over all of them.
LEMMA OfThread ==
  ASSUME StaticInv, NEW t \in Threads
  PROVE  /\ PlaceOK(t) /\ MutexOK(t) /\ NestOK(t) /\ stack[t] \in Seq(Guards \cup Onces)
         /\ t # None /\ Cardinality(GuardsOn(stack[t])) \in Nat
         /\ IsFiniteSet(GuardsOn(stack[t]))
  <1>1. stack[t] \in Seq(Guards \cup Onces)
    BY DEF StaticInv, TypeOK
  <1>2. QED
    BY <1>1, GuardsFinite, FirstUseAssumption DEF StaticInv, PlaceInv, MutexInv, NestInv

LEMMA GuardAcquireKeeps ==
  ASSUME StaticInv, NEW t \in Threads, NEW g \in Guards, GuardAcquire(t, g)
  PROVE  StaticInv'
  <1>1. /\ pc[t] = "user" /\ pc'[t] = "lock" /\ target'[t] = g
        /\ \A u \in Threads : u # t => pc'[u] = pc[u] /\ target'[u] = target[u]
    BY DEF StaticInv, TypeOK, GuardAcquire, GoTo, MayCall
  <1>2. \A u \in Threads : PlaceOK(u) /\ MutexOK(u) /\ NestOK(u)
    BY OfThread
  <1>3. TypeOK'
    BY DEF StaticInv, TypeOK, GuardAcquire, GoTo, guardVars
  <1>4. PlaceInv'
    BY <1>1, <1>2 DEF PlaceInv, PlaceOK, Innermost, GuardAcquire, guardVars
  <1>5. MutexInv'
    BY <1>1, <1>2 DEF StaticInv, MutexInv, MutexOK, Locked, GuardAcquire, guardVars
  <1>6. NestInv' /\ ProgressInv'
    <2>1. NestInv'
      BY <1>1, <1>2 DEF NestInv, NestOK, GuardAcquire, guardVars
    <2>2. ProgressInv'
      BY DEF StaticInv, ProgressInv, GuardAcquire, guardVars
    <2>3. QED  BY <2>1, <2>2
  <1>7. ApartInv' /\ FatalInv'
    BY DEF StaticInv, ApartInv, FatalInv, GuardAcquire
  <1>8. QED
    BY <1>3, <1>4, <1>5, <1>6, <1>7 DEF StaticInv

LEMMA OnceCallKeeps ==
  ASSUME StaticInv, NEW t \in Threads, NEW o \in Onces, OnceCall(t, o)
  PROVE  StaticInv'
  <1>1. /\ pc[t] = "user" /\ pc'[t] = "poll" /\ target'[t] = o
        /\ \A u \in Threads : u # t => pc'[u] = pc[u] /\ target'[u] = target[u]
    BY DEF StaticInv, TypeOK, OnceCall, GoTo, MayCall
  <1>2. \A u \in Threads : PlaceOK(u) /\ MutexOK(u) /\ NestOK(u)
    BY OfThread
  <1>3. TypeOK'
    BY DEF StaticInv, TypeOK, OnceCall, GoTo, guardVars
  <1>4. PlaceInv'
    BY <1>1, <1>2 DEF PlaceInv, PlaceOK, Innermost, OnceCall, guardVars
  <1>5. MutexInv'
    BY <1>1, <1>2 DEF StaticInv, MutexInv, MutexOK, Locked, OnceCall, guardVars
  <1>6. NestInv' /\ ProgressInv'
    <2>1. NestInv'
      BY <1>1, <1>2 DEF NestInv, NestOK, OnceCall, guardVars
    <2>2. ProgressInv'
      BY DEF StaticInv, ProgressInv, OnceCall, guardVars
    <2>3. QED  BY <2>1, <2>2
  <1>7. ApartInv' /\ FatalInv'
    BY DEF StaticInv, ApartInv, FatalInv, OnceCall
  <1>8. QED
    BY <1>3, <1>4, <1>5, <1>6, <1>7 DEF StaticInv

LEMMA OnceDoneKeeps ==
  ASSUME StaticInv, NEW t \in Threads, OnceDone(t)
  PROVE  StaticInv'
  <1>1. /\ pc[t] = "poll" /\ pc'[t] = "user"
        /\ \A u \in Threads : u # t => pc'[u] = pc[u] /\ target'[u] = target[u]
    BY DEF StaticInv, TypeOK, OnceDone, GoTo
  <1>2. \A u \in Threads : PlaceOK(u) /\ MutexOK(u) /\ NestOK(u)
    BY OfThread
  <1>3. TypeOK'
    BY DEF StaticInv, TypeOK, OnceDone, GoTo, guardVars
  <1>4. PlaceInv'
    BY <1>1, <1>2 DEF PlaceInv, PlaceOK, Innermost, OnceDone, guardVars
  <1>5. MutexInv'
    BY <1>1, <1>2 DEF StaticInv, MutexInv, MutexOK, Locked, OnceDone, guardVars
  <1>6. NestInv' /\ ProgressInv'
    <2>1. NestInv'
      BY <1>1, <1>2 DEF NestInv, NestOK, OnceDone, guardVars
    <2>2. ProgressInv'
      BY DEF StaticInv, ProgressInv, OnceDone, guardVars
    <2>3. QED  BY <2>1, <2>2
  <1>7. ApartInv' /\ FatalInv'
    BY DEF StaticInv, ApartInv, FatalInv, OnceDone
  <1>8. QED
    BY <1>3, <1>4, <1>5, <1>6, <1>7 DEF StaticInv

LEMMA GuardLockKeeps ==
  ASSUME StaticInv, NEW t \in Threads, GuardLock(t)
  PROVE  StaticInv'
  <1>1. /\ pc[t] = "lock" /\ pc'[t] = "check" /\ target'[t] = target[t]
        /\ \A u \in Threads : u # t => pc'[u] = pc[u] /\ target'[u] = target[u]
    BY DEF StaticInv, TypeOK, GuardLock, GoTo
  <1>2. \A u \in Threads : PlaceOK(u) /\ MutexOK(u) /\ NestOK(u)
    BY OfThread
  <1>3. TypeOK'
    BY DEF StaticInv, TypeOK, GuardLock, GoTo
  <1>4. PlaceInv'
    BY <1>1, <1>2 DEF PlaceInv, PlaceOK, Innermost, GuardLock
  <1>5. MutexInv'
    <2>1. /\ owner' = t /\ count' = count + 1 /\ owner \in {None, t} /\ stack' = stack
          /\ count \in Nat /\ Cardinality(GuardsOn(stack[t])) \in Nat /\ t # None
      BY OfThread DEF GuardLock, CanLock, StaticInv, TypeOK
    <2>2. count = Cardinality(GuardsOn(stack[t]))
      <3>1. CASE owner = t
        BY <1>1, <1>2, <2>1, <3>1 DEF MutexOK, Locked
      <3>2. CASE owner # t
        <4>1. owner = None /\ count = 0 /\ GuardsOn(stack[t]) = {}
          BY <1>2, <2>1, <3>2 DEF StaticInv, MutexInv, MutexOK
        <4>2. QED  BY <4>1, FS_EmptySet
      <3>3. QED  BY <3>1, <3>2
    <2>3. MutexOK(t)'
      BY <1>1, <2>1, <2>2 DEF MutexOK, Locked
    <2>4. ASSUME NEW u \in Threads, u # t PROVE MutexOK(u)'
      <3>1. owner # u /\ pc'[u] = pc[u]
        BY <1>1, <2>1, <2>4, FirstUseAssumption
      <3>2. QED  BY <1>2, <2>1, <2>4, <3>1 DEF MutexOK
    <2>5. QED  BY <2>1, <2>3, <2>4 DEF MutexInv
  <1>6. NestInv' /\ ProgressInv'
    <2>1. \A g \in in_progress : owner = t
      BY DEF StaticInv, ProgressInv, GuardLock, CanLock
    <2>2. NestInv'
      BY <1>1, <1>2 DEF NestInv, NestOK, GuardLock
    <2>3. ProgressInv'
      BY <2>1 DEF StaticInv, ProgressInv, GuardLock
    <2>4. QED  BY <2>2, <2>3
  <1>7. ApartInv' /\ FatalInv'
    BY DEF StaticInv, ApartInv, FatalInv, GuardLock
  <1>8. QED
    BY <1>3, <1>4, <1>5, <1>6, <1>7 DEF StaticInv

LEMMA GuardDoneKeeps ==
  ASSUME StaticInv, NEW t \in Threads, GuardDone(t)
  PROVE  StaticInv'
  <1>1. /\ pc[t] = "check" /\ pc'[t] = "user"
        /\ \A u \in Threads : u # t => pc'[u] = pc[u] /\ target'[u] = target[u]
    BY DEF StaticInv, TypeOK, GuardDone, GoTo
  <1>2. \A u \in Threads : PlaceOK(u) /\ MutexOK(u) /\ NestOK(u)
    BY OfThread
  <1>3. TypeOK'
    <2>1. owner = t /\ count > 0
      BY <1>1, <1>2 DEF MutexOK
    <2>2. count' \in Nat /\ owner' \in Threads \cup {None}
      BY <2>1 DEF StaticInv, TypeOK, GuardDone, MutexPut
    <2>3. QED  BY <2>2 DEF StaticInv, TypeOK, GuardDone, GoTo
  <1>4. PlaceInv'
    BY <1>1, <1>2 DEF PlaceInv, PlaceOK, Innermost, GuardDone
  <1>5. MutexInv'
    <2>1. /\ owner = t /\ count = Cardinality(GuardsOn(stack[t])) + 1 /\ count > 0
          /\ count \in Nat /\ stack' = stack
      BY <1>1, <1>2 DEF MutexOK, Locked, StaticInv, TypeOK, GuardDone
    <2>2. count' = count - 1 /\ owner' = IF count = 1 THEN None ELSE owner
      BY DEF GuardDone, MutexPut
    <2>3. Cardinality(GuardsOn(stack[t])) \in Nat /\ IsFiniteSet(GuardsOn(stack[t])) /\ t # None
      BY OfThread
    <2>4. MutexOK(t)'
      <3>1. CASE count = 1
        <4>1. GuardsOn(stack[t]) = {}
          BY <2>1, <2>3, <3>1, FS_EmptySet
        <4>2. QED  BY <1>1, <2>1, <2>2, <2>3, <3>1, <4>1 DEF MutexOK
      <3>2. CASE count # 1
        BY <1>1, <2>1, <2>2, <2>3, <3>2 DEF MutexOK, Locked
      <3>3. QED  BY <3>1, <3>2
    <2>5. ASSUME NEW u \in Threads, u # t PROVE MutexOK(u)'
      <3>1. owner # u /\ owner' # u /\ pc'[u] = pc[u]
        BY <1>1, <2>1, <2>2, <2>5, FirstUseAssumption
      <3>2. QED  BY <1>2, <2>1, <2>5, <3>1 DEF MutexOK
    <2>6. QED  BY <2>1, <2>2, <2>4, <2>5, <2>3 DEF MutexInv
  <1>6. NestInv' /\ ProgressInv'
    <2>1. owner = t /\ stack' = stack /\ UNCHANGED <<initialized, in_progress, state>>
      BY <1>1, <1>2 DEF MutexOK, GuardDone
    <2>2. NestInv'
      BY <1>1, <1>2, <2>1 DEF NestInv, NestOK
    <2>3. ASSUME NEW g \in in_progress PROVE owner' = t
      <3>1. g \in Guards /\ \E i \in DOMAIN stack[t] : stack[t][i] = g
        BY <2>1, <2>3 DEF StaticInv, TypeOK, ProgressInv
      <3>2. GuardsOn(stack[t]) # {}
        BY <3>1 DEF GuardsOn
      <3>3. owner' # t => GuardsOn(stack'[t]) = {}
        BY <1>5 DEF MutexInv, MutexOK
      <3>4. QED  BY <2>1, <3>2, <3>3
    <2>4. ProgressInv'
      BY <2>1, <2>3 DEF StaticInv, ProgressInv
    <2>5. QED  BY <2>2, <2>4
  <1>7. ApartInv' /\ FatalInv'
    BY DEF StaticInv, ApartInv, FatalInv, GuardDone
  <1>8. QED
    BY <1>3, <1>4, <1>5, <1>6, <1>7 DEF StaticInv

LEMMA GuardRecursionKeeps ==
  ASSUME StaticInv, NEW t \in Threads, GuardRecursion(t)
  PROVE  StaticInv'
  <1>1. UNCHANGED <<initialized, in_progress, owner, count, state, stack, pc, target, throws>>
    BY DEF GuardRecursion, guardVars
  <1>2. TypeOK' /\ PlaceInv' /\ MutexInv'
    BY <1>1 DEF StaticInv, TypeOK, PlaceInv, PlaceOK, MutexInv, MutexOK, Locked, Innermost
  <1>3. NestInv' /\ ProgressInv' /\ ApartInv'
    BY <1>1 DEF StaticInv, NestInv, NestOK, ProgressInv, ApartInv
  <1>4. owner = t
    BY OfThread DEF MutexOK, GuardRecursion
  <1>5. \E i \in DOMAIN stack[t] : stack[t][i] = target[t]
    BY <1>4 DEF StaticInv, ProgressInv, GuardRecursion
  <1>6. fatal'[1] = t /\ fatal'[2] = target[t]
    BY DEF GuardRecursion
  <1>7. FatalInv'
    BY <1>1, <1>5, <1>6 DEF FatalInv
  <1>8. QED  BY <1>2, <1>3, <1>7 DEF StaticInv

\* The initializer of a guard ends: __cxa_guard_release or __cxa_guard_abort begins.
LEMMA GuardEndsKeeps ==
  ASSUME StaticInv, NEW t \in Threads, NEW step \in {"store", "put"},
         Running(t, Guards), in_progress' = in_progress \ {Innermost(t)}, GoTo(t, step),
         UNCHANGED <<initialized, owner, count, state, stack, target, fatal>>
  PROVE  StaticInv'
  <1> DEFINE n == Len(stack[t])
             x == Innermost(t)
  <1>1. /\ pc[t] = "user" /\ pc'[t] = step /\ stack[t] # <<>> /\ x \in Guards
        /\ \A u \in Threads : u # t => pc'[u] = pc[u]
    BY DEF StaticInv, TypeOK, GoTo, Running
  <1>2. \A u \in Threads : PlaceOK(u) /\ MutexOK(u) /\ NestOK(u)
    BY OfThread
  <1>3. n \in DOMAIN stack[t] /\ stack[t][n] = x
    BY <1>1, OfThread DEF Innermost
  <1>4. owner = t
    BY <1>1, <1>2, <1>3 DEF MutexOK, GuardsOn
  <1>5. /\ \A i \in DOMAIN stack[t] : stack[t][i] = x => i = n
        /\ \A u \in Threads : u # t => \A i \in DOMAIN stack[u] : stack[u][i] # x
    BY <1>2, <1>3 DEF NestOK, StaticInv, ApartInv
  <1>6. TypeOK'
    BY DEF StaticInv, TypeOK, GoTo
  <1>7. PlaceInv'
    BY <1>1, <1>2 DEF PlaceInv, PlaceOK, Innermost
  <1>8. MutexInv'
    BY <1>1, <1>2, <1>4 DEF StaticInv, MutexInv, MutexOK, Locked
  <1> HIDE DEF x
  <1>9. NestInv'
    <2> SUFFICES ASSUME NEW u \in Threads PROVE NestOK(u)'
      BY DEF NestInv
    <2>1. CASE u = t
      BY <1>1, <1>2, <1>3, <1>5, <2>1 DEF NestOK, x
    <2>2. CASE u # t
      BY <1>1, <1>2, <1>5, <2>2 DEF NestOK, x
    <2>3. QED  BY <2>1, <2>2
  <1>10. ProgressInv' /\ ApartInv' /\ FatalInv'
    BY DEF StaticInv, ProgressInv, ApartInv, FatalInv
  <1>11. QED
    BY <1>6, <1>7, <1>8, <1>9, <1>10 DEF StaticInv

LEMMA GuardStoreKeeps ==
  ASSUME StaticInv, NEW t \in Threads, GuardStore(t)
  PROVE  StaticInv'
  <1> DEFINE n == Len(stack[t])
             x == Innermost(t)
  <1>1. /\ pc[t] = "store" /\ pc'[t] = "put" /\ initialized' = initialized \cup {x}
        /\ \A u \in Threads : u # t => pc'[u] = pc[u]
        /\ UNCHANGED <<in_progress, owner, count, state, stack, target, fatal>>
    BY DEF StaticInv, TypeOK, GoTo, GuardStore
  <1>2. \A u \in Threads : PlaceOK(u) /\ MutexOK(u) /\ NestOK(u)
    BY OfThread
  <1>3. stack[t] # <<>> /\ x \in Guards \ in_progress
    BY <1>1, <1>2 DEF PlaceOK
  <1>4. n \in DOMAIN stack[t] /\ stack[t][n] = x
    BY <1>3, OfThread DEF Innermost
  <1>5. /\ \A i \in DOMAIN stack[t] : stack[t][i] = x => i = n
        /\ \A u \in Threads : u # t => \A i \in DOMAIN stack[u] : stack[u][i] # x
    BY <1>2, <1>4 DEF NestOK, StaticInv, ApartInv
  <1>6. TypeOK'
    BY <1>1, <1>3 DEF StaticInv, TypeOK, GuardStore, GoTo
  <1>7. PlaceInv'
    BY <1>1, <1>2 DEF PlaceInv, PlaceOK, Innermost
  <1>8. MutexInv'
    BY <1>1, <1>2 DEF StaticInv, MutexInv, MutexOK, Locked
  <1> HIDE DEF x
  <1>9. NestInv'
    <2> SUFFICES ASSUME NEW u \in Threads PROVE NestOK(u)'
      BY DEF NestInv
    <2>1. CASE u = t
      BY <1>1, <1>2, <1>4, <1>5, <2>1 DEF NestOK
    <2>2. CASE u # t
      BY <1>1, <1>2, <1>5, <2>2 DEF NestOK
    <2>3. QED  BY <2>1, <2>2
  <1>10. ProgressInv' /\ ApartInv' /\ FatalInv'
    BY <1>1, <1>3 DEF StaticInv, ProgressInv, ApartInv, FatalInv
  <1>11. QED
    BY <1>6, <1>7, <1>8, <1>9, <1>10 DEF StaticInv

\* What pushing x on the stack of t leaves true of the stacks.
LEMMA PushKeeps ==
  ASSUME StaticInv, NEW t \in Threads, NEW x \in Guards \cup Onces, Push(t, x)
  PROVE  /\ stack' \in [Threads -> Seq(Guards \cup Onces)]
         /\ stack'[t] = Append(stack[t], x) /\ Len(stack'[t]) = Len(stack[t]) + 1
         /\ DOMAIN stack'[t] = DOMAIN stack[t] \cup {Len(stack[t]) + 1}
         /\ Len(stack[t]) + 1 \notin DOMAIN stack[t] /\ stack'[t][Len(stack[t]) + 1] = x
         /\ \A i \in DOMAIN stack[t] : stack'[t][i] = stack[t][i]
         /\ \A u \in Threads : u # t => stack'[u] = stack[u]
  <1>1. stack \in [Threads -> Seq(Guards \cup Onces)] /\ stack[t] \in Seq(Guards \cup Onces)
    BY DEF StaticInv, TypeOK
  <1> DEFINE s == Append(stack[t], x)
  <1>2. stack' = [stack EXCEPT ![t] = s]
    BY DEF Push
  <1>3. /\ s \in Seq(Guards \cup Onces) /\ Len(s) = Len(stack[t]) + 1
        /\ DOMAIN s = DOMAIN stack[t] \cup {Len(stack[t]) + 1}
        /\ Len(stack[t]) + 1 \notin DOMAIN stack[t] /\ s[Len(stack[t]) + 1] = x
        /\ \A i \in DOMAIN stack[t] : s[i] = stack[t][i]
    BY <1>1, PushOn
  <1> HIDE DEF s
  <1>4. stack' \in [Threads -> Seq(Guards \cup Onces)] /\ stack'[t] = s
        /\ \A u \in Threads : u # t => stack'[u] = stack[u]
    BY <1>1, <1>2, <1>3
  <1>5. QED  BY <1>3, <1>4 DEF s

\* What popping the stack of t leaves true of the stacks.
LEMMA PopKeeps ==
  ASSUME StaticInv, NEW t \in Threads, stack[t] # <<>>, Pop(t)
  PROVE  /\ stack' \in [Threads -> Seq(Guards \cup Onces)]
         /\ stack'[t] = SubSeq(stack[t], 1, Len(stack[t]) - 1)
         /\ Len(stack[t]) \in DOMAIN stack[t]
         /\ DOMAIN stack'[t] = DOMAIN stack[t] \ {Len(stack[t])}
         /\ \A i \in DOMAIN stack'[t] : stack'[t][i] = stack[t][i]
         /\ \A u \in Threads : u # t => stack'[u] = stack[u]
  <1>1. stack \in [Threads -> Seq(Guards \cup Onces)] /\ stack[t] \in Seq(Guards \cup Onces)
    BY DEF StaticInv, TypeOK
  <1> DEFINE s == SubSeq(stack[t], 1, Len(stack[t]) - 1)
  <1>2. stack' = [stack EXCEPT ![t] = s]
    BY DEF Pop
  <1>3. /\ s \in Seq(Guards \cup Onces) /\ Len(stack[t]) \in DOMAIN stack[t]
        /\ DOMAIN s = DOMAIN stack[t] \ {Len(stack[t])}
        /\ \A i \in DOMAIN s : s[i] = stack[t][i]
    BY <1>1, PopOff
  <1> HIDE DEF s
  <1>4. stack' \in [Threads -> Seq(Guards \cup Onces)] /\ stack'[t] = s
        /\ \A u \in Threads : u # t => stack'[u] = stack[u]
    BY <1>1, <1>2, <1>3
  <1>5. QED  BY <1>3, <1>4 DEF s

\* An object that is on no stack is pushed on one.
LEMMA PushApart ==
  ASSUME StaticInv, NEW t \in Threads, NEW x \in Guards \cup Onces, Push(t, x),
         \A u \in Threads : \A i \in DOMAIN stack[u] : stack[u][i] # x
  PROVE  ApartInv'
  <1> DEFINE n == Len(stack[t]) + 1
  <1>1. /\ DOMAIN stack'[t] = DOMAIN stack[t] \cup {n}
        /\ stack'[t][n] = x
        /\ \A i \in DOMAIN stack[t] : stack'[t][i] = stack[t][i]
        /\ \A u \in Threads : u # t => stack'[u] = stack[u]
    BY PushKeeps
  <1> HIDE DEF n
  <1> SUFFICES ASSUME NEW u \in Threads, NEW v \in Threads, u # v,
                      NEW i \in DOMAIN stack'[u], NEW j \in DOMAIN stack'[v],
                      stack'[u][i] = stack'[v][j]
               PROVE  FALSE
    BY DEF ApartInv
  <1>2. CASE u # t /\ v # t
    BY <1>1, <1>2 DEF StaticInv, ApartInv
  <1>3. CASE u = t
    <2>1. v # t /\ j \in DOMAIN stack[v] /\ stack'[v][j] = stack[v][j]
      BY <1>1, <1>3
    <2>2. CASE i = n
      BY <1>1, <1>3, <2>1, <2>2
    <2>3. CASE i # n
      BY <1>1, <1>3, <2>1, <2>3 DEF StaticInv, ApartInv
    <2>4. QED  BY <2>2, <2>3
  <1>4. CASE v = t
    <2>1. u # t /\ i \in DOMAIN stack[u] /\ stack'[u][i] = stack[u][i]
      BY <1>1, <1>4
    <2>2. CASE j = n
      BY <1>1, <1>4, <2>1, <2>2
    <2>3. CASE j # n
      BY <1>1, <1>4, <2>1, <2>3 DEF StaticInv, ApartInv
    <2>4. QED  BY <2>2, <2>3
  <1>5. QED  BY <1>2, <1>3, <1>4

LEMMA PopApart ==
  ASSUME StaticInv, NEW t \in Threads, stack[t] # <<>>, Pop(t)
  PROVE  ApartInv'
  <1>1. \A u \in Threads : \A i \in DOMAIN stack'[u] :
          i \in DOMAIN stack[u] /\ stack'[u][i] = stack[u][i]
    BY PopKeeps
  <1>2. QED  BY <1>1 DEF StaticInv, ApartInv

LEMMA GuardBeginKeeps ==
  ASSUME StaticInv, fatal = NoFailure, NEW t \in Threads, GuardBegin(t)
  PROVE  StaticInv'
  <1> DEFINE n == Len(stack[t]) + 1
             x == target[t]
  <1>1. /\ pc[t] = "check" /\ pc'[t] = "user" /\ in_progress' = in_progress \cup {x}
        /\ x \notin in_progress /\ x \notin initialized
        /\ \A u \in Threads : u # t => pc'[u] = pc[u] /\ target'[u] = target[u]
        /\ UNCHANGED <<initialized, owner, count, state, fatal>>
    BY DEF StaticInv, TypeOK, GoTo, GuardBegin, AlreadyInitialized
  <1>2. \A u \in Threads : PlaceOK(u) /\ MutexOK(u) /\ NestOK(u)
    BY OfThread
  <1>3. x \in Guards /\ owner = t /\ t # None
    BY <1>1, <1>2, OfThread DEF PlaceOK, MutexOK
  <1>4. /\ stack' \in [Threads -> Seq(Guards \cup Onces)] /\ stack'[t] = Append(stack[t], x)
        /\ DOMAIN stack'[t] = DOMAIN stack[t] \cup {n} /\ n \notin DOMAIN stack[t]
        /\ stack'[t][n] = x /\ Len(stack'[t]) = n
        /\ \A i \in DOMAIN stack[t] : stack'[t][i] = stack[t][i]
        /\ \A u \in Threads : u # t => stack'[u] = stack[u]
    BY <1>3, PushKeeps DEF GuardBegin
  <1> HIDE DEF x, n
  <1>5. \A u \in Threads : \A i \in DOMAIN stack[u] : stack[u][i] # x
    <2> SUFFICES ASSUME NEW u \in Threads, NEW i \in DOMAIN stack[u], stack[u][i] = x
                 PROVE  FALSE
      OBVIOUS
    <2>1. CASE u = t
      BY <1>1, <1>2, <1>3, <2>1 DEF NestOK
    <2>2. CASE u # t
      BY <1>2, <1>3, <2>2 DEF MutexOK, GuardsOn
    <2>3. QED  BY <2>1, <2>2
  <1>6. TypeOK'
    BY <1>1, <1>3, <1>4 DEF StaticInv, TypeOK, GuardBegin, GoTo
  <1>7. PlaceInv'
    <2> SUFFICES ASSUME NEW u \in Threads PROVE PlaceOK(u)'
      BY DEF PlaceInv
    <2>1. CASE u = t
      BY <1>1, <2>1 DEF PlaceOK
    <2>2. CASE u # t
      <3>1. pc[u] \notin {"store", "put"}
        BY <1>2, <1>3, <2>2 DEF MutexOK
      <3>2. QED  BY <1>1, <1>2, <2>2, <3>1 DEF PlaceOK
    <2>3. QED  BY <2>1, <2>2
  <1>8. MutexInv'
    <2>1. Cardinality(GuardsOn(stack'[t])) = Cardinality(GuardsOn(stack[t])) + 1
      BY <1>3, <1>4, OfThread, GuardsPush
    <2>2. count = Cardinality(GuardsOn(stack[t])) + 1 /\ count > 0
      BY <1>1, <1>2, <1>3 DEF MutexOK, Locked
    <2>3. Cardinality(GuardsOn(stack[t])) \in Nat
      BY OfThread
    <2>4. MutexOK(t)'
      BY <1>1, <1>3, <2>1, <2>2, <2>3 DEF MutexOK, Locked
    <2>5. ASSUME NEW u \in Threads, u # t PROVE MutexOK(u)'
      BY <1>1, <1>2, <1>3, <1>4, <2>5 DEF MutexOK
    <2>6. QED  BY <1>1, <1>3, <2>4, <2>5 DEF MutexInv
  <1>9. NestInv'
    <2> SUFFICES ASSUME NEW u \in Threads PROVE NestOK(u)'
      BY DEF NestInv
    <2>1. CASE u = t
      <3>1. \A i \in DOMAIN stack[t] :
              /\ stack[t][i] \in Onces => state[stack[t][i]] = 1
              /\ stack[t][i] \in Guards => stack[t][i] \in in_progress
              /\ stack[t][i] \notin initialized
        BY <1>1, <1>2 DEF NestOK
      <3>2. x \notin Onces
        BY <1>3, StaticInitAssumption
      <3>3. \A i, j \in DOMAIN stack'[t] : stack'[t][i] = stack'[t][j] => i = j
        BY <1>2, <1>4, <1>5 DEF NestOK
      <3>4. \A i \in DOMAIN stack'[t] :
              /\ stack'[t][i] \in Onces => state[stack'[t][i]] = 1
              /\ stack'[t][i] \in Guards => stack'[t][i] \in in_progress'
              /\ stack'[t][i] \notin initialized
        BY <1>1, <1>4, <3>1, <3>2
      <3>5. QED  BY <1>1, <2>1, <3>3, <3>4 DEF NestOK
    <2>2. CASE u # t
      BY <1>1, <1>2, <1>4, <2>2 DEF NestOK
    <2>3. QED  BY <2>1, <2>2
  <1>10. ProgressInv'
    <2> SUFFICES ASSUME NEW g \in in_progress'
                 PROVE  /\ g \notin initialized
                        /\ \E i \in DOMAIN stack'[t] : stack'[t][i] = g
      BY <1>1, <1>3 DEF ProgressInv
    <2>1. CASE g = x
      BY <1>1, <1>4, <2>1
    <2>2. CASE g \in in_progress
      BY <1>3, <1>4, <2>2 DEF StaticInv, ProgressInv
    <2>3. QED  BY <1>1, <2>1, <2>2
  <1>11. ApartInv'
    BY <1>3, <1>5, PushApart DEF GuardBegin, x
  <1>12. FatalInv'
    BY <1>1 DEF FatalInv
  <1>13. QED
    BY <1>6, <1>7, <1>8, <1>9, <1>10, <1>11, <1>12 DEF StaticInv

LEMMA OnceBeginKeeps ==
  ASSUME StaticInv, fatal = NoFailure, NEW t \in Threads, OnceBegin(t)
  PROVE  StaticInv'
  <1> DEFINE n == Len(stack[t]) + 1
             x == target[t]
  <1>1. /\ pc[t] = "poll" /\ pc'[t] = "user" /\ state[x] = 0
        /\ state' = [state EXCEPT ![x] = 1]
        /\ \A u \in Threads : u # t => pc'[u] = pc[u] /\ target'[u] = target[u]
        /\ UNCHANGED <<initialized, in_progress, owner, count, fatal>>
    BY DEF StaticInv, TypeOK, GoTo, OnceBegin, MayRun, guardVars
  <1>2. \A u \in Threads : PlaceOK(u) /\ MutexOK(u) /\ NestOK(u)
    BY OfThread
  <1>3. x \in Onces /\ x \notin Guards
    BY <1>1, <1>2, StaticInitAssumption DEF PlaceOK
  <1>4. /\ stack' \in [Threads -> Seq(Guards \cup Onces)] /\ stack'[t] = Append(stack[t], x)
        /\ DOMAIN stack'[t] = DOMAIN stack[t] \cup {n} /\ n \notin DOMAIN stack[t]
        /\ stack'[t][n] = x
        /\ \A i \in DOMAIN stack[t] : stack'[t][i] = stack[t][i]
        /\ \A u \in Threads : u # t => stack'[u] = stack[u]
    BY <1>3, PushKeeps DEF OnceBegin
  <1>5. \A u \in Threads : \A i \in DOMAIN stack[u] : stack[u][i] # x
    BY <1>1, <1>2, <1>3 DEF NestOK
  <1>6. ApartInv'
    BY <1>3, <1>5, PushApart DEF OnceBegin
  <1> HIDE DEF x, n
  <1>7. /\ state' \in [Onces -> 0 .. 2] /\ state'[x] = 1
        /\ \A o \in Onces : o # x => state'[o] = state[o]
    BY <1>1, <1>3 DEF StaticInv, TypeOK
  <1>8. TypeOK'
    BY <1>1, <1>4, <1>7 DEF StaticInv, TypeOK, OnceBegin, GoTo
  <1>9. PlaceInv'
    BY <1>1, <1>2, <1>4 DEF PlaceInv, PlaceOK, Innermost
  <1>10. MutexInv'
    <2>1. GuardsOn(stack'[t]) = GuardsOn(stack[t])
      BY <1>3, <1>4, OfThread, GuardsPush
    <2>2. MutexOK(t)'
      BY <1>1, <1>2, <2>1 DEF MutexOK, Locked
    <2>3. ASSUME NEW u \in Threads, u # t PROVE MutexOK(u)'
      BY <1>1, <1>2, <1>4, <2>3 DEF MutexOK, Locked
    <2>4. QED  BY <1>1, <2>2, <2>3 DEF StaticInv, MutexInv
  <1>11. NestInv'
    <2> SUFFICES ASSUME NEW u \in Threads PROVE NestOK(u)'
      BY DEF NestInv
    <2>1. CASE u = t
      <3>1. \A i \in DOMAIN stack[t] :
              /\ stack[t][i] \in Onces => state'[stack[t][i]] = 1
              /\ stack[t][i] \in Guards => stack[t][i] \in in_progress
              /\ stack[t][i] \notin initialized
        BY <1>1, <1>2, <1>5, <1>7 DEF NestOK
      <3>2. x \notin initialized
        BY <1>3 DEF StaticInv, TypeOK
      <3>3. \A i, j \in DOMAIN stack'[t] : stack'[t][i] = stack'[t][j] => i = j
        BY <1>2, <1>4, <1>5 DEF NestOK
      <3>4. \A i \in DOMAIN stack'[t] :
              /\ stack'[t][i] \in Onces => state'[stack'[t][i]] = 1
              /\ stack'[t][i] \in Guards => stack'[t][i] \in in_progress
              /\ stack'[t][i] \notin initialized
        BY <1>3, <1>4, <1>7, <3>1, <3>2
      <3>5. QED  BY <1>1, <2>1, <3>3, <3>4 DEF NestOK
    <2>2. CASE u # t
      BY <1>1, <1>2, <1>4, <1>5, <1>7, <2>2 DEF NestOK
    <2>3. QED  BY <2>1, <2>2
  <1>12. ProgressInv'
    <2> SUFFICES ASSUME NEW g \in in_progress
                 PROVE  /\ g \notin initialized /\ owner # None
                        /\ \E i \in DOMAIN stack'[owner] : stack'[owner][i] = g
      BY <1>1 DEF ProgressInv
    <2>1. g \notin initialized /\ owner \in Threads
      BY DEF StaticInv, TypeOK, ProgressInv
    <2>2. PICK i \in DOMAIN stack[owner] : stack[owner][i] = g
      BY DEF StaticInv, ProgressInv
    <2>3. i \in DOMAIN stack'[owner] /\ stack'[owner][i] = g
      BY <1>4, <2>1, <2>2
    <2>4. QED  BY <2>1, <2>3, FirstUseAssumption
  <1>13. FatalInv'
    BY <1>1 DEF FatalInv
  <1>14. QED
    BY <1>6, <1>8, <1>9, <1>10, <1>11, <1>12, <1>13 DEF StaticInv

\* A once function ends: it returns, or it throws and the flag is put back.
LEMMA OnceEndsKeeps ==
  ASSUME StaticInv, fatal = NoFailure, NEW t \in Threads, NEW after \in {0, 2},
         Running(t, Onces), state' = [state EXCEPT ![Innermost(t)] = after], Pop(t),
         UNCHANGED <<initialized, in_progress, owner, count, pc, target, fatal>>
  PROVE  StaticInv'
  <1> DEFINE n == Len(stack[t])
             x == Innermost(t)
  <1>1. pc[t] = "user" /\ stack[t] # <<>> /\ x \in Onces /\ x \notin Guards
    BY StaticInitAssumption DEF Running
  <1>2. \A u \in Threads : PlaceOK(u) /\ MutexOK(u) /\ NestOK(u)
    BY OfThread
  <1>3. /\ stack' \in [Threads -> Seq(Guards \cup Onces)] /\ stack'[t] = SubSeq(stack[t], 1, n - 1)
        /\ n \in DOMAIN stack[t] /\ DOMAIN stack'[t] = DOMAIN stack[t] \ {n}
        /\ stack[t][n] = x
        /\ \A i \in DOMAIN stack'[t] : stack'[t][i] = stack[t][i]
        /\ \A u \in Threads : u # t => stack'[u] = stack[u]
    BY <1>1, PopKeeps DEF Innermost
  <1>4. ApartInv'
    BY <1>1, PopApart
  <1>5. /\ \A i \in DOMAIN stack'[t] : stack[t][i] # x
        /\ \A u \in Threads : u # t => \A i \in DOMAIN stack[u] : stack[u][i] # x
    BY <1>2, <1>3 DEF NestOK, StaticInv, ApartInv
  <1>6. MutexInv'
    <2>1. GuardsOn(stack'[t]) = GuardsOn(stack[t])
      BY <1>1, <1>3, OfThread, GuardsPop
    <2>2. MutexOK(t)'
      BY <1>2, <2>1 DEF MutexOK, Locked
    <2>3. ASSUME NEW u \in Threads, u # t PROVE MutexOK(u)'
      BY <1>2, <1>3, <2>3 DEF MutexOK, Locked
    <2>4. QED  BY <2>2, <2>3 DEF StaticInv, MutexInv
  <1>7. PlaceInv'
    BY <1>1, <1>2, <1>3 DEF PlaceInv, PlaceOK, Innermost
  <1> HIDE DEF x, n
  <1>8. /\ state' \in [Onces -> 0 .. 2]
        /\ \A o \in Onces : o # x => state'[o] = state[o]
    BY <1>1 DEF StaticInv, TypeOK, x
  <1>9. TypeOK'
    BY <1>3, <1>8 DEF StaticInv, TypeOK
  <1>10. NestInv'
    <2> SUFFICES ASSUME NEW u \in Threads PROVE NestOK(u)'
      BY DEF NestInv
    <2>1. CASE u = t
      <3>1. \A i \in DOMAIN stack'[t] :
              /\ stack[t][i] \in Onces => state'[stack[t][i]] = 1
              /\ stack[t][i] \in Guards => stack[t][i] \in in_progress
              /\ stack[t][i] \notin initialized
        BY <1>1, <1>2, <1>3, <1>5, <1>8 DEF NestOK
      <3>2. ASSUME NEW i \in DOMAIN stack'[t], NEW j \in DOMAIN stack'[t],
                   stack'[t][i] = stack'[t][j]
            PROVE  i = j
        <4>1. /\ i \in DOMAIN stack[t] /\ j \in DOMAIN stack[t]
              /\ stack[t][i] = stack[t][j]
          BY <1>3, <3>2
        <4>2. QED  BY <1>2, <4>1 DEF NestOK
      <3>3. QED  BY <1>1, <1>3, <2>1, <3>1, <3>2 DEF NestOK
    <2>2. CASE u # t
      BY <1>2, <1>3, <1>5, <1>8, <2>2 DEF NestOK
    <2>3. QED  BY <2>1, <2>2
  <1>11. ProgressInv'
    <2> SUFFICES ASSUME NEW g \in in_progress
                 PROVE  /\ g \notin initialized /\ owner # None
                        /\ \E i \in DOMAIN stack'[owner] : stack'[owner][i] = g
      BY DEF ProgressInv
    <2>1. g \notin initialized /\ owner \in Threads /\ g # x
      BY <1>1 DEF StaticInv, TypeOK, ProgressInv
    <2>2. PICK i \in DOMAIN stack[owner] : stack[owner][i] = g
      BY DEF StaticInv, ProgressInv
    <2>3. i \in DOMAIN stack'[owner] /\ stack'[owner][i] = g
      BY <1>3, <2>1, <2>2
    <2>4. QED  BY <2>1, <2>3, FirstUseAssumption
  <1>12. FatalInv'
    BY DEF FatalInv
  <1>13. QED
    BY <1>4, <1>6, <1>7, <1>9, <1>10, <1>11, <1>12 DEF StaticInv

LEMMA GuardPutKeeps ==
  ASSUME StaticInv, fatal = NoFailure, NEW t \in Threads, GuardPut(t)
  PROVE  StaticInv'
  <1> DEFINE n == Len(stack[t])
             x == Innermost(t)
  <1>1. /\ pc[t] = "put" /\ pc'[t] = "user"
        /\ \A u \in Threads : u # t => pc'[u] = pc[u]
        /\ UNCHANGED <<initialized, in_progress, state, target, fatal>>
        /\ count' = count - 1 /\ owner' = IF count = 1 THEN None ELSE owner
    BY DEF StaticInv, TypeOK, GoTo, GuardPut, MutexPut
  <1>2. \A u \in Threads : PlaceOK(u) /\ MutexOK(u) /\ NestOK(u)
    BY OfThread
  <1>3. stack[t] # <<>> /\ x \in Guards /\ x \notin in_progress
    BY <1>1, <1>2 DEF PlaceOK
  <1>4. /\ stack' \in [Threads -> Seq(Guards \cup Onces)] /\ stack'[t] = SubSeq(stack[t], 1, n - 1)
        /\ n \in DOMAIN stack[t] /\ DOMAIN stack'[t] = DOMAIN stack[t] \ {n}
        /\ stack[t][n] = x
        /\ \A i \in DOMAIN stack'[t] : stack'[t][i] = stack[t][i]
        /\ \A u \in Threads : u # t => stack'[u] = stack[u]
    BY <1>3, PopKeeps DEF Innermost, GuardPut
  <1>5. ApartInv'
    BY <1>3, PopApart DEF GuardPut
  <1>6. /\ owner = t /\ t # None /\ count = Cardinality(GuardsOn(stack[t])) /\ count > 0
        /\ Cardinality(GuardsOn(stack[t])) \in Nat
    BY <1>1, <1>2, OfThread DEF MutexOK, Locked
  <1>7. Cardinality(GuardsOn(stack'[t])) = Cardinality(GuardsOn(stack[t])) - 1
    BY <1>3, <1>4, OfThread, GuardsPop
  <1>8. count' = Cardinality(GuardsOn(stack'[t])) /\ count' \in Nat
    BY <1>1, <1>6, <1>7
  <1>9. count = 1 => GuardsOn(stack'[t]) = {}
    <2>1. IsFiniteSet(GuardsOn(stack'[t]))
      BY <1>4, GuardsFinite
    <2>2. QED  BY <1>6, <1>7, <2>1, FS_EmptySet
  <1> HIDE DEF x, n
  <1>10. TypeOK'
    BY <1>1, <1>4, <1>6, <1>8 DEF StaticInv, TypeOK, GuardPut, GoTo
  <1>11. PlaceInv'
    BY <1>1, <1>2, <1>4 DEF PlaceInv, PlaceOK, Innermost
  <1>12. MutexInv'
    <2>1. MutexOK(t)'
      <3>1. CASE count = 1
        BY <1>1, <1>6, <1>9, <3>1 DEF MutexOK
      <3>2. CASE count # 1
        BY <1>1, <1>6, <1>8, <3>2 DEF MutexOK, Locked
      <3>3. QED  BY <3>1, <3>2
    <2>2. ASSUME NEW u \in Threads, u # t PROVE MutexOK(u)'
      <3>1. owner # u /\ owner' # u /\ pc'[u] = pc[u] /\ stack'[u] = stack[u]
        BY <1>1, <1>4, <1>6, <2>2, FirstUseAssumption
      <3>2. QED  BY <1>2, <2>2, <3>1 DEF MutexOK
    <2>3. QED  BY <1>1, <1>6, <2>1, <2>2 DEF MutexInv
  <1>13. NestInv'
    <2> SUFFICES ASSUME NEW u \in Threads PROVE NestOK(u)'
      BY DEF NestInv
    <2>1. CASE u = t
      <3>1. \A i \in DOMAIN stack'[t] :
              /\ stack[t][i] \in Onces => state[stack[t][i]] = 1
              /\ stack[t][i] \in Guards => stack[t][i] \in in_progress
              /\ stack[t][i] \notin initialized
        BY <1>2, <1>4 DEF NestOK, n
      <3>2. ASSUME NEW i \in DOMAIN stack'[t], NEW j \in DOMAIN stack'[t],
                   stack'[t][i] = stack'[t][j]
            PROVE  i = j
        <4>1. /\ i \in DOMAIN stack[t] /\ j \in DOMAIN stack[t]
              /\ stack[t][i] = stack[t][j]
          BY <1>4, <3>2
        <4>2. QED  BY <1>2, <4>1 DEF NestOK
      <3>3. QED  BY <1>1, <1>4, <2>1, <3>1, <3>2 DEF NestOK
    <2>2. CASE u # t
      BY <1>1, <1>2, <1>4, <2>2 DEF NestOK
    <2>3. QED  BY <2>1, <2>2
  <1>14. ProgressInv'
    <2> SUFFICES ASSUME NEW g \in in_progress
                 PROVE  /\ g \notin initialized /\ owner' = t
                        /\ \E i \in DOMAIN stack'[t] : stack'[t][i] = g
      BY <1>1, <1>6 DEF ProgressInv
    <2>1. g \notin initialized /\ g \in Guards /\ g # x
      BY <1>3 DEF StaticInv, TypeOK, ProgressInv
    <2>2. PICK i \in DOMAIN stack[t] : stack[t][i] = g
      BY <1>6 DEF StaticInv, ProgressInv
    <2>3. i \in DOMAIN stack'[t] /\ stack'[t][i] = g
      BY <1>4, <2>1, <2>2
    <2>4. owner' = t
      BY <1>1, <1>6, <1>9, <2>1, <2>3 DEF GuardsOn
    <2>5. QED  BY <2>1, <2>3, <2>4
  <1>15. FatalInv'
    BY <1>1 DEF FatalInv
  <1>16. QED
    BY <1>5, <1>10, <1>11, <1>12, <1>13, <1>14, <1>15 DEF StaticInv

\* The inductive invariant of statics and call_onces holds of every behaviour, for any
\* number of threads, statics and once_flags, and however deep they nest.
THEOREM StaticInvariant == Spec => []StaticInv
  <1>1. StaticInv /\ [Next]_vars => StaticInv'
    <2> SUFFICES ASSUME StaticInv, [Next]_vars PROVE StaticInv'
      OBVIOUS
    <2>1. CASE UNCHANGED vars
      <3>1. UNCHANGED <<initialized, in_progress, owner, count, state, stack, pc, target, fatal>>
        BY <2>1 DEF vars, guardVars
      <3>2. TypeOK' /\ PlaceInv' /\ MutexInv'
        BY <3>1 DEF StaticInv, TypeOK, PlaceInv, PlaceOK, MutexInv, MutexOK, Locked, Innermost
      <3>3. NestInv' /\ ProgressInv' /\ ApartInv' /\ FatalInv'
        BY <3>1 DEF StaticInv, NestInv, NestOK, ProgressInv, ApartInv, FatalInv
      <3>4. QED  BY <3>2, <3>3 DEF StaticInv
    <2>2. ASSUME NEW t \in Threads, NEW g \in Guards, GuardAcquire(t, g)
          PROVE  StaticInv'
      BY <2>2, GuardAcquireKeeps
    <2>3. ASSUME NEW t \in Threads, NEW o \in Onces, OnceCall(t, o)
          PROVE  StaticInv'
      BY <2>3, OnceCallKeeps
    <2>4. ASSUME NEW t \in Threads, fatal = NoFailure, Step(t)
          PROVE  StaticInv'
      <3>1. CASE GuardReturns(t)
        BY <3>1, GuardEndsKeeps DEF GuardReturns
      <3>2. CASE OnceReturns(t)
        BY <2>4, <3>2, OnceEndsKeeps DEF OnceReturns, guardVars
      <3>3. QED
        BY <2>4, <3>1, <3>2, GuardLockKeeps, GuardDoneKeeps, GuardRecursionKeeps,
           GuardBeginKeeps, GuardStoreKeeps, GuardPutKeeps, OnceBeginKeeps, OnceDoneKeeps
        DEF Step
    <2>5. ASSUME NEW t \in Threads, GuardThrows(t)
          PROVE  StaticInv'
      BY <2>5, GuardEndsKeeps DEF GuardThrows
    <2>6. ASSUME NEW t \in Threads, fatal = NoFailure, OnceThrows(t)
          PROVE  StaticInv'
      BY <2>6, OnceEndsKeeps DEF OnceThrows, AfterThrow, guardVars
    <2>7. QED  BY <2>1, <2>2, <2>3, <2>4, <2>5, <2>6 DEF Next
  <1>2. QED  BY <1>1, StaticInitially, PTL DEF Spec

\* Two threads never initialize the same static or run the same once function, none does it
\* again once it is done, and guard_failure meets true recursion only (__cxa_guard_acquire,
\* once): for every number of threads and every nesting.
THEOREM StaticsInitializeOnce == Spec => []InitializedOnce
  <1>1. StaticInv => InitializedOnce
    <2> SUFFICES ASSUME StaticInv PROVE InitializedOnce
      OBVIOUS
    <2>1. fatal # NoFailure => fatal[2] \in Initializing(fatal[1])
      BY DEF StaticInv, FatalInv, Initializing
    <2>2. ASSUME NEW t \in Threads, NEW u \in Threads, t # u
          PROVE  Initializing(t) \cap Initializing(u) = {}
      BY <2>2 DEF StaticInv, ApartInv, Initializing
    <2>3. ASSUME NEW t \in Threads, NEW g \in initialized, g \in Initializing(t)
          PROVE  pc[t] = "put" /\ Innermost(t) = g
      BY <2>3 DEF StaticInv, NestInv, NestOK, Initializing, Innermost
    <2>4. ASSUME NEW t \in Threads, NEW o \in Onces, state[o] = 2
          PROVE  o \notin Initializing(t)
      BY <2>4 DEF StaticInv, NestInv, NestOK, Initializing
    <2>5. QED  BY <2>1, <2>2, <2>3, <2>4 DEF InitializedOnce
  <1>2. QED  BY <1>1, StaticInvariant, PTL

\* Every set of threads that wait for each other holds one that polls a once_flag inside a
\* static's initializer, or all are once functions: the owner of the recursive mutex never
\* waits for it, so a cycle through the mutex goes on through a call_once of its owner.
THEOREM StandstillNeedsOnce == Spec => []StandstillHoldsGuardMutex
  <1>1. StandstillHoldsGuardMutex
    <2> SUFFICES ASSUME NEW S \in SUBSET Threads, \A t \in S : \E u \in S : WaitsFor(t, u),
                        NEW t \in S, pc[t] # "poll"
                 PROVE  \E u \in S : PollsInInitializer(u)
      BY DEF StandstillHoldsGuardMutex
    <2>1. owner \in S
      BY DEF WaitsFor
    <2>2. pc[owner] = "poll"
      BY <2>1 DEF WaitsFor, CanLock
    <2>3. QED  BY <2>1, <2>2 DEF PollsInInitializer
  <1>2. QED  BY <1>1, PTL

=============================================================================
