------------------------------ MODULE LibcLocks ------------------------------
(***************************************************************************)
(* newlib's locks (platform/runtime/libc/libc.c): dynamic locks come from  *)
(* a pool that only grows; a closed lock is given out again.               *)
(*                                                                         *)
(* Global constructors already make, use and close locks.  ThreadX mutexes *)
(* cannot be created then: runtime_libc_initialize does it for the locks   *)
(* that exist, when the kernel is entered.  Startup code and, later, the   *)
(* threads run the same functions; only threads lock.                      *)
(***************************************************************************)
EXTENDS Naturals, Sequences, FiniteSets

CONSTANTS
  Startup,     \* the execution before the scheduler starts
  LibcThreads,
  MaxLocks     \* bound on the locks in the pool

VARIABLES
  phase,               \* constructors, define (tx_application_define) or threads
  libc_locks_ready,
  dynamic_locks,       \* the pool, oldest first; the code's list is newest first
  dynamic_pool_mutex,  \* its owner
  held,                \* per lock: the owner and count of its ThreadX mutex
  handles,             \* history: how many open handles stand for each lock
  libc_call,           \* per execution: where it is, and its lock
  libc_failure         \* why libc_lock_failure was called

poolVars == <<dynamic_locks, held, handles>>
libcVars == <<phase, libc_locks_ready, poolVars, dynamic_pool_mutex, libc_call, libc_failure>>

NoOwner == "none"
Free == [owner |-> NoOwner, count |-> 0]
NotCalling == [at |-> "user", lock |-> 0]

CallTo(t, place, lock) == libc_call' = [libc_call EXCEPT ![t] = [at |-> place, lock |-> lock]]
Return(t) == libc_call' = [libc_call EXCEPT ![t] = NotCalling]

\* Startup code ends where the threads begin.
Executing(t) == libc_failure = "none" /\ (phase = "threads" <=> t \in LibcThreads)
InUser(t) == Executing(t) /\ libc_call[t] = NotCalling

\* tx_thread_identify is null before the scheduler starts.
locking_required(t) == t # Startup

-----------------------------------------------------------------------------
(* Initialization *)

\* Mutant: closed locks are thought to need no mutex.
Deferred_OpenOnly(lock) == lock.allocated

\* Every lock in the pool gets its mutex, the closed ones included.
Deferred(lock) == TRUE

\* runtime_libc_initialize; a mutex that cannot be created is fatal.
LibcInitialize ==
  /\ ~libc_locks_ready
  /\ dynamic_locks' = [i \in DOMAIN dynamic_locks |->
                         [dynamic_locks[i] EXCEPT !.created = @ \/ Deferred(dynamic_locks[i])]]
  /\ libc_locks_ready' = TRUE
  /\ UNCHANGED <<held, handles, dynamic_pool_mutex, libc_call, libc_failure>>

-----------------------------------------------------------------------------
(* __retarget_lock_init and __retarget_lock_close *)

LockInit(t) ==
  /\ InUser(t)
  /\ CallTo(t, "pool for init", 0)
  /\ UNCHANGED <<phase, libc_locks_ready, poolVars, dynamic_pool_mutex, libc_failure>>

\* Its handle is closed by whoever has it, when nobody holds the lock.
LockClose(t, i) ==
  /\ InUser(t)
  /\ handles[i] > 0 /\ held[i] = Free
  /\ \A u \in LibcThreads : libc_call[u].lock # i
  /\ handles' = [handles EXCEPT ![i] = @ - 1]
  /\ CallTo(t, "pool for close", i)
  /\ UNCHANGED <<phase, libc_locks_ready, dynamic_locks, held, dynamic_pool_mutex, libc_failure>>

PoolIsFree(t) == locking_required(t) => dynamic_pool_mutex = NoOwner

lock_dynamic_pool(t) ==
  /\ Executing(t) /\ libc_call[t].at \in {"pool for init", "pool for close"}
  /\ PoolIsFree(t)
  /\ dynamic_pool_mutex' = IF locking_required(t) THEN t ELSE dynamic_pool_mutex
  /\ CallTo(t, IF libc_call[t].at = "pool for init" THEN "search" ELSE "mark", libc_call[t].lock)
  /\ UNCHANGED <<phase, libc_locks_ready, poolVars, libc_failure>>

unlock_dynamic_pool(t) ==
  /\ Executing(t) /\ libc_call[t].at = "unlock"
  /\ dynamic_pool_mutex' = NoOwner
  /\ Return(t)
  /\ UNCHANGED <<phase, libc_locks_ready, poolVars, libc_failure>>

Closed == {i \in DOMAIN dynamic_locks : ~dynamic_locks[i].allocated}

\* The loop stops at the first closed lock of the list.
SearchFinds(t) ==
  /\ Executing(t) /\ libc_call[t].at = "search"
  /\ \E i \in Closed :
       /\ \A j \in Closed : j <= i
       /\ CallTo(t, "take", i)
  /\ UNCHANGED <<phase, libc_locks_ready, poolVars, dynamic_pool_mutex, libc_failure>>

Take(t) ==
  LET i == libc_call[t].lock
  IN  /\ Executing(t) /\ libc_call[t].at = "take"
      /\ dynamic_locks' = [dynamic_locks EXCEPT ![i].allocated = TRUE]
      /\ handles' = [handles EXCEPT ![i] = @ + 1]
      /\ CallTo(t, "unlock", 0)
      /\ UNCHANGED <<phase, libc_locks_ready, held, dynamic_pool_mutex, libc_failure>>

\* No closed lock: one is allocated and, if mutexes can be created already, created;
\* otherwise it is the end.
NewLock(t) ==
  /\ Executing(t) /\ libc_call[t].at = "search"
  /\ Closed = {} /\ Len(dynamic_locks) < MaxLocks
  /\ \/ /\ dynamic_locks' = Append(dynamic_locks,
                                   [allocated |-> TRUE, created |-> libc_locks_ready])
        /\ held' = Append(held, Free) /\ handles' = Append(handles, 1)
        /\ CallTo(t, "unlock", 0)
        /\ UNCHANGED libc_failure
     \/ /\ libc_failure' = "creation"
        /\ UNCHANGED <<poolVars, libc_call>>
  /\ UNCHANGED <<phase, libc_locks_ready, dynamic_pool_mutex>>

MarkClosed(t) ==
  /\ Executing(t) /\ libc_call[t].at = "mark"
  /\ dynamic_locks' = [dynamic_locks EXCEPT ![libc_call[t].lock].allocated = FALSE]
  /\ CallTo(t, "unlock", 0)
  /\ UNCHANGED <<phase, libc_locks_ready, held, handles, dynamic_pool_mutex, libc_failure>>

-----------------------------------------------------------------------------
(* Acquire, try and release; of startup code they do nothing *)

\* A lock without a mutex, and locking before the locks are ready, are fatal.
Usable(i) == libc_locks_ready /\ dynamic_locks[i].created

LockFails(t, i) ==
  /\ InUser(t) /\ locking_required(t) /\ handles[i] > 0
  /\ ~Usable(i)
  /\ libc_failure' = "use"
  /\ UNCHANGED <<phase, libc_locks_ready, poolVars, dynamic_pool_mutex, libc_call>>

\* acquire_libc_lock waits for it; try_acquire_libc_lock does nothing if it is not free.
Acquire(t, i) ==
  /\ InUser(t) /\ locking_required(t) /\ handles[i] > 0
  /\ Usable(i)
  /\ held[i].owner \in {NoOwner, t} /\ held[i].count < 2
  /\ held' = [held EXCEPT ![i] = [owner |-> t, count |-> @.count + 1]]
  /\ UNCHANGED <<phase, libc_locks_ready, dynamic_locks, handles, dynamic_pool_mutex,
                 libc_call, libc_failure>>

Release(t, i) ==
  /\ InUser(t) /\ locking_required(t) /\ held[i].owner = t
  /\ held' = [held EXCEPT ![i] = IF @.count = 1 THEN Free ELSE [@ EXCEPT !.count = @ - 1]]
  /\ UNCHANGED <<phase, libc_locks_ready, dynamic_locks, handles, dynamic_pool_mutex,
                 libc_call, libc_failure>>

-----------------------------------------------------------------------------

LibcInit ==
  /\ phase = "constructors" /\ libc_locks_ready = FALSE
  /\ dynamic_locks = <<>> /\ held = <<>> /\ handles = <<>>
  /\ dynamic_pool_mutex = NoOwner
  /\ libc_call = [t \in LibcThreads \cup {Startup} |-> NotCalling]
  /\ libc_failure = "none"

LibcNext ==
  \E t \in LibcThreads \cup {Startup} :
    \/ LockInit(t) \/ lock_dynamic_pool(t) \/ SearchFinds(t) \/ Take(t) \/ NewLock(t)
    \/ MarkClosed(t) \/ unlock_dynamic_pool(t)
    \/ \E i \in DOMAIN dynamic_locks :
         LockClose(t, i) \/ LockFails(t, i) \/ Acquire(t, i) \/ Release(t, i)

-----------------------------------------------------------------------------

\* libc_lock_failure is called only if a mutex cannot be created: locks that constructors
\* made, and closed, work when threads are given them, and no thread comes too early.  No
\* two of newlib's locks are one mutex, although several threads search the pool.
LocksWork ==
  /\ libc_failure # "use"
  /\ \A i \in DOMAIN handles :
       handles[i] <= 1 /\ (handles[i] = 1 => dynamic_locks[i].allocated)

-----------------------------------------------------------------------------
(* Inductive invariants *)

Executions == LibcThreads \cup {Startup}
Locks == [allocated : BOOLEAN, created : BOOLEAN]
LibcPlaces == {"user", "pool for init", "pool for close", "search", "take", "mark", "unlock"}
LibcCalls == [at : LibcPlaces, lock : Nat]

LibcTypeOK ==
  /\ phase \in {"constructors", "define", "threads"} /\ libc_locks_ready \in BOOLEAN
  /\ dynamic_locks \in Seq(Locks) /\ handles \in Seq(Nat)
  /\ Len(dynamic_locks) = Len(handles)
  /\ libc_call \in [Executions -> LibcCalls]

InPool(t) == libc_call[t].at \in {"search", "take", "mark", "unlock"}
Closing(t) == libc_call[t].at \in {"pool for close", "mark"}

\* Startup code and threads are never both inside a call, and of the threads the owner of
\* the mutex alone is in the pool.
PoolOK(t) ==
  /\ libc_call[t].at # "user" => (phase = "threads" <=> t \in LibcThreads)
  /\ t \in LibcThreads /\ InPool(t) => dynamic_pool_mutex = t
  /\ libc_call[t].at = "user" => libc_call[t] = NotCalling

\* A lock being closed, or found closed, has no open handle; only a closed one is unmarked.
LockOK(t) ==
  LET i == libc_call[t].lock
  IN  /\ Closing(t) => i \in DOMAIN handles /\ handles[i] = 0 /\ dynamic_locks[i].allocated
      /\ libc_call[t].at = "take" => i \in DOMAIN handles /\ ~dynamic_locks[i].allocated

\* Mutexes exist for all locks once the kernel is entered, and so before a thread runs.
ReadyInv ==
  /\ phase # "constructors" => libc_locks_ready
  /\ libc_locks_ready => \A i \in DOMAIN dynamic_locks : dynamic_locks[i].created

HandleInv ==
  \A i \in DOMAIN handles : handles[i] <= 1 /\ (handles[i] = 1 => dynamic_locks[i].allocated)

ClosingInv ==
  \A t, u \in Executions :
    Closing(t) /\ Closing(u) /\ libc_call[t].lock = libc_call[u].lock => t = u

PoolInv == \A t \in Executions : PoolOK(t)
LockInv == \A t \in Executions : LockOK(t)

LibcInv ==
  /\ LibcTypeOK /\ ReadyInv /\ HandleInv /\ ClosingInv /\ PoolInv /\ LockInv
  /\ libc_failure # "use"
=============================================================================
