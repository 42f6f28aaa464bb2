# A TLA+ model of the SimPLCity runtime

SimPLCity is a C++ runtime for a PLC-like controller: the standard library's
threads, mutexes, condition variables, clocks and files on ThreadX, FileX and
LevelX, with a hardware abstraction layer for an STM32H753 and a Linux
simulation. This directory holds TLA+ modules translated from the source, TLC
configurations that check them on small instances, and TLAPS proofs that hold for
every instance. `PROJECT.json` lists the components, the runs, the mutants that
show that each property can fail, the map from definitions to source lines, the
hazards and the theorems.

## 1. Inventory

Paths are relative to the repository. `backend.cpp` is
`platform/runtime/libstdcxx/backend.cpp`.

| Component | State | Operations | What is hard |
|---|---|---|---|
| std::thread backend (`backend.cpp`) | `ThreadControl` per thread (completion semaphore, `finished`, `detached`, `cleanup_queued`, `cleanup_ack`), registry list, `cleanup_queue` | `thread_create`, `thread_join`, `thread_detach`, `thread_entry`, `reaper_entry` | Three parties decide who asks for the cleanup; the memory is freed by a fourth while the thread may still run destructors on it |
| Mutex and condition variable backend (`backend.cpp`) | ThreadX mutex, list of waiters on the stacks of waiting threads, one semaphore each | lock, timed lock, try lock, unlock, waits, signal, broadcast, destroy | Timeout or abort against a late notification; an abort while the mutex is locked again; destroying after notify_all; lost wake-ups |
| Lazy native objects (`backend.cpp`) | `implementation` pointer in every handle | `ensure_mutex`, `ensure_condition`, `ensure_semaphore`, semaphore calls, destroy | First use by two threads; creations that fail |
| call_once, static guards (`backend.cpp`, `cxx_guard.cpp`) | a state word; two guard bytes and one global recursive mutex | `once`, `__cxa_guard_acquire/release/abort` | Exceptions while others wait; one mutex held across user code |
| Thread-specific storage (`backend.cpp`, `thread_exit.cpp`) | 16 keys with generations, values per thread, list of exit callbacks | `key_create/delete/get/set`, destructor passes, `__at_thread_exit` | Check under the mutex, use outside it; slot reuse |
| Clocks (`backend.cpp`, `clock.cpp`, `sleep.cpp`) | 64-bit extension of the 32-bit tick, sample of a hardware timer, last published system time | `steady_ticks`, `system_time_nanoseconds`, `wait_until`, `sleep_for` | Two counters that wrap, a timer reprogrammed between two reads, monotonicity under concurrent readers, no early timeout |
| Emulated TLS (`tls.cpp`) | a place per variable, an array and a destructor list per thread | access, registration, adoption of what startup code used, thread exit | First use by two threads; destructors that register destructors |
| Thread factory (`thread.hpp`, `thread.cpp`) | pending attributes of the calling thread | publish, consume | A creation that throws leaves attributes behind |
| Storage media (`storage_media.cpp`) | contents of the NOR flash, mount flags, diagnostics | `initialize` and the drivers below it | Power loss between writes; a fallback with its own error reporting |
| POSIX file layer (`filesystem.cpp`) | 16 descriptors, directories, the working directory | open, read, write, rename, unlink, ... | Rename over an existing file in several steps; two volumes |
| libc locks (`libc.c`) | pool of ThreadX mutexes | acquire, release, init, close | Use before the kernel runs; pool reuse |
| Startup (`startup.cpp`, `initialize` in `backend.cpp`) | the runtime's own ThreadX objects | enter the kernel, define the application, create and roll back | Any creation may fail |
| HAL timer (`impl/linux/Timer.cpp`) | programmed values, start time, a worker thread | start, stop, set, callback, destroy | A callback racing a stop; rounding |
| HAL Ethernet (`impl/linux/Ethernet.cpp`, `impl/stm32/Ethernet.cpp`) | a descriptor under three mutexes; receive slots shared with the DMA | start, stop, transmit, receive, getLinkInfo | Descriptor reuse; a slot lost or held twice |
| HAL GPIO, RTC, RNG, STM32 timer (`platform/hal/drivers/impl`) | registers | set, read, callbacks | an interrupt against a call |
| Application (`src/main.cpp`) | none | a demonstration | straight-line |

Interactions. The standard library calls the backend through the gthread layer.
Every backend call checks `require_thread_context` first. Threads communicate
through ThreadX objects only: a thread's completion semaphore wakes its joiner, the
joiner or the thread itself sends the registry id through `cleanup_queue` to the
reaper, the reaper puts an acknowledgement semaphore that lives on the joiner's
stack. A condition variable's waiters are linked from the stacks of the waiting
threads. `storage::initialize` runs once per boot on the application thread before
any file is opened; FileX and LevelX call its drivers back.

What makes the parts correct:

* a `ThreadControl` and its stack are freed exactly once, after the thread's last
  instruction, and a join returns only after that;
* a notification wakes the longest waiting thread and is not lost to a timeout or an
  abort of the wait for it, waiting is atomic with respect to the user's mutex, and no
  freed waiter is touched;
* no boot destroys what is on the flash, and the diagnostics tell what happened;
* a descriptor stays with the file it was opened on, whatever is renamed or removed
  around it; a rename that fails loses nothing; the working directory exists;
* one run of an initializer at a time and one successful run in all, and a thread
  that waits for it gets past it;
* a value set through a key is only read, and only destroyed, through that key;
* one native object per handle and one place per thread_local variable, whoever
  comes first; the runtime exists as a whole or not at all;
* the end of a thread runs every destructor and notifier once, the notifiers after
  the thread_local objects;
* system_clock stays within a stated error of the true time and never goes back;
  waits do not time out and sleeps do not end early;
* a timer calls back when its counter has overflowed, again and again, and at most
  once after `stop`;
* a socket descriptor in use is still the driver's; a receive slot is in one place.

## 2. Modules

| Module | Models | Composes |
|---|---|---|
| `ThreadContract` | what a std::thread promises: started, exited, reclaimed once, claimed once | |
| `ThreadLifecycle` | `thread_create`, `thread_entry`, `thread_join`, `thread_detach`, `reaper_entry` | implements `ThreadContract` |
| `ThreadLifecycleProofs` | proofs | extends `ThreadLifecycle` |
| `ConditionContract` | an atomic condition variable with its mutex | |
| `ConditionVariable` | the mutex calls, the waits, signal, broadcast, destroy | implements `ConditionContract` |
| `ConditionVariableProofs` | proofs | extends `ConditionVariable` |
| `StorageMount` | `storage::initialize` over power cycles | |
| `StorageMountProofs` | proofs | extends `StorageMount` |
| `FilePaths` | the path functions of `filesystem.cpp` | |
| `Filesystem` | the POSIX file operations over FileX | extends `FilePaths` |
| `FilesystemProofs` | proofs | extends `Filesystem` |
| `StaticInit` | `__cxa_guard_acquire/release/abort` and `once`, nested in each other | |
| `ThreadKeys` | `key_create/delete/get/set` and the destructor passes | |
| `NativeObjects` | `ensure_mutex`, `ensure_condition`, `ensure_semaphore`, the semaphore calls, construction and destruction | |
| `LibcLocks` | newlib's retargetable locks | |
| `RuntimeStartup` | `startup.cpp` and `initialize` | extends `LibcLocks` |
| `ThreadExit` | the end of a thread: thread_local destructors, `__at_thread_exit` callbacks | |
| `EmulatedTls` | `__emutls_get_address` and adoption | |
| `Clock` | tick extension, system_clock, timed waits, sleeps | |
| `LinuxTimer` | the simulated timer and its worker | |
| `Ethernet` | the raw-socket driver of the Linux build | |
| `EthernetDma` | the STM32 driver and its receive slots | |
| `MCThreadLifecycle`, `MCConditionVariable`, `MCStorageMount`, `MCFilesystem` | model values, symmetry and properties only TLC can evaluate | the module of that name |
| `MCFirstUse` | what is made at startup or at its first use | `StaticInit`, `NativeObjects`, `RuntimeStartup` |
| `MCThreadExit` | what ends with a thread | `ThreadKeys`, `ThreadExit`, `EmulatedTls` |
| `MCClock` | one thread over a long time or two over a short one | two instances of `Clock` |
| `MCDevices` | the drivers | `LinuxTimer`, `Ethernet`, `EthernetDma` |
| `FirstUseProofs`, `ThreadExitProofs`, `DevicesProofs` | proofs about the components of that composition | `MCFirstUse`, `MCThreadExit`, `MCDevices` |
| `ClockProofs` | proofs | extends `Clock` |

`MCFirstUse`, `MCThreadExit` and `MCDevices` put components side by side that share
no state: a variable chosen in the initial state says which one is at work in a
behaviour, so that their state spaces add up and are not multiplied.

### ThreadLifecycle

A thread is named by its registry id; `alloc` says whether the memory of its
`ThreadControl` is still owned, and the sets `finished`, `detached` and
`cleanup_queued` are the flags of that name. `phase[t]` is where the thread itself
is, from `ready` (created, `thread_entry` has not looked its control up) to
`completed` (TX_COMPLETED). `pc[c]` is where a client (the application thread or a
std::thread) is inside `thread_create`, `thread_join` or `thread_detach`. Sections
under the `lifecycle_mutex` or the `initialization_mutex` cannot block and are one
step; the wait for completion, the send to the queue and the wait for the
acknowledgement are steps of their own. `UseAfterFree` turns any step that would
touch a freed control into `fatal`, so that `NoFatal` covers memory safety as well
as the `fatal_error` calls.

The constants choose the environment: `DestructorsJoin` lets thread_local
destructors join and detach, `SharedJoin` lets several clients join one handle,
`AckMayFail` lets `tx_semaphore_create` fail in `thread_join`. With `SharedJoin`,
`JoinBegin` stands for a caller that has reached `tx_semaphore_get` with a handle
that is still valid; a call on a freed handle is an error of the caller.

### ConditionVariable

`waiters` is the list from `first` to `last`, `semaphore[t]` the waiter's semaphore
on the stack of `t` (-1 when deleted), `guard` the owner of the condition's own
mutex. The wait is split where the code lets others in: linking the waiter,
unlocking the user's mutex, releasing the condition mutex, sleeping, and the
section that settles a timeout. Calls that change nothing are no steps.
`closing` encodes the C++ rule for destruction: nobody begins to use the object any
more.

With `MayAbort` another thread may call `tx_thread_wait_abort` wherever these calls
suspend. The wait for a mutex ends with EINVAL (`LockAborted`). The wait for the
notification ends in the section that settles a timeout (`WaitAborted`). The
`mutex_lock` that ends a wait fails too, and `condition_wait_common` returns its EINVAL
in place of `wait_status`, without the mutex (`RelockAborted`). For the condition's
own mutex, `raw_mutex_get` calls `fatal_error` (`GuardAborted`). Aborts are modelled
for these calls only; in the other modules a wait ends when what it waits for is there
or its time is over.

The refinement mapping counts a linked waiter as waiting from the moment the
user's mutex is released. `ConditionContract` has no queue: it keeps the set of waiting
threads and who of them waits longer than whom, which the mapping reads off the
positions in the list. A call returns success exactly if it was notified, or, with
`Abandon`, returns EINVAL without the mutex whether it was notified or not.

### StorageMount

`mapped` is what the LevelX sectors hold: the sectors that `fx_media_format`
writes, contents of other origin, files, or a sector that only exists because it
was read. `PowerLoss` is possible everywhere and keeps only the flash. HAL, FileX
and LevelX results are nondeterministic. `diagnostics` has the four fields about
the SD card; `four_bit_failure` is a history variable. `erase_on_boot` is an option of
the build, and while the power is off the board may be given the other image.

### Filesystem

`descriptors` and `handles` are the two halves of a `FileDescriptor`: the members
the code owns, and the `FX_FILE` inside it. `entries` is what is on the media: a
fixed set of objects, each free or a file or directory with a parent and a name. A
name is a pair of a name and a spelling, so that `fold_ascii_case` means something;
all names are equally long, so that a path's length is its number of components.
`object` in a descriptor is history (the file it was opened on), as is `stale` in an
entry (renamed while a writer's cached entry was not flushed).

Each operation holds `registry_mutex` throughout and is one action. `_rename` is one
action per change of the media (backup, move, restore, delete), because each can
fail on its own. Calls that return an error before they change anything are a
stuttering result.

FileX is external: a file is open for reading by many or for writing by one, a seek
beyond the end stops at the end, a failing close still closes, and with `Faults`
every call may return an I/O error. `unlink` refuses a file whose handle is open but
not one whose descriptor has its handle closed (after a failed `switch_mode`): its
path may then be created again, and the descriptor reopens the new file.
`DescriptorKeepsFile` allows exactly that.

### StaticInit

`initialized` and `in_progress` are the guards with that byte set; `owner` and
`count` are the recursive `cxx_guard_mutex`; `stack[t]` is what thread `t` is
initializing, outermost first. The unlocked first look, the lock, the second look,
the user's initializer and the two stores of the release are steps of their own.
`once` runs its sections under `initialization_mutex` as one step each and polls.

### ThreadKeys

A handle is a slot and a generation, as `make_key` packs them; `keys` is the global
table and `values` the arrays in every `TX_THREAD`. The check under the mutex and the
use of the thread's own array are two steps. `births` counts the keys a slot has
held: history that tells apart two keys with the same generation. Destructors are
user code and may make any call, `key_set` on their own key included.

### NativeObjects

One handle, of one of the three kinds. The look at `implementation` without the
mutex, the lock, the look under it with the creation, and the unlock are steps of
their own. An object is its address, which the allocator may give again after a
deletion. `tokens` is history: what a semaphore's count has to be. Handles are
constructed and destroyed when no thread uses them, as C++ demands of the caller;
the destruction of a condition against notified waiters is in `ConditionVariable`.

### LibcLocks and RuntimeStartup

`phase` tells constructors, `tx_application_define` and threads apart; startup code
never locks, as `tx_thread_identify` is null then. The search of the pool, the marking
of a lock and the pool's unlocking are separate steps, kept apart by
`dynamic_pool_mutex` only. `handles` is history. A lock is closed when nobody holds
it, a rule for newlib's callers. `RuntimeStartup` runs `initialize` creation by
creation, each of which may fail and roll back; constructors and the code between
may make, use and close newlib locks throughout.

### ThreadExit and EmulatedTls

`ThreadExit` follows a thread from its creation through `cleanup_thread_runtime` to
its deletion; `objects` is the history of what was registered, by whom and when, and
`ran` counts the calls. Registration is possible in the thread's function, in
destructors and in callbacks, and for the application thread already in global
constructors. A thread may return, terminate itself (ThreadX then calls
`runtime_libstdcxx_thread_notify`) or be terminated by another. `EmulatedTls` keeps
where each variable's place was assigned and each thread's array; `Boot` is the
execution before the kernel, whose array the application thread adopts. Objects are
named by their variable; their size and alignment are left out.

### Clock

The unit of time is one period of the hardware counter, `now` the time nobody can
read. `ReadTicks` to `PublishExchange` are the steps of
`system_time_nanoseconds`: the ticks, the timer's version, its counter, the check of
the version, the number of wraps, the load and the exchange. `floor` is history: what
was on record when the call read the ticks, its first step, which is no less than what
was there when it began. `Reprogram` changes the
timer between any two of them, as the setters of the Linux timer do: they hold its
mutex, so that the version changes with the timer. On the STM32 `setPrescaler` lets the
update event clear the counter, restores it, and marks the change last. A thread that preempts it
in between reads a counter of 0 under the old version. If the new
prescaler is another one, the check of the frequency refuses the sample; if it is the
same, nothing does. The model has no such half-made change. `Init` lets the real-time clock and the timer be read
up to `Skew` after the ticks. `RolloverTimer` may be late by `MaxTimerDelay`.
`ClockAssumption` states what the code relies on without saying so: a late sample
comes before the second wrap, and half a turn of the hardware counter is longer than
the error of the coarse clock.

### LinuxTimer

Calls hold `m_mutex` and are one action each. Time is relative, which keeps the model
finite without a bound on it: `elapsed` since the timer was started, modulo what
`counterAt` cannot tell from 0, and `remaining` of the worker's timed wait. The
arithmetic of the code is kept, division by division. `overflowed`, `touched` and
`late` are history. A timer whose prescaler divides its frequency down to 0 calls back
once a second although its counter stands; `NoEarlyCallback` leaves that out.

### Ethernet and EthernetDma

`Ethernet` takes the mutexes one by one, in the order of the lock objects, and lets
the kernel give a closed descriptor to the next caller of `socket`, of which
`getLinkInfo` is one. Frames are of four kinds: wanted, of another type, outgoing, too
long. `EthernetDma` follows every receive slot: pool, descriptor, the HAL's unfinished
frame, the packet of a task. The HAL is external: descriptors are served in order, a
frame of several segments may be cut anywhere by a read or a stop.

## 3. Runs

| Run | Instance | Shows |
|---|---|---|
| `lifecycle` | 3 threads, queue of 1, owners join or detach | no fatal error, joins only after reclamation, `ThreadContract` with its fairness: claimed threads are reclaimed and joins return |
| `lifecycle_shared` | 2 threads, every client may join, thread_local destructors join and detach, acknowledgements cannot be created | one cleanup request; nothing is freed under a running destructor; a freed control is used only if a detach raced the joins; every standstill is explained; steps of `ThreadContract` |
| `condition` | 3 threads, timeouts, aborts, waits without the mutex, destruction | list and semaphores consistent, destruction after notify_all, steps of `ConditionContract`: a notification is lost only if its thread is aborted while it locks the mutex again |
| `condition_live` | 2 threads, recursive mutex of depth 2, fairness | notified and timed waits return, unless an abort ended the program |
| `storage` | any number of power cycles and of image changes | contents survive, the diagnostics are truthful, an erasing boot recovers from everything |
| `storage_doc` | violation | the README's rule for the 1-bit fallback is not what the code does |
| `files_tree` | 3 objects, 1 descriptor, 2 names of which one has two spellings, paths of 3 components, every FileX call may fail | the working directory exists, every entry can be reached, descriptors keep their files, no stale directory entry after a rename, a failed rename loses nothing |
| `files_io` | 2 descriptors, 1 object, 2 volumes, sizes to 2, faults | no handle without a descriptor; calls that succeed keep position and offset together; O_APPEND never overwrites |
| `first_use` | 3 threads, 2 statics, 1 once_flag, depth 2, 1 exception; or 2 threads on one handle of each kind; or startup and 2 threads with a pool of 3 locks | one initializer at a time, `guard_failure` means recursion, threads wait for each other in one pattern only and otherwise get past; one native object per handle; locks of constructors work; the runtime is whole or absent |
| `thread_exit` | 2 threads of which one exits, 2 slots, 2 generations, 3 keys, 2 passes; or 2 threads and 3 registrations; or 2 threads, startup code and 3 thread_local variables | no confusion of keys short of a full wrap, a thread ends before its last pass only when clean; everything runs once and in order; one place per variable |
| `clock` | 1 thread for 9 units with one reprogramming, or 2 threads for 3 units; ticks of 2 units modulo 4, a counter modulo 6 | system_clock within its error of the true time; a call returns no less than was on record when it began, and what it returns is on record; no early timeout, no short sleep |
| `devices` | timer with 3 prescalers, 2 reload values, 2 counter values; or 3 callers and 2 descriptors; or 2 tasks, 2 DMA descriptors, frames of up to 2 segments | no early callback, one after `stop` at most, the timer answers; descriptors stay the driver's, no lock cycle; every slot in one place |

Bounds. Three threads are the smallest instance in which a thread is joined while
its joiner is itself joined and a third fills the queue; a queue of one makes
every sender wait. Three condition users give a waiter, a second waiter and a
notifier or destroyer. Three objects are a directory, a file in it and a target to
be replaced; the two file runs split names from offsets, which together would be too
many states and need each other little. Two descriptors on one file are
what append and the handle modes are about. A slot that holds three keys wraps a
generation of two; two slots are needed for a destructor that sets an earlier slot.
Three registrations are a thread_local object, a notifier and one registered while
the thread ends. In `clock` the tick counter wraps once, the hardware counter once
and more within its rounding, and the rollover timer is late. Two reload values, three
prescalers and a counter beyond the period reach every rounding of the timer, the
frequency 0 included. Three callers are one in transmit or receive, one that stops or
starts, one that opens another descriptor. `StorageMount` is finite without bounds.
Deadlock is checked except where a standstill is the subject (`lifecycle_shared`,
`first_use`) or where the bound on what callers do, or on time, is reached
(`thread_exit`, `clock`).

Fairness. ThreadX runs every ready thread as long as higher priorities block, so
steps inside a runtime call are weakly fair, the reaper included although it has
the lowest priority. User code owes nothing: an entry function need not return,
nobody need join, a mutex need not be released; the liveness properties of the
condition variable are conditional on the mutex becoming free again and again.
Strong fairness on acquiring a mutex stands for ThreadX's queue of suspended
threads. In `StaticInit` user code owes one thing: an initializer ends. In
`LinuxTimer` Linux runs the worker, time passes, and user callbacks return.

The standstills that `StandstillExplained` allows are real. The reaper is one thread,
and `reaper_entry` polls the thread it works on until it has completed: a
thread_local object whose destructor joins another std::thread waits for the
reaper, which waits for it. A `thread_join` that returns EAGAIN has consumed the
completion token, so that a second one of the same thread waits for ever. Threads
that join each other in a circle wait for each other; that is the callers' doing.

A timed-out or aborted waiter locks the condition mutex once more although it may
have been notified already. If the object is destroyed after `notify_all`, as the
C++ rules allow, that access comes too late; `DestroySparesNotified` says that this
is the only one, and `UseAfterDelete` is where the model takes it.

A waiter that was notified and is then aborted while it locks the user's mutex again
returns EINVAL without the mutex: the notification is used up and nobody learns of it,
and a caller that takes the mutex for locked goes on without it. std::condition_variable
has no such outcome; it takes a caller of ThreadX's own `tx_thread_wait_abort`, and the
contract says when it may happen.

The standstill that `StandstillHoldsGuardMutex` allows needs a `call_once` reached from a static's
initializer. The runtime has one itself: `__at_thread_exit` runs
`initialize_thread_exit_key` under a once, and that function has a function-local
static. A static whose initializer makes the first `notify_all_at_thread_exit`
call while another thread runs that once polls for ever with the guard mutex held.

A failed `_ftruncate` may leave the file's offset apart from the descriptor's
position, which is why `SuccessKeepsOffset` speaks of calls that succeed.

`Timer::stop` of the Linux timer does not wait for a callback that the worker has
already decided on: after its timed wait expires the worker does not look at
`m_running` again. `OneCallbackAfterStop` says that it is one at most; a caller that
frees what the callback uses right after `stop` has to know this.

## 4. Proofs

All proofs are checked by TLAPS with Z3, Zenon and LS4.

* `ThreadLifecycleProofs`. From `LifecycleAssumption` alone (a queue of at least one
  message). `FreedAfterExit` and `JoinedMeansReclaimed` are not inductive: the
  reaper frees what it was asked to free, so one has to know that a request is in one
  place only and that the flags tell which. `LifecycleInv` adds `LifeInv` (memory,
  registration and flags move together), `CallInv` (what a client inside a call
  knows), `SendInv` (who is about to send a request, and nobody else), `RequestInv`
  (a request is at one place of the queue or with the reaper, and its joiner waits)
  and `AckInv` (the acknowledgement reaches a semaphore that exists, after the
  freeing). One lemma per action shows that it is preserved. `TypeCorrect`,
  `NeverFreedEarly`, `JoinReclaims`, `SingleCleanup` follow; `OwnedHandlesNeverFatal`
  needs `OwnerInv` in addition, for handles that only their owners join;
  `Refinement` shows that every step is a step of `ThreadContract` or stutters.
  `SharedJoinNeedsDetach` is for handles joined by anybody: `TokenInv` adds that a
  thread's completion token is with one joiner, so that only a detach can free a control
  between that joiner's wait and its lock.
* `StorageMountProofs`. `StorageInv` adds to the properties that a chip found blank
  is still blank when the format begins (`FormatInv`) and that the SD part begins
  without a failure (`FallbackInv`). `DiagnosticsTruthful` and `FlashContentsSurvive`
  follow for both settings of the erase option, and `EraseAlwaysRecovers` with
  the erase option.
* `ConditionVariableProofs`, for any number of threads and both kinds of mutex.
  `ConditionInv` says who owns the two mutexes at every place (`MutexInv`, `GuardInv`),
  that a waiter is in the list or notified and never both, its semaphore counting the
  notification (`WaiterInv`), and that a destroyer has seen the list empty and lets
  nobody in (`DestroyInv`). `ListIsSound` and `DestructionIsSafe` follow. `ContractHolds`
  maps every step to a step of `ConditionContract` or to a stutter, aborts at every
  suspension included; the order of the list is what makes a signal wake the thread
  that waits longest.
* `FirstUseProofs`. `HandleHasOneObject` rests on `NativeInv`: a thread has an object only
  from the published pointer, and the published object is the only one. `BootInvariant`
  is for the libc pool and startup together: a thread inside the pool owns its mutex, a
  lock being closed has no handle, and which objects exist follows from the creation
  that is next; `LibcLocksWork` and `RuntimeAllOrNothing` follow. `StaticInv` relates each
  thread's nest of initializers to the guard bytes and to the count of the recursive
  mutex; `StaticsInitializeOnce` and `StandstillNeedsOnce` follow, for nests of any
  depth and any number of exceptions.
* `ThreadExitProofs`. `KeysInv` relates generations to the history of births by their
  remainder and says of a thread in its destructor passes what it has left behind it;
  `KeyValuesStay` and `EarlyEndLeavesNothing` follow for any number of slots, keys,
  generations and passes. `EmutlsOneObject` rests on `EmutlsInv`: places are given
  out once and arrays hold objects at the places of their variables. `ExitInv` follows every registered
  object from its list to its run; `ExitRunsOnce` is about any number of threads and
  objects and registration at any time.
* `DevicesProofs`. `EthernetInv` says which mutexes and which descriptor a caller has at
  each place; `EthernetDescriptors` and `EthernetLocks` follow, the latter because the
  locks of every call are taken along one order. For the timer, `TimerStops` needs that only a
  worker in its timed wait at `stop` has a callback left (`LateInv`), `TimerIsNotEarly` that
  the rest of the wait takes the counter past its period (`WaitInv`), through both
  roundings of the code. `DmaInv` says where the receive slots are, that only the holder
  of m_receiveMutex moves them, and how many segments a frame in the ring has
  (`RingInv`). `SlotsHaveOneHolder` counts: the other descriptors and one frame of at most
  `ETH_RX_DESC_CNT` segments hold fewer slots than the pool has, which is
  `DevicesAssumption`'s bound on `MaxSegments`; with the driver's sizes a frame is one
  segment.
* `ClockProofs`, from `ClockAssumption` and for every period, width, lateness and number
  of turns. `ClockInv` says that the extended tick counter is at most one turn
  behind (`TickInv`), that a timer nobody reprogrammed counts since the epoch
  (`TimerInv`), and of a call what the time was when it read each counter (`ReadOK`)
  and what its result allows it to conclude (`ResultOK`). The heart is arithmetic: the number of wraps chosen from
  the coarse ticks is right whenever twice the error of the ticks is less than a turn
  of the hardware counter. `FloorInv` says of every call that the record is no lower than
  when the call began, and of a call that has loaded it, that what it loaded is no lower
  either; it rests on `RecordNeverFalls`, that no step lowers the record. `ClockStaysTrue`
  and `TimeoutsAreNotEarly` follow. Together with `RecordNeverFalls`, `ClockStaysTrue` says that
  no call returns less than one that had returned before it began.
* `FilesystemProofs`, from `FilesystemAssumption` and for every table, set of paths, flags and
  arguments, with any FileX call failing. `FileInv` (checked by TLC on both Filesystem
  configurations before it was proved) adds to `HandlesAreTracked` that an open handle is
  on an object of the media, that offsets and positions are natural numbers, that a free
  slot has no open handle and that an allocated one can be read or written: `_lseek`
  picks the mode of a handle it has to open from that. Every call on a descriptor ends
  with one of the outcomes of `switch_mode`, edited; the proof shows that these are good
  (`SwitchGood`, `ReopenGood`) and that each edit keeps them good, so that an operation
  only has to name its edits. `AppendsKeepData` follows from the same step: an append
  write starts at the size of the file, the loop of `_ftruncate` writes beyond it, and
  everything else keeps the bytes it does not drop.

  Where paths lead is the second invariant, `LayerInv`: `FileInv` and `LayerAt`, which has
  one case for each step of `_rename`. Between calls the layer is `Calm`:
  the tree is `Whole` (a parent is a root or a directory, siblings differ in more than
  spelling, no set of entries holds all its own parents), no entry is behind a handle
  (`Current`), an allocated descriptor's path leads to its file if that still exists and
  an open handle is on the file its path leads to (`SlotPlaced`), a writer is alone on
  its file (`AloneAt`), and the working directory is a directory. None of these
  can be left out: a rename rewrites the paths that lead through its source, which is right
  for handles on the file only because the paths led there before, and that opening a
  file for writing cannot make another handle's offset or entry wrong needs `AloneAt`.
  Inside a `_rename`, `SourceAt` says where the source is and that it has been flushed,
  `ReplacedAt` that no descriptor, handle or working directory is on the entry it
  replaces, `Vacant` and `BackedUp` where that entry has gone, and `Migrating` that paths
  lead to their objects once `migrate_path` has rewritten them: the source has moved
  and the descriptors have not been told. TLC checked `LayerInv` on both Filesystem
  configurations before it was proved.

  `ObjectIn` folds over the components of a path. The proofs replace the fold by a
  chain, a function from places in the path to objects each of which is the child of the one
  before (`IsChain`): a path leads to an object exactly when such a chain
  ends there, and induction over its length is well-founded induction on a set of
  numbers, which the provers can do. From it follow that an object is at the end of one
  path whatever the spelling (`OneEnd`), that a change to an entry is seen by the paths through it alone
  (`DeleteKeeps`, `PutKeeps`), and what a move does to every path (`MoveMigrates`): a path
  that led to an object leads to it again after `migrate_path`. `TreeIsWhole`,
  `DescriptorsKeepTheirFile` and `NothingGoesStale` are consequences of `LayerInv`;
  `RenamesLoseNothing` and `SuccessKeepsOffsets` are properties of the step (`RenameEnds`,
  `OffsetStep`) proved with it, call by call.

The theorems about a component of `MCFirstUse`, `MCThreadExit` and `MCDevices` are about
the component's own specification, not the composition: there it shares nothing with its
neighbours. Assumptions on constants are the named ASSUMEs of the modules: sizes are
positive, "none" is no thread, the paths of `Requests` are finite sequences of components,
and the two inequalities of `ClockAssumption`.

Only model-checked:

* liveness (`WaitsReturn`, `CallsReturn`, `TimerAnswers`, the fairness part of
  `ImplementsContract`) and `StandstillExplained`, which uses ENABLED: out of the prover's
  reach.

Every other property of a passing run is stated by a theorem.

## 5. Plan

Done: the thread lifecycle, the condition variable, the storage bring-up, the file
layer, one-time initialization, thread-specific keys, native objects, startup and
libc locks, thread exit and emulated TLS, the clocks, the Linux timer and both
Ethernet drivers, with theorems for all of them. Left:

1. The thread factory's pending attributes, the STM32 timer and GPIO interrupts
   against their calls, the calendar arithmetic of the RTC.
2. Directory streams of the file layer, stack information of the Linux port.
3. The condition variable's timed waits composed with `Clock`.

## 6. Not modelled

Vendored and generated code (libstdc++, ThreadX, FileX, LevelX, NetX, CubeMX
output); the 64-bit atomics, which are single uninterruptible sections; the
demonstration application, which is straight-line; the storage drivers' data transfer;
the thread factory, GPIO, RTC, RNG, the STM32 timer and the stack information of the
Linux port, which are in the plan or are thin wrappers. Of the modelled parts: the
`std::atexit` hook of `thread_exit.cpp`, newlib's static and malloc locks and its reent
hooks, the layout of TLS blocks, the contents and filters of Ethernet frames, spurious
wake-ups of pthread condition variables, saturation of 64-bit sums in the clock.
Whether the DMA still reads a frame whose transmission timed out, and whether FileX
still lists a file whose close failed, is decided in vendored code.
In the file layer: the console descriptors, `_stat`, `_fstat` and `statvfs`, which
change nothing, and directory streams. External termination of a thread
(`tx_thread_terminate` on a std::thread) is outside the lifecycle model, as is the
wrap of `next_registry_id` after 2^32 - 1 creations.
