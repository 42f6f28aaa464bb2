--------------------------- MODULE ThreadLifecycle ---------------------------
(***************************************************************************)
(* Creation, completion, join, detach and reclamation of std::thread       *)
(* objects on ThreadX (platform/runtime/libstdcxx/backend.cpp).            *)
(*                                                                         *)
(* A thread is named by the registry id that register_thread gives its     *)
(* ThreadControl.  A pointer to a ThreadControl is therefore a registry id *)
(* too, and alloc says whether the memory it points to is still owned.     *)
(* Ids are never reused here: MaxThreads stands for fewer creations than   *)
(* the 2^32 - 1 after which next_registry_id wraps.                        *)
(*                                                                         *)
(* Every section under a lifecycle_mutex or the initialization_mutex is    *)
(* short and cannot block, so it is one step; everything between two such  *)
(* sections, and every ThreadX call that may suspend, is a step of its own.*)
(***************************************************************************)
EXTENDS Integers, Sequences, FiniteSets

CONSTANTS
  MaxThreads,          \* how many std::threads are ever created
  CLEANUP_QUEUE_DEPTH, \* messages cleanup_queue holds
  DestructorsJoin,     \* thread_local destructors join or detach threads
  SharedJoin,          \* a handle may be joined by clients that do not own it
  AckMayFail           \* tx_semaphore_create may fail inside thread_join

ASSUME LifecycleAssumption ==
  /\ MaxThreads \in Nat
  /\ CLEANUP_QUEUE_DEPTH \in Nat \ {0}
  /\ DestructorsJoin \in BOOLEAN
  /\ SharedJoin \in BOOLEAN
  /\ AckMayFail \in BOOLEAN

Ids == 1..MaxThreads

\* The application thread that startup.cpp creates; it is no std::thread.
Main == 0

Clients == {Main} \cup Ids

\* A null handle or a null cleanup_ack.
NoClient == -1

VARIABLES
  next_registry_id, \* the id the next register_thread assigns
  registry,         \* ids linked from registry_head
  alloc,            \* [Ids -> "none" | "live" | "freed"]: the ThreadControl
  completion,       \* [Ids -> Nat]: count of control->completion
  finished,         \* ids whose control->finished is set
  detached,         \* ids whose control->detached is set
  cleanup_queued,   \* ids whose control->cleanup_queued is set
  cleanup_ack,      \* [Ids -> Clients or NoClient]: control->cleanup_ack
  phase,            \* [Ids -> Phases]: where the thread itself is
  owner,            \* [Ids -> Clients or NoClient]: holder of the std::thread
  pc,               \* [Clients -> Steps]: the call a client is in
  target,           \* [Clients -> Ids or NoClient]: the handle it works on
  ack,              \* [Clients -> -1 | 0 | 1]: its acknowledgement semaphore
  cleanup_queue,    \* registry ids sent to the reaper
  reaper_pc,        \* "receive" | "poll" | "ack"
  reaper_id,        \* the control the reaper works on
  joined,           \* history: ids whose thread_join returned 0
  fatal             \* fatal_error was called, or freed memory was used

controlVars == <<completion, finished, detached, cleanup_queued, cleanup_ack>>
registryVars == <<next_registry_id, registry, alloc>>
clientVars == <<owner, pc, target, ack, joined>>
reaperVars == <<reaper_pc, reaper_id>>
vars == <<registryVars, controlVars, phase, clientVars, cleanup_queue,
          reaperVars, fatal>>

\* "ready" until thread_entry has found its control; "body" in the user's
\* function; "put" and "put_enqueue" between the section that sets finished
\* and the put of completion (the second will enqueue its own cleanup);
\* "dtors" in cleanup_thread_runtime; "completed" is TX_COMPLETED.
Phases == {"none", "ready", "body", "put", "put_enqueue", "enqueue", "dtors",
           "completed"}

Steps == {"idle", "created", "join_wait", "join_lock", "join_enqueue",
          "join_ack", "detach_enqueue"}

TypeOK ==
  /\ next_registry_id \in 1..(MaxThreads + 1)
  /\ registry \in SUBSET Ids
  /\ alloc \in [Ids -> {"none", "live", "freed"}]
  /\ completion \in [Ids -> Nat]
  /\ finished \in SUBSET Ids
  /\ detached \in SUBSET Ids
  /\ cleanup_queued \in SUBSET Ids
  /\ cleanup_ack \in [Ids -> Clients \cup {NoClient}]
  /\ phase \in [Ids -> Phases]
  /\ owner \in [Ids -> Clients \cup {NoClient}]
  /\ pc \in [Clients -> Steps]
  /\ target \in [Clients -> Ids \cup {NoClient}]
  /\ ack \in [Clients -> {-1, 0, 1}]
  /\ cleanup_queue \in Seq(Ids)
  /\ reaper_pc \in {"receive", "poll", "ack"}
  /\ reaper_id \in Ids \cup {NoClient}
  /\ joined \in SUBSET Ids
  /\ fatal \in BOOLEAN

Init ==
  /\ next_registry_id = 1
  /\ registry = {}
  /\ alloc = [t \in Ids |-> "none"]
  /\ completion = [t \in Ids |-> 0]
  /\ finished = {}
  /\ detached = {}
  /\ cleanup_queued = {}
  /\ cleanup_ack = [t \in Ids |-> NoClient]
  /\ phase = [t \in Ids |-> "none"]
  /\ owner = [t \in Ids |-> NoClient]
  /\ pc = [c \in Clients |-> "idle"]
  /\ target = [c \in Clients |-> NoClient]
  /\ ack = [c \in Clients |-> -1]
  /\ cleanup_queue = <<>>
  /\ reaper_pc = "receive"
  /\ reaper_id = NoClient
  /\ joined = {}
  /\ fatal = FALSE

-----------------------------------------------------------------------------
(* The caller's side: who may call, and with which handle.                 *)

\* User code of c runs and is in no call of the runtime.
CanCall(c) ==
  /\ ~fatal
  /\ pc[c] = "idle"
  /\ \/ c = Main
     \/ c # Main /\ phase[c] = "body"
     \/ c # Main /\ phase[c] = "dtors" /\ DestructorsJoin

\* The handles c still has to join or detach.
Owned(c) == {t \in Ids : owner[t] = c /\ alloc[t] = "live"}

\* enqueue_cleanup: the send suspends while the queue is full.
enqueue_cleanup(t) ==
  /\ Len(cleanup_queue) < CLEANUP_QUEUE_DEPTH
  /\ cleanup_queue' = Append(cleanup_queue, t)

-----------------------------------------------------------------------------
(* thread_create                                                           *)

\* Everything up to and including register_thread.  The allocations and the
\* ThreadX objects made before it are undone without a trace when one fails.
CreateRegister(c) ==
  /\ CanCall(c)
  /\ next_registry_id \in Ids
  /\ next_registry_id' = next_registry_id + 1
  /\ registry' = registry \cup {next_registry_id}
  /\ alloc' = [alloc EXCEPT ![next_registry_id] = "live"]
  /\ pc' = [pc EXCEPT ![c] = "created"]
  /\ target' = [target EXCEPT ![c] = next_registry_id]
  /\ UNCHANGED <<controlVars, phase, owner, ack, joined, cleanup_queue,
                 reaperVars, fatal>>

\* tx_thread_create with TX_AUTO_START succeeds and the caller gets the handle.
CreateStart(c) ==
  /\ ~fatal
  /\ pc[c] = "created"
  /\ phase' = [phase EXCEPT ![target[c]] = "ready"]
  /\ owner' = [owner EXCEPT ![target[c]] = c]
  /\ pc' = [pc EXCEPT ![c] = "idle"]
  /\ UNCHANGED <<registryVars, controlVars, target, ack, joined, cleanup_queue,
                 reaperVars, fatal>>

\* tx_thread_create fails: unregister, delete everything, EAGAIN.
CreateFail(c) ==
  /\ ~fatal
  /\ pc[c] = "created"
  /\ registry' = registry \ {target[c]}
  /\ alloc' = [alloc EXCEPT ![target[c]] = "freed"]
  /\ pc' = [pc EXCEPT ![c] = "idle"]
  /\ UNCHANGED <<next_registry_id, controlVars, phase, owner, target, ack,
                 joined, cleanup_queue, reaperVars, fatal>>

-----------------------------------------------------------------------------
(* The thread itself: thread_entry inside runtime_libstdcxx_thread_entry   *)

\* thread_entry looks its control up by the id it was created with.
ThreadEntry(t) ==
  /\ ~fatal
  /\ phase[t] = "ready"
  /\ IF t \in registry
     THEN phase' = [phase EXCEPT ![t] = "body"] /\ UNCHANGED fatal
     ELSE fatal' = TRUE /\ UNCHANGED phase
  /\ UNCHANGED <<registryVars, controlVars, clientVars, cleanup_queue,
                 reaperVars>>

\* What thread_entry decides under the lifecycle mutex.
EnqueueOnFinish(t) == t \in detached /\ t \notin cleanup_queued

\* The entry function returned: the section that sets finished.  A function
\* that still holds a joinable std::thread cannot return, unless the object
\* is thread_local and its destructor deals with it.
EntryReturns(t) ==
  /\ ~fatal
  /\ phase[t] = "body"
  /\ pc[t] = "idle"
  /\ Owned(t) = {} \/ DestructorsJoin
  /\ alloc[t] = "live"
  /\ finished' = finished \cup {t}
  /\ UNCHANGED <<registryVars, completion, detached, cleanup_ack, clientVars,
                 cleanup_queue, reaperVars, fatal>>

\* Nobody has detached the thread yet: a later join or detach will clean up.
ThreadFinish(t) ==
  /\ EntryReturns(t)
  /\ ~EnqueueOnFinish(t)
  /\ phase' = [phase EXCEPT ![t] = "put"]
  /\ UNCHANGED cleanup_queued

\* The thread is detached: it is the one that asks for the cleanup.
ThreadFinishDetached(t) ==
  /\ EntryReturns(t)
  /\ EnqueueOnFinish(t)
  /\ phase' = [phase EXCEPT ![t] = "put_enqueue"]
  /\ cleanup_queued' = cleanup_queued \cup {t}

\* Mutant: completion is put on both paths out of thread_entry.
CompletionPut_Twice(n) == n + 2

\* The count of control->completion after its put.
CompletionPut(n) == n + 1

\* tx_semaphore_put(&control->completion)
ThreadPut(t) ==
  /\ ~fatal
  /\ phase[t] \in {"put", "put_enqueue"}
  /\ alloc[t] = "live"
  /\ completion' = [completion EXCEPT ![t] = CompletionPut(@)]
  /\ phase' = [phase EXCEPT ![t] =
                 IF phase[t] = "put_enqueue" THEN "enqueue" ELSE "dtors"]
  /\ UNCHANGED <<registryVars, finished, detached, cleanup_queued, cleanup_ack,
                 clientVars, cleanup_queue, reaperVars, fatal>>

\* A detached thread asks for its own cleanup.
ThreadEnqueue(t) ==
  /\ ~fatal
  /\ phase[t] = "enqueue"
  /\ alloc[t] = "live"
  /\ enqueue_cleanup(t)
  /\ phase' = [phase EXCEPT ![t] = "dtors"]
  /\ UNCHANGED <<registryVars, controlVars, clientVars, reaperVars, fatal>>

\* cleanup_thread_runtime has run the last callback and the ThreadX shell
\* marks the thread TX_COMPLETED.
ThreadExit(t) ==
  /\ ~fatal
  /\ phase[t] = "dtors"
  /\ pc[t] = "idle"
  /\ Owned(t) = {}
  /\ phase' = [phase EXCEPT ![t] = "completed"]
  /\ UNCHANGED <<registryVars, controlVars, clientVars, cleanup_queue,
                 reaperVars, fatal>>

-----------------------------------------------------------------------------
(* thread_join                                                             *)

\* The call, when it has reached tx_semaphore_get with a handle that is still
\* valid.  Joining oneself is refused with EDEADLK and changes nothing.
JoinBegin(c, t) ==
  /\ CanCall(c)
  /\ c # t
  /\ owner[t] = c \/ (SharedJoin /\ phase[t] # "none")
  /\ alloc[t] = "live"
  /\ pc' = [pc EXCEPT ![c] = "join_wait"]
  /\ target' = [target EXCEPT ![c] = t]
  /\ UNCHANGED <<registryVars, controlVars, phase, owner, ack, joined,
                 cleanup_queue, reaperVars, fatal>>

\* tx_semaphore_get(&control->completion) can succeed.
TokenAvailable(t) == completion[t] > 0

\* The completion token arrives and the acknowledgement semaphore is created.
JoinToken(c) ==
  /\ ~fatal
  /\ pc[c] = "join_wait"
  /\ alloc[target[c]] = "live"
  /\ TokenAvailable(target[c])
  /\ completion' = [completion EXCEPT ![target[c]] = @ - 1]
  /\ ack' = [ack EXCEPT ![c] = 0]
  /\ pc' = [pc EXCEPT ![c] = "join_lock"]
  /\ UNCHANGED <<registryVars, finished, detached, cleanup_queued, cleanup_ack,
                 phase, owner, target, joined, cleanup_queue, reaperVars, fatal>>

\* The token arrives, the semaphore cannot be created: EAGAIN, token consumed.
JoinAckFail(c) ==
  /\ ~fatal
  /\ AckMayFail
  /\ pc[c] = "join_wait"
  /\ alloc[target[c]] = "live"
  /\ TokenAvailable(target[c])
  /\ completion' = [completion EXCEPT ![target[c]] = @ - 1]
  /\ pc' = [pc EXCEPT ![c] = "idle"]
  /\ UNCHANGED <<registryVars, finished, detached, cleanup_queued, cleanup_ack,
                 phase, owner, target, ack, joined, cleanup_queue, reaperVars,
                 fatal>>

\* The reaper deleted the semaphore a second joiner is suspended on: the wait
\* ends with TX_DELETED and thread_join returns EINVAL.
JoinDeleted(c) ==
  /\ ~fatal
  /\ pc[c] = "join_wait"
  /\ alloc[target[c]] = "freed"
  /\ pc' = [pc EXCEPT ![c] = "idle"]
  /\ UNCHANGED <<registryVars, controlVars, phase, owner, target, ack, joined,
                 cleanup_queue, reaperVars, fatal>>

\* Mutant: a thread already queued by a join can still be claimed.
Claimed_DetachedOnly(t) == t \in detached

\* The condition under which thread_join and thread_detach return EINVAL.
Claimed(t) == t \in detached \/ t \in cleanup_queued

\* The section under the lifecycle mutex finds the handle claimed: EINVAL.
JoinRefused(c) ==
  /\ ~fatal
  /\ pc[c] = "join_lock"
  /\ alloc[target[c]] = "live"
  /\ Claimed(target[c])
  /\ ack' = [ack EXCEPT ![c] = -1]
  /\ pc' = [pc EXCEPT ![c] = "idle"]
  /\ UNCHANGED <<registryVars, controlVars, phase, owner, target, joined,
                 cleanup_queue, reaperVars, fatal>>

\* The section claims the handle for this joiner.
JoinClaim(c) ==
  /\ ~fatal
  /\ pc[c] = "join_lock"
  /\ alloc[target[c]] = "live"
  /\ ~Claimed(target[c])
  /\ cleanup_ack' = [cleanup_ack EXCEPT ![target[c]] = c]
  /\ cleanup_queued' = cleanup_queued \cup {target[c]}
  /\ pc' = [pc EXCEPT ![c] = "join_enqueue"]
  /\ UNCHANGED <<registryVars, completion, finished, detached, phase, owner,
                 target, ack, joined, cleanup_queue, reaperVars, fatal>>

JoinEnqueue(c) ==
  /\ ~fatal
  /\ pc[c] = "join_enqueue"
  /\ alloc[target[c]] = "live"
  /\ enqueue_cleanup(target[c])
  /\ pc' = [pc EXCEPT ![c] = "join_ack"]
  /\ UNCHANGED <<registryVars, controlVars, phase, owner, target, ack, joined,
                 reaperVars, fatal>>

\* Mutant: thread_join does not wait for the reaper.
Acknowledged_NoWait(c) == TRUE

\* The joiner's wait for the reaper.
Acknowledged(c) == ack[c] = 1

\* tx_semaphore_get(&acknowledgement) returns, the semaphore on the joiner's
\* stack is deleted and thread_join returns 0.
JoinReturn(c) ==
  /\ ~fatal
  /\ pc[c] = "join_ack"
  /\ Acknowledged(c)
  /\ ack' = [ack EXCEPT ![c] = -1]
  /\ pc' = [pc EXCEPT ![c] = "idle"]
  /\ owner' = [owner EXCEPT ![target[c]] = NoClient]
  /\ joined' = joined \cup {target[c]}
  /\ UNCHANGED <<registryVars, controlVars, phase, target, cleanup_queue,
                 reaperVars, fatal>>

-----------------------------------------------------------------------------
(* thread_detach                                                           *)

\* Mutant: thread_detach leaves the cleanup to the thread.
EnqueueOnDetach_Never(t) == FALSE

\* What thread_detach decides under the lifecycle mutex.
EnqueueOnDetach(t) == t \in finished

\* The call, made by the holder of the std::thread object, which gives its
\* handle up only when the call succeeds.
DetachCall(c, t) ==
  /\ CanCall(c)
  /\ owner[t] = c
  /\ alloc[t] = "live"
  /\ UNCHANGED <<registryVars, completion, finished, cleanup_ack, phase, ack,
                 joined, cleanup_queue, reaperVars, fatal>>

\* The section under the lifecycle mutex finds the handle claimed: EINVAL.
DetachRefused(c, t) ==
  /\ DetachCall(c, t)
  /\ Claimed(t)
  /\ UNCHANGED <<detached, cleanup_queued, owner, pc, target>>

\* The thread still runs and will ask for its own cleanup.
DetachRunning(c, t) ==
  /\ DetachCall(c, t)
  /\ ~Claimed(t)
  /\ ~EnqueueOnDetach(t)
  /\ detached' = detached \cup {t}
  /\ owner' = [owner EXCEPT ![t] = NoClient]
  /\ UNCHANGED <<cleanup_queued, pc, target>>

\* The thread has set finished already: the caller asks for the cleanup.
DetachFinished(c, t) ==
  /\ DetachCall(c, t)
  /\ ~Claimed(t)
  /\ EnqueueOnDetach(t)
  /\ detached' = detached \cup {t}
  /\ cleanup_queued' = cleanup_queued \cup {t}
  /\ owner' = [owner EXCEPT ![t] = NoClient]
  /\ pc' = [pc EXCEPT ![c] = "detach_enqueue"]
  /\ target' = [target EXCEPT ![c] = t]

DetachEnqueue(c) ==
  /\ ~fatal
  /\ pc[c] = "detach_enqueue"
  /\ alloc[target[c]] = "live"
  /\ enqueue_cleanup(target[c])
  /\ pc' = [pc EXCEPT ![c] = "idle"]
  /\ UNCHANGED <<registryVars, controlVars, phase, owner, target, ack, joined,
                 reaperVars, fatal>>

-----------------------------------------------------------------------------
(* reaper_entry                                                            *)

ReaperReceive ==
  /\ ~fatal
  /\ reaper_pc = "receive"
  /\ cleanup_queue # <<>>
  /\ cleanup_queue' = Tail(cleanup_queue)
  /\ IF Head(cleanup_queue) \in registry
     THEN /\ reaper_pc' = "poll"
          /\ reaper_id' = Head(cleanup_queue)
          /\ UNCHANGED fatal
     ELSE /\ fatal' = TRUE
          /\ UNCHANGED reaperVars
  /\ UNCHANGED <<registryVars, controlVars, phase, clientVars>>

\* Mutant: the reaper trusts control->finished.
TargetExited_Finished(t) == t \in finished

\* Mutant: the reaper accepts a thread that still runs its destructors.
TargetExited_InDestructors(t) == phase[t] \in {"dtors", "completed"}

\* The loop around tx_thread_info_get, with its tx_thread_sleep(1).
TargetExited(t) == phase[t] = "completed"

\* Mutant: the acknowledgement is forgotten.
AfterDelete_NoAck(t) == "receive"

\* Where the reaper goes after it freed the control and the stack.
AfterDelete(t) == IF cleanup_ack[t] # NoClient THEN "ack" ELSE "receive"

\* The thread, its mutex, its semaphore, its registry entry, its control and
\* its stack go.  cleanup_ack was read before.
ReaperDelete ==
  /\ ~fatal
  /\ reaper_pc = "poll"
  /\ TargetExited(reaper_id)
  /\ registry' = registry \ {reaper_id}
  /\ alloc' = [alloc EXCEPT ![reaper_id] = "freed"]
  /\ reaper_pc' = AfterDelete(reaper_id)
  /\ UNCHANGED <<next_registry_id, controlVars, phase, clientVars,
                 cleanup_queue, reaper_id, fatal>>

\* tx_semaphore_put(cleanup_ack): a semaphore on the joiner's stack.
ReaperAck ==
  /\ ~fatal
  /\ reaper_pc = "ack"
  /\ reaper_pc' = "receive"
  /\ IF ack[cleanup_ack[reaper_id]] # -1
     THEN /\ ack' = [ack EXCEPT ![cleanup_ack[reaper_id]] = @ + 1]
          /\ UNCHANGED fatal
     ELSE fatal' = TRUE /\ UNCHANGED ack
  /\ UNCHANGED <<registryVars, controlVars, phase, owner, pc, target, joined,
                 cleanup_queue, reaper_id>>

-----------------------------------------------------------------------------

\* A step that has to dereference a control the reaper has freed.
UseAfterFree ==
  /\ ~fatal
  /\ \/ \E c \in Clients :
          /\ pc[c] \in {"join_lock", "join_enqueue", "detach_enqueue"}
          /\ alloc[target[c]] = "freed"
     \/ \E t \in Ids :
          /\ phase[t] \in {"body", "put", "put_enqueue", "enqueue"}
          /\ alloc[t] = "freed"
  /\ fatal' = TRUE
  /\ UNCHANGED <<registryVars, controlVars, phase, clientVars, cleanup_queue,
                 reaperVars>>

\* Nothing left to do: all threads gone and the reaper waiting.
Quiescent ==
  /\ \A c \in Clients : pc[c] = "idle"
  /\ \A t \in Ids : phase[t] \in {"none", "completed"}
  /\ cleanup_queue = <<>>
  /\ reaper_pc = "receive"

Idle == (Quiescent \/ fatal) /\ UNCHANGED vars

ClientStep(c) ==
  \/ CreateStart(c)
  \/ CreateFail(c)
  \/ JoinToken(c)
  \/ JoinAckFail(c)
  \/ JoinDeleted(c)
  \/ JoinRefused(c)
  \/ JoinClaim(c)
  \/ JoinEnqueue(c)
  \/ JoinReturn(c)
  \/ DetachEnqueue(c)

ThreadStep(t) ==
  \/ ThreadEntry(t)
  \/ ThreadPut(t)
  \/ ThreadEnqueue(t)
  \/ ThreadExit(t)

Reaper ==
  \/ ReaperReceive
  \/ ReaperDelete
  \/ ReaperAck

Next ==
  \/ \E c \in Clients : CreateRegister(c)
  \/ \E c \in Clients : ClientStep(c)
  \/ \E c \in Clients, t \in Ids : JoinBegin(c, t)
  \/ \E c \in Clients, t \in Ids : DetachRefused(c, t)
  \/ \E c \in Clients, t \in Ids : DetachRunning(c, t)
  \/ \E c \in Clients, t \in Ids : DetachFinished(c, t)
  \/ \E t \in Ids : ThreadStep(t)
  \/ \E t \in Ids : ThreadFinish(t)
  \/ \E t \in Ids : ThreadFinishDetached(t)
  \/ Reaper
  \/ UseAfterFree
  \/ Idle

SafetySpec == Init /\ [][Next]_vars

(* Every thread inside the runtime is eventually scheduled, the reaper at   *)
(* the lowest priority included, because higher priorities block.  User     *)
(* code is not fair: an entry function need not return and nobody need call *)
(* thread_join.  thread_local destructors do end.                           *)
Fairness ==
  /\ \A c \in Clients : WF_vars(ClientStep(c))
  /\ \A t \in Ids : WF_vars(ThreadStep(t))
  /\ WF_vars(Reaper)

Spec == SafetySpec /\ Fairness

-----------------------------------------------------------------------------
(* What a std::thread promises, abstractly.                                *)

life ==
  [t \in Ids |->
     CASE phase[t] = "none" -> "none"
       [] phase[t] = "completed" /\ alloc[t] = "freed" -> "reclaimed"
       [] phase[t] = "completed" /\ alloc[t] # "freed" -> "exited"
       [] OTHER -> "running"]

claim ==
  [t \in Ids |->
     CASE t \in joined -> "joined"
       [] t \notin joined /\ t \in detached -> "detached"
       [] t \notin joined /\ t \notin detached /\ cleanup_ack[t] # NoClient -> "joining"
       [] OTHER -> "open"]

Contract == INSTANCE ThreadContract WITH Threads <- Ids

-----------------------------------------------------------------------------
(* Properties                                                              *)

\* The steps of the thread, its owner and the reaper implement ThreadContract.
ImplementsContract == Contract!Spec

\* The same without the contract's fairness.
ImplementsContractSteps == Contract!SafetySpec

\* No fatal_error and no use of a freed ThreadControl, in any order of the
\* steps of the thread, its owner and the reaper.
NoFatal == ~fatal

\* The reaper frees a control and its stack only when the thread can run no
\* instruction on them any more: not before its thread_local destructors end.
FreedAfterExit ==
  \A t \in Ids : alloc[t] = "freed" => phase[t] \in {"none", "completed"}

\* A join that returned 0 means that the thread has ended, destructors
\* included, and that its memory is already returned.
JoinedMeansReclaimed ==
  \A t \in joined : phase[t] = "completed" /\ alloc[t] = "freed"

\* The places a cleanup request for t can be in: about to be sent by a client
\* or by the thread, in a slot of the queue, or with the reaper.
Requests(t) ==
  {<<"client", c>> : c \in {d \in Clients :
     target[d] = t /\ pc[d] \in {"join_enqueue", "detach_enqueue"}}}
  \cup {<<"thread", i>> : i \in {u \in {t} : phase[u] \in {"put_enqueue", "enqueue"}}}
  \cup {<<"queue", i>> : i \in {k \in 1..Len(cleanup_queue) : cleanup_queue[k] = t}}
  \cup {<<"reaper", i>> : i \in {u \in {t} : reaper_pc = "poll" /\ reaper_id = u}}

\* At most one cleanup request exists for a thread, whoever sends it (the
\* finishing thread, the joiner and the detaching owner decide by one flag),
\* and as long as it exists the control is not freed.
OneCleanupRequest ==
  \A t \in Ids :
    /\ \A r, s \in Requests(t) : r = s
    /\ Requests(t) # {} => t \in cleanup_queued /\ alloc[t] = "live"

\* Without a detach, several threads may be in thread_join on one handle: no
\* order of their steps and the reaper's uses a freed control.  A detach that
\* comes between a joiner's token and its lock does make it use one.
FatalNeedsDetach == fatal => detached # {}

-----------------------------------------------------------------------------
(* The inductive invariant behind the safety properties.                   *)

InCall == Steps \ {"idle", "created"}

Ended == {"put", "put_enqueue", "enqueue", "dtors", "completed"}

\* How a control's memory, its registration and its flags move together.
LifeInv ==
  /\ \A t \in Ids : alloc[t] = "none" <=> t >= next_registry_id
  /\ \A t \in Ids : t \in registry <=> alloc[t] = "live"
  /\ \A t \in Ids : alloc[t] = "none" => phase[t] = "none"
  /\ \A t \in Ids : alloc[t] = "freed" /\ phase[t] # "none" => t \in cleanup_queued
  /\ \A t \in Ids : phase[t] = "none" =>
       /\ owner[t] = NoClient
       /\ t \notin detached
       /\ t \notin cleanup_queued
  /\ \A t \in Ids : t \in finished <=> phase[t] \in Ended
  /\ \A t \in Ids : t \in cleanup_queued =>
       t \in detached \/ cleanup_ack[t] # NoClient
  /\ \A t \in Ids : cleanup_ack[t] # NoClient =>
       t \in cleanup_queued /\ t \notin detached

\* What a client inside a call knows about its handle.
CallInv ==
  /\ \A c \in Clients : pc[c] # "idle" =>
       target[c] \in Ids /\ alloc[target[c]] # "none"
  /\ \A c \in Clients : pc[c] = "created" =>
       alloc[target[c]] = "live" /\ phase[target[c]] = "none"
  /\ \A c, d \in Clients :
       pc[c] = "created" /\ pc[d] = "created" /\ target[c] = target[d] => c = d
  /\ \A c \in Clients : pc[c] \in InCall => phase[target[c]] # "none"

\* Who is about to send a cleanup request, and that nobody else is.
SendInv ==
  /\ \A c \in Clients : pc[c] = "join_enqueue" =>
       /\ alloc[target[c]] = "live"
       /\ cleanup_ack[target[c]] = c
  /\ \A c \in Clients : pc[c] = "detach_enqueue" =>
       /\ alloc[target[c]] = "live"
       /\ target[c] \in detached
       /\ target[c] \in cleanup_queued
       /\ target[c] \in finished
       /\ phase[target[c]] \notin {"put_enqueue", "enqueue"}
  /\ \A c, d \in Clients :
       pc[c] = "detach_enqueue" /\ pc[d] = "detach_enqueue" /\ target[c] = target[d]
         => c = d
  /\ \A t \in Ids : phase[t] \in {"put_enqueue", "enqueue"} =>
       t \in detached /\ t \in cleanup_queued

\* Nobody is about to send a request for t, and the joiner that wants to be
\* told about it, if there is one, waits.
Requested(t) ==
  /\ t \in Ids
  /\ alloc[t] = "live"
  /\ t \in cleanup_queued
  /\ phase[t] \notin {"put_enqueue", "enqueue"}
  /\ \A c \in Clients : target[c] = t => pc[c] \notin {"join_enqueue", "detach_enqueue"}
  /\ cleanup_ack[t] # NoClient =>
       /\ pc[cleanup_ack[t]] = "join_ack"
       /\ target[cleanup_ack[t]] = t
       /\ ack[cleanup_ack[t]] = 0

\* A request is in one place of the queue, or with the reaper.
RequestInv ==
  /\ \A i \in 1..Len(cleanup_queue) : Requested(cleanup_queue[i])
  /\ \A i, j \in 1..Len(cleanup_queue) :
       cleanup_queue[i] = cleanup_queue[j] => i = j
  /\ reaper_pc = "poll" =>
       /\ Requested(reaper_id)
       /\ \A i \in 1..Len(cleanup_queue) : cleanup_queue[i] # reaper_id

\* The acknowledgement reaches a semaphore that exists, after the freeing.
AckInv ==
  /\ \A c \in Clients :
       ack[c] = -1 <=> pc[c] \notin {"join_lock", "join_enqueue", "join_ack"}
  /\ \A c \in Clients : ack[c] = 1 =>
       /\ pc[c] = "join_ack"
       /\ alloc[target[c]] = "freed"
       /\ phase[target[c]] = "completed"
  /\ \A c \in Clients : pc[c] = "join_ack" => cleanup_ack[target[c]] = c
  /\ \A c \in Clients : pc[c] \in {"join_enqueue", "join_ack"} => target[c] \notin joined
  /\ \A t \in Ids : cleanup_ack[t] # NoClient /\ t \notin joined =>
       /\ pc[cleanup_ack[t]] \in {"join_enqueue", "join_ack"}
       /\ target[cleanup_ack[t]] = t
  /\ \A t \in joined : cleanup_ack[t] # NoClient
  /\ reaper_pc = "ack" =>
       /\ reaper_id \in Ids
       /\ alloc[reaper_id] = "freed"
       /\ phase[reaper_id] = "completed"
       /\ cleanup_ack[reaper_id] # NoClient
       /\ pc[cleanup_ack[reaper_id]] = "join_ack"
       /\ target[cleanup_ack[reaper_id]] = reaper_id
       /\ ack[cleanup_ack[reaper_id]] = 0

LifecycleInv ==
  /\ TypeOK
  /\ LifeInv
  /\ FreedAfterExit
  /\ JoinedMeansReclaimed
  /\ CallInv
  /\ SendInv
  /\ RequestInv
  /\ AckInv

\* What holds in addition when only the owner of a handle joins it.
OwnerInv ==
  /\ ~fatal
  /\ \A t \in Ids : owner[t] # NoClient => t \notin detached /\ t \notin joined
  /\ \A c \in Clients :
       pc[c] \in {"join_wait", "join_lock", "join_enqueue", "join_ack"} =>
         owner[target[c]] = c
  /\ \A c \in Clients :
       pc[c] \in {"join_wait", "join_lock"} => target[c] \notin cleanup_queued

\* Joiners that have taken the completion token of their target and go on with it.
HasToken(c) == pc[c] \in {"join_lock", "join_enqueue", "join_ack"}

\* A thread puts one token, and one joiner at most gets further with it: while the token is
\* there or not put yet nobody has claimed the thread, and who has not claimed it yet knows
\* that no other joiner has.
TokenOK(t) ==
  /\ completion[t] <= 1
  /\ completion[t] > 0 \/ phase[t] \notin {"enqueue", "dtors", "completed"} =>
       /\ cleanup_ack[t] = NoClient
       /\ \A c \in Clients : HasToken(c) => target[c] # t
  /\ phase[t] \notin {"enqueue", "dtors", "completed"} => completion[t] = 0
  /\ \A c, d \in Clients :
       HasToken(c) /\ HasToken(d) /\ target[c] = t /\ target[d] = t => c = d
  /\ \A c \in Clients : pc[c] = "join_lock" /\ target[c] = t => cleanup_ack[t] = NoClient

TokenInv == (\A t \in Ids : TokenOK(t)) /\ FatalNeedsDetach
=============================================================================
