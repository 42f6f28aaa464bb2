------------------------ MODULE ThreadLifecycleProofs ------------------------
(***************************************************************************)
(* Proofs about ThreadLifecycle.  LifecycleInv is inductive; one lemma per  *)
(* action shows that it is preserved.  The safety properties and the       *)
(* refinement of ThreadContract follow from it.                            *)
(***************************************************************************)
EXTENDS ThreadLifecycle, TLAPS

\* Every std::thread is a possible caller of the runtime, the application
\* thread too, and a null handle is none of them.
LEMMA IdFacts ==
  /\ Ids \subseteq Clients
  /\ Main \in Clients
  /\ NoClient \notin Clients
BY LifecycleAssumption DEF Ids, Clients, Main, NoClient

\* thread_create up to register_thread preserves the invariant: the new id was
\* never used, so no request, call or acknowledgement refers to it.
LEMMA CreateRegisterInv ==
  ASSUME LifecycleInv, NEW c \in Clients, CreateRegister(c)
  PROVE  LifecycleInv'
<1> USE IdFacts DEF LifecycleInv, CreateRegister, CanCall, registryVars, controlVars, clientVars, reaperVars
<1>1. TypeOK'
  <2>1. next_registry_id' \in 1..(MaxThreads + 1)
    BY LifecycleAssumption DEF TypeOK, Ids
  <2>2. registry' \in SUBSET Ids
    BY DEF TypeOK
  <2>3. alloc' \in [Ids -> {"none", "live", "freed"}]
    BY DEF TypeOK
  <2>4. pc' \in [Clients -> Steps]
    BY DEF TypeOK, Steps
  <2>5. target' \in [Clients -> Ids \cup {NoClient}]
    BY DEF TypeOK
  <2> QED
    BY <2>1, <2>2, <2>3, <2>4, <2>5 DEF TypeOK
<1>2. LifeInv'
  BY LifecycleAssumption DEF TypeOK, LifeInv, InCall
<1>3. FreedAfterExit'
  BY DEF TypeOK, FreedAfterExit, CallInv, LifeInv
<1>4. JoinedMeansReclaimed'
  BY DEF TypeOK, JoinedMeansReclaimed, LifeInv
<1>5. CallInv'
  BY DEF TypeOK, CallInv, LifeInv, InCall
<1>6. SendInv'
  BY DEF SendInv
<1>7. RequestInv'
  <2>1. ASSUME NEW q \in Ids, Requested(q)
        PROVE  Requested(q)'
    BY <2>1 DEF TypeOK, Requested, LifeInv, Ids
  <2>2. cleanup_queue' = cleanup_queue /\ (reaper_pc' = "poll" => UNCHANGED reaperVars)
    OBVIOUS
  <2>3. \A q : Requested(q) => q \in Ids
    BY DEF Requested
  <2> QED
    BY <2>1, <2>2, <2>3 DEF RequestInv
<1>8. AckInv'
  BY DEF TypeOK, AckInv, LifeInv
<1> QED
  BY <1>1, <1>2, <1>3, <1>4, <1>5, <1>6, <1>7, <1>8

\* A successful tx_thread_create preserves the invariant: only this caller knows
\* the control.
LEMMA CreateStartInv ==
  ASSUME LifecycleInv, NEW c \in Clients, CreateStart(c)
  PROVE  LifecycleInv'
<1> USE IdFacts DEF LifecycleInv, CreateStart, registryVars, controlVars, clientVars, reaperVars
<1>1. TypeOK'
  BY DEF TypeOK, Phases, Steps, AckInv
<1>2. LifeInv'
  BY DEF TypeOK, LifeInv, CallInv, Ended
<1>3. FreedAfterExit'
  BY DEF TypeOK, FreedAfterExit, CallInv, LifeInv
<1>4. JoinedMeansReclaimed'
  BY DEF JoinedMeansReclaimed, CallInv
<1>5. CallInv'
  BY DEF TypeOK, CallInv
<1>6. SendInv'
  BY DEF SendInv
<1>7. RequestInv'
  <2>1. ASSUME NEW q \in Ids, Requested(q)
        PROVE  Requested(q)'
    BY <2>1 DEF TypeOK, Requested
  <2>2. cleanup_queue' = cleanup_queue /\ (reaper_pc' = "poll" => UNCHANGED reaperVars)
    OBVIOUS
  <2>3. \A q : Requested(q) => q \in Ids
    BY DEF Requested
  <2> QED
    BY <2>1, <2>2, <2>3 DEF RequestInv
<1>8. AckInv'
  BY DEF AckInv, CallInv
<1> QED
  BY <1>1, <1>2, <1>3, <1>4, <1>5, <1>6, <1>7, <1>8

\* The rollback of thread_create preserves the invariant: it frees a control
\* whose thread never started.
LEMMA CreateFailInv ==
  ASSUME LifecycleInv, NEW c \in Clients, CreateFail(c)
  PROVE  LifecycleInv'
<1> USE IdFacts DEF LifecycleInv, CreateFail, registryVars, controlVars, clientVars, reaperVars
<1>1. TypeOK'
  BY DEF TypeOK, Phases, Steps, AckInv
<1>2. LifeInv'
  BY DEF TypeOK, LifeInv, CallInv
<1>3. FreedAfterExit'
  BY DEF TypeOK, FreedAfterExit, CallInv, LifeInv
<1>4. JoinedMeansReclaimed'
  BY DEF JoinedMeansReclaimed
<1>5. CallInv'
  BY DEF TypeOK, CallInv, InCall
<1>6. SendInv'
  BY DEF SendInv, CallInv, LifeInv
<1>7. RequestInv'
  <2>1. ASSUME NEW q \in Ids, Requested(q)
        PROVE  Requested(q)'
    BY <2>1 DEF TypeOK, Requested, LifeInv, CallInv
  <2>2. cleanup_queue' = cleanup_queue /\ (reaper_pc' = "poll" => UNCHANGED reaperVars)
    OBVIOUS
  <2>3. \A q : Requested(q) => q \in Ids
    BY DEF Requested
  <2> QED
    BY <2>1, <2>2, <2>3 DEF RequestInv
<1>8. AckInv'
  BY DEF AckInv
<1> QED
  BY <1>1, <1>2, <1>3, <1>4, <1>5, <1>6, <1>7, <1>8

\* thread_join taking the completion token preserves the invariant.
LEMMA JoinTokenInv ==
  ASSUME LifecycleInv, NEW c \in Clients, JoinToken(c)
  PROVE  LifecycleInv'
<1> USE IdFacts DEF LifecycleInv, JoinToken, TokenAvailable, registryVars, controlVars, clientVars, reaperVars
<1>1. TypeOK'
  <2>1. completion' \in [Ids -> Nat]
    BY DEF TypeOK, CallInv
  <2>2. ack' \in [Clients -> {-1, 0, 1}]
    BY DEF TypeOK
  <2>3. pc' \in [Clients -> Steps]
    BY DEF TypeOK, Steps
  <2> QED
    BY <2>1, <2>2, <2>3 DEF TypeOK
<1>2. LifeInv'
  BY DEF LifeInv
<1>3. FreedAfterExit'
  BY DEF TypeOK, FreedAfterExit, CallInv, LifeInv
<1>4. JoinedMeansReclaimed'
  BY DEF JoinedMeansReclaimed
<1>5. CallInv'
  BY DEF TypeOK, CallInv, InCall
<1>6. SendInv'
  BY DEF SendInv
<1>7. RequestInv'
  <2>1. ASSUME NEW q \in Ids, Requested(q)
        PROVE  Requested(q)'
    BY <2>1 DEF TypeOK, Requested
  <2>2. cleanup_queue' = cleanup_queue /\ (reaper_pc' = "poll" => UNCHANGED reaperVars)
    OBVIOUS
  <2>3. \A q : Requested(q) => q \in Ids
    BY DEF Requested
  <2> QED
    BY <2>1, <2>2, <2>3 DEF RequestInv
<1>8. AckInv'
  BY DEF TypeOK, AckInv
<1> QED
  BY <1>1, <1>2, <1>3, <1>4, <1>5, <1>6, <1>7, <1>8

\* thread_join returning EAGAIN after it took the token preserves the invariant.
LEMMA JoinAckFailInv ==
  ASSUME LifecycleInv, NEW c \in Clients, JoinAckFail(c)
  PROVE  LifecycleInv'
<1> USE IdFacts DEF LifecycleInv, JoinAckFail, TokenAvailable, registryVars, controlVars, clientVars, reaperVars
<1>1. TypeOK'
  <2>1. completion' \in [Ids -> Nat]
    BY DEF TypeOK, CallInv
  <2>2. pc' \in [Clients -> Steps]
    BY DEF TypeOK, Steps
  <2> QED
    BY <2>1, <2>2 DEF TypeOK
<1>2. LifeInv'
  BY DEF LifeInv
<1>3. FreedAfterExit'
  BY DEF TypeOK, FreedAfterExit, CallInv, LifeInv
<1>4. JoinedMeansReclaimed'
  BY DEF JoinedMeansReclaimed
<1>5. CallInv'
  BY DEF CallInv, InCall
<1>6. SendInv'
  BY DEF SendInv
<1>7. RequestInv'
  <2>1. ASSUME NEW q \in Ids, Requested(q)
        PROVE  Requested(q)'
    BY <2>1 DEF TypeOK, Requested
  <2>2. cleanup_queue' = cleanup_queue /\ (reaper_pc' = "poll" => UNCHANGED reaperVars)
    OBVIOUS
  <2>3. \A q : Requested(q) => q \in Ids
    BY DEF Requested
  <2> QED
    BY <2>1, <2>2, <2>3 DEF RequestInv
<1>8. AckInv'
  BY DEF AckInv
<1> QED
  BY <1>1, <1>2, <1>3, <1>4, <1>5, <1>6, <1>7, <1>8

\* thread_join on a semaphore that was deleted under it preserves the invariant.
LEMMA JoinDeletedInv ==
  ASSUME LifecycleInv, NEW c \in Clients, JoinDeleted(c)
  PROVE  LifecycleInv'
<1> USE IdFacts DEF LifecycleInv, JoinDeleted, registryVars, controlVars, clientVars, reaperVars
<1>1. TypeOK'
  BY DEF TypeOK, Phases, Steps, AckInv
<1>2. LifeInv'
  BY DEF LifeInv
<1>3. FreedAfterExit'
  BY DEF TypeOK, FreedAfterExit, CallInv, LifeInv
<1>4. JoinedMeansReclaimed'
  BY DEF JoinedMeansReclaimed
<1>5. CallInv'
  BY DEF CallInv, InCall
<1>6. SendInv'
  BY DEF SendInv
<1>7. RequestInv'
  <2>1. ASSUME NEW q \in Ids, Requested(q)
        PROVE  Requested(q)'
    BY <2>1 DEF TypeOK, Requested
  <2>2. cleanup_queue' = cleanup_queue /\ (reaper_pc' = "poll" => UNCHANGED reaperVars)
    OBVIOUS
  <2>3. \A q : Requested(q) => q \in Ids
    BY DEF Requested
  <2> QED
    BY <2>1, <2>2, <2>3 DEF RequestInv
<1>8. AckInv'
  BY DEF AckInv
<1> QED
  BY <1>1, <1>2, <1>3, <1>4, <1>5, <1>6, <1>7, <1>8

\* thread_join refused with EINVAL preserves the invariant.
LEMMA JoinRefusedInv ==
  ASSUME LifecycleInv, NEW c \in Clients, JoinRefused(c)
  PROVE  LifecycleInv'
<1> USE IdFacts DEF LifecycleInv, JoinRefused, Claimed, registryVars, controlVars, clientVars, reaperVars
<1>1. TypeOK'
  <2>1. ack' \in [Clients -> {-1, 0, 1}]
    BY DEF TypeOK
  <2>2. pc' \in [Clients -> Steps]
    BY DEF TypeOK, Steps
  <2> QED
    BY <2>1, <2>2 DEF TypeOK
<1>2. LifeInv'
  BY DEF LifeInv
<1>3. FreedAfterExit'
  BY DEF TypeOK, FreedAfterExit, CallInv, LifeInv
<1>4. JoinedMeansReclaimed'
  BY DEF JoinedMeansReclaimed
<1>5. CallInv'
  BY DEF CallInv, LifeInv
<1>6. SendInv'
  BY DEF SendInv
<1>7. RequestInv'
  <2>1. ASSUME NEW q \in Ids, Requested(q)
        PROVE  Requested(q)'
    BY <2>1 DEF TypeOK, Requested
  <2>2. cleanup_queue' = cleanup_queue /\ (reaper_pc' = "poll" => UNCHANGED reaperVars)
    OBVIOUS
  <2>3. \A q : Requested(q) => q \in Ids
    BY DEF Requested
  <2> QED
    BY <2>1, <2>2, <2>3 DEF RequestInv
<1>8. AckInv'
  BY DEF TypeOK, AckInv
<1> QED
  BY <1>1, <1>2, <1>3, <1>4, <1>5, <1>6, <1>7, <1>8

\* The section of thread_join that claims the handle preserves the invariant:
\* after it this joiner alone sends the cleanup request.
LEMMA JoinClaimInv ==
  ASSUME LifecycleInv, NEW c \in Clients, JoinClaim(c)
  PROVE  LifecycleInv'
<1> USE IdFacts DEF LifecycleInv, JoinClaim, Claimed, registryVars, controlVars, clientVars, reaperVars
<1>1. TypeOK'
  <2>1. pc' \in [Clients -> Steps]
    BY DEF TypeOK, Steps
  <2>2. cleanup_ack' \in [Ids -> Clients \cup {NoClient}]
    BY DEF TypeOK
  <2>3. cleanup_queued' \in SUBSET Ids
    BY DEF TypeOK, CallInv
  <2> QED
    BY <2>1, <2>2, <2>3 DEF TypeOK
<1>2. LifeInv'
  BY DEF TypeOK, LifeInv, CallInv, InCall
<1>3. FreedAfterExit'
  BY DEF TypeOK, FreedAfterExit, CallInv, LifeInv
<1>4. JoinedMeansReclaimed'
  BY DEF JoinedMeansReclaimed
<1>5. CallInv'
  BY DEF TypeOK, CallInv, InCall
<1>6. SendInv'
  BY DEF TypeOK, SendInv, CallInv, LifeInv
<1>7. RequestInv'
  <2>1. ASSUME NEW q \in Ids, Requested(q)
        PROVE  Requested(q)'
    BY <2>1 DEF TypeOK, Requested
  <2>2. cleanup_queue' = cleanup_queue /\ (reaper_pc' = "poll" => UNCHANGED reaperVars)
    OBVIOUS
  <2>3. \A q : Requested(q) => q \in Ids
    BY DEF Requested
  <2> QED
    BY <2>1, <2>2, <2>3 DEF RequestInv
<1>8. AckInv'
  BY DEF TypeOK, AckInv, LifeInv
<1> QED
  BY <1>1, <1>2, <1>3, <1>4, <1>5, <1>6, <1>7, <1>8

\* thread_join sending the cleanup request preserves the invariant: no other
\* request for the thread is in the queue or with the reaper.
LEMMA JoinEnqueueInv ==
  ASSUME LifecycleInv, NEW c \in Clients, JoinEnqueue(c)
  PROVE  LifecycleInv'
<1> USE IdFacts DEF LifecycleInv, JoinEnqueue, enqueue_cleanup, registryVars, controlVars, clientVars, reaperVars
<1>1. TypeOK'
  <2>1. cleanup_queue' \in Seq(Ids)
    BY DEF TypeOK, CallInv
  <2>2. pc' \in [Clients -> Steps]
    BY DEF TypeOK, Steps
  <2> QED
    BY <2>1, <2>2 DEF TypeOK
<1>2. LifeInv'
  BY DEF LifeInv
<1>3. FreedAfterExit'
  BY DEF TypeOK, FreedAfterExit, CallInv, LifeInv
<1>4. JoinedMeansReclaimed'
  BY DEF JoinedMeansReclaimed
<1>5. CallInv'
  BY DEF TypeOK, CallInv, InCall
<1>6. SendInv'
  BY DEF SendInv
<1>7. RequestInv'
  <2> DEFINE n == target[c]
  <2>1. n \in Ids /\ cleanup_queue \in Seq(Ids)
    BY DEF TypeOK, CallInv
  <2>2. ASSUME NEW q \in Ids, Requested(q)
        PROVE  Requested(q)' /\ q # n
    BY <2>2 DEF Requested
  <2>3. ASSUME NEW q \in Ids, q = n
        PROVE  Requested(q)'
    BY <2>3 DEF TypeOK, Requested, SendInv, LifeInv, AckInv
  <2>4. /\ Len(cleanup_queue') = Len(cleanup_queue) + 1
        /\ \A i \in 1..Len(cleanup_queue) : cleanup_queue'[i] = cleanup_queue[i]
        /\ cleanup_queue'[Len(cleanup_queue) + 1] = n
    BY <2>1
  <2>5. \A i \in 1..Len(cleanup_queue) : cleanup_queue[i] \in Ids /\ Requested(cleanup_queue[i])
    BY <2>1 DEF RequestInv
  <2>6. Len(cleanup_queue) \in Nat
    BY <2>1
  <2>7. (\A i \in 1..Len(cleanup_queue) : Requested(cleanup_queue[i]))'
    <3> SUFFICES ASSUME NEW i \in 1..Len(cleanup_queue')
                 PROVE  Requested(cleanup_queue[i])'
      OBVIOUS
    <3>1. PICK q \in Ids : q = cleanup_queue'[i] /\ Requested(q)'
      BY <2>1, <2>2, <2>3, <2>4, <2>5, <2>6
    <3> QED
      BY <3>1 DEF Requested
  <2>8. \A i, j \in 1..Len(cleanup_queue') : cleanup_queue'[i] = cleanup_queue'[j] => i = j
    BY <2>2, <2>4, <2>5, <2>6 DEF RequestInv
  <2>9. reaper_pc' = "poll" =>
          /\ Requested(reaper_id)'
          /\ \A i \in 1..Len(cleanup_queue') : cleanup_queue'[i] # reaper_id'
    BY <2>2, <2>4, <2>5, <2>6 DEF RequestInv, Requested
  <2> QED
    BY <2>7, <2>8, <2>9 DEF RequestInv
<1>8. AckInv'
  BY DEF AckInv, SendInv
<1> QED
  BY <1>1, <1>2, <1>3, <1>4, <1>5, <1>6, <1>7, <1>8

\* thread_join returning 0 preserves the invariant: its acknowledgement was put
\* after the control was freed.
LEMMA JoinReturnInv ==
  ASSUME LifecycleInv, NEW c \in Clients, JoinReturn(c)
  PROVE  LifecycleInv'
<1> USE IdFacts DEF LifecycleInv, JoinReturn, Acknowledged, registryVars, controlVars, clientVars, reaperVars
<1>1. TypeOK'
  <2>1. ack' \in [Clients -> {-1, 0, 1}]
    BY DEF TypeOK
  <2>2. pc' \in [Clients -> Steps]
    BY DEF TypeOK, Steps
  <2>3. owner' \in [Ids -> Clients \cup {NoClient}]
    BY DEF TypeOK
  <2>4. joined' \in SUBSET Ids
    BY DEF TypeOK, CallInv
  <2> QED
    BY <2>1, <2>2, <2>3, <2>4 DEF TypeOK
<1>2. LifeInv'
  BY DEF LifeInv
<1>3. FreedAfterExit'
  BY DEF TypeOK, FreedAfterExit, CallInv, LifeInv
<1>4. JoinedMeansReclaimed'
  BY DEF JoinedMeansReclaimed, AckInv
<1>5. CallInv'
  BY DEF CallInv, InCall
<1>6. SendInv'
  BY DEF SendInv
<1>7. RequestInv'
  <2>1. ASSUME NEW q \in Ids, Requested(q)
        PROVE  Requested(q)'
    BY <2>1 DEF TypeOK, Requested
  <2>2. cleanup_queue' = cleanup_queue /\ (reaper_pc' = "poll" => UNCHANGED reaperVars)
    OBVIOUS
  <2>3. \A q : Requested(q) => q \in Ids
    BY DEF Requested
  <2> QED
    BY <2>1, <2>2, <2>3 DEF RequestInv
<1>8. AckInv'
  BY DEF TypeOK, AckInv, SendInv
<1> QED
  BY <1>1, <1>2, <1>3, <1>4, <1>5, <1>6, <1>7, <1>8

\* thread_detach sending the cleanup request preserves the invariant.
LEMMA DetachEnqueueInv ==
  ASSUME LifecycleInv, NEW c \in Clients, DetachEnqueue(c)
  PROVE  LifecycleInv'
<1> USE IdFacts DEF LifecycleInv, DetachEnqueue, enqueue_cleanup, registryVars, controlVars, clientVars, reaperVars
<1>1. TypeOK'
  <2>1. cleanup_queue' \in Seq(Ids)
    BY DEF TypeOK, CallInv
  <2>2. pc' \in [Clients -> Steps]
    BY DEF TypeOK, Steps
  <2> QED
    BY <2>1, <2>2 DEF TypeOK
<1>2. LifeInv'
  BY DEF LifeInv
<1>3. FreedAfterExit'
  BY DEF TypeOK, FreedAfterExit, CallInv, LifeInv
<1>4. JoinedMeansReclaimed'
  BY DEF JoinedMeansReclaimed
<1>5. CallInv'
  BY DEF CallInv, InCall
<1>6. SendInv'
  BY DEF SendInv
<1>7. RequestInv'
  <2> DEFINE n == target[c]
  <2>1. n \in Ids /\ cleanup_queue \in Seq(Ids)
    BY DEF TypeOK, CallInv
  <2>2. ASSUME NEW q \in Ids, Requested(q)
        PROVE  Requested(q)' /\ q # n
    BY <2>2 DEF Requested
  <2>3. ASSUME NEW q \in Ids, q = n
        PROVE  Requested(q)'
    BY <2>3 DEF TypeOK, Requested, SendInv, LifeInv
  <2>4. /\ Len(cleanup_queue') = Len(cleanup_queue) + 1
        /\ \A i \in 1..Len(cleanup_queue) : cleanup_queue'[i] = cleanup_queue[i]
        /\ cleanup_queue'[Len(cleanup_queue) + 1] = n
    BY <2>1
  <2>5. \A i \in 1..Len(cleanup_queue) : cleanup_queue[i] \in Ids /\ Requested(cleanup_queue[i])
    BY <2>1 DEF RequestInv
  <2>6. Len(cleanup_queue) \in Nat
    BY <2>1
  <2>7. (\A i \in 1..Len(cleanup_queue) : Requested(cleanup_queue[i]))'
    <3> SUFFICES ASSUME NEW i \in 1..Len(cleanup_queue')
                 PROVE  Requested(cleanup_queue[i])'
      OBVIOUS
    <3>1. PICK q \in Ids : q = cleanup_queue'[i] /\ Requested(q)'
      BY <2>1, <2>2, <2>3, <2>4, <2>5, <2>6
    <3> QED
      BY <3>1 DEF Requested
  <2>8. \A i, j \in 1..Len(cleanup_queue') : cleanup_queue'[i] = cleanup_queue'[j] => i = j
    BY <2>2, <2>4, <2>5, <2>6 DEF RequestInv
  <2>9. reaper_pc' = "poll" =>
          /\ Requested(reaper_id)'
          /\ \A i \in 1..Len(cleanup_queue') : cleanup_queue'[i] # reaper_id'
    BY <2>2, <2>4, <2>5, <2>6 DEF RequestInv, Requested
  <2> QED
    BY <2>7, <2>8, <2>9 DEF RequestInv
<1>8. AckInv'
  BY DEF AckInv
<1> QED
  BY <1>1, <1>2, <1>3, <1>4, <1>5, <1>6, <1>7, <1>8

\* Calling thread_join preserves the invariant.
LEMMA JoinBeginInv ==
  ASSUME LifecycleInv, NEW c \in Clients, NEW t \in Ids, JoinBegin(c, t)
  PROVE  LifecycleInv'
<1> USE IdFacts DEF LifecycleInv, JoinBegin, CanCall, registryVars, controlVars, clientVars, reaperVars
<1>1. TypeOK'
  BY DEF TypeOK, Phases, Steps, AckInv
<1>2. LifeInv'
  BY DEF LifeInv
<1>3. FreedAfterExit'
  BY DEF TypeOK, FreedAfterExit, CallInv, LifeInv
<1>4. JoinedMeansReclaimed'
  BY DEF JoinedMeansReclaimed
<1>5. CallInv'
  BY DEF TypeOK, CallInv, LifeInv
<1>6. SendInv'
  BY DEF SendInv
<1>7. RequestInv'
  <2>1. ASSUME NEW q \in Ids, Requested(q)
        PROVE  Requested(q)'
    BY <2>1 DEF TypeOK, Requested
  <2>2. cleanup_queue' = cleanup_queue /\ (reaper_pc' = "poll" => UNCHANGED reaperVars)
    OBVIOUS
  <2>3. \A q : Requested(q) => q \in Ids
    BY DEF Requested
  <2> QED
    BY <2>1, <2>2, <2>3 DEF RequestInv
<1>8. AckInv'
  BY DEF AckInv
<1> QED
  BY <1>1, <1>2, <1>3, <1>4, <1>5, <1>6, <1>7, <1>8

\* thread_detach refused with EINVAL preserves the invariant.
LEMMA DetachRefusedInv ==
  ASSUME LifecycleInv, NEW c \in Clients, NEW t \in Ids, DetachRefused(c, t)
  PROVE  LifecycleInv'
<1> USE IdFacts DEF LifecycleInv, DetachRefused, DetachCall, CanCall, registryVars, controlVars, clientVars, reaperVars
<1>1. TypeOK'
  <2>1. owner' \in [Ids -> Clients \cup {NoClient}]
    BY DEF TypeOK
  <2> QED
    BY <2>1 DEF TypeOK
<1>2. LifeInv'
  BY DEF LifeInv
<1>3. FreedAfterExit'
  BY DEF TypeOK, FreedAfterExit, CallInv, LifeInv
<1>4. JoinedMeansReclaimed'
  BY DEF JoinedMeansReclaimed
<1>5. CallInv'
  BY DEF CallInv
<1>6. SendInv'
  BY DEF SendInv
<1>7. RequestInv'
  <2>1. ASSUME NEW q \in Ids, Requested(q)
        PROVE  Requested(q)'
    BY <2>1 DEF TypeOK, Requested
  <2>2. cleanup_queue' = cleanup_queue /\ (reaper_pc' = "poll" => UNCHANGED reaperVars)
    OBVIOUS
  <2>3. \A q : Requested(q) => q \in Ids
    BY DEF Requested
  <2> QED
    BY <2>1, <2>2, <2>3 DEF RequestInv
<1>8. AckInv'
  BY DEF AckInv
<1> QED
  BY <1>1, <1>2, <1>3, <1>4, <1>5, <1>6, <1>7, <1>8

\* thread_detach of a thread that has not finished preserves the invariant.
LEMMA DetachRunningInv ==
  ASSUME LifecycleInv, NEW c \in Clients, NEW t \in Ids, DetachRunning(c, t)
  PROVE  LifecycleInv'
<1> USE IdFacts DEF LifecycleInv, DetachRunning, DetachCall, CanCall, Claimed, EnqueueOnDetach, registryVars, controlVars, clientVars, reaperVars
<1>1. TypeOK'
  <2>1. owner' \in [Ids -> Clients \cup {NoClient}]
    BY DEF TypeOK
  <2>2. detached' \in SUBSET Ids
    BY DEF TypeOK
  <2> QED
    BY <2>1, <2>2 DEF TypeOK
<1>2. LifeInv'
  BY DEF LifeInv
<1>3. FreedAfterExit'
  BY DEF TypeOK, FreedAfterExit, CallInv, LifeInv
<1>4. JoinedMeansReclaimed'
  BY DEF JoinedMeansReclaimed
<1>5. CallInv'
  BY DEF CallInv
<1>6. SendInv'
  BY DEF SendInv
<1>7. RequestInv'
  <2>1. ASSUME NEW q \in Ids, Requested(q)
        PROVE  Requested(q)'
    BY <2>1 DEF TypeOK, Requested
  <2>2. cleanup_queue' = cleanup_queue /\ (reaper_pc' = "poll" => UNCHANGED reaperVars)
    OBVIOUS
  <2>3. \A q : Requested(q) => q \in Ids
    BY DEF Requested
  <2> QED
    BY <2>1, <2>2, <2>3 DEF RequestInv
<1>8. AckInv'
  BY DEF AckInv
<1> QED
  BY <1>1, <1>2, <1>3, <1>4, <1>5, <1>6, <1>7, <1>8

\* thread_detach of a finished thread preserves the invariant: the thread itself
\* decided against sending a request when it set finished.
LEMMA DetachFinishedInv ==
  ASSUME LifecycleInv, NEW c \in Clients, NEW t \in Ids, DetachFinished(c, t)
  PROVE  LifecycleInv'
<1> USE IdFacts DEF LifecycleInv, DetachFinished, DetachCall, CanCall, Claimed, EnqueueOnDetach, registryVars, controlVars, clientVars, reaperVars
<1>1. TypeOK'
  <2>1. owner' \in [Ids -> Clients \cup {NoClient}]
    BY DEF TypeOK
  <2>2. detached' \in SUBSET Ids
    BY DEF TypeOK
  <2>3. cleanup_queued' \in SUBSET Ids
    BY DEF TypeOK
  <2>4. pc' \in [Clients -> Steps]
    BY DEF TypeOK, Steps
  <2>5. target' \in [Clients -> Ids \cup {NoClient}]
    BY DEF TypeOK
  <2> QED
    BY <2>1, <2>2, <2>3, <2>4, <2>5 DEF TypeOK
<1>2. LifeInv'
  BY DEF LifeInv
<1>3. FreedAfterExit'
  BY DEF TypeOK, FreedAfterExit, CallInv, LifeInv
<1>4. JoinedMeansReclaimed'
  BY DEF JoinedMeansReclaimed
<1>5. CallInv'
  BY DEF TypeOK, CallInv, LifeInv
<1>6. SendInv'
  BY DEF TypeOK, SendInv
<1>7. RequestInv'
  <2>1. ASSUME NEW q \in Ids, Requested(q)
        PROVE  Requested(q)'
    BY <2>1 DEF TypeOK, Requested
  <2>2. cleanup_queue' = cleanup_queue /\ (reaper_pc' = "poll" => UNCHANGED reaperVars)
    OBVIOUS
  <2>3. \A q : Requested(q) => q \in Ids
    BY DEF Requested
  <2> QED
    BY <2>1, <2>2, <2>3 DEF RequestInv
<1>8. AckInv'
  BY DEF AckInv
<1> QED
  BY <1>1, <1>2, <1>3, <1>4, <1>5, <1>6, <1>7, <1>8

\* thread_entry finding its control preserves the invariant.
LEMMA ThreadEntryInv ==
  ASSUME LifecycleInv, NEW t \in Ids, ThreadEntry(t)
  PROVE  LifecycleInv'
<1> USE IdFacts DEF LifecycleInv, ThreadEntry, registryVars, controlVars, clientVars, reaperVars
<1>0. phase' = [phase EXCEPT ![t] = "body"] /\ UNCHANGED fatal
  <2>1. t \in registry
    BY DEF TypeOK, LifeInv, FreedAfterExit
  <2> QED
    BY <2>1
<1>1. TypeOK'
  <2>1. phase' \in [Ids -> Phases]
    BY <1>0 DEF TypeOK, Phases
  <2>2. fatal' \in BOOLEAN
    BY DEF TypeOK
  <2> QED
    BY <2>1, <2>2 DEF TypeOK
<1>2. LifeInv'
  BY <1>0 DEF LifeInv, Ended
<1>3. FreedAfterExit'
  BY DEF TypeOK, FreedAfterExit, CallInv, LifeInv
<1>4. JoinedMeansReclaimed'
  BY DEF TypeOK, JoinedMeansReclaimed
<1>5. CallInv'
  BY DEF TypeOK, CallInv, InCall
<1>6. SendInv'
  BY DEF TypeOK, SendInv
<1>7. RequestInv'
  <2>1. ASSUME NEW q \in Ids, Requested(q)
        PROVE  Requested(q)'
    BY <2>1 DEF TypeOK, Requested
  <2>2. cleanup_queue' = cleanup_queue /\ (reaper_pc' = "poll" => UNCHANGED reaperVars)
    OBVIOUS
  <2>3. \A q : Requested(q) => q \in Ids
    BY DEF Requested
  <2> QED
    BY <2>1, <2>2, <2>3 DEF RequestInv
<1>8. AckInv'
  BY DEF TypeOK, AckInv, CallInv
<1> QED
  BY <1>1, <1>2, <1>3, <1>4, <1>5, <1>6, <1>7, <1>8

\* The put of completion preserves the invariant.
LEMMA ThreadPutInv ==
  ASSUME LifecycleInv, NEW t \in Ids, ThreadPut(t)
  PROVE  LifecycleInv'
<1> USE IdFacts DEF LifecycleInv, ThreadPut, CompletionPut, registryVars, controlVars, clientVars, reaperVars
<1>1. TypeOK'
  <2>1. completion' \in [Ids -> Nat]
    BY DEF TypeOK
  <2>2. phase' \in [Ids -> Phases]
    BY DEF TypeOK, Phases
  <2> QED
    BY <2>1, <2>2 DEF TypeOK
<1>2. LifeInv'
  BY DEF LifeInv, Ended
<1>3. FreedAfterExit'
  BY DEF TypeOK, FreedAfterExit, CallInv, LifeInv
<1>4. JoinedMeansReclaimed'
  BY DEF JoinedMeansReclaimed
<1>5. CallInv'
  BY DEF CallInv
<1>6. SendInv'
  BY DEF SendInv
<1>7. RequestInv'
  <2>1. ASSUME NEW q \in Ids, Requested(q)
        PROVE  Requested(q)'
    BY <2>1 DEF TypeOK, Requested
  <2>2. cleanup_queue' = cleanup_queue /\ (reaper_pc' = "poll" => UNCHANGED reaperVars)
    OBVIOUS
  <2>3. \A q : Requested(q) => q \in Ids
    BY DEF Requested
  <2> QED
    BY <2>1, <2>2, <2>3 DEF RequestInv
<1>8. AckInv'
  BY DEF AckInv
<1> QED
  BY <1>1, <1>2, <1>3, <1>4, <1>5, <1>6, <1>7, <1>8

\* A detached thread sending its own cleanup request preserves the invariant.
LEMMA ThreadEnqueueInv ==
  ASSUME LifecycleInv, NEW t \in Ids, ThreadEnqueue(t)
  PROVE  LifecycleInv'
<1> USE IdFacts DEF LifecycleInv, ThreadEnqueue, enqueue_cleanup, registryVars, controlVars, clientVars, reaperVars
<1>1. TypeOK'
  <2>1. cleanup_queue' \in Seq(Ids)
    BY DEF TypeOK
  <2>2. phase' \in [Ids -> Phases]
    BY DEF TypeOK, Phases
  <2> QED
    BY <2>1, <2>2 DEF TypeOK
<1>2. LifeInv'
  BY DEF LifeInv, Ended
<1>3. FreedAfterExit'
  BY DEF TypeOK, FreedAfterExit, CallInv, LifeInv
<1>4. JoinedMeansReclaimed'
  BY DEF JoinedMeansReclaimed
<1>5. CallInv'
  BY DEF CallInv
<1>6. SendInv'
  BY DEF SendInv
<1>7. RequestInv'
  <2> DEFINE n == t
  <2>1. n \in Ids /\ cleanup_queue \in Seq(Ids)
    BY DEF TypeOK, CallInv
  <2>2. ASSUME NEW q \in Ids, Requested(q)
        PROVE  Requested(q)' /\ q # n
    BY <2>2 DEF Requested
  <2>3. ASSUME NEW q \in Ids, q = n
        PROVE  Requested(q)'
    BY <2>3 DEF TypeOK, Requested, SendInv, LifeInv
  <2>4. /\ Len(cleanup_queue') = Len(cleanup_queue) + 1
        /\ \A i \in 1..Len(cleanup_queue) : cleanup_queue'[i] = cleanup_queue[i]
        /\ cleanup_queue'[Len(cleanup_queue) + 1] = n
    BY <2>1
  <2>5. \A i \in 1..Len(cleanup_queue) : cleanup_queue[i] \in Ids /\ Requested(cleanup_queue[i])
    BY <2>1 DEF RequestInv
  <2>6. Len(cleanup_queue) \in Nat
    BY <2>1
  <2>7. (\A i \in 1..Len(cleanup_queue) : Requested(cleanup_queue[i]))'
    <3> SUFFICES ASSUME NEW i \in 1..Len(cleanup_queue')
                 PROVE  Requested(cleanup_queue[i])'
      OBVIOUS
    <3>1. PICK q \in Ids : q = cleanup_queue'[i] /\ Requested(q)'
      BY <2>1, <2>2, <2>3, <2>4, <2>5, <2>6
    <3> QED
      BY <3>1 DEF Requested
  <2>8. \A i, j \in 1..Len(cleanup_queue') : cleanup_queue'[i] = cleanup_queue'[j] => i = j
    BY <2>2, <2>4, <2>5, <2>6 DEF RequestInv
  <2>9. reaper_pc' = "poll" =>
          /\ Requested(reaper_id)'
          /\ \A i \in 1..Len(cleanup_queue') : cleanup_queue'[i] # reaper_id'
    BY <2>2, <2>4, <2>5, <2>6 DEF RequestInv, Requested
  <2> QED
    BY <2>7, <2>8, <2>9 DEF RequestInv
<1>8. AckInv'
  BY DEF AckInv
<1> QED
  BY <1>1, <1>2, <1>3, <1>4, <1>5, <1>6, <1>7, <1>8

\* The end of the thread_local destructors preserves the invariant.
LEMMA ThreadExitInv ==
  ASSUME LifecycleInv, NEW t \in Ids, ThreadExit(t)
  PROVE  LifecycleInv'
<1> USE IdFacts DEF LifecycleInv, ThreadExit, registryVars, controlVars, clientVars, reaperVars
<1>1. TypeOK'
  BY DEF TypeOK, Phases, Steps, AckInv
<1>2. LifeInv'
  BY DEF LifeInv, Ended
<1>3. FreedAfterExit'
  BY DEF TypeOK, FreedAfterExit, CallInv, LifeInv
<1>4. JoinedMeansReclaimed'
  BY DEF JoinedMeansReclaimed
<1>5. CallInv'
  BY DEF CallInv
<1>6. SendInv'
  BY DEF SendInv
<1>7. RequestInv'
  <2>1. ASSUME NEW q \in Ids, Requested(q)
        PROVE  Requested(q)'
    BY <2>1 DEF TypeOK, Requested
  <2>2. cleanup_queue' = cleanup_queue /\ (reaper_pc' = "poll" => UNCHANGED reaperVars)
    OBVIOUS
  <2>3. \A q : Requested(q) => q \in Ids
    BY DEF Requested
  <2> QED
    BY <2>1, <2>2, <2>3 DEF RequestInv
<1>8. AckInv'
  BY DEF AckInv
<1> QED
  BY <1>1, <1>2, <1>3, <1>4, <1>5, <1>6, <1>7, <1>8

\* thread_entry setting finished without a detach preserves the invariant.
LEMMA ThreadFinishInv ==
  ASSUME LifecycleInv, NEW t \in Ids, ThreadFinish(t)
  PROVE  LifecycleInv'
<1> USE IdFacts DEF LifecycleInv, ThreadFinish, EntryReturns, registryVars, controlVars, clientVars, reaperVars
<1>1. TypeOK'
  <2>1. finished' \in SUBSET Ids
    BY DEF TypeOK
  <2>2. phase' \in [Ids -> Phases]
    BY DEF TypeOK, Phases
  <2> QED
    BY <2>1, <2>2 DEF TypeOK
<1>2. LifeInv'
  BY DEF TypeOK, LifeInv, Ended
<1>3. FreedAfterExit'
  BY DEF TypeOK, FreedAfterExit, CallInv, LifeInv
<1>4. JoinedMeansReclaimed'
  BY DEF JoinedMeansReclaimed
<1>5. CallInv'
  BY DEF CallInv
<1>6. SendInv'
  BY DEF SendInv
<1>7. RequestInv'
  <2>1. ASSUME NEW q \in Ids, Requested(q)
        PROVE  Requested(q)'
    BY <2>1 DEF TypeOK, Requested
  <2>2. cleanup_queue' = cleanup_queue /\ (reaper_pc' = "poll" => UNCHANGED reaperVars)
    OBVIOUS
  <2>3. \A q : Requested(q) => q \in Ids
    BY DEF Requested
  <2> QED
    BY <2>1, <2>2, <2>3 DEF RequestInv
<1>8. AckInv'
  BY DEF AckInv
<1> QED
  BY <1>1, <1>2, <1>3, <1>4, <1>5, <1>6, <1>7, <1>8

\* thread_entry setting finished after a detach preserves the invariant: it
\* claims the one cleanup request for the thread.
LEMMA ThreadFinishDetachedInv ==
  ASSUME LifecycleInv, NEW t \in Ids, ThreadFinishDetached(t)
  PROVE  LifecycleInv'
<1> USE IdFacts DEF LifecycleInv, ThreadFinishDetached, EntryReturns, EnqueueOnFinish, registryVars, controlVars, clientVars, reaperVars
<1>1. TypeOK'
  <2>1. finished' \in SUBSET Ids
    BY DEF TypeOK
  <2>2. cleanup_queued' \in SUBSET Ids
    BY DEF TypeOK
  <2>3. phase' \in [Ids -> Phases]
    BY DEF TypeOK, Phases
  <2> QED
    BY <2>1, <2>2, <2>3 DEF TypeOK
<1>2. LifeInv'
  BY DEF TypeOK, LifeInv, Ended
<1>3. FreedAfterExit'
  BY DEF TypeOK, FreedAfterExit, CallInv, LifeInv
<1>4. JoinedMeansReclaimed'
  BY DEF JoinedMeansReclaimed
<1>5. CallInv'
  BY DEF CallInv
<1>6. SendInv'
  BY DEF SendInv
<1>7. RequestInv'
  <2>1. ASSUME NEW q \in Ids, Requested(q)
        PROVE  Requested(q)'
    BY <2>1 DEF TypeOK, Requested
  <2>2. cleanup_queue' = cleanup_queue /\ (reaper_pc' = "poll" => UNCHANGED reaperVars)
    OBVIOUS
  <2>3. \A q : Requested(q) => q \in Ids
    BY DEF Requested
  <2> QED
    BY <2>1, <2>2, <2>3 DEF RequestInv
<1>8. AckInv'
  BY DEF AckInv
<1> QED
  BY <1>1, <1>2, <1>3, <1>4, <1>5, <1>6, <1>7, <1>8

\* The reaper receiving a request preserves the invariant: the id it got is not
\* in the queue a second time.
LEMMA ReaperReceiveInv ==
  ASSUME LifecycleInv, ReaperReceive
  PROVE  LifecycleInv'
<1> USE IdFacts DEF LifecycleInv, ReaperReceive, registryVars, controlVars, clientVars, reaperVars
<1>1. TypeOK'
  <2>1. cleanup_queue' \in Seq(Ids)
    BY DEF TypeOK
  <2>2. reaper_pc' \in {"receive", "poll", "ack"}
    OBVIOUS
  <2>3. reaper_id' \in Ids \cup {NoClient}
    BY DEF TypeOK
  <2>4. fatal' \in BOOLEAN
    BY DEF TypeOK
  <2> QED
    BY <2>1, <2>2, <2>3, <2>4 DEF TypeOK
<1>2. LifeInv'
  BY DEF LifeInv
<1>3. FreedAfterExit'
  BY DEF TypeOK, FreedAfterExit, CallInv, LifeInv
<1>4. JoinedMeansReclaimed'
  BY DEF JoinedMeansReclaimed
<1>5. CallInv'
  BY DEF CallInv
<1>6. SendInv'
  BY DEF SendInv
<1>7. RequestInv'
  BY DEF RequestInv, Requested
<1>8. AckInv'
  BY DEF AckInv
<1> QED
  BY <1>1, <1>2, <1>3, <1>4, <1>5, <1>6, <1>7, <1>8

\* The reaper freeing a control preserves the invariant: the thread has ended,
\* and nobody is about to send a request for it.
LEMMA ReaperDeleteInv ==
  ASSUME LifecycleInv, ReaperDelete
  PROVE  LifecycleInv'
<1> USE IdFacts DEF LifecycleInv, ReaperDelete, TargetExited, AfterDelete, registryVars, controlVars, clientVars, reaperVars
<1>1. TypeOK'
  BY DEF TypeOK, Phases, Steps, AckInv
<1>2. LifeInv'
  BY DEF TypeOK, LifeInv, RequestInv, Requested
<1>3. FreedAfterExit'
  BY DEF TypeOK, FreedAfterExit, CallInv, LifeInv
<1>4. JoinedMeansReclaimed'
  BY DEF JoinedMeansReclaimed
<1>5. CallInv'
  BY DEF CallInv
<1>6. SendInv'
  BY DEF SendInv, RequestInv, Requested
<1>7. RequestInv'
  BY DEF RequestInv, Requested
<1>8. AckInv'
  BY DEF TypeOK, AckInv, RequestInv, Requested
<1> QED
  BY <1>1, <1>2, <1>3, <1>4, <1>5, <1>6, <1>7, <1>8

\* The reaper's acknowledgement preserves the invariant: the joiner's semaphore
\* still exists.
LEMMA ReaperAckInv ==
  ASSUME LifecycleInv, ReaperAck
  PROVE  LifecycleInv'
<1> USE IdFacts DEF LifecycleInv, ReaperAck, registryVars, controlVars, clientVars, reaperVars
<1>1. TypeOK'
  <2>1. reaper_pc' \in {"receive", "poll", "ack"}
    OBVIOUS
  <2>2. ack' \in [Clients -> {-1, 0, 1}]
    BY DEF TypeOK, CallInv, AckInv, Phases, Steps
  <2>3. fatal' \in BOOLEAN
    BY DEF TypeOK
  <2> QED
    BY <2>1, <2>2, <2>3 DEF TypeOK
<1>2. LifeInv'
  BY DEF LifeInv
<1>3. FreedAfterExit'
  BY DEF TypeOK, FreedAfterExit, CallInv, LifeInv
<1>4. JoinedMeansReclaimed'
  BY DEF JoinedMeansReclaimed
<1>5. CallInv'
  BY DEF CallInv
<1>6. SendInv'
  BY DEF SendInv
<1>7. RequestInv'
  <2>1. ASSUME NEW q \in Ids, Requested(q)
        PROVE  Requested(q)'
    BY <2>1 DEF TypeOK, Requested, AckInv
  <2>2. cleanup_queue' = cleanup_queue /\ (reaper_pc' = "poll" => UNCHANGED reaperVars)
    OBVIOUS
  <2>3. \A q : Requested(q) => q \in Ids
    BY DEF Requested
  <2> QED
    BY <2>1, <2>2, <2>3 DEF RequestInv
<1>8. AckInv'
  BY DEF TypeOK, AckInv
<1> QED
  BY <1>1, <1>2, <1>3, <1>4, <1>5, <1>6, <1>7, <1>8

\* A step of a program that went wrong preserves what the invariant says.
LEMMA UseAfterFreeInv ==
  ASSUME LifecycleInv, UseAfterFree
  PROVE  LifecycleInv'
<1> USE IdFacts DEF LifecycleInv, UseAfterFree, registryVars, controlVars, clientVars, reaperVars
<1>1. TypeOK'
  BY DEF TypeOK, Phases, Steps, AckInv
<1>2. LifeInv'
  BY DEF LifeInv
<1>3. FreedAfterExit'
  BY DEF TypeOK, FreedAfterExit, CallInv, LifeInv
<1>4. JoinedMeansReclaimed'
  BY DEF JoinedMeansReclaimed
<1>5. CallInv'
  BY DEF CallInv
<1>6. SendInv'
  BY DEF SendInv
<1>7. RequestInv'
  <2>1. ASSUME NEW q \in Ids, Requested(q)
        PROVE  Requested(q)'
    BY <2>1 DEF TypeOK, Requested
  <2>2. cleanup_queue' = cleanup_queue /\ (reaper_pc' = "poll" => UNCHANGED reaperVars)
    OBVIOUS
  <2>3. \A q : Requested(q) => q \in Ids
    BY DEF Requested
  <2> QED
    BY <2>1, <2>2, <2>3 DEF RequestInv
<1>8. AckInv'
  BY DEF AckInv
<1> QED
  BY <1>1, <1>2, <1>3, <1>4, <1>5, <1>6, <1>7, <1>8

-----------------------------------------------------------------------------

\* The invariant holds before the first thread_create.
LEMMA InitInv == Init => LifecycleInv
<1> SUFFICES ASSUME Init PROVE LifecycleInv
  OBVIOUS
<1> USE IdFacts DEF Init
<1>1. TypeOK
  <2>1. next_registry_id \in 1..(MaxThreads + 1)
    BY LifecycleAssumption
  <2>2. cleanup_queue \in Seq(Ids)
    OBVIOUS
  <2>3. alloc \in [Ids -> {"none", "live", "freed"}] /\ completion \in [Ids -> Nat]
    OBVIOUS
  <2>4. cleanup_ack \in [Ids -> Clients \cup {NoClient}] /\ owner \in [Ids -> Clients \cup {NoClient}]
    OBVIOUS
  <2>5. phase \in [Ids -> Phases] /\ pc \in [Clients -> Steps]
    BY DEF Phases, Steps
  <2>6. target \in [Clients -> Ids \cup {NoClient}] /\ ack \in [Clients -> {-1, 0, 1}]
    OBVIOUS
  <2> QED
    BY <2>1, <2>2, <2>3, <2>4, <2>5, <2>6 DEF TypeOK
<1>2. LifeInv
  BY LifecycleAssumption DEF LifeInv, Ids, Ended
<1>3. FreedAfterExit /\ JoinedMeansReclaimed /\ CallInv /\ SendInv
  BY DEF FreedAfterExit, JoinedMeansReclaimed, CallInv, SendInv, InCall
<1>4. RequestInv /\ AckInv
  BY DEF RequestInv, AckInv
<1> QED
  BY <1>1, <1>2, <1>3, <1>4 DEF LifecycleInv

\* A step that leaves the module's variables alone preserves the invariant.
LEMMA StutterInv == LifecycleInv /\ UNCHANGED vars => LifecycleInv'
<1> SUFFICES ASSUME LifecycleInv, UNCHANGED vars
             PROVE  LifecycleInv'
  OBVIOUS
<1> USE DEF LifecycleInv, vars, registryVars, controlVars, clientVars, reaperVars
<1>1. TypeOK'
  BY DEF TypeOK
<1>2. LifeInv' /\ FreedAfterExit' /\ JoinedMeansReclaimed'
  BY DEF LifeInv, FreedAfterExit, JoinedMeansReclaimed
<1>3. CallInv' /\ SendInv' /\ AckInv'
  BY DEF CallInv, SendInv, AckInv
<1>4. RequestInv'
  BY DEF RequestInv, Requested
<1> QED
  BY <1>1, <1>2, <1>3, <1>4

\* Every step of a client, a thread or the reaper preserves the invariant.
LEMMA NextInv == LifecycleInv /\ [Next]_vars => LifecycleInv'
BY StutterInv, CreateRegisterInv, CreateStartInv, CreateFailInv, JoinTokenInv,
   JoinAckFailInv, JoinDeletedInv, JoinRefusedInv, JoinClaimInv, JoinEnqueueInv,
   JoinReturnInv, DetachEnqueueInv, JoinBeginInv, DetachRefusedInv, DetachRunningInv,
   DetachFinishedInv, ThreadEntryInv, ThreadPutInv, ThreadEnqueueInv, ThreadExitInv,
   ThreadFinishInv, ThreadFinishDetachedInv, ReaperReceiveInv, ReaperDeleteInv,
   ReaperAckInv, UseAfterFreeInv DEF Next, ClientStep, ThreadStep, Reaper, Idle

\* The inductive invariant holds in every reachable state, for any number of
\* threads and any depth of cleanup_queue, with handles joined by one client or
\* by many and with destructors that join or do not.
THEOREM LifecycleInvariant == SafetySpec => []LifecycleInv
BY InitInv, NextInv, PTL DEF SafetySpec

\* The variables keep their types: in particular no acknowledgement semaphore is
\* put twice and completion is never taken below zero.
THEOREM TypeCorrect == SafetySpec => []TypeOK
<1>1. LifecycleInv => TypeOK
  BY DEF LifecycleInv
<1> QED
  BY <1>1, LifecycleInvariant, PTL

\* reaper_entry frees a ThreadControl and its stack only after the thread, its
\* thread_local destructors included, can run no more.
THEOREM NeverFreedEarly == SafetySpec => []FreedAfterExit
<1>1. LifecycleInv => FreedAfterExit
  BY DEF LifecycleInv
<1> QED
  BY <1>1, LifecycleInvariant, PTL

\* When thread_join returns 0 the thread has ended and its memory is freed.
THEOREM JoinReclaims == SafetySpec => []JoinedMeansReclaimed
<1>1. LifecycleInv => JoinedMeansReclaimed
  BY DEF LifecycleInv
<1> QED
  BY <1>1, LifecycleInvariant, PTL

\* thread_entry, thread_join and thread_detach between them send at most one
\* cleanup request per thread, and the control stays alive until the reaper has
\* served it.
THEOREM SingleCleanup == SafetySpec => []OneCleanupRequest
<1>1. ASSUME LifecycleInv PROVE OneCleanupRequest
  <2> SUFFICES ASSUME NEW t \in Ids
               PROVE  /\ \A r, s \in Requests(t) : r = s
                      /\ Requests(t) # {} => t \in cleanup_queued /\ alloc[t] = "live"
    BY DEF OneCleanupRequest
  <2> USE <1>1, IdFacts DEF LifecycleInv
  <2> DEFINE Sends(c) == target[c] = t /\ pc[c] \in {"join_enqueue", "detach_enqueue"}
             Asks == phase[t] \in {"put_enqueue", "enqueue"}
             At(i) == cleanup_queue[i] = t
             Polled == reaper_pc = "poll" /\ reaper_id = t
  <2>1. \A c, d \in Clients : Sends(c) /\ Sends(d) => c = d
    BY DEF TypeOK, SendInv, LifeInv
  <2>2. \A c \in Clients : Sends(c) => ~Asks /\ t \in cleanup_queued /\ alloc[t] = "live"
    BY DEF TypeOK, SendInv, LifeInv
  <2>3. Asks => t \in cleanup_queued /\ alloc[t] = "live"
    BY DEF TypeOK, SendInv, LifeInv, FreedAfterExit
  <2>4. \A i \in 1..Len(cleanup_queue) : At(i) =>
          /\ ~Polled /\ ~Asks
          /\ t \in cleanup_queued /\ alloc[t] = "live"
          /\ \A c \in Clients : ~Sends(c)
          /\ \A j \in 1..Len(cleanup_queue) : At(j) => i = j
    BY DEF RequestInv, Requested
  <2>5. Polled => /\ ~Asks
                  /\ t \in cleanup_queued /\ alloc[t] = "live"
                  /\ \A c \in Clients : ~Sends(c)
    BY DEF RequestInv, Requested
  <2>6. \A r \in Requests(t) :
          \/ \E c \in Clients : r = <<"client", c>> /\ Sends(c)
          \/ r = <<"thread", t>> /\ Asks
          \/ \E i \in 1..Len(cleanup_queue) : r = <<"queue", i>> /\ At(i)
          \/ r = <<"reaper", t>> /\ Polled
    BY DEF Requests
  <2> HIDE DEF Sends, Asks, At, Polled
  <2> QED
    BY <2>1, <2>2, <2>3, <2>4, <2>5, <2>6
<1> QED
  BY <1>1, LifecycleInvariant, PTL

-----------------------------------------------------------------------------

\* When only the owner of a handle joins it, every step preserves OwnerInv: a
\* handle that is owned is not detached, joined or, before its owner claims it,
\* queued for cleanup.
LEMMA OwnerInvNext ==
  ASSUME ~SharedJoin, LifecycleInv, OwnerInv, [Next]_vars
  PROVE  OwnerInv'
<1> USE ~SharedJoin, IdFacts DEF LifecycleInv, OwnerInv, registryVars, controlVars, clientVars, reaperVars
<1>1. ASSUME NEW c \in Clients, CreateRegister(c) PROVE OwnerInv'
  BY <1>1 DEF TypeOK, CreateRegister, CanCall, LifeInv
<1>2. ASSUME NEW c \in Clients, CreateStart(c) PROVE OwnerInv'
  BY <1>2 DEF CreateStart, LifeInv, CallInv, JoinedMeansReclaimed
<1>3. ASSUME NEW c \in Clients, CreateFail(c) PROVE OwnerInv'
  BY <1>3 DEF TypeOK, CreateFail
<1>4. ASSUME NEW c \in Clients, JoinToken(c) PROVE OwnerInv'
  BY <1>4 DEF TypeOK, JoinToken, TokenAvailable
<1>5. ASSUME NEW c \in Clients, JoinAckFail(c) PROVE OwnerInv'
  BY <1>5 DEF TypeOK, JoinAckFail, TokenAvailable
<1>6. ASSUME NEW c \in Clients, JoinDeleted(c) PROVE OwnerInv'
  BY <1>6 DEF TypeOK, JoinDeleted
<1>7. ASSUME NEW c \in Clients, JoinRefused(c) PROVE OwnerInv'
  BY <1>7 DEF TypeOK, JoinRefused, Claimed
<1>8. ASSUME NEW c \in Clients, JoinClaim(c) PROVE OwnerInv'
  BY <1>8 DEF TypeOK, JoinClaim, Claimed
<1>9. ASSUME NEW c \in Clients, JoinEnqueue(c) PROVE OwnerInv'
  BY <1>9 DEF TypeOK, JoinEnqueue, enqueue_cleanup
<1>10. ASSUME NEW c \in Clients, JoinReturn(c) PROVE OwnerInv'
  BY <1>10 DEF TypeOK, JoinReturn, CallInv
<1>11. ASSUME NEW c \in Clients, DetachEnqueue(c) PROVE OwnerInv'
  BY <1>11 DEF TypeOK, DetachEnqueue, enqueue_cleanup
<1>12. ASSUME NEW c \in Clients, NEW t \in Ids, JoinBegin(c, t) PROVE OwnerInv'
  <2>1. owner[t] = c /\ pc[c] = "idle" /\ c # NoClient
    BY <1>12 DEF JoinBegin, CanCall
  <2>2. cleanup_ack[t] = NoClient
    <3> SUFFICES ASSUME cleanup_ack[t] # NoClient PROVE FALSE
      OBVIOUS
    <3>1. cleanup_ack[t] \in Clients
      BY DEF TypeOK
    <3>2. /\ pc[cleanup_ack[t]] \in {"join_enqueue", "join_ack"}
          /\ target[cleanup_ack[t]] = t
      BY <2>1 DEF AckInv
    <3>3. owner[t] = cleanup_ack[t]
      BY <3>1, <3>2
    <3> QED
      BY <2>1, <3>2, <3>3
  <2>3. t \notin cleanup_queued
    BY <2>1, <2>2 DEF LifeInv
  <2> QED
    BY <1>12, <2>1, <2>3 DEF TypeOK, JoinBegin, CanCall
<1>13. ASSUME NEW c \in Clients, NEW t \in Ids, DetachRefused(c, t) PROVE OwnerInv'
  BY <1>13 DEF TypeOK, DetachRefused, DetachCall, CanCall
<1>14. ASSUME NEW c \in Clients, NEW t \in Ids, DetachRunning(c, t) PROVE OwnerInv'
  BY <1>14 DEF TypeOK, DetachRunning, DetachCall, CanCall
<1>15. ASSUME NEW c \in Clients, NEW t \in Ids, DetachFinished(c, t) PROVE OwnerInv'
  BY <1>15 DEF TypeOK, DetachFinished, DetachCall
<1>16. ASSUME NEW t \in Ids, ThreadEntry(t) PROVE OwnerInv'
  BY <1>16 DEF TypeOK, ThreadEntry, LifeInv, FreedAfterExit
<1>17. ASSUME NEW t \in Ids, ThreadPut(t) PROVE OwnerInv'
  BY <1>17 DEF TypeOK, ThreadPut, CompletionPut
<1>18. ASSUME NEW t \in Ids, ThreadEnqueue(t) PROVE OwnerInv'
  BY <1>18 DEF TypeOK, ThreadEnqueue, enqueue_cleanup
<1>19. ASSUME NEW t \in Ids, ThreadExit(t) PROVE OwnerInv'
  BY <1>19 DEF TypeOK, ThreadExit
<1>20. ASSUME NEW t \in Ids, ThreadFinish(t) PROVE OwnerInv'
  BY <1>20 DEF TypeOK, ThreadFinish, EntryReturns
<1>21. ASSUME NEW t \in Ids, ThreadFinishDetached(t) PROVE OwnerInv'
  BY <1>21 DEF TypeOK, ThreadFinishDetached, EntryReturns, EnqueueOnFinish
<1>22. ASSUME ReaperReceive PROVE OwnerInv'
  BY <1>22 DEF ReaperReceive, RequestInv, Requested, LifeInv
<1>23. ASSUME ReaperDelete PROVE OwnerInv'
  BY <1>23 DEF TypeOK, ReaperDelete, TargetExited, AfterDelete
<1>24. ASSUME ReaperAck PROVE OwnerInv'
  BY <1>24 DEF TypeOK, ReaperAck, AckInv
<1>25. ASSUME UseAfterFree PROVE OwnerInv'
  BY <1>25 DEF UseAfterFree, CallInv, LifeInv, SendInv, FreedAfterExit
<1>26. CASE UNCHANGED vars
  BY <1>26 DEF vars
<1> QED
  BY <1>1, <1>2, <1>3, <1>4, <1>5, <1>6, <1>7, <1>8, <1>9, <1>10, <1>11, <1>12, <1>13,
     <1>14, <1>15, <1>16, <1>17, <1>18, <1>19, <1>20, <1>21, <1>22, <1>23, <1>24, <1>25,
     <1>26 DEF Next, ClientStep, ThreadStep, Reaper, Idle

\* When only the owner of a handle joins or detaches it, as std::thread does, the
\* runtime never calls fatal_error and never uses a freed ThreadControl.
THEOREM OwnedHandlesNeverFatal == ~SharedJoin => (SafetySpec => []NoFatal)
<1> SUFFICES ASSUME ~SharedJoin PROVE SafetySpec => []NoFatal
  OBVIOUS
<1>1. Init => OwnerInv
  BY DEF Init, OwnerInv
<1>2. LifecycleInv /\ OwnerInv /\ [Next]_vars => OwnerInv'
  BY OwnerInvNext
<1>3. OwnerInv => NoFatal
  BY DEF OwnerInv, NoFatal
<1> QED
  BY <1>1, <1>2, <1>3, LifecycleInvariant, PTL DEF SafetySpec

-----------------------------------------------------------------------------

\* Every step preserves TokenInv, also when a handle is joined by clients that do not own it:
\* only a joiner between its token and its lock can meet a freed control, and then the thread
\* was detached.
LEMMA TokenInvNext ==
  ASSUME LifecycleInv, TokenInv, [Next]_vars
  PROVE  TokenInv'
<1> USE IdFacts DEF LifecycleInv, TokenInv, TokenOK, HasToken, FatalNeedsDetach, TypeOK,
                    registryVars, controlVars, clientVars, reaperVars
<1>1. ASSUME NEW c \in Clients, CreateRegister(c) PROVE TokenInv'
  BY <1>1 DEF CreateRegister, CanCall, LifeInv
<1>2. ASSUME NEW c \in Clients, CreateStart(c) PROVE TokenInv'
  BY <1>2 DEF CreateStart, LifeInv, CallInv
<1>3. ASSUME NEW c \in Clients, CreateFail(c) PROVE TokenInv'
  BY <1>3 DEF CreateFail
<1>4. ASSUME NEW c \in Clients, JoinToken(c) PROVE TokenInv'
  BY <1>4 DEF JoinToken, TokenAvailable, CallInv
<1>5. ASSUME NEW c \in Clients, JoinAckFail(c) PROVE TokenInv'
  BY <1>5 DEF JoinAckFail, TokenAvailable, CallInv
<1>6. ASSUME NEW c \in Clients, JoinDeleted(c) PROVE TokenInv'
  BY <1>6 DEF JoinDeleted
<1>7. ASSUME NEW c \in Clients, JoinRefused(c) PROVE TokenInv'
  BY <1>7 DEF JoinRefused, Claimed
<1>8. ASSUME NEW c \in Clients, JoinClaim(c) PROVE TokenInv'
  BY <1>8 DEF JoinClaim, Claimed, CallInv
<1>9. ASSUME NEW c \in Clients, JoinEnqueue(c) PROVE TokenInv'
  BY <1>9 DEF JoinEnqueue, enqueue_cleanup
<1>10. ASSUME NEW c \in Clients, JoinReturn(c) PROVE TokenInv'
  BY <1>10 DEF JoinReturn, CallInv
<1>11. ASSUME NEW c \in Clients, DetachEnqueue(c) PROVE TokenInv'
  BY <1>11 DEF DetachEnqueue, enqueue_cleanup
<1>12. ASSUME NEW c \in Clients, NEW t \in Ids, JoinBegin(c, t) PROVE TokenInv'
  BY <1>12 DEF JoinBegin, CanCall
<1>13. ASSUME NEW c \in Clients, NEW t \in Ids, DetachRefused(c, t) PROVE TokenInv'
  BY <1>13 DEF DetachRefused, DetachCall
<1>14. ASSUME NEW c \in Clients, NEW t \in Ids, DetachRunning(c, t) PROVE TokenInv'
  BY <1>14 DEF DetachRunning, DetachCall
<1>15. ASSUME NEW c \in Clients, NEW t \in Ids, DetachFinished(c, t) PROVE TokenInv'
  BY <1>15 DEF DetachFinished, DetachCall, CanCall
<1>16. ASSUME NEW t \in Ids, ThreadEntry(t) PROVE TokenInv'
  <2>1. phase[t] = "ready" /\ t \in registry
    BY <1>16, ZenonT(40) DEF ThreadEntry, LifeInv, FreedAfterExit
  <2>2. phase' = [phase EXCEPT ![t] = "body"] /\ fatal' = fatal
    BY <1>16, <2>1 DEF ThreadEntry
  <2> QED
    BY <1>16, <2>1, <2>2 DEF ThreadEntry
<1>17. ASSUME NEW t \in Ids, ThreadPut(t) PROVE TokenInv'
  BY <1>17 DEF ThreadPut, CompletionPut
<1>18. ASSUME NEW t \in Ids, ThreadEnqueue(t) PROVE TokenInv'
  BY <1>18 DEF ThreadEnqueue, enqueue_cleanup
<1>19. ASSUME NEW t \in Ids, ThreadExit(t) PROVE TokenInv'
  BY <1>19 DEF ThreadExit
<1>20. ASSUME NEW t \in Ids, ThreadFinish(t) PROVE TokenInv'
  BY <1>20 DEF ThreadFinish, EntryReturns
<1>21. ASSUME NEW t \in Ids, ThreadFinishDetached(t) PROVE TokenInv'
  BY <1>21 DEF ThreadFinishDetached, EntryReturns
<1>22. ASSUME ReaperReceive PROVE TokenInv'
  BY <1>22 DEF ReaperReceive, RequestInv, Requested, LifeInv
<1>23. ASSUME ReaperDelete PROVE TokenInv'
  BY <1>23 DEF ReaperDelete
<1>24. ASSUME ReaperAck PROVE TokenInv'
  BY <1>24 DEF ReaperAck, AckInv
<1>25. ASSUME UseAfterFree PROVE TokenInv'
  <2>1. \A t \in Ids : phase[t] \in {"body", "put", "put_enqueue", "enqueue"} =>
          alloc[t] # "freed"
    BY DEF FreedAfterExit
  <2>2. PICK c \in Clients : /\ pc[c] \in {"join_lock", "join_enqueue", "detach_enqueue"}
                             /\ alloc[target[c]] = "freed"
    BY <1>25, <2>1 DEF UseAfterFree
  <2>3. pc[c] = "join_lock" /\ target[c] \in Ids
    BY <2>2 DEF SendInv, CallInv
  <2>4. phase[target[c]] # "none" /\ cleanup_ack[target[c]] = NoClient
    BY <2>3 DEF CallInv, InCall, Steps
  <2>5. target[c] \in detached
    BY <2>2, <2>3, <2>4 DEF LifeInv
  <2> QED
    BY <1>25, <2>5 DEF UseAfterFree
<1>26. CASE UNCHANGED vars
  BY <1>26 DEF vars
<1> QED
  BY <1>1, <1>2, <1>3, <1>4, <1>5, <1>6, <1>7, <1>8, <1>9, <1>10, <1>11, <1>12, <1>13,
     <1>14, <1>15, <1>16, <1>17, <1>18, <1>19, <1>20, <1>21, <1>22, <1>23, <1>24, <1>25, <1>26
     DEF Next, ClientStep, ThreadStep, Reaper, Idle

\* Several threads may be in thread_join on one handle: without a detach the runtime never
\* calls fatal_error and never uses a freed ThreadControl, whoever joins.
THEOREM SharedJoinNeedsDetach == SafetySpec => []FatalNeedsDetach
<1>1. Init => TokenInv
  BY IdFacts DEF Init, TokenInv, TokenOK, HasToken, FatalNeedsDetach
<1>2. LifecycleInv /\ TokenInv /\ [Next]_vars => TokenInv'
  BY TokenInvNext
<1>3. TokenInv => FatalNeedsDetach
  BY DEF TokenInv
<1> QED
  BY <1>1, <1>2, <1>3, LifecycleInvariant, PTL DEF SafetySpec

-----------------------------------------------------------------------------

\* A step that changes no thread's abstract state is a stuttering step.
LEMMA ContractStutter ==
  ASSUME \A t \in Ids : life'[t] = life[t], \A t \in Ids : claim'[t] = claim[t]
  PROVE  [Contract!Next]_(Contract!vars)
<1>1. life' = life
  BY DEF life
<1>2. claim' = claim
  BY DEF claim
<1> QED
  BY <1>1, <1>2 DEF Contract!vars

\* A step that changes the life of one thread only is an update of life.
LEMMA ContractLife ==
  ASSUME NEW t \in Ids, NEW v,
         life'[t] = v, \A u \in Ids \ {t} : life'[u] = life[u],
         \A u \in Ids : claim'[u] = claim[u]
  PROVE  life' = [life EXCEPT ![t] = v] /\ UNCHANGED claim
<1>1. DOMAIN life = Ids /\ life = [u \in Ids |-> life[u]] /\ life' = [u \in Ids |-> life'[u]]
  BY DEF life
<1>2. claim' = claim
  BY DEF claim
<1>3. life' = [life EXCEPT ![t] = v]
  BY <1>1
<1> QED
  BY <1>2, <1>3

\* A step that changes the claim on one thread only is an update of claim.
LEMMA ContractClaim ==
  ASSUME NEW t \in Ids, NEW v,
         claim'[t] = v, \A u \in Ids \ {t} : claim'[u] = claim[u],
         \A u \in Ids : life'[u] = life[u]
  PROVE  claim' = [claim EXCEPT ![t] = v] /\ UNCHANGED life
<1>1. DOMAIN claim = Ids /\ claim = [u \in Ids |-> claim[u]] /\ claim' = [u \in Ids |-> claim'[u]]
  BY DEF claim
<1>2. life' = life
  BY DEF life
<1>3. claim' = [claim EXCEPT ![t] = v]
  BY <1>1
<1> QED
  BY <1>2, <1>3

\* Every step of thread_create, thread_entry, thread_join, thread_detach and
\* reaper_entry is a step of ThreadContract or a stuttering step, for any number
\* of threads, callers and queue slots.
THEOREM Refinement == SafetySpec => ImplementsContractSteps
<1>1. Init => Contract!Init
  BY DEF Init, Contract!Init, life, claim
<1>2. LifecycleInv /\ [Next]_vars => [Contract!Next]_(Contract!vars)
  <2> SUFFICES ASSUME LifecycleInv, [Next]_vars PROVE [Contract!Next]_(Contract!vars)
    OBVIOUS
  <2> USE IdFacts DEF LifecycleInv, registryVars, controlVars, clientVars, reaperVars
  <2>1. ASSUME NEW c \in Clients, CreateStart(c) PROVE [Contract!Next]_(Contract!vars)
    <3>1. target[c] \in Ids /\ phase[target[c]] = "none"
      BY <2>1 DEF CreateStart, CallInv
    <3>2. Contract!Start(target[c])
      BY <2>1, <3>1, ContractLife DEF CreateStart, Contract!Start, TypeOK, life, claim
    <3> QED
      BY <3>1, <3>2 DEF Contract!Next
  <2>2. ASSUME NEW t \in Ids, ThreadExit(t) PROVE [Contract!Next]_(Contract!vars)
    <3>1. alloc[t] # "freed"
      BY <2>2 DEF ThreadExit, FreedAfterExit
    <3>2. Contract!Exit(t)
      BY <2>2, <3>1, ContractLife DEF ThreadExit, Contract!Exit, TypeOK, life, claim
    <3> QED
      BY <3>2 DEF Contract!Next
  <2>3. ASSUME NEW c \in Clients, JoinClaim(c) PROVE [Contract!Next]_(Contract!vars)
    <3>1. /\ target[c] \in Ids
          /\ phase[target[c]] # "none"
          /\ alloc[target[c]] = "live"
      BY <2>3 DEF JoinClaim, CallInv, InCall, Steps
    <3>2. /\ target[c] \notin detached
          /\ cleanup_ack[target[c]] = NoClient
          /\ target[c] \notin joined
      BY <2>3, <3>1 DEF JoinClaim, Claimed, LifeInv, JoinedMeansReclaimed
    <3>3. Contract!ClaimBy(target[c], "joining")
      BY <2>3, <3>1, <3>2, ContractClaim, ZenonT(40) DEF JoinClaim, Contract!ClaimBy, TypeOK, life, claim
    <3> QED
      BY <3>1, <3>3 DEF Contract!Next
  <2>4. ASSUME NEW c \in Clients, NEW t \in Ids, DetachRunning(c, t) \/ DetachFinished(c, t)
        PROVE  [Contract!Next]_(Contract!vars)
    <3>1. phase[t] # "none" /\ alloc[t] = "live"
      BY <2>4 DEF DetachRunning, DetachFinished, DetachCall, LifeInv
    <3>2. t \notin detached /\ cleanup_ack[t] = NoClient /\ t \notin joined
      BY <2>4, <3>1 DEF DetachRunning, DetachFinished, Claimed, LifeInv, JoinedMeansReclaimed
    <3>3. /\ detached' = detached \cup {t}
          /\ UNCHANGED <<phase, alloc, joined, cleanup_ack>>
      BY <2>4 DEF DetachRunning, DetachFinished, DetachCall
    <3>4. Contract!ClaimBy(t, "detached")
      BY <3>1, <3>2, <3>3, ContractClaim DEF Contract!ClaimBy, TypeOK, life, claim
    <3> QED
      BY <3>4 DEF Contract!Next
  <2>5. ASSUME ReaperDelete PROVE [Contract!Next]_(Contract!vars)
    <3>1. /\ reaper_id \in Ids
          /\ phase[reaper_id] = "completed"
          /\ alloc[reaper_id] = "live"
          /\ reaper_id \in cleanup_queued
      BY <2>5 DEF ReaperDelete, TargetExited, RequestInv, Requested
    <3>2. /\ reaper_id \notin joined
          /\ reaper_id \in detached \/ cleanup_ack[reaper_id] # NoClient
      BY <3>1 DEF LifeInv, JoinedMeansReclaimed
    <3>3. Contract!Reclaim(reaper_id)
      BY <2>5, <3>1, <3>2, ContractLife DEF ReaperDelete, Contract!Reclaim, TypeOK, life, claim
    <3> QED
      BY <3>1, <3>3 DEF Contract!Next
  <2>6. ASSUME NEW c \in Clients, JoinReturn(c) PROVE [Contract!Next]_(Contract!vars)
    <3>1. /\ target[c] \in Ids
          /\ phase[target[c]] = "completed"
          /\ alloc[target[c]] = "freed"
          /\ cleanup_ack[target[c]] = c
          /\ target[c] \notin joined
      BY <2>6 DEF JoinReturn, Acknowledged, CallInv, AckInv
    <3>2. target[c] \notin detached
      BY <3>1 DEF LifeInv
    <3>3. /\ joined' = joined \cup {target[c]}
          /\ UNCHANGED <<phase, alloc, detached, cleanup_ack>>
      BY <2>6 DEF JoinReturn
    <3>4. claim[target[c]] = "joining" /\ life[target[c]] = "reclaimed" /\ c # NoClient
      BY <3>1, <3>2 DEF life, claim
    <3>5. /\ claim'[target[c]] = "joined"
          /\ \A u \in Ids \ {target[c]} : claim'[u] = claim[u]
          /\ \A u \in Ids : life'[u] = life[u]
      BY <3>1, <3>3 DEF life, claim
    <3>6. Contract!JoinReturn(target[c])
      BY <3>1, <3>4, <3>5, ContractClaim DEF Contract!JoinReturn
    <3> QED
      BY <3>1, <3>6 DEF Contract!Next
  <2>7. ASSUME UNCHANGED <<joined, detached, cleanup_ack>>,
               \A t \in Ids : phase'[t] = phase[t] /\ alloc'[t] = alloc[t]
        PROVE  [Contract!Next]_(Contract!vars)
    BY <2>7, ContractStutter DEF life, claim
  <2>8. ASSUME NEW c \in Clients, CreateRegister(c) \/ CreateFail(c)
        PROVE  [Contract!Next]_(Contract!vars)
    BY <2>8, ContractStutter DEF CreateRegister, CreateFail, CallInv, LifeInv, TypeOK,
       life, claim
  <2>9. ASSUME NEW t \in Ids, ThreadEntry(t) \/ ThreadPut(t) \/ ThreadEnqueue(t)
                                \/ ThreadFinish(t) \/ ThreadFinishDetached(t)
        PROVE  [Contract!Next]_(Contract!vars)
    <3>1. UNCHANGED <<joined, detached, cleanup_ack, alloc>>
      BY <2>9 DEF ThreadEntry, ThreadPut, ThreadEnqueue, ThreadFinish,
         ThreadFinishDetached, EntryReturns
    <3>2. \A u \in Ids : phase'[u] = phase[u] \/
            (phase[u] \notin {"none", "completed"} /\ phase'[u] \notin {"none", "completed"})
      BY <2>9 DEF ThreadEntry, ThreadPut, ThreadEnqueue, ThreadFinish,
         ThreadFinishDetached, EntryReturns, TypeOK
    <3> QED
      BY <3>1, <3>2, ContractStutter DEF life, claim
  <2>10. ASSUME NEW c \in Clients,
                JoinToken(c) \/ JoinAckFail(c) \/ JoinDeleted(c) \/ JoinRefused(c)
                  \/ JoinEnqueue(c) \/ DetachEnqueue(c)
         PROVE  [Contract!Next]_(Contract!vars)
    BY <2>7, <2>10 DEF JoinToken, JoinAckFail, JoinDeleted, JoinRefused, JoinEnqueue,
       DetachEnqueue
  <2>11. ASSUME NEW c \in Clients, NEW t \in Ids, JoinBegin(c, t) \/ DetachRefused(c, t)
         PROVE  [Contract!Next]_(Contract!vars)
    BY <2>7, <2>11 DEF JoinBegin, DetachRefused, DetachCall
  <2>12. ASSUME ReaperReceive \/ ReaperAck \/ UseAfterFree
         PROVE  [Contract!Next]_(Contract!vars)
    BY <2>7, <2>12 DEF ReaperReceive, ReaperAck, UseAfterFree
  <2>13. CASE UNCHANGED vars
    BY <2>7, <2>13 DEF vars
  <2> QED
    BY <2>1, <2>2, <2>3, <2>4, <2>5, <2>6, <2>8, <2>9, <2>10, <2>11, <2>12, <2>13 DEF
       Next, ClientStep, ThreadStep, Reaper, Idle
<1> QED
  BY <1>1, <1>2, LifecycleInvariant, PTL DEF SafetySpec, ImplementsContractSteps,
     Contract!SafetySpec
=============================================================================
