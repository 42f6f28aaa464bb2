-------------------------- MODULE MCThreadLifecycle --------------------------
EXTENDS ThreadLifecycle

\* Threads that wait for each other to end.
JoinCycle(S) == S # {} /\ \A t \in S : pc[t] = "join_wait" /\ target[t] \in S

\* A thread_join that got EAGAIN has taken the completion token with it; who joins
\* the thread again waits for a token that never comes.
TokenLost(c) ==
  /\ pc[c] = "join_wait"
  /\ target[c] \in finished \ (cleanup_queued \cup detached)
  /\ completion[target[c]] = 0

\* When the whole system stands still, the process has been terminated, or a join
\* waits for a token that a failed join has lost, or threads that do not own the
\* handles join each other in a circle, or the reaper is polling a thread whose
\* thread_local destructors are themselves inside thread_join or thread_detach:
\* nothing else can stop it.
StandstillExplained ==
  ~ENABLED Next =>
    \/ fatal
    \/ AckMayFail /\ \E c \in Clients : TokenLost(c)
    \/ SharedJoin /\ \E S \in SUBSET Ids : JoinCycle(S)
    \/ /\ reaper_pc = "poll"
       /\ phase[reaper_id] = "dtors"
       /\ pc[reaper_id] # "idle"
=============================================================================
