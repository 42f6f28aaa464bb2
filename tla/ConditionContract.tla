-------------------------- MODULE ConditionContract --------------------------
(***************************************************************************)
(* What a condition variable promises together with its mutex: waiting     *)
(* releases the mutex and queues the caller in one step, a notification    *)
(* goes to the longest waiting caller and is never taken back, and every   *)
(* caller returns holding the mutex.  Only an abort while a caller waits   *)
(* for the mutex makes it return without: what it was told is lost.        *)
(***************************************************************************)
CONSTANTS
  Threads,
  None,
  MayAbort  \* another thread may abort a caller's wait

VARIABLES
  holder,   \* the owner of the mutex, or None
  waiting,  \* the threads that wait
  longer,   \* <<t, u>>: both wait, t longer than u
  granted,  \* notified threads that have not returned yet
  expired   \* threads that gave up waiting and have not returned yet

vars == <<holder, waiting, longer, granted, expired>>

Init ==
  /\ holder = None
  /\ waiting = {}
  /\ longer = {}
  /\ granted = {}
  /\ expired = {}

Acquire(t) ==
  /\ holder = None
  /\ holder' = t
  /\ UNCHANGED <<waiting, longer, granted, expired>>

Release ==
  /\ holder # None
  /\ holder' = None
  /\ UNCHANGED <<waiting, longer, granted, expired>>

Wait(t) ==
  /\ holder = t
  /\ holder' = None
  /\ waiting' = waiting \cup {t}
  /\ longer' = longer \cup (waiting \X {t})
  /\ UNCHANGED <<granted, expired>>

\* t waits no more.
Leave(t) ==
  /\ t \in waiting
  /\ waiting' = waiting \ {t}
  /\ longer' = {pair \in longer : t \notin {pair[1], pair[2]}}

Notify(t) ==
  /\ Leave(t)
  /\ \A u \in waiting : <<u, t>> \notin longer
  /\ granted' = granted \cup {t}
  /\ UNCHANGED <<holder, expired>>

\* Only a waiting thread can give up: a notified one cannot.
Expire(t) ==
  /\ Leave(t)
  /\ expired' = expired \cup {t}
  /\ UNCHANGED <<holder, granted>>

Resume(t) ==
  /\ t \in granted \cup expired
  /\ holder = None
  /\ holder' = t
  /\ granted' = granted \ {t}
  /\ expired' = expired \ {t}
  /\ UNCHANGED <<waiting, longer>>

\* A caller that is kept waiting for the mutex is aborted.
Abandon(t) ==
  /\ MayAbort
  /\ t \in granted \cup expired
  /\ holder # None
  /\ granted' = granted \ {t}
  /\ expired' = expired \ {t}
  /\ UNCHANGED <<holder, waiting, longer>>

Next ==
  \/ Release
  \/ \E t \in Threads :
       Acquire(t) \/ Wait(t) \/ Notify(t) \/ Expire(t) \/ Resume(t) \/ Abandon(t)

SafetySpec == Init /\ [][Next]_vars
=============================================================================
