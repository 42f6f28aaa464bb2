--------------------------- MODULE ThreadContract ---------------------------
(***************************************************************************)
(* What a std::thread promises to its user: it runs once, it is claimed by *)
(* one join or one detach, its resources are reclaimed only after it has   *)
(* ended and only when it is claimed, and a join returns after that.       *)
(***************************************************************************)
CONSTANT Threads

VARIABLES
  life,  \* [Threads -> "none" | "running" | "exited" | "reclaimed"]
  claim  \* [Threads -> "open" | "joining" | "joined" | "detached"]

vars == <<life, claim>>

Init ==
  /\ life = [t \in Threads |-> "none"]
  /\ claim = [t \in Threads |-> "open"]

Start(t) ==
  /\ life[t] = "none"
  /\ life' = [life EXCEPT ![t] = "running"]
  /\ UNCHANGED claim

Exit(t) ==
  /\ life[t] = "running"
  /\ life' = [life EXCEPT ![t] = "exited"]
  /\ UNCHANGED claim

ClaimBy(t, how) ==
  /\ life[t] \in {"running", "exited"}
  /\ claim[t] = "open"
  /\ claim' = [claim EXCEPT ![t] = how]
  /\ UNCHANGED life

Reclaim(t) ==
  /\ life[t] = "exited"
  /\ claim[t] \in {"joining", "detached"}
  /\ life' = [life EXCEPT ![t] = "reclaimed"]
  /\ UNCHANGED claim

JoinReturn(t) ==
  /\ life[t] = "reclaimed"
  /\ claim[t] = "joining"
  /\ claim' = [claim EXCEPT ![t] = "joined"]
  /\ UNCHANGED life

Next ==
  \E t \in Threads :
    \/ Start(t)
    \/ Exit(t)
    \/ ClaimBy(t, "joining")
    \/ ClaimBy(t, "detached")
    \/ Reclaim(t)
    \/ JoinReturn(t)

SafetySpec == Init /\ [][Next]_vars

\* Reclaiming is the runtime's duty; ending and claiming are the user's.
Spec ==
  /\ SafetySpec
  /\ \A t \in Threads : WF_vars(Reclaim(t)) /\ WF_vars(JoinReturn(t))
=============================================================================
