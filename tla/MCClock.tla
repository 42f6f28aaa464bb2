------------------------------- MODULE MCClock -------------------------------
(***************************************************************************)
(* One thread over a long time, in which every counter wraps, or two that  *)
(* read the clock at once over a short one.                                *)
(***************************************************************************)
EXTENDS Clock

Pair == INSTANCE Clock WITH Threads <- {1, 2}, MaxTime <- 3, MaxChanges <- 0,
                                 Durations <- {}

MCInit == Init \/ Pair!Init

MCNext ==
  \/ DOMAIN th = Threads /\ Next
  \/ DOMAIN th # Threads /\ Pair!Next

MCSpec == MCInit /\ [][MCNext]_vars
=============================================================================
