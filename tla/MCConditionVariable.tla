------------------------- MODULE MCConditionVariable -------------------------
(* Threads that call in any order; they are interchangeable.               *)
EXTENDS ConditionVariable, TLC

ThreadSymmetry == Permutations(Threads)
=============================================================================
