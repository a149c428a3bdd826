------------------------- MODULE MCGlobalTransition -------------------------
(* Finite instances of GlobalTransition: threads are interchangeable.      *)
EXTENDS GlobalTransition, TLC

ThreadSymmetry == Permutations(Threads)
=============================================================================
