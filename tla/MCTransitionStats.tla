-------------------------- MODULE MCTransitionStats --------------------------
(* A small instance of TransitionStats: threads are interchangeable. *)
EXTENDS TransitionStats, TLC

CONSTANTS t1, t2

Symmetry == Permutations(Threads)
=============================================================================
