---------------------------- MODULE MCSavedInput ----------------------------
(* Finite instances of SavedInput: tasks, CPUs and inputs are alike.       *)
EXTENDS SavedInput, TLC

Symmetry == Permutations(Tasks) \cup Permutations(Cpus) \cup Permutations(Inputs)
=============================================================================
