---------------------------- MODULE MCLifecycle ----------------------------
(* Finite instances of Lifecycle. *)
EXTENDS Lifecycle, TLC

CONSTANTS a, b, p1, p2

TwoIds   == {a, b}
OneProc  == {p1}
TwoProcs == {p1, p2}
Symmetry == Permutations({a, b}) \cup Permutations({p1, p2})
=============================================================================
