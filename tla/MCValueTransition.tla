------------------------- MODULE MCValueTransition -------------------------
(* Finite instances of ValueTransition. *)
EXTENDS ValueTransition, TLC

CONSTANTS t1, t2

TwoThreads == {t1, t2}
OneThread  == {t1}
Sites      == {0, 1, 2, 3, 4, 5, 6}
Two        == <<[soff |-> 1, eoff |-> 3], [soff |-> 4, eoff |-> 6]>>
One        == <<[soff |-> 1, eoff |-> 3]>>
OneCs      == <<[soff |-> 1, eoff |-> 2]>>
Symmetry   == Permutations(Threads)
=============================================================================
