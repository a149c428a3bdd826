----------------------------- MODULE MCSpanFile -----------------------------
(***************************************************************************)
(* A small instance of SpanFile: two ConstIDs, lines of 15 to 20           *)
(* characters and chunks of 23, so that a line may be cut at any place.    *)
(***************************************************************************)
EXTENDS SpanFile

Names   == [f |-> 2, g |-> 6, dotted |-> 4, gone |-> 3]
Symbols == [f |-> 1000, g |-> 2000, dotted |-> 3000]

R(i, f, s, e) == [id |-> i, func |-> f, soff |-> s, eoff |-> e]
Spans == {R(1, "f", 0, 300), R(1, "f", 0, 18), R(1, "f", 0, 8), R(1, "f", 40, 300), R(1, "g", 5, 70),
          R(1, "g", 5, 5), R(1, "dotted", 1, 4), R(1, "gone", 16, 17)}
Upto3 == {<<>>} \cup {<<a>> : a \in Spans} \cup {<<a, b>> : a, b \in Spans}
           \cup {<<a, b, c>> : a, b, c \in Spans}
Others == <<R(2, "g", 8, 30)>>
SafeTables == {t \o Others : t \in {u \in Upto3 : IsInjective(u)}}
CriticalTables == {<<R(1, "f", 1, 9), R(2, "f", 3, 5)>>, <<R(1, "gone", 1, 2), R(2, "g", 2, 4), R(1, "g", 20, 44)>>}
=============================================================================
