---------------------------- MODULE MCSpanSearch ----------------------------
(* Finite instances of SpanSearch. *)
EXTENDS SpanSearch

SevenAddresses == 0..6
SixAddresses == 0..5
=============================================================================
