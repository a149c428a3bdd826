----------------------------- MODULE SpanSearch -----------------------------
(***************************************************************************)
(* One search of one span table, callback by callback, for any list of     *)
(* spans the loader may have written (load_safe_spans_for_constid and      *)
(* load_critical_spans_for_constid: the list sorted by start, then by      *)
(* descending end; its length; its entries as far as the map has room).    *)
(***************************************************************************)
EXTENDS SpanTable

CONSTANTS
  MaxList,    \* bound: spans in one span file
  Nested      \* spans of one file may lie inside each other

ASSUME ListAssumption == MaxList \in Nat /\ MaxList < Wrap /\ Nested \in BOOLEAN

VARIABLES spans, addr, ctx, turn

searchVars == <<spans, addr, ctx, turn>>

\* spans.sort(key=lambda x: (x[0], -x[1]))
Sorted(list) ==
  \A i, j \in DOMAIN list : i < j =>
    \/ list[i].soff < list[j].soff
    \/ list[i].soff = list[j].soff /\ list[i].eoff >= list[j].eoff

\* No span of the sorted list ends before an earlier one does.
Flat(list) == \A i, j \in DOMAIN list : i < j => list[i].eoff <= list[j].eoff

\* The entries for which update_map_by_id succeeds.
Table == [i \in Index |-> IF i < Len(spans) THEN spans[i + 1] ELSE Empty[i]]

SearchTypeOK ==
  /\ spans \in Seq(Span) /\ Len(spans) <= MaxList /\ addr \in Addresses
  /\ ctx \in Context /\ turn \in 0..MaxLoop

InitSearch ==
  /\ \E n \in 0..MaxList : spans \in [1..n -> Span]
  /\ Sorted(spans) /\ (Nested \/ Flat(spans))
  /\ addr \in Addresses
  /\ ctx = Start(Len(spans))
  /\ turn = 0

Iterate ==
  /\ ~ctx.stop /\ turn < MaxLoop
  /\ ctx' = Callback(ctx, Table, addr)
  /\ turn' = turn + 1
  /\ UNCHANGED <<spans, addr>>

NextSearch == Iterate
SearchSpec == InitSearch /\ [][NextSearch]_searchVars

----------------------------------------------------------------------------
\* What the search is for: some span of the file contains the address.
Covered == \E i \in DOMAIN spans : spans[i].soff <= addr /\ addr <= spans[i].eoff

\* The search answers that question (the comment above bs_fn explains why it
\* need look at one span only), also for the first and the last span, for an
\* address on a boundary, and when right wraps below zero.
SearchExact == ctx.stop => (Hit(ctx, addr) <=> Covered)

\* bpf_loop's limit is never what ends the search.
EndsInTime == turn = MaxLoop => ctx.stop

----------------------------------------------------------------------------
(* The loop invariant *)

Wrapped == ctx.right = Wrap - 1

\* Spans before left start at or below the address, those after right above.
Halves ==
  /\ \A i \in 0..(Len(spans) - 1) : i < ctx.left => spans[i + 1].soff <= addr
  /\ \A i \in 0..(Len(spans) - 1) : (Wrapped \/ i > ctx.right) => spans[i + 1].soff > addr

Window ==
  \/ /\ Wrapped /\ ctx.left = 0
     /\ turn <= Len(spans) + (IF ctx.stop THEN 1 ELSE 0)
  \/ /\ ctx.right < Len(spans) /\ ctx.left <= ctx.right + 1
     /\ turn + ctx.right - ctx.left < Len(spans) + (IF ctx.stop THEN 1 ELSE 0)

Best ==
  IF ctx.left = 0 THEN ~ctx.found
  ELSE ctx.found /\ ctx.match = ctx.left - 1 /\ ctx.end = spans[ctx.left].eoff

LoopInvariant ==
  /\ Halves /\ Window /\ Best
  /\ ctx.stop => Wrapped \/ ctx.left > ctx.right
=============================================================================
