------------------------------ MODULE SpanTable ------------------------------
(***************************************************************************)
(* The span tables of the BPF runtime (bpf/xkernel.bpf.h: cs_map, ss_map)  *)
(* and the binary search check_stack_safe runs over them for every return  *)
(* address.  A table is an array of MaxSpans entries, indexed from 0, with *)
(* a separate length; its indices are unsigned and wrap around.            *)
(***************************************************************************)
EXTENDS Naturals, Sequences

CONSTANTS
  MaxSpans,   \* MAX_CS, MAX_SS
  MaxLoop,    \* MAX_BPF_LOOP
  Wrap,       \* 2^32: the range of a __u32
  Addresses   \* kernel addresses, as numbers

ASSUME TableAssumption ==
  /\ MaxSpans \in Nat \ {0} /\ MaxLoop \in Nat /\ Wrap \in Nat
  /\ MaxLoop >= MaxSpans + 2
  /\ Wrap > 2 * MaxSpans
  /\ Addresses \subseteq Nat /\ 0 \in Addresses

\* Spans of positive width: extract_changed_offsets ends a critical span after
\* its last instruction, and generate_ss_file drops safe spans of width zero.
Span  == {s \in [soff : Addresses, eoff : Addresses] : s.soff < s.eoff}
Index == 0..(MaxSpans - 1)
Empty == [i \in Index |-> [soff |-> 0, eoff |-> 0]]

\* struct bs_ctx; stop says that the callback has returned 1.
Context ==
  [left : 0..(Wrap - 1), right : 0..(Wrap - 1), found : BOOLEAN,
   match : 0..(Wrap - 1), end : Addresses, stop : BOOLEAN]

\* left = 0 and right = len - 1, which wraps when the table is empty.
Start(len) ==
  [left |-> 0, right |-> (len + Wrap - 1) % Wrap, found |-> FALSE,
   match |-> 0, end |-> 0, stop |-> FALSE]

Mid(b) == ((b.left + b.right) % Wrap) \div 2

\* Mutant: an address equal to the start of a span is looked for below it.
CallbackStrict(b, table, addr) ==
  IF b.left > b.right \/ Mid(b) \notin Index THEN [b EXCEPT !.stop = TRUE]
  ELSE IF addr > table[Mid(b)].soff
  THEN [b EXCEPT !.found = TRUE, !.match = Mid(b), !.end = table[Mid(b)].eoff,
                 !.left = Mid(b) + 1]
  ELSE [b EXCEPT !.right = (Mid(b) + Wrap - 1) % Wrap]

\* Mutant: the upper half keeps its middle.
CallbackStuck(b, table, addr) ==
  IF b.left > b.right \/ Mid(b) \notin Index THEN [b EXCEPT !.stop = TRUE]
  ELSE IF addr >= table[Mid(b)].soff
  THEN [b EXCEPT !.found = TRUE, !.match = Mid(b), !.end = table[Mid(b)].eoff,
                 !.left = Mid(b)]
  ELSE [b EXCEPT !.right = (Mid(b) + Wrap - 1) % Wrap]

\* bs_fn and ss_bs_fn: one step of the search for addr.
Callback(b, table, addr) ==
  IF b.left > b.right \/ Mid(b) \notin Index THEN [b EXCEPT !.stop = TRUE]
  ELSE IF addr >= table[Mid(b)].soff
  THEN [b EXCEPT !.found = TRUE, !.match = Mid(b), !.end = table[Mid(b)].eoff,
                 !.left = Mid(b) + 1]
  ELSE [b EXCEPT !.right = (Mid(b) + Wrap - 1) % Wrap]

\* check_stack_safe's use of the result.
Hit(b, addr) == b.found /\ b.end >= addr

\* bpf_loop: the callback until it stops or the loop is over.
Search(table, len, addr) ==
  LET loop[i \in 0..MaxLoop] ==
        IF i = 0 THEN Start(len)
        ELSE IF loop[i - 1].stop THEN loop[i - 1]
        ELSE Callback(loop[i - 1], table, addr)
  IN  Hit(loop[MaxLoop], addr)
=============================================================================
