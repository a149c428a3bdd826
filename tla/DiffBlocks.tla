----------------------------- MODULE DiffBlocks -----------------------------
(***************************************************************************)
(* How src/diff.py finds the basic blocks that a perf-const is in: the     *)
(* function is compiled twice, the listings are compared with diff -U0,    *)
(* differences that it takes for shifted addresses are removed, and the    *)
(* lines that are left are counted back to a place in the listing.         *)
(*                                                                         *)
(* A function is a sequence of instructions, a line of its listing an      *)
(* index of it; another value of the perf-const changes immediates, and    *)
(* with them lengths and addresses, but not which instructions there are.  *)
(***************************************************************************)
EXTENDS X86Block, FiniteSetsExt

CONSTANT Long   \* an immediate from here on needs a longer instruction

ASSUME LongAssumption == Long \in Nat

Address(f, k, V) ==
  (k - 1) + Cardinality({j \in 1..(k - 1) : f[j].src.k = "imm" /\ f[j].src.v[V] >= Long})

\* The lines of diff -U0 between the listings of two values.
Changed(f, u, v) ==
  {k \in DOMAIN f : f[k].src.v[u] # f[k].src.v[v] \/ Address(f, k, u) # Address(f, k, v)}

\* normalize_instruction_for_comparison: register names do not count, and of a
\* jump or call only the opcode does.
Signature(i, V) ==
  IF i.op \in Terminators THEN <<i.op, "-", 0, "-">> ELSE <<i.op, i.src.k, i.src.v[V], i.dst.k>>

\* filter_address_offset_diff: of the lines of listing u that a diff shows, one is
\* removed together with the first line of listing v, anywhere in the diff, that
\* has its signature.
Filtered(f, lines, u, v) ==
  LET like(k, V) == {j \in lines : Signature(f[j], V) = Signature(f[k], u)}
  IN {k \in lines : Cardinality({j \in like(k, u) : j <= k}) > Cardinality(like(k, v))}

Kept(f, u, v) == Filtered(f, Changed(f, u, v), u, v)

\* Mutant: a line counts from the start of the listing's differences.
LineNumberFromFirst(f, u, v, k) ==
  Min(Changed(f, u, v)) + Cardinality({j \in Kept(f, u, v) : j < k})

\* The line number of step 10: from the start of the hunk, counting the lines
\* of the hunk that are left.
LineNumber(f, u, v, k) ==
  LET start == Min({j \in 1..k : j..k \subseteq Changed(f, u, v)})
  IN start + Cardinality({j \in Kept(f, u, v) : start <= j /\ j < k})

\* The lines after the terminator before the line, up to the next terminator.
BlockOf(f, line) ==
  LET ends  == {k \in DOMAIN f : f[k].op \in Terminators}
      first == Max({0} \cup {k \in ends : k <= line}) + 1
      start == IF first > Len(f) THEN line ELSE first
  IN <<start, Min({Len(f)} \cup {k \in ends : k >= start})>>

\* Steps 11 and 11b: the blocks of the lines that are left in listing u, in the
\* order of the diff; a line inside a block that was printed is skipped.
ChangedBlocks(f, u, v) ==
  LET kept == Kept(f, u, v)
      upto[k \in 0..Len(f)] ==
        IF k = 0 THEN <<>>
        ELSE LET found == upto[k - 1]
                 line  == LineNumber(f, u, v, k)
             IN IF k \in kept /\ \A n \in DOMAIN found : line \notin found[n][1]..found[n][2]
                THEN Append(found, BlockOf(f, line)) ELSE found
  IN upto[Len(f)]
=============================================================================
