------------------------------ MODULE SpanFile ------------------------------
(***************************************************************************)
(* The way of a ConstID's spans from the tables of its build to those who  *)
(* use them: cmd_load writes them to two files in /dev/shm/xkernel, from   *)
(* which it makes the guard probes of mode 1 and fills the BPF tables, and *)
(* which the consistency module of mode 2 reads for itself.                *)
(*                                                                         *)
(* The files are shared by all ConstIDs and outlive a load.  A line is a   *)
(* record with the width of its text; the module reads the text in chunks. *)
(***************************************************************************)
EXTENDS Naturals, SequencesExt

CONSTANTS
  Ids,        \* ConstIDs that have been built
  CsTables,   \* tables cs_raw a build may leave: sequences of Row
  SsTables,   \* tables ss_raw, likewise
  Kallsyms,   \* the address of each function the running kernel has
  NameLen,    \* characters in the name of each function
  Odd,        \* functions whose name is no C identifier (name.isra.0)
  AddrLen,    \* characters in an address
  Radix,      \* 16
  Chunk       \* sizeof(buf) - 1: 255

Row == [id : Ids, func : DOMAIN NameLen, soff : Nat, eoff : Nat]

ASSUME FileAssumption ==
  /\ CsTables \cup SsTables \subseteq Seq(Row)
  /\ \A table \in CsTables : \A r \in ToSet(table) : r.soff < r.eoff
  /\ DOMAIN Kallsyms \subseteq DOMAIN NameLen /\ Odd \subseteq DOMAIN NameLen
  /\ "-" \notin DOMAIN NameLen
  /\ Radix \in Nat \ {0, 1} /\ Chunk \in Nat \ {0} /\ AddrLen \in Nat \ {0}

VARIABLES
  csRaw, ssRaw,     \* the tables of the builds
  pc, id, mode,     \* cmd_load
  csFile, ssFile,   \* /dev/shm/xkernel/cs and ss: sequences of lines
  guards,           \* cs_artifact.bpf.h: the spans with a guard probe
  cs, ss,           \* the BPF tables: sets of [soff, eoff], the sort left to SpanSearch
  list              \* the module's xk_target_funcs

raw  == <<csRaw, ssRaw>>
vars == <<raw, pc, id, mode, csFile, ssFile, guards, cs, ss, list>>

Extent(line) == [soff |-> line.addr + line.soff, eoff |-> line.addr + line.eoff]

----------------------------------------------------------------------------
(* The files *)

\* resolve_func_addr
Known(r) == r.func \in DOMAIN Kallsyms
Line(r)  == [func |-> r.func, addr |-> Kallsyms[r.func], soff |-> r.soff, eoff |-> r.eoff]
Lines(rows) == [i \in DOMAIN rows |-> Line(rows[i])]

\* Those elements of a table or of a file that are not skipped.
Only(rows, Keep(_)) ==
  FlattenSeq([i \in DOMAIN rows |-> IF Keep(rows[i]) THEN <<rows[i]>> ELSE <<>>])

Mine(table) == Only(table, LAMBDA r : r.id = id)

\* generate_cs_file
WriteCs ==
  /\ pc = "cs" /\ pc' = "ss"
  /\ csFile' = Lines(Only(Mine(csRaw), Known))
  /\ UNCHANGED <<raw, id, mode, ssFile, guards, cs, ss, list>>

\* Mutant: the file is written only when there is something to write.
WriteSsKeepsOld ==
  /\ pc = "ss" /\ pc' = "header"
  /\ LET wide == Lines(Only(Mine(ssRaw), LAMBDA r : r.soff # r.eoff /\ Known(r)))
     IN ssFile' = IF wide # <<>> THEN wide ELSE ssFile
  /\ UNCHANGED <<raw, id, mode, csFile, guards, cs, ss, list>>

\* generate_ss_file: the critical spans stand in for safe spans only when the
\* build wrote none, not when none of them can be used.
WriteSs ==
  /\ pc = "ss" /\ pc' = "header"
  /\ ssFile' = IF Mine(ssRaw) = <<>> THEN csFile
               ELSE Lines(Only(Mine(ssRaw), LAMBDA r : r.soff # r.eoff /\ Known(r)))
  /\ UNCHANGED <<raw, id, mode, csFile, guards, cs, ss, list>>

----------------------------------------------------------------------------
(* The guard probes and the BPF tables *)

\* clang takes one function per name: __xk_guard_<func>_<soff> and
\* __xk_unguard_<func>_<eoff>.
Compiles(file) ==
  /\ \A i \in DOMAIN file : file[i].func \notin Odd
  /\ \A i, j \in DOMAIN file : i # j /\ file[i].func = file[j].func =>
       file[i].soff # file[j].soff /\ file[i].eoff # file[j].eoff

\* Mutant: in the other modes the header stays as it is.
WriteHeaderOnce ==
  /\ pc = "header"
  /\ guards' = IF mode = 1 THEN ToSet(ssFile) ELSE guards
  /\ pc' = IF mode = 1 /\ ~Compiles(ssFile) THEN "idle" ELSE "fill cs"
  /\ UNCHANGED <<raw, id, mode, csFile, ssFile, cs, ss, list>>

\* generate_cs_artifact_header in mode 1, an empty header otherwise; then the
\* policy is compiled with it.
WriteHeader ==
  /\ pc = "header"
  /\ guards' = IF mode = 1 THEN ToSet(ssFile) ELSE {}
  /\ pc' = IF mode = 1 /\ ~Compiles(ssFile) THEN "idle" ELSE "fill cs"
  /\ UNCHANGED <<raw, id, mode, csFile, ssFile, cs, ss, list>>

\* load_critical_spans_for_constid, into the empty tables of new programs
FillCs ==
  /\ pc = "fill cs" /\ pc' = "fill ss"
  /\ cs' = {Extent(l) : l \in ToSet(csFile)} /\ ss' = {}
  /\ UNCHANGED <<raw, id, mode, csFile, ssFile, guards, list>>

\* load_safe_spans_for_constid
FillSs ==
  /\ pc = "fill ss" /\ pc' = IF mode = 2 THEN "insmod" ELSE "loaded"
  /\ ss' = {Extent(l) : l \in ToSet(ssFile)}
  /\ UNCHANGED <<raw, id, mode, csFile, ssFile, guards, cs, list>>

----------------------------------------------------------------------------
(* The module *)

\* Characters of an offset after 0x, and of a line up to each of its fields.
Digits(n)   == CHOOSE d \in 1..(n + 1) : n < Radix^d /\ (d = 1 \/ n >= Radix^(d - 1))
NameEnd(l)  == NameLen[l.func]
EoffFrom(l) == NameEnd(l) + 1 + AddrLen + 1 + 2 + Digits(l.soff) + 1
Width(l)    == EoffFrom(l) + 2 + Digits(l.eoff)

\* What the module makes of a line of which a chunk holds the first c
\* characters: of a line cut in its name the rest still has four fields, of one
\* cut in its last number the beginning has.
Cut(l, c) ==
  LET digits == Digits(l.eoff)
  IN CASE c <= NameEnd(l) -> <<[l EXCEPT !.func = "-"]>>
       [] c = EoffFrom(l) + 1 -> <<[l EXCEPT !.eoff = 0]>>
       [] c > EoffFrom(l) + 2 -> <<[l EXCEPT !.eoff = @ \div Radix^(digits - (c - EoffFrom(l) - 2))]>>
       [] OTHER -> <<>>

\* A line whose text begins at character start, in one chunk or cut by the end
\* of the first (a line is no longer than a chunk).
Parsed(l, start) ==
  LET end == Chunk - (start % Chunk)
  IN IF Width(l) <= end THEN <<l>> ELSE Cut(l, end)

\* Where the text of each line begins.
From(file, i) == FoldLeft(LAMBDA n, l : n + Width(l) + 1, 0, SubSeq(file, 1, i - 1))

\* read_spans_from_file, and its skipping of spans without width
ReadSpans(file) ==
  Only(FlattenSeq([i \in DOMAIN file |-> Parsed(file[i], From(file, i))]),
       LAMBDA l : l.soff # l.eoff)

\* load_target_spans: the file of safe spans is always there.
Insmod ==
  /\ pc = "insmod" /\ pc' = "loaded"
  /\ list' = ReadSpans(ssFile)
  /\ UNCHANGED <<raw, id, mode, csFile, ssFile, guards, cs, ss>>

----------------------------------------------------------------------------
Init ==
  /\ csRaw \in CsTables /\ ssRaw \in SsTables
  /\ pc = "idle" /\ id \in Ids /\ mode = 0
  /\ csFile = <<>> /\ ssFile = <<>> /\ guards = {}
  /\ cs = {} /\ ss = {} /\ list = <<>>

\* The next load starts, of any ConstID, after the last has ended.
Load(i, m) ==
  /\ pc \in {"idle", "loaded"}
  /\ pc' = "cs" /\ id' = i /\ mode' = m
  /\ cs' = {} /\ ss' = {} /\ list' = <<>>
  /\ UNCHANGED <<raw, csFile, ssFile, guards>>

\* A load is killed, or fails in a step that is not modelled here.
Kill ==
  /\ pc \notin {"idle", "loaded"} /\ pc' = "idle"
  /\ UNCHANGED <<raw, id, mode, csFile, ssFile, guards, cs, ss, list>>

Next ==
  \/ \E i \in Ids, m \in 0..2 : Load(i, m)
  \/ WriteCs \/ WriteSs \/ WriteHeader \/ FillCs \/ FillSs \/ Insmod
  \/ Kill

Spec == Init /\ [][Next]_vars

----------------------------------------------------------------------------
\* The types of the variables; a span of the module has a width.
TypeOK ==
  /\ pc \in {"idle", "cs", "ss", "header", "fill cs", "fill ss", "insmod", "loaded"}
  /\ id \in Ids /\ mode \in 0..2
  /\ LET file(rows) == Lines(Only(rows, Known))
     IN /\ ToSet(csFile) \subseteq ToSet(file(csRaw))
        /\ ToSet(ssFile) \cup guards \subseteq ToSet(file(csRaw)) \cup ToSet(file(ssRaw))
        /\ cs \cup ss \subseteq {Extent(l) : l \in ToSet(file(csRaw)) \cup ToSet(file(ssRaw))}
  /\ \A l \in ToSet(list) : l.func \in DOMAIN NameLen \cup {"-"} /\ l.soff # l.eoff

Usable(table) == Only(Mine(table), LAMBDA r : r.soff # r.eoff /\ Known(r))
Extents(lines) == {Extent(l) : l \in lines}

\* A load works with the spans of its own ConstID only, whichever loads used
\* the files before it and wherever they were killed.
OwnSpansOnly ==
  LET own == ToSet(Lines(Usable(csRaw))) \cup ToSet(Lines(Usable(ssRaw)))
  IN /\ pc \in {"fill cs", "fill ss", "insmod", "loaded"} => guards \subseteq own
     /\ cs \cup ss \subseteq Extents(own)
     /\ \A l \in ToSet(list) : \E o \in own : l.addr = o.addr /\ l.soff = o.soff

\* check_stack_safe searches the safe spans, or the critical ones when there
\* are none.
Searched == IF ss # {} THEN ss ELSE cs

\* The stack check of a loaded ConstID looks for the safe spans of its build
\* that the kernel has, or when there are none for its critical spans.
RowsAreSearched ==
  pc = "loaded" =>
    Searched = Extents(ToSet(Lines(Usable(IF Usable(ssRaw) = <<>> THEN csRaw ELSE ssRaw))))

\* No line of the file lies across the end of a chunk.
NoLineCut == \A i \in DOMAIN ssFile : Width(ssFile[i]) <= Chunk - (From(ssFile, i) % Chunk)

\* The guard probes of mode 1 and the module of mode 2 have the spans that the
\* stack check looks for, if there are safe spans and, for the module, if no
\* line is cut; in the other modes there are no guard probes.
ReadersAgree ==
  pc = "loaded" =>
    /\ mode = 1 /\ ssFile # <<>> => Extents(guards) = Searched
    /\ mode # 1 => guards = {}
    /\ mode = 2 /\ ssFile # <<>> /\ NoLineCut =>
         Extents(ToSet(list)) = Searched /\ \A l \in ToSet(list) : l.func # "-"

\* The promise of load_target_spans (core.c:277): it loads the spans of the
\* file, or as a fallback the critical ones.
ModuleHasSpans ==
  pc = "loaded" /\ mode = 2 => Extents(ToSet(list)) = Searched
=============================================================================
