---------------------------- MODULE BuildPipeline ----------------------------
(***************************************************************************)
(* xkernel-tool build, over one kernel source file: src/diff.py edits and  *)
(* recompiles the file, src/gen.py keeps the basic blocks it prints,       *)
(* src/codegen.py writes the stub and the tables in /dev/shm/xkernel, and  *)
(* load, unload, table delete and clean use and remove what it wrote.      *)
(*                                                                         *)
(* One command runs at a time: nothing in the code locks the source file,  *)
(* the build directory, bb_cache or the tables.  A step of a build may     *)
(* fail, and a build may be killed, also in the middle of rewriting a      *)
(* table, which opens it for writing and so empties it first.              *)
(*                                                                         *)
(* A tunable is a definition in the file, with the text of the original    *)
(* value (1) or of one of the two modified ones (2, 3).  No text is part   *)
(* of another (sed matches the original's text wherever it begins).        *)
(***************************************************************************)
EXTENDS Naturals, Sequences, FiniteSets

CONSTANTS
  Tunables,    \* the tunables defined in the source file
  Manual,      \* those whose TOML lists safe_spans
  Tomls,       \* the TOML files: sequences of tunables
  MaxId,       \* bound: ConstIDs in use
  MaxStarts,   \* bound: builds of a tunable
  MaxFaults,   \* bound: failed compilations and kills
  None         \* no file, no row

ASSUME TunableAssumption == Manual \subseteq Tunables /\ Tomls \subseteq Seq(Tunables)
ASSUME BoundAssumption == MaxId \in Nat /\ MaxStarts \in Nat /\ MaxFaults \in Nat

Ids      == 1..MaxId
Tables   == {"scope", "cs", "ss"}
Version  == [Tunables -> 1..3]
Pristine == [t \in Tunables |-> 1]

\* Blocks of one listing of the file: which definitions differ between the two
\* listings compared, and what the file said.
Blocks == [changed : SUBSET Tunables, src : Version]

\* What the code generator was given: the tunable and a v1, v2 and v3 file.
Program == [of : Tunables, blocks : [1..3 -> Blocks]]
Row     == [prog : Program, gen : BOOLEAN, spans : BOOLEAN]

ASSUME NoneAssumption ==
  None \notin Version \cup Blocks \cup Tunables \cup Program \cup Row

VARIABLES
  src,       \* the kernel source file
  backup,    \* its .backup in the build directory
  bb,        \* bb_cache: v1, v2 and v3 of each ConstID
  stub,      \* xtune_stub_<id>.bpf.c
  rows,      \* scope_table: rows, with SS_Index set or not
  cs, ss,    \* cs_raw, ss_raw: the entries of each ConstID
  headless,  \* tables whose header line is missing
  loaded,    \* the probes pinned for each ConstID
  job,       \* the build under way
  lost,      \* history: tables that a kill emptied
  spoiled,   \* history: a build stopped while the file was modified
  starts, faults

files   == <<src, backup, bb, stub>>
tables  == <<rows, cs, ss, headless>>
history == <<lost, spoiled, starts, faults>>
vars    == <<files, tables, loaded, job, history>>

Idle == [pc |-> "idle", todo |-> <<>>, gen |-> TRUE, spanned |-> {}, t |-> None, id |-> 0, k |-> 1,
         orig |-> Pristine, mod |-> Pristine]

Empty(type) == [id \in Ids |-> type]

Init ==
  /\ src = Pristine /\ backup = None
  /\ bb = Empty([k \in 1..3 |-> None]) /\ stub = Empty(None)
  /\ rows = Empty(None) /\ cs = Empty({}) /\ ss = Empty({}) /\ headless = {}
  /\ loaded = Empty(None) /\ job = Idle
  /\ lost = {} /\ spoiled = FALSE /\ starts = 0 /\ faults = 0

At(pc)    == job.pc = pc
Goto(pc)  == job' = [job EXCEPT !.pc = pc]

----------------------------------------------------------------------------
(* build: the tunables of the TOML file, one after the other *)

\* next_const_id, one more than the largest in the scope table; not reserved
NextId(id) == (\A j \in Ids : rows[j] # None => j < id) /\ (id > 1 => rows[id - 1] # None)

\* The tunables for which --run-analysis may name safe spans: no list of the TOML
\* file is replaced, and without the checkout, a data set for the tunable or a
\* result of the analysis nothing changes.
Backfills == SUBSET (Tunables \ Manual)

\* load_configs: the tunables that have safe spans
Spanned(analysed) == Manual \cup analysed

Build(todo, gen, analysed) ==
  /\ At("idle")
  /\ job' = [Idle EXCEPT !.pc = "next", !.todo = todo, !.gen = gen, !.spanned = Spanned(analysed)]
  /\ UNCHANGED <<files, tables, loaded, history>>

\* run: a build without analysis, then a load of its ConstIDs.  It looks for
\* them in the column "Name" of the scope table, which has none, compares the
\* tunables' names with the next best column, the values, and loads nothing.
Run(todo, gen) == Build(todo, gen, {})

StartBuild ==
  \E todo \in Tomls, gen \in BOOLEAN :
    Run(todo, gen) \/ \E analysed \in Backfills : Build(todo, gen, analysed)

StartTunable(id) ==
  /\ At("next") /\ job.todo # <<>> /\ NextId(id) /\ starts < MaxStarts
  /\ job' = [pc |-> IF job.gen THEN "compile" ELSE "remove", todo |-> Tail(job.todo),
             gen |-> job.gen, spanned |-> job.spanned, t |-> Head(job.todo), id |-> id, k |-> 1,
             orig |-> Pristine, mod |-> Pristine]
  /\ starts' = starts + 1
  /\ UNCHANGED <<files, tables, loaded, lost, spoiled, faults>>

\* make compiles the stubs; a load compiles its stub again.
Make ==
  /\ At("next") /\ (job.todo = <<>> \/ starts = MaxStarts \/ \A id \in Ids : ~NextId(id))
  /\ job' = Idle
  /\ UNCHANGED <<files, tables, loaded, history>>

----------------------------------------------------------------------------
(* diff.py, run with the k-th modified value *)

Compile ==
  /\ At("compile")
  /\ job' = [job EXCEPT !.pc = "modify", !.orig = src]
  /\ UNCHANGED <<files, tables, loaded, history>>

\* Mutant: the backup is made after the file is modified.
ModifyFirst ==
  /\ At("modify")
  /\ src' = IF src[job.t] = 1 THEN [src EXCEPT ![job.t] = job.k + 1] ELSE src
  /\ backup' = src'
  /\ Goto("recompile")
  /\ UNCHANGED <<bb, stub, tables, loaded, history>>

\* A backup that is there is overwritten; sed changes the original's text only.
Modify ==
  /\ At("modify")
  /\ backup' = src
  /\ src' = IF src[job.t] = 1 THEN [src EXCEPT ![job.t] = job.k + 1] ELSE src
  /\ Goto("recompile")
  /\ UNCHANGED <<bb, stub, tables, loaded, history>>

Recompile ==
  /\ At("recompile")
  /\ job' = [job EXCEPT !.pc = "restore", !.mod = src]
  /\ UNCHANGED <<files, tables, loaded, history>>

\* make fails: diff.py exits, gen.py gives up, build takes the next tunable.
\* The second compilation fails with the file modified.
CompileFails ==
  /\ At("compile") \/ At("recompile")
  /\ faults < MaxFaults
  /\ Goto("next")
  /\ faults' = faults + 1 /\ spoiled' = (spoiled \/ At("recompile"))
  /\ UNCHANGED <<files, tables, loaded, lost, starts>>

Restore ==
  /\ At("restore")
  /\ src' = backup /\ backup' = None
  /\ Goto("extract")
  /\ UNCHANGED <<bb, stub, tables, loaded, history>>

\* Mutant: v2 is taken from the second run.
ExtractLate ==
  LET changed == {t \in Tunables : job.orig[t] # job.mod[t]}
      original == [changed |-> changed, src |-> job.orig]
      recompiled == [changed |-> changed, src |-> job.mod]
  IN /\ At("extract")
     /\ IF job.k = 1
        THEN /\ bb' = [bb EXCEPT ![job.id][1] = original]
             /\ job' = [job EXCEPT !.pc = "compile", !.k = 2]
        ELSE /\ bb' = [bb EXCEPT ![job.id][2] = recompiled, ![job.id][3] = recompiled]
             /\ Goto("remove")
     /\ UNCHANGED <<src, backup, stub, tables, loaded, history>>

\* gen.py keeps both listings' blocks of the first run, the second listing's of
\* the second; no difference makes a file without blocks.
Extract ==
  LET changed == {t \in Tunables : job.orig[t] # job.mod[t]}
      original == [changed |-> changed, src |-> job.orig]
      recompiled == [changed |-> changed, src |-> job.mod]
  IN /\ At("extract")
     /\ IF job.k = 1
        THEN /\ bb' = [bb EXCEPT ![job.id][1] = original, ![job.id][2] = recompiled]
             /\ job' = [job EXCEPT !.pc = "compile", !.k = 2]
        ELSE /\ bb' = [bb EXCEPT ![job.id][3] = recompiled]
             /\ Goto("remove")
     /\ UNCHANGED <<src, backup, stub, tables, loaded, history>>

----------------------------------------------------------------------------
(* run_codegen_single *)

\* Mutant: the spans of the ConstID's last use stay.
RemoveKeepsSpans ==
  /\ At("remove")
  /\ rows' = [rows EXCEPT ![job.id] = None] /\ cs' = [cs EXCEPT ![job.id] = {}]
  /\ Goto(IF None \in {bb[job.id][k] : k \in 1..3} THEN "next" ELSE "analyze")
  /\ UNCHANGED <<files, ss, headless, loaded, history>>

\* remove_constid_entries, then the files are looked for.
Remove ==
  /\ At("remove")
  /\ rows' = [rows EXCEPT ![job.id] = None]
  /\ cs' = [cs EXCEPT ![job.id] = {}] /\ ss' = [ss EXCEPT ![job.id] = {}]
  /\ Goto(IF None \in {bb[job.id][k] : k \in 1..3} THEN "next" ELSE "analyze")
  /\ UNCHANGED <<files, headless, loaded, history>>

HasBlocks == \A k \in 1..3 : bb[job.id][k].changed # {}

\* analyze_linear_relationship finds a probe: the stub is written.
WriteStub ==
  /\ At("analyze") /\ HasBlocks
  /\ stub' = [stub EXCEPT ![job.id] = [of |-> job.t, blocks |-> bb[job.id]]]
  /\ Goto("cs")
  /\ UNCHANGED <<src, backup, bb, tables, loaded, history>>

NoRelationship ==
  /\ At("analyze")
  /\ Goto("spans")
  /\ UNCHANGED <<files, tables, loaded, history>>

\* A line appended to a table without a header is taken for the header.
Appended(table, old, new) == IF table \in headless THEN old ELSE new

AddCs ==
  /\ At("cs")
  /\ cs' = Appended("cs", cs, [cs EXCEPT ![job.id] = @ \cup {bb[job.id][1]}])
  /\ headless' = headless \ {"cs"}
  /\ Goto("row")
  /\ UNCHANGED <<files, rows, ss, loaded, history>>

\* Mutant: the row is added with the SS_Index of the ConstID's last use.
AddRowWithSpans ==
  /\ At("row")
  /\ rows' = Appended("scope", rows,
       [rows EXCEPT ![job.id] = [prog |-> [of |-> job.t, blocks |-> bb[job.id]],
                                 gen |-> job.gen, spans |-> TRUE]])
  /\ headless' = headless \ {"scope"}
  /\ Goto("spans")
  /\ UNCHANGED <<files, cs, ss, loaded, history>>

AddRow ==
  /\ At("row")
  /\ rows' = Appended("scope", rows,
       [rows EXCEPT ![job.id] = [prog |-> [of |-> job.t, blocks |-> bb[job.id]],
                                 gen |-> job.gen, spans |-> FALSE]])
  /\ headless' = headless \ {"scope"}
  /\ Goto("spans")
  /\ UNCHANGED <<files, cs, ss, loaded, history>>

\* Spans are those of the TOML file or of the analysis, or else the functions of
\* the cs_raw entries.
SpansOf(spanned, t, entries) ==
  IF t \in spanned THEN {[of |-> t, cs |-> None]} ELSE {[of |-> None, cs |-> e] : e \in entries}

\* _populate_ss_raw_single, also when there is no row
AddSpans ==
  LET new == SpansOf(job.spanned, job.t, cs[job.id])
  IN /\ At("spans")
     /\ ss' = Appended("ss", ss, [ss EXCEPT ![job.id] = @ \cup new])
     /\ headless' = IF new = {} THEN headless ELSE headless \ {"ss"}
     /\ Goto(IF new = {} THEN "next" ELSE "index")
     /\ UNCHANGED <<files, rows, cs, loaded, history>>

\* _update_scope_table_ss_index
SetIndex ==
  /\ At("index")
  /\ rows' = IF rows[job.id] = None THEN rows ELSE [rows EXCEPT ![job.id].spans = TRUE]
  /\ Goto("next")
  /\ UNCHANGED <<files, cs, ss, headless, loaded, history>>

----------------------------------------------------------------------------
(* Kills *)

Killed == job' = Idle /\ faults < MaxFaults /\ faults' = faults + 1

Kill ==
  /\ ~At("idle") /\ Killed
  /\ spoiled' = (spoiled \/ At("recompile") \/ At("restore"))
  /\ UNCHANGED <<files, tables, loaded, lost, starts>>

\* In the middle of rewriting a table: remove_constid_entries rewrites the three
\* in this order; _update_scope_table_ss_index, and load, unload and table
\* delete, rewrite the first.
KillInRewrite(table) ==
  /\ \/ At("remove")
     \/ At("index") /\ table = "scope" /\ rows[job.id] # None
     \/ At("idle") /\ table = "scope" /\ \E id \in Ids : rows[id] # None
  /\ table \notin headless /\ Killed
  /\ rows' = IF table = "scope" THEN Empty(None) ELSE [rows EXCEPT ![job.id] = None]
  /\ cs' = CASE table = "scope" -> cs [] table = "cs" -> Empty({}) [] table = "ss" -> [cs EXCEPT ![job.id] = {}]
  /\ ss' = IF table = "ss" THEN Empty({}) ELSE ss
  /\ headless' = headless \cup {table} /\ lost' = lost \cup {table}
  /\ UNCHANGED <<files, loaded, spoiled, starts>>

----------------------------------------------------------------------------
(* The other commands *)

\* resolve_constid_to_bpf finds the row, and load the stub that it names.
HasStub(id) == rows[id] # None /\ stub[id] # None

\* load compiles the stub and pins its probes.
Load(id) ==
  /\ At("idle") /\ HasStub(id) /\ loaded[id] = None
  /\ loaded' = [loaded EXCEPT ![id] = stub[id]]
  /\ UNCHANGED <<files, tables, job, history>>

Unload(id) ==
  /\ At("idle") /\ loaded[id] # None
  /\ loaded' = [loaded EXCEPT ![id] = None]
  /\ UNCHANGED <<files, tables, job, history>>

\* Mutant: table delete does not unload.
DeleteOnly(id) ==
  /\ At("idle") /\ rows[id] # None
  /\ rows' = [rows EXCEPT ![id] = None]
  /\ UNCHANGED <<files, cs, ss, headless, loaded, job, history>>

\* table delete --const-id: unloads, then removes the row and nothing else.
Delete(id) ==
  /\ At("idle") /\ rows[id] # None
  /\ loaded' = [loaded EXCEPT ![id] = None]
  /\ rows' = [rows EXCEPT ![id] = None]
  /\ UNCHANGED <<files, cs, ss, headless, job, history>>

ClearTables == rows' = Empty(None) /\ cs' = Empty({}) /\ ss' = Empty({})

\* table delete --all unloads the ConstIDs that have a row.  It does not write a
\* scope table in which it finds no entry.
DeleteAll ==
  /\ At("idle")
  /\ loaded' = [id \in Ids |-> IF rows[id] = None THEN loaded[id] ELSE None]
  /\ ClearTables /\ headless' = headless \cap {"scope"}
  /\ UNCHANGED <<files, job, history>>

\* clean, and clean --all
Clean(all) ==
  /\ At("idle")
  /\ ClearTables /\ headless' = {} /\ loaded' = Empty(None)
  /\ bb' = Empty([k \in 1..3 |-> None])
  /\ stub' = IF all THEN Empty(None) ELSE stub
  /\ UNCHANGED <<src, backup, job, history>>

\* The operator puts the kernel tree back.
Checkout ==
  /\ At("idle") /\ src # Pristine
  /\ src' = Pristine /\ spoiled' = FALSE
  /\ UNCHANGED <<backup, bb, stub, tables, loaded, job, lost, starts, faults>>

Step ==
  \/ \E id \in Ids : StartTunable(id)
  \/ Make
  \/ Compile \/ Modify \/ Recompile \/ CompileFails \/ Restore \/ Extract
  \/ Remove \/ WriteStub \/ NoRelationship \/ AddCs \/ AddRow \/ AddSpans \/ SetIndex

Next ==
  \/ StartBuild
  \/ Step
  \/ Kill \/ \E table \in Tables : KillInRewrite(table)
  \/ \E id \in Ids : Load(id) \/ Unload(id) \/ Delete(id)
  \/ DeleteAll \/ \E all \in BOOLEAN : Clean(all)
  \/ Checkout

Spec == Init /\ [][Next]_vars

----------------------------------------------------------------------------
PCs == {"idle", "next", "compile", "modify", "recompile", "restore", "extract",
        "remove", "analyze", "cs", "row", "spans", "index"}
Span == [of : Tunables \cup {None}, cs : Blocks \cup {None}]
Job == [pc : PCs, todo : Seq(Tunables), gen : BOOLEAN, spanned : SUBSET Tunables, t : Tunables \cup {None},
        id : Ids \cup {0}, k : 1..2, orig : Version, mod : Version]

\* The types of the variables.
TypeOK ==
  /\ src \in Version /\ backup \in Version \cup {None}
  /\ bb \in [Ids -> [1..3 -> Blocks \cup {None}]]
  /\ stub \in [Ids -> Program \cup {None}] /\ loaded \in [Ids -> Program \cup {None}]
  /\ rows \in [Ids -> Row \cup {None}]
  /\ cs \in [Ids -> SUBSET Blocks] /\ ss \in [Ids -> SUBSET Span]
  /\ headless \subseteq Tables /\ lost \subseteq Tables /\ spoiled \in BOOLEAN
  /\ starts \in 0..MaxStarts /\ faults \in 0..MaxFaults
  /\ job \in Job
  /\ job.pc \in PCs \ {"idle", "next"} => job.t \in Tunables /\ job.id \in Ids

\* A program made from diff.py's output is about its own tunable: the three
\* files show that definition with its three values, and the rest of the source
\* the same, however many builds failed or were killed before.
OwnBlocks ==
  \A id \in Ids : rows[id] # None /\ rows[id].gen =>
    LET t == rows[id].prog.of   b == rows[id].prog.blocks
    IN \A k \in 1..3 : b[k].changed = {t} /\ b[k].src = [b[1].src EXCEPT ![t] = k]

\* The safe spans named for a program's tunable, or made from its critical ones.
OwnSpans(prog) == {[of |-> prog.of, cs |-> None], [of |-> None, cs |-> prog.blocks[1]]}

\* What belongs to a row's ConstID outside the scope table is the row's: the
\* stub, the critical spans and the safe spans, after any reuse of the number.
RowOwnsFiles ==
  \A id \in Ids : rows[id] # None =>
    /\ stub[id] = rows[id].prog
    /\ cs[id] \subseteq {rows[id].prog.blocks[1]}
    /\ ss[id] \subseteq OwnSpans(rows[id].prog)

\* A row whose SS_Index is set has the spans its loads wait for, unless a kill
\* emptied their tables.
IndexedHasSpans ==
  \A id \in Ids : rows[id] # None /\ rows[id].spans /\ lost \cap {"cs", "ss"} = {} =>
    ss[id] # {} /\ cs[id] # {}

\* The ConstID of probes that are pinned is not given to another tunable,
\* unless a kill emptied the scope table.
LoadedKeepsRow ==
  "scope" \notin lost =>
    \A id \in Ids : loaded[id] # None => rows[id] # None /\ rows[id].prog = loaded[id]

\* Between builds the source is as it was, unless one stopped half way.
SourceRestored == job.pc \in {"idle", "next"} /\ ~spoiled => src = Pristine
=============================================================================
