------------------------- MODULE BuildPipelineProofs -------------------------
(***************************************************************************)
(* Proofs about BuildPipeline, for any tunables, TOML files and bounds:    *)
(* what failed and killed builds, reused ConstIDs and emptied tables       *)
(* cannot mix up.                                                          *)
(***************************************************************************)
EXTENDS IndexTables, SequenceTheorems, TLAPS

USE DEF files, tables, history

----------------------------------------------------------------------------
(* Types *)

\* The build's variables after a step that changes its place only
LEMMA GoneTypes ==
  ASSUME TypeOK, NEW pc \in PCs \ {"idle"}, Goto(pc), ~At("idle"),
         At("next") => pc = "next"
  PROVE  /\ job' \in Job /\ job'.pc = pc /\ job'.t = job.t /\ job'.id = job.id
         /\ job'.gen = job.gen /\ job'.k = job.k /\ job'.orig = job.orig /\ job'.mod = job.mod
         /\ job'.pc \in PCs \ {"idle", "next"} => job'.t \in Tunables /\ job'.id \in Ids
BY DEF TypeOK, Goto, At, Job

LEMMA MovedTypes ==
  ASSUME NEW j \in Job, NEW pc \in PCs, NEW k \in 1..2
  PROVE  /\ [j EXCEPT !.pc = pc, !.k = k] \in Job
         /\ [j EXCEPT !.pc = pc, !.k = k].t = j.t
         /\ [j EXCEPT !.pc = pc, !.k = k].id = j.id
BY DEF Job

LEMMA IdleTypes == Idle \in Job /\ Idle.pc = "idle"
BY DEF Idle, Job, PCs, Pristine, Version

LEMMA EmptyTypes ==
  /\ \A S : \A x \in S : Empty(x) \in [Ids -> S]
  /\ Empty([k \in 1..3 |-> None]) \in [Ids -> [1..3 -> Blocks \cup {None}]]
BY DEF Empty

LEMMA InitTypes == Init => TypeOK
<1> SUFFICES ASSUME Init PROVE TypeOK
  OBVIOUS
<1>1. job \in Job /\ job.pc = "idle"  BY IdleTypes DEF Init
<1>2. /\ bb \in [Ids -> [1..3 -> Blocks \cup {None}]]
      /\ stub \in [Ids -> Program \cup {None}] /\ loaded \in [Ids -> Program \cup {None}]
      /\ rows \in [Ids -> Row \cup {None}]
      /\ cs \in [Ids -> SUBSET Blocks] /\ ss \in [Ids -> SUBSET Span]
  BY EmptyTypes DEF Init
<1>3. src \in Version /\ backup \in Version \cup {None}  BY DEF Init, Pristine, Version
<1>4. starts \in 0..MaxStarts /\ faults \in 0..MaxFaults  BY BoundAssumption DEF Init
<1> QED  BY <1>1, <1>2, <1>3, <1>4 DEF Init, TypeOK, Tables

LEMMA CommandTypes ==
  ASSUME TypeOK,
         \/ \E id \in Ids : Load(id) \/ Unload(id) \/ Delete(id)
         \/ DeleteAll \/ \E all \in BOOLEAN : Clean(all)
         \/ Checkout
  PROVE  TypeOK'
<1>1. ASSUME NEW id \in Ids, Load(id) PROVE TypeOK'
  BY <1>1 DEF Load, TypeOK
<1>2. ASSUME NEW id \in Ids, Unload(id) PROVE TypeOK'
  BY <1>2 DEF Unload, TypeOK
<1>3. ASSUME NEW id \in Ids, Delete(id) PROVE TypeOK'
  BY <1>3 DEF Delete, TypeOK
<1>4. CASE DeleteAll
  BY <1>4 DEF DeleteAll, ClearTables, Empty, TypeOK
<1>5. ASSUME NEW all \in BOOLEAN, Clean(all) PROVE TypeOK'
  <2>1. stub' \in [Ids -> Program \cup {None}]
    BY <1>5, EmptyTypes DEF Clean, TypeOK
  <2> QED  BY <1>5, <2>1, EmptyTypes DEF Clean, ClearTables, TypeOK
<1>6. CASE Checkout
  <2>1. src' \in Version  BY <1>6 DEF Checkout, Pristine, Version
  <2> QED  BY <1>6, <2>1 DEF Checkout, TypeOK
<1> QED  BY <1>1, <1>2, <1>3, <1>4, <1>5, <1>6

LEMMA DiffTypes ==
  ASSUME TypeOK, Compile \/ Modify \/ Recompile \/ CompileFails \/ Restore \/ Extract,
         At("restore") => backup # None
  PROVE  TypeOK'
<1>1. CASE Compile
  BY <1>1 DEF Compile, At, TypeOK, Job, PCs
<1>2. CASE Modify
  <2>1. src \in Version /\ job.k + 1 \in 1..3  BY DEF TypeOK, Job
  <2>2. src' \in Version  BY <1>2, <2>1 DEF Modify, Version
  <2>3. job' \in Job /\ job'.t \in Tunables /\ job'.id \in Ids
    BY <1>2, GoneTypes DEF Modify, At, PCs
  <2> QED  BY <1>2, <2>1, <2>2, <2>3 DEF Modify, TypeOK
<1>3. CASE Recompile
  BY <1>3 DEF Recompile, At, TypeOK, Job, PCs
<1>4. CASE CompileFails
  <2>1. faults' \in 0..MaxFaults /\ spoiled' \in BOOLEAN
    BY <1>4, BoundAssumption DEF CompileFails, TypeOK
  <2>2. job' \in Job /\ job'.pc = "next"  BY <1>4, GoneTypes DEF CompileFails, At, PCs
  <2> QED  BY <1>4, <2>1, <2>2 DEF CompileFails, TypeOK
<1>5. CASE Restore
  BY <1>5, GoneTypes DEF Restore, At, TypeOK, PCs
<1>6. CASE Extract
  <2> DEFINE changed == {t \in Tunables : job.orig[t] # job.mod[t]}
             original == [changed |-> changed, src |-> job.orig]
             recompiled == [changed |-> changed, src |-> job.mod]
  <2>1. original \in Blocks /\ recompiled \in Blocks  BY DEF TypeOK, Job, Blocks
  <2>2. job.id \in Ids /\ job.t \in Tunables /\ job \in Job  BY <1>6 DEF Extract, At, TypeOK, PCs
  <2>3. CASE job.k = 1
    <3>1. bb' = [bb EXCEPT ![job.id] = [@ EXCEPT ![1] = original, ![2] = recompiled]]
      BY <1>6, <2>2, <2>3 DEF Extract, TypeOK
    <3>2. bb' \in [Ids -> [1..3 -> Blocks \cup {None}]]
      BY <2>1, <2>2, <3>1 DEF TypeOK
    <3>3. job' = [job EXCEPT !.pc = "compile", !.k = 2]  BY <1>6, <2>3 DEF Extract
    <3>p. "compile" \in PCs /\ 2 \in 1..2  BY DEF PCs
    <3>4. job' \in Job /\ job'.t = job.t /\ job'.id = job.id
      BY <2>2, <3>3, <3>p, MovedTypes
    <3> QED  BY <1>6, <2>2, <3>2, <3>4 DEF Extract, TypeOK
  <2>4. CASE job.k # 1
    <3>0. bb' = [bb EXCEPT ![job.id] = [@ EXCEPT ![3] = recompiled]]
      BY <1>6, <2>2, <2>4 DEF Extract, TypeOK
    <3>1. bb' \in [Ids -> [1..3 -> Blocks \cup {None}]]
      BY <2>1, <2>2, <3>0 DEF TypeOK
    <3>2. job' \in Job /\ job'.t \in Tunables /\ job'.id \in Ids
      BY <1>6, <2>2, <2>4, GoneTypes DEF Extract, At, PCs
    <3> QED  BY <1>6, <3>1, <3>2 DEF Extract, TypeOK
  <2> QED  BY <2>3, <2>4
<1> QED  BY <1>1, <1>2, <1>3, <1>4, <1>5, <1>6

LEMMA CodegenTypes ==
  ASSUME TypeOK,
         \/ Remove \/ WriteStub \/ NoRelationship \/ AddCs \/ AddRow \/ AddSpans \/ SetIndex,
         At("cs") \/ At("row") => HasBlocks /\ None \notin {bb[job.id][k] : k \in 1..3},
         At("analyze") => None \notin {bb[job.id][k] : k \in 1..3}
  PROVE  TypeOK'
<1>0. job.t \in Tunables /\ job.id \in Ids /\ job \in Job
  BY DEF Remove, WriteStub, NoRelationship, AddCs, AddRow, AddSpans, SetIndex, At, TypeOK, PCs
<1> DEFINE program == [of |-> job.t, blocks |-> bb[job.id]]
<1>p. At("cs") \/ At("row") \/ At("analyze") => program \in Program /\ bb[job.id][1] \in Blocks
  <2> SUFFICES ASSUME At("cs") \/ At("row") \/ At("analyze")
               PROVE  program \in Program /\ bb[job.id][1] \in Blocks
    OBVIOUS
  <2>1. bb[job.id] \in [1..3 -> Blocks \cup {None}]  BY <1>0 DEF TypeOK
  <2>2. \A k \in 1..3 : bb[job.id][k] # None  OBVIOUS
  <2>3. bb[job.id] \in [1..3 -> Blocks]  BY <2>1, <2>2
  <2> QED  BY <1>0, <2>3 DEF Program
<1>1. CASE Remove
  <2>1. job' \in Job /\ job'.t = job.t /\ job'.id = job.id
    BY <1>1, GoneTypes DEF Remove, At, PCs
  <2> QED  BY <1>0, <1>1, <2>1 DEF Remove, TypeOK
<1>2. CASE WriteStub
  <2>1. job' \in Job /\ job'.t = job.t /\ job'.id = job.id
    BY <1>2, GoneTypes DEF WriteStub, At, PCs
  <2>2. stub' \in [Ids -> Program \cup {None}]  BY <1>0, <1>2, <1>p DEF WriteStub, TypeOK
  <2> QED  BY <1>0, <1>2, <2>1, <2>2 DEF WriteStub, TypeOK
<1>3. CASE NoRelationship
  BY <1>0, <1>3, GoneTypes DEF NoRelationship, At, PCs, TypeOK
<1>4. CASE AddCs
  <2>1. job' \in Job /\ job'.t = job.t /\ job'.id = job.id
    BY <1>4, GoneTypes DEF AddCs, At, PCs
  <2>2. cs' \in [Ids -> SUBSET Blocks]
    BY <1>0, <1>4, <1>p DEF AddCs, Appended, TypeOK
  <2> QED  BY <1>0, <1>4, <2>1, <2>2 DEF AddCs, TypeOK
<1>5. CASE AddRow
  <2>1. job' \in Job /\ job'.t = job.t /\ job'.id = job.id
    BY <1>5, GoneTypes DEF AddRow, At, PCs
  <2>2. [prog |-> program, gen |-> job.gen, spans |-> FALSE] \in Row
    BY <1>0, <1>5, <1>p DEF AddRow, Row, Job
  <2>3. rows' \in [Ids -> Row \cup {None}]
    BY <1>0, <1>5, <2>2 DEF AddRow, Appended, TypeOK
  <2> QED  BY <1>0, <1>5, <2>1, <2>3 DEF AddRow, TypeOK
<1>6. CASE AddSpans
  <2> DEFINE new == SpansOf(job.spanned, job.t, cs[job.id])
  <2>1. job' \in Job /\ job'.t = job.t /\ job'.id = job.id
    BY <1>6, GoneTypes DEF AddSpans, At, PCs
  <2>2. new \subseteq Span
    <3>1. cs[job.id] \subseteq Blocks  BY <1>0 DEF TypeOK
    <3> QED  BY <1>0, <3>1 DEF SpansOf, Span
  <2>3. ss' \in [Ids -> SUBSET Span]
    <3> HIDE DEF new
    <3> QED  BY <1>0, <1>6, <2>2 DEF AddSpans, Appended, TypeOK, new
  <2>4. headless' \subseteq Tables  BY <1>6 DEF AddSpans, TypeOK
  <2> QED  BY <1>0, <1>6, <2>1, <2>3, <2>4 DEF AddSpans, TypeOK
<1>7. CASE SetIndex
  <2>1. job' \in Job /\ job'.t = job.t /\ job'.id = job.id
    BY <1>7, GoneTypes DEF SetIndex, At, PCs
  <2>2. rows' \in [Ids -> Row \cup {None}]
    <3>1. rows[job.id] # None => [rows[job.id] EXCEPT !.spans = TRUE] \in Row
      BY <1>0 DEF TypeOK, Row
    <3> QED  BY <1>0, <1>7, <3>1 DEF SetIndex, TypeOK
  <2> QED  BY <1>0, <1>7, <2>1, <2>2 DEF SetIndex, TypeOK
<1> QED  BY <1>1, <1>2, <1>3, <1>4, <1>5, <1>6, <1>7

LEMMA KillTypes ==
  ASSUME TypeOK, Kill \/ \E table \in Tables : KillInRewrite(table)
  PROVE  TypeOK'
<1>1. Killed => job' \in Job /\ job'.pc = "idle" /\ faults' \in 0..MaxFaults
  BY IdleTypes, BoundAssumption DEF Killed, TypeOK
<1>2. CASE Kill
  BY <1>1, <1>2 DEF Kill, TypeOK
<1>3. ASSUME NEW table \in Tables, KillInRewrite(table) PROVE TypeOK'
  <2>1. rows' \in [Ids -> Row \cup {None}]  BY <1>3, EmptyTypes DEF KillInRewrite, TypeOK
  <2>2. cs' \in [Ids -> SUBSET Blocks]  BY <1>3, EmptyTypes DEF KillInRewrite, TypeOK, Tables
  <2>3. ss' \in [Ids -> SUBSET Span]  BY <1>3, EmptyTypes DEF KillInRewrite, TypeOK
  <2> QED  BY <1>1, <1>3, <2>1, <2>2, <2>3 DEF KillInRewrite, TypeOK
<1> QED  BY <1>2, <1>3

LEMMA BuildTypes ==
  ASSUME TypeOK, StartBuild \/ (\E id \in Ids : StartTunable(id)) \/ Make
  PROVE  TypeOK'
<1>1. ASSUME NEW todo \in Tomls, NEW gen \in BOOLEAN, NEW analysed \in Backfills,
             Build(todo, gen, analysed)
      PROVE  TypeOK'
  <2>1. todo \in Seq(Tunables) /\ Spanned(analysed) \in SUBSET Tunables
    BY TunableAssumption DEF Spanned, Backfills
  <2>2. job' \in Job /\ job'.pc = "next"  BY <1>1, <2>1, IdleTypes DEF Build, Job, PCs
  <2> QED  BY <1>1, <2>2 DEF Build, TypeOK
<1>2. ASSUME NEW id \in Ids, StartTunable(id) PROVE TypeOK'
  <2>1. Head(job.todo) \in Tunables /\ Tail(job.todo) \in Seq(Tunables)
    BY <1>2, HeadTailProperties DEF StartTunable, TypeOK, Job
  <2>2. job' \in Job /\ job'.t \in Tunables /\ job'.id \in Ids
    <3>1. (IF job.gen THEN "compile" ELSE "remove") \in PCs  BY DEF PCs
    <3> QED  BY <1>2, <2>1, <3>1 DEF StartTunable, TypeOK, Job, Pristine, Version
  <2>3. starts' \in 0..MaxStarts  BY <1>2, BoundAssumption DEF StartTunable, TypeOK
  <2> QED  BY <1>2, <2>2, <2>3 DEF StartTunable, TypeOK
<1>3. CASE Make
  BY <1>3, IdleTypes DEF Make, TypeOK
<1>4. CASE StartBuild
  <2>1. {} \in Backfills  BY DEF Backfills
  <2> QED  BY <1>1, <1>4, <2>1 DEF StartBuild, Run
<1> QED  BY <1>2, <1>3, <1>4

\* A build that begins leaves everything else as it is.
LEMMA StartEffect ==
  ASSUME StartBuild
  PROVE  /\ job.pc = "idle" /\ job'.pc = "next"
         /\ UNCHANGED <<files, tables, loaded, history>>
<1>1. PICK todo \in Tomls, gen \in BOOLEAN, analysed \in Backfills : Build(todo, gen, analysed)
  <2>1. {} \in Backfills  BY DEF Backfills
  <2> QED  BY <2>1 DEF StartBuild, Run
<1> QED  BY <1>1 DEF Build, Idle, At

----------------------------------------------------------------------------
(* The source file *)

\* What sed makes of the file for the text of value k
Edited(v, t, k) == IF v[t] = 1 THEN [v EXCEPT ![t] = k] ELSE v

\* The file as the build found it
Base == IF At("recompile") \/ At("restore") THEN backup ELSE src

SourceInv ==
  /\ At("modify") => job.orig = src
  /\ At("recompile") \/ At("restore") => backup = job.orig /\ src = Edited(backup, job.t, job.k + 1)
  /\ At("restore") => job.mod = src
  /\ At("extract") => job.orig = src /\ job.mod = Edited(src, job.t, job.k + 1)
  /\ ~spoiled => Base = Pristine

Codegen == Remove \/ WriteStub \/ NoRelationship \/ AddCs \/ AddRow \/ AddSpans \/ SetIndex

LEMMA CodegenGoes ==
  ASSUME TypeOK, Codegen
  PROVE  /\ src' = src /\ backup' = backup /\ bb' = bb /\ loaded' = loaded /\ lost' = lost
         /\ spoiled' = spoiled
         /\ job.pc \in {"remove", "analyze", "cs", "row", "spans", "index"}
         /\ job'.pc \in {"next", "analyze", "cs", "row", "spans", "index"}
         /\ job'.t = job.t /\ job'.id = job.id /\ job'.gen = job.gen
         /\ job.t \in Tunables /\ job.id \in Ids
<1>1. CASE Remove          BY <1>1, GoneTypes DEF Remove, At, PCs, TypeOK
<1>2. CASE WriteStub       BY <1>2, GoneTypes DEF WriteStub, At, PCs, TypeOK
<1>3. CASE NoRelationship  BY <1>3, GoneTypes DEF NoRelationship, At, PCs, TypeOK
<1>4. CASE AddCs           BY <1>4, GoneTypes DEF AddCs, At, PCs, TypeOK
<1>5. CASE AddRow          BY <1>5, GoneTypes DEF AddRow, At, PCs, TypeOK
<1>6. CASE AddSpans        BY <1>6, GoneTypes DEF AddSpans, At, PCs, TypeOK
<1>7. CASE SetIndex        BY <1>7, GoneTypes DEF SetIndex, At, PCs, TypeOK
<1> QED  BY <1>1, <1>2, <1>3, <1>4, <1>5, <1>6, <1>7 DEF Codegen

Command ==
  \/ \E id \in Ids : Load(id) \/ Unload(id) \/ Delete(id)
  \/ DeleteAll \/ \E all \in BOOLEAN : Clean(all)

LEMMA SourceStep ==
  ASSUME TypeOK, SourceInv, [Next]_vars
  PROVE  SourceInv'
<1> USE DEF SourceInv, Base, At
<1>1. CASE StartBuild
  <2>1. job'.pc = "next" /\ job.pc = "idle"  BY <1>1, StartEffect
  <2> QED  BY <1>1, <2>1, StartEffect
<1>2. CASE \E id \in Ids : StartTunable(id)
  <2>1. job'.pc \in {"compile", "remove"} /\ job.pc = "next"  BY <1>2 DEF StartTunable
  <2> QED  BY <1>2, <2>1 DEF StartTunable
<1>3. CASE Make
  BY <1>3, IdleTypes DEF Make
<1>4. CASE Compile
  <2>1. job'.pc = "modify" /\ job'.orig = src /\ job.pc = "compile"
    BY <1>4 DEF Compile, TypeOK, Job
  <2> QED  BY <1>4, <2>1 DEF Compile
<1>5. CASE Modify
  <2>1. /\ job'.pc = "recompile" /\ job'.orig = job.orig /\ job.pc = "modify"
        /\ job'.t = job.t /\ job'.k = job.k
    BY <1>5, GoneTypes DEF Modify, PCs
  <2> QED  BY <1>5, <2>1 DEF Modify, Edited
<1>6. CASE Recompile
  <2>1. /\ job'.pc = "restore" /\ job'.orig = job.orig /\ job.pc = "recompile"
        /\ job'.t = job.t /\ job'.k = job.k /\ job'.mod = src
    BY <1>6 DEF Recompile, TypeOK, Job
  <2> QED  BY <1>6, <2>1 DEF Recompile, Edited
<1>7. CASE CompileFails
  <2>1. job'.pc = "next" /\ job.pc \in {"compile", "recompile"}
    BY <1>7, GoneTypes DEF CompileFails, PCs
  <2> QED  BY <1>7, <2>1 DEF CompileFails
<1>8. CASE Restore
  <2>1. /\ job'.pc = "extract" /\ job'.orig = job.orig /\ job.pc = "restore"
        /\ job'.t = job.t /\ job'.k = job.k /\ job'.mod = job.mod
    BY <1>8, GoneTypes DEF Restore, PCs
  <2> QED  BY <1>8, <2>1 DEF Restore, Edited
<1>9. CASE Extract
  <2>1. job'.pc \in {"compile", "remove"} /\ job.pc = "extract"
    BY <1>9, GoneTypes DEF Extract, PCs, TypeOK, Job
  <2> QED  BY <1>9, <2>1 DEF Extract
<1>10. CASE Codegen
  BY <1>10, CodegenGoes
<1>11. CASE Kill
  BY <1>11, IdleTypes DEF Kill, Killed
<1>12. CASE \E table \in Tables : KillInRewrite(table)
  BY <1>12, IdleTypes DEF KillInRewrite, Killed
<1>13. CASE Command
  BY <1>13 DEF Command, Load, Unload, Delete, DeleteAll, Clean
<1>14. CASE Checkout
  BY <1>14 DEF Checkout
<1>15. CASE UNCHANGED vars
  BY <1>15 DEF vars, Edited
<1> QED
  BY <1>1, <1>2, <1>3, <1>4, <1>5, <1>6, <1>7, <1>8, <1>9, <1>10, <1>11, <1>12, <1>13, <1>14, <1>15
  DEF Next, Step, Codegen, Command

----------------------------------------------------------------------------
(* The basic block files *)

\* What extraction makes of a file found as v, for the text of value k
Listing(v, t, k) == [changed |-> IF v[t] = 1 THEN {t} ELSE {}, src |-> Edited(v, t, k)]

FilesInv ==
  /\ job.pc \in {"compile", "modify", "recompile", "restore", "extract"} =>
       job.gen = TRUE /\ (job.k = 2 => \A n \in 1..2 : bb[job.id][n] = Listing(Base, job.t, n))
  /\ job.pc \in {"remove", "analyze", "cs", "row"} /\ job.gen = TRUE =>
       \E v \in Version : \A n \in 1..3 : bb[job.id][n] = Listing(v, job.t, n)
  /\ job.pc \in {"analyze", "cs", "row"} => None \notin {bb[job.id][n] : n \in 1..3}
  /\ job.pc \in {"cs", "row"} => HasBlocks

LEMMA ListingOf ==
  ASSUME NEW v \in Version, NEW t \in Tunables, NEW k \in 2..3
  PROVE  /\ Listing(v, t, 1) = [changed |-> {u \in Tunables : v[u] # Edited(v, t, k)[u]}, src |-> v]
         /\ Listing(v, t, k) = [changed |-> {u \in Tunables : v[u] # Edited(v, t, k)[u]},
                                src |-> Edited(v, t, k)]
<1>1. Edited(v, t, 1) = v  BY DEF Edited, Version
<1>2. {u \in Tunables : v[u] # Edited(v, t, k)[u]} = IF v[t] = 1 THEN {t} ELSE {}
  BY DEF Edited, Version
<1> QED  BY <1>1, <1>2 DEF Listing

\* The build's variables after each step of diff.py
LEMMA DiffGoes ==
  ASSUME TypeOK, Compile \/ Modify \/ Recompile \/ Restore
  PROVE  /\ job.pc \in {"compile", "modify", "recompile", "restore"}
         /\ job'.pc \in {"modify", "recompile", "restore", "extract"}
         /\ job'.t = job.t /\ job'.id = job.id /\ job'.gen = job.gen /\ job'.k = job.k
         /\ bb' = bb
<1>1. CASE Compile    BY <1>1 DEF Compile, At, TypeOK, Job
<1>2. CASE Modify     BY <1>2, GoneTypes DEF Modify, At, PCs
<1>3. CASE Recompile  BY <1>3 DEF Recompile, At, TypeOK, Job
<1>4. CASE Restore    BY <1>4, GoneTypes DEF Restore, At, PCs
<1> QED  BY <1>1, <1>2, <1>3, <1>4

LEMMA BaseKept ==
  ASSUME TypeOK, SourceInv, Compile \/ Modify \/ Recompile \/ Restore
  PROVE  Base' = Base
<1>1. CASE Compile
  BY <1>1, DiffGoes DEF Compile, Base, At, TypeOK, Job
<1>2. CASE Modify
  BY <1>2, GoneTypes DEF Modify, Base, At, PCs
<1>3. CASE Recompile
  BY <1>3, DiffGoes DEF Recompile, Base, At, TypeOK, Job
<1>4. CASE Restore
  BY <1>4, GoneTypes DEF Restore, Base, At, PCs
<1> QED  BY <1>1, <1>2, <1>3, <1>4

LEMMA ExtractStep ==
  ASSUME TypeOK, SourceInv, FilesInv, Extract
  PROVE  FilesInv'
<1> DEFINE changed == {u \in Tunables : job.orig[u] # job.mod[u]}
           original == [changed |-> changed, src |-> job.orig]
           recompiled == [changed |-> changed, src |-> job.mod]
<1>1. /\ job.pc = "extract" /\ job.t \in Tunables /\ job.id \in Ids /\ src \in Version
      /\ job.k \in 1..2 /\ job \in Job
  BY DEF Extract, At, TypeOK, PCs, Job
<1>2. job.orig = src /\ job.mod = Edited(src, job.t, job.k + 1) /\ Base = src
  BY <1>1 DEF SourceInv, At, Base
<1>3. original = Listing(src, job.t, 1) /\ recompiled = Listing(src, job.t, job.k + 1)
  <2> DEFINE k == job.k + 1
  <2>1. k \in 2..3  BY <1>1
  <2>2. job.orig = src /\ job.mod = Edited(src, job.t, k)  BY <1>2
  <2> HIDE DEF k
  <2>3. /\ Listing(src, job.t, 1) = [changed |-> {u \in Tunables : src[u] # Edited(src, job.t, k)[u]}, src |-> src]
        /\ Listing(src, job.t, k) = [changed |-> {u \in Tunables : src[u] # Edited(src, job.t, k)[u]},
                                     src |-> Edited(src, job.t, k)]
    BY <1>1, <2>1, ListingOf
  <2>4. original = Listing(src, job.t, 1) /\ recompiled = Listing(src, job.t, k)
    BY <2>2, <2>3, Zenon
  <2> QED  BY <2>4 DEF k
<1>4. bb[job.id] \in [1..3 -> Blocks \cup {None}]  BY <1>1 DEF TypeOK
<1>5. job.gen = TRUE  BY <1>1 DEF FilesInv
<1> HIDE DEF changed, original, recompiled
<1>6. CASE job.k = 1
  <2>1. /\ bb' = [bb EXCEPT ![job.id] = [@ EXCEPT ![1] = original, ![2] = recompiled]]
        /\ job' = [job EXCEPT !.pc = "compile", !.k = 2]
    BY <1>1, <1>6 DEF Extract, TypeOK, changed, original, recompiled
  <2>2. bb'[job.id] = [bb[job.id] EXCEPT ![1] = original, ![2] = recompiled]
    BY <1>1, <2>1 DEF TypeOK
  <2>3. bb'[job.id][1] = original /\ bb'[job.id][2] = recompiled
    BY <1>4, <2>2
  <2>4. job'.pc = "compile" /\ job'.t = job.t /\ job'.id = job.id /\ job'.gen = job.gen
    BY <1>1, <2>1 DEF Job
  <2>5. Base' = src  BY <2>4 DEF Base, At, Extract
  <2>6. \A n \in 1..2 : bb'[job.id][n] = Listing(src, job.t, n)
    BY <1>3, <1>6, <2>3
  <2> QED  BY <1>5, <2>4, <2>5, <2>6 DEF FilesInv, At
<1>7. CASE job.k = 2
  <2>1. bb' = [bb EXCEPT ![job.id] = [@ EXCEPT ![3] = recompiled]]
    BY <1>1, <1>7 DEF Extract, TypeOK, changed, recompiled
  <2>2. bb'[job.id] = [bb[job.id] EXCEPT ![3] = recompiled]
    BY <1>1, <2>1 DEF TypeOK
  <2>3. \A n \in 1..2 : bb[job.id][n] = Listing(src, job.t, n)
    BY <1>1, <1>2, <1>7 DEF FilesInv
  <2>4. \A n \in 1..3 : bb'[job.id][n] = Listing(src, job.t, n)
    BY <1>3, <1>4, <1>7, <2>2, <2>3
  <2>5. job'.pc = "remove" /\ job'.t = job.t /\ job'.id = job.id
    BY <1>1, <1>7, GoneTypes DEF Extract, At, PCs
  <2> QED  BY <1>1, <2>4, <2>5 DEF FilesInv
<1> QED  BY <1>1, <1>6, <1>7

LEMMA FilesStep ==
  ASSUME TypeOK, SourceInv, FilesInv, [Next]_vars
  PROVE  FilesInv'
<1>1. CASE StartBuild
  <2>1. job'.pc = "next"  BY <1>1, StartEffect
  <2> QED  BY <2>1 DEF FilesInv
<1>2. CASE \E id \in Ids : StartTunable(id)
  <2>1. job'.k = 1 /\ job'.gen = job.gen /\ job.gen \in BOOLEAN
        /\ job'.pc = IF job.gen THEN "compile" ELSE "remove"
    BY <1>2 DEF StartTunable, TypeOK, Job
  <2> QED  BY <2>1 DEF FilesInv
<1>3. CASE Make \/ Kill \/ \E table \in Tables : KillInRewrite(table)
  <2>1. job'.pc = "idle"  BY <1>3, IdleTypes DEF Make, Kill, KillInRewrite, Killed
  <2> QED  BY <2>1 DEF FilesInv
<1>4. CASE Compile \/ Modify \/ Recompile \/ Restore
  BY <1>4, DiffGoes, BaseKept DEF FilesInv
<1>5. CASE CompileFails
  <2>1. job'.pc = "next"  BY <1>5, GoneTypes DEF CompileFails, At, PCs
  <2> QED  BY <2>1 DEF FilesInv
<1>6. CASE Extract
  BY <1>6, ExtractStep
<1>7. CASE Remove
  <2>1. job'.pc = IF None \in {bb[job.id][n] : n \in 1..3} THEN "next" ELSE "analyze"
    BY <1>7, GoneTypes DEF Remove, At, PCs
  <2>2. job.pc = "remove"  BY <1>7 DEF Remove, At
  <2> QED  BY <1>7, <2>1, <2>2, CodegenGoes DEF Codegen, FilesInv
<1>8. CASE WriteStub
  <2>1. job'.pc = "cs" /\ job.pc = "analyze"  BY <1>8, GoneTypes DEF WriteStub, At, PCs
  <2>2. HasBlocks'  BY <1>8, CodegenGoes DEF Codegen, WriteStub, HasBlocks
  <2> QED  BY <1>8, <2>1, <2>2, CodegenGoes DEF Codegen, FilesInv
<1>9. CASE AddCs
  <2>1. job'.pc = "row" /\ job.pc = "cs"  BY <1>9, GoneTypes DEF AddCs, At, PCs
  <2> QED  BY <1>9, <2>1, CodegenGoes DEF Codegen, FilesInv, HasBlocks
<1>10. CASE NoRelationship \/ AddRow \/ AddSpans \/ SetIndex
  <2>1. job'.pc \in {"spans", "next", "index"}
    BY <1>10, GoneTypes DEF NoRelationship, AddRow, AddSpans, SetIndex, At, PCs
  <2> QED  BY <2>1 DEF FilesInv
<1>11. CASE Command \/ Checkout
  <2>1. job.pc = "idle" /\ job' = job
    BY <1>11 DEF Command, Load, Unload, Delete, DeleteAll, Clean, Checkout, At
  <2> QED  BY <2>1 DEF FilesInv
<1>12. CASE UNCHANGED vars
  <2>1. Base' = Base /\ (HasBlocks' <=> HasBlocks) /\ job' = job /\ bb' = bb
    BY <1>12 DEF vars, Base, At, HasBlocks
  <2> QED  BY <2>1 DEF FilesInv
<1> QED
  BY <1>1, <1>2, <1>3, <1>4, <1>5, <1>6, <1>7, <1>8, <1>9, <1>10, <1>11, <1>12
  DEF Next, Step, Command

----------------------------------------------------------------------------
(* The tables *)

TablesInv ==
  /\ headless \subseteq lost
  /\ job.pc \notin {"idle", "next", "spans", "index"} => rows[job.id] = None
  /\ job.pc \in {"cs", "row"} => stub[job.id] = [of |-> job.t, blocks |-> bb[job.id]]
  /\ job.pc \in {"analyze", "cs", "row", "spans"} => ss[job.id] = {}
  /\ job.pc \in {"analyze", "cs"} => cs[job.id] = {}
  /\ job.pc = "row" => /\ cs[job.id] \subseteq {bb[job.id][1]}
                       /\ "cs" \notin lost => cs[job.id] # {}
  /\ job.pc \in {"spans", "index"} /\ rows[job.id] # None => rows[job.id].prog.of = job.t
  /\ job.pc = "index" /\ "ss" \notin lost => ss[job.id] # {}
  /\ \A id \in Ids : rows[id] # None /\ "cs" \notin lost => cs[id] # {}

TableInvs == TablesInv /\ RowOwnsFiles /\ IndexedHasSpans

LEMMA RemoveStep ==
  ASSUME TypeOK, TableInvs, Remove
  PROVE  TableInvs'
<1>1. job.pc = "remove" /\ job'.pc \in {"next", "analyze"} /\ job'.id = job.id /\ job.id \in Ids
  BY GoneTypes DEF Remove, At, PCs, TypeOK
<1>2. /\ rows' = [rows EXCEPT ![job.id] = None] /\ cs' = [cs EXCEPT ![job.id] = {}]
      /\ ss' = [ss EXCEPT ![job.id] = {}] /\ stub' = stub /\ headless' = headless /\ lost' = lost
  BY DEF Remove
<1>3. TablesInv'  BY <1>1, <1>2 DEF TypeOK, TableInvs, TablesInv
<1>4. RowOwnsFiles' /\ IndexedHasSpans'
  BY <1>1, <1>2 DEF TypeOK, TableInvs, RowOwnsFiles, IndexedHasSpans
<1> QED  BY <1>3, <1>4 DEF TableInvs

LEMMA WriteStubStep ==
  ASSUME TypeOK, TableInvs, WriteStub
  PROVE  TableInvs'
<1>1. /\ job.pc = "analyze" /\ job'.pc = "cs" /\ job'.id = job.id /\ job'.t = job.t /\ job.id \in Ids
  BY GoneTypes DEF WriteStub, At, PCs, TypeOK
<1>2. /\ stub' = [stub EXCEPT ![job.id] = [of |-> job.t, blocks |-> bb[job.id]]] /\ bb' = bb
      /\ rows' = rows /\ cs' = cs /\ ss' = ss /\ headless' = headless /\ lost' = lost
  BY DEF WriteStub
<1>3. TablesInv'  BY <1>1, <1>2 DEF TypeOK, TableInvs, TablesInv
<1>4. RowOwnsFiles' /\ IndexedHasSpans'
  BY <1>1, <1>2 DEF TypeOK, TableInvs, TablesInv, RowOwnsFiles, IndexedHasSpans
<1> QED  BY <1>3, <1>4 DEF TableInvs

LEMMA AddCsStep ==
  ASSUME TypeOK, TableInvs, AddCs
  PROVE  TableInvs'
<1>1. /\ job.pc = "cs" /\ job'.pc = "row" /\ job'.id = job.id /\ job'.t = job.t /\ job.id \in Ids
  BY GoneTypes DEF AddCs, At, PCs, TypeOK
<1>2. /\ stub' = stub /\ bb' = bb /\ rows' = rows /\ ss' = ss /\ lost' = lost
      /\ headless' = headless \ {"cs"}
  BY DEF AddCs
<1>3. cs[job.id] = {} /\ rows[job.id] = None  BY <1>1 DEF TableInvs, TablesInv
<1>4. /\ "cs" \in headless => cs' = cs
      /\ "cs" \notin headless => cs' = [cs EXCEPT ![job.id] = {bb[job.id][1]}]
  BY <1>1, <1>3 DEF AddCs, Appended, TypeOK
<1>5. TablesInv'  BY <1>1, <1>2, <1>3, <1>4, ZenonT(60) DEF TypeOK, TableInvs, TablesInv
<1>6. RowOwnsFiles' /\ IndexedHasSpans'
  BY <1>1, <1>2, <1>3, <1>4 DEF TypeOK, TableInvs, RowOwnsFiles, IndexedHasSpans
<1> QED  BY <1>5, <1>6 DEF TableInvs

LEMMA AddRowStep ==
  ASSUME TypeOK, TableInvs, AddRow
  PROVE  TableInvs'
<1>1. /\ job.pc = "row" /\ job'.pc = "spans" /\ job'.id = job.id /\ job'.t = job.t /\ job.id \in Ids
  BY GoneTypes DEF AddRow, At, PCs, TypeOK
<1>2. /\ stub' = stub /\ bb' = bb /\ cs' = cs /\ ss' = ss /\ lost' = lost
      /\ headless' = headless \ {"scope"}
  BY DEF AddRow
<1> DEFINE row == [prog |-> [of |-> job.t, blocks |-> bb[job.id]], gen |-> job.gen, spans |-> FALSE]
<1>3. rows' = rows \/ rows' = [rows EXCEPT ![job.id] = row]
  BY DEF AddRow, Appended
<1>4. /\ row.prog = stub[job.id] /\ row.spans = FALSE /\ row.prog.of = job.t
      /\ row.prog.blocks[1] = bb[job.id][1]
  BY <1>1 DEF TableInvs, TablesInv
<1>5. ss[job.id] = {} /\ cs[job.id] \subseteq {bb[job.id][1]} /\ ("cs" \notin lost => cs[job.id] # {})
  BY <1>1 DEF TableInvs, TablesInv
<1> HIDE DEF row
<1>6. TablesInv'  BY <1>1, <1>2, <1>3, <1>4, <1>5 DEF TypeOK, TableInvs, TablesInv
<1>7. RowOwnsFiles /\ IndexedHasSpans  BY DEF TableInvs
<1>a. rows \in [Ids -> Row \cup {None}]  BY DEF TypeOK
<1>b. \A id \in Ids : [rows EXCEPT ![job.id] = row][id] = IF id = job.id THEN row ELSE rows[id]
  BY <1>a
<1>8. ASSUME NEW id \in Ids, rows'[id] # rows[id]
      PROVE  id = job.id /\ rows'[id] = row
  <2>1. rows' = [rows EXCEPT ![job.id] = row]  BY <1>3, <1>8
  <2>2. rows'[id] = IF id = job.id THEN row ELSE rows[id]  BY <2>1, <1>b, <1>8
  <2> QED  BY <2>2, <1>8
<1>9. RowOwnsFiles'
  <2> SUFFICES ASSUME NEW id \in Ids, rows'[id] # None
               PROVE  /\ stub[id] = rows'[id].prog
                      /\ cs[id] \subseteq {rows'[id].prog.blocks[1]}
                      /\ ss[id] \subseteq OwnSpans(rows'[id].prog)
    BY <1>2 DEF RowOwnsFiles
  <2>1. CASE rows'[id] = rows[id]  BY <2>1, <1>7 DEF RowOwnsFiles
  <2>2. CASE id = job.id /\ rows'[id] = row
    <3>1. ss[id] = {}  BY <2>2, <1>5
    <3>2. stub[id] = rows'[id].prog  BY <2>2, <1>4
    <3>3. cs[id] \subseteq {rows'[id].prog.blocks[1]}  BY <2>2, <1>4, <1>5
    <3> QED  BY <3>1, <3>2, <3>3
  <2> QED  BY <1>8, <2>1, <2>2
<1>10. IndexedHasSpans'
  <2> SUFFICES ASSUME NEW id \in Ids, rows'[id] # None, rows'[id].spans, lost \cap {"cs", "ss"} = {}
               PROVE  ss[id] # {} /\ cs[id] # {}
    BY <1>2 DEF IndexedHasSpans
  <2>1. rows'[id] = rows[id]  BY <1>4, <1>8
  <2> QED  BY <2>1, <1>7 DEF IndexedHasSpans
<1> QED  BY <1>6, <1>9, <1>10 DEF TableInvs

LEMMA AddSpansStep ==
  ASSUME TypeOK, TableInvs, AddSpans
  PROVE  TableInvs'
<1> DEFINE new == SpansOf(job.spanned, job.t, cs[job.id])
<1>1. /\ job.pc = "spans" /\ job'.pc = IF new = {} THEN "next" ELSE "index"
      /\ job'.id = job.id /\ job'.t = job.t /\ job.id \in Ids
  BY GoneTypes DEF AddSpans, At, PCs, TypeOK
<1>2. /\ stub' = stub /\ bb' = bb /\ rows' = rows /\ cs' = cs /\ lost' = lost
      /\ headless' \subseteq headless
  BY DEF AddSpans
<1>3. ss[job.id] = {}  BY <1>1 DEF TableInvs, TablesInv
<1>4. \/ "ss" \in headless /\ ss' = ss
      \/ ss' = [ss EXCEPT ![job.id] = new]
  BY <1>1, <1>3 DEF AddSpans, Appended, TypeOK
<1>5. rows[job.id] # None => new \subseteq OwnSpans(rows[job.id].prog)
  <2>1. SUFFICES ASSUME rows[job.id] # None
                 PROVE  new \subseteq OwnSpans(rows[job.id].prog)
    OBVIOUS
  <2>2. rows[job.id].prog.of = job.t /\ cs[job.id] \subseteq {rows[job.id].prog.blocks[1]}
    BY <1>1, <2>1 DEF TableInvs, TablesInv, RowOwnsFiles
  <2> QED  BY <2>2 DEF SpansOf, OwnSpans
<1> HIDE DEF new
<1>6. TablesInv'  BY <1>1, <1>2, <1>3, <1>4 DEF TypeOK, TableInvs, TablesInv
<1>7. RowOwnsFiles'
  BY <1>1, <1>2, <1>4, <1>5 DEF TypeOK, TableInvs, RowOwnsFiles
<1>8. IndexedHasSpans'
  BY <1>1, <1>2, <1>3, <1>4 DEF TypeOK, TableInvs, IndexedHasSpans
<1> QED  BY <1>6, <1>7, <1>8 DEF TableInvs

LEMMA SetIndexStep ==
  ASSUME TypeOK, TableInvs, SetIndex
  PROVE  TableInvs'
<1>1. job.pc = "index" /\ job'.pc = "next" /\ job'.id = job.id /\ job.id \in Ids
  BY GoneTypes DEF SetIndex, At, PCs, TypeOK
<1>2. /\ stub' = stub /\ bb' = bb /\ cs' = cs /\ ss' = ss /\ lost' = lost /\ headless' = headless
  BY DEF SetIndex
<1>3. \A id \in Ids : rows'[id] # None => rows[id] # None /\ rows'[id].prog = rows[id].prog
  <2>1. rows[job.id] # None => rows[job.id] \in Row  BY <1>1 DEF TypeOK
  <2> QED  BY <1>1, <2>1 DEF SetIndex, TypeOK, Row
<1>4. \A id \in Ids \ {job.id} : rows'[id] = rows[id]
  BY <1>1 DEF SetIndex, TypeOK
<1>5. "ss" \notin lost => ss[job.id] # {}  BY <1>1 DEF TableInvs, TablesInv
<1>6. TablesInv'  BY <1>1, <1>2, <1>3 DEF TableInvs, TablesInv
<1>7. RowOwnsFiles'  BY <1>1, <1>2, <1>3 DEF TableInvs, RowOwnsFiles
<1>8. IndexedHasSpans'
  BY <1>1, <1>2, <1>3, <1>4, <1>5 DEF TableInvs, TablesInv, IndexedHasSpans
<1> QED  BY <1>6, <1>7, <1>8 DEF TableInvs

LEMMA KillInRewriteStep ==
  ASSUME TypeOK, TableInvs, NEW table \in Tables, KillInRewrite(table)
  PROVE  TableInvs'
<1>1. job'.pc = "idle"  BY IdleTypes DEF KillInRewrite, Killed
<1>2. /\ stub' = stub /\ bb' = bb /\ lost' = lost \cup {table} /\ headless' = headless \cup {table}
  BY DEF KillInRewrite
<1>3. CASE table = "scope"
  <2>1. \A id \in Ids : rows'[id] = None  BY <1>3 DEF KillInRewrite, Empty
  <2> QED  BY <1>1, <1>2, <2>1 DEF TableInvs, TablesInv, RowOwnsFiles, IndexedHasSpans
<1>4. CASE table # "scope"
  <2>1. job.pc = "remove" /\ job.id \in Ids  BY <1>4 DEF KillInRewrite, At, TypeOK, PCs
  <2>2. /\ rows' = [rows EXCEPT ![job.id] = None]
        /\ cs' = IF table = "cs" THEN Empty({}) ELSE [cs EXCEPT ![job.id] = {}]
        /\ ss' = IF table = "ss" THEN Empty({}) ELSE ss
    BY <1>4 DEF KillInRewrite, Tables
  <2>3. \A id \in Ids : rows'[id] # None => id # job.id /\ rows'[id] = rows[id]
    BY <2>1, <2>2 DEF TypeOK
  <2>4. \A id \in Ids \ {job.id} : (table = "cs" /\ cs'[id] = {}) \/ (table # "cs" /\ cs'[id] = cs[id])
    BY <2>1, <2>2 DEF TypeOK, Empty
  <2>5. \A id \in Ids : (table = "ss" /\ ss'[id] = {}) \/ (table # "ss" /\ ss'[id] = ss[id])
    BY <2>1, <2>2 DEF TypeOK, Empty
  <2>6. TablesInv'  BY <1>1, <1>2, <2>3, <2>4 DEF TableInvs, TablesInv
  <2>7. RowOwnsFiles'  BY <1>2, <2>3, <2>4, <2>5 DEF TableInvs, RowOwnsFiles
  <2>8. IndexedHasSpans'
    BY <1>2, <1>4, <2>3, <2>4, <2>5 DEF TableInvs, IndexedHasSpans, Tables
  <2> QED  BY <2>6, <2>7, <2>8 DEF TableInvs
<1> QED  BY <1>3, <1>4

LEMMA TablesStep ==
  ASSUME TypeOK, TypeOK', FilesInv, TableInvs, [Next]_vars
  PROVE  TableInvs'
<1> DEFINE Same == /\ rows' = rows /\ cs' = cs /\ ss' = ss /\ stub' = stub
                   /\ headless' = headless /\ lost' = lost
           Elsewhere == job'.pc \in {"idle", "next"}
           Ready == job'.pc \in {"compile", "modify", "recompile", "restore", "extract", "remove"}
                    /\ rows'[job'.id] = None
<1>a. Same /\ (Elsewhere \/ Ready) => TableInvs'
  BY DEF TableInvs, TablesInv, RowOwnsFiles, IndexedHasSpans
<1>b. (\A id \in Ids : rows'[id] = None \/ rows'[id] = rows[id]) /\ cs' = cs /\ ss' = ss /\ stub' = stub
        /\ headless' = headless /\ lost' = lost /\ Elsewhere => TableInvs'
  BY DEF TableInvs, TablesInv, RowOwnsFiles, IndexedHasSpans
<1>c. (\A id \in Ids : rows'[id] = None) /\ headless' \subseteq headless /\ lost' = lost /\ Elsewhere
        => TableInvs'
  BY DEF TableInvs, TablesInv, RowOwnsFiles, IndexedHasSpans
<1>1. CASE StartBuild
  <2>1. job'.pc = "next"  BY <1>1, StartEffect
  <2> QED  BY <1>1, <1>a, <2>1, StartEffect
<1>2. ASSUME NEW id \in Ids, StartTunable(id) PROVE TableInvs'
  <2>1. rows[id] = None  BY <1>2 DEF StartTunable, NextId, Ids
  <2>2. job'.pc \in {"compile", "remove"} /\ job'.id = id  BY <1>2 DEF StartTunable
  <2>3. Same  BY <1>2 DEF StartTunable
  <2>4. Ready  BY <2>1, <2>2, <2>3
  <2> HIDE DEF Same, Ready
  <2> QED  BY <1>a, <2>3, <2>4
<1>3. CASE Make \/ Kill
  <2>1. job'.pc = "idle"  BY <1>3, IdleTypes DEF Make, Kill, Killed
  <2> QED  BY <1>3, <1>a, <2>1 DEF Make, Kill
<1>4. CASE Compile \/ Modify \/ Recompile \/ Restore
  <2>1. Same  BY <1>4 DEF Compile, Modify, Recompile, Restore
  <2>2. Ready  BY <1>4, <2>1, DiffGoes DEF TableInvs, TablesInv
  <2> QED  BY <1>a, <2>1, <2>2
<1>5. CASE CompileFails
  <2>1. job'.pc = "next"  BY <1>5, GoneTypes DEF CompileFails, At, PCs
  <2> QED  BY <1>5, <1>a, <2>1 DEF CompileFails
<1>6. CASE Extract
  <2>1. job.pc = "extract" /\ job'.pc \in {"compile", "remove"} /\ job'.id = job.id
    BY <1>6, GoneTypes, ZenonT(60) DEF Extract, At, PCs, TypeOK, Job
  <2>2. Same  BY <1>6 DEF Extract
  <2>3. Ready  BY <2>1, <2>2 DEF TableInvs, TablesInv
  <2> QED  BY <1>a, <2>2, <2>3
<1>7. CASE Remove          BY <1>7, RemoveStep
<1>8. CASE WriteStub       BY <1>8, WriteStubStep
<1>9. CASE NoRelationship
  <2>1. job.pc = "analyze" /\ job'.pc = "spans" /\ job'.id = job.id
    BY <1>9, GoneTypes DEF NoRelationship, At, PCs
  <2> QED
    BY <1>9, <2>1 DEF NoRelationship, TableInvs, TablesInv, RowOwnsFiles, IndexedHasSpans
<1>10. CASE AddCs          BY <1>10, AddCsStep
<1>11. CASE AddRow         BY <1>11, AddRowStep
<1>12. CASE AddSpans       BY <1>12, AddSpansStep
<1>13. CASE SetIndex       BY <1>13, SetIndexStep
<1>14. CASE \E table \in Tables : KillInRewrite(table)
  BY <1>14, KillInRewriteStep
<1>15. CASE Command
  <2>0. job.pc = "idle" /\ job' = job
    BY <1>15 DEF Command, Load, Unload, Delete, DeleteAll, Clean, At
  <2>1. ASSUME NEW id \in Ids, Load(id) \/ Unload(id) PROVE TableInvs'
    BY <1>a, <2>0, <2>1 DEF Load, Unload
  <2>2. ASSUME NEW id \in Ids, Delete(id) PROVE TableInvs'
    BY <1>b, <2>0, <2>2 DEF Delete, TypeOK
  <2>3. CASE DeleteAll \/ \E all \in BOOLEAN : Clean(all)
    <3>1. /\ \A id \in Ids : rows'[id] = None
          /\ headless' \subseteq headless /\ lost' = lost
      BY <2>3 DEF DeleteAll, Clean, ClearTables, Empty, history
    <3> QED  BY <1>c, <2>0, <3>1
  <2> QED  BY <1>15, <2>1, <2>2, <2>3 DEF Command
<1>16. CASE Checkout
  <2>1. job'.pc = "idle"  BY <1>16 DEF Checkout, At
  <2> QED  BY <1>16, <1>a, <2>1 DEF Checkout
<1>17. CASE UNCHANGED vars
  BY <1>17 DEF vars, TableInvs, TablesInv, RowOwnsFiles, IndexedHasSpans
<1> QED
  BY <1>1, <1>2, <1>3, <1>4, <1>5, <1>6, <1>7, <1>8, <1>9, <1>10, <1>11, <1>12, <1>13,
     <1>14, <1>15, <1>16, <1>17
  DEF Next, Step, Command

----------------------------------------------------------------------------
(* Programs and what is loaded *)

LEMMA OwnListing ==
  ASSUME NEW v \in Version, NEW t \in Tunables, NEW n \in 1..3, Listing(v, t, 1).changed # {}
  PROVE  /\ Listing(v, t, n).changed = {t}
         /\ Listing(v, t, n).src = [Listing(v, t, 1).src EXCEPT ![t] = n]
<1>1. v[t] = 1  BY DEF Listing
<1>2. Listing(v, t, n).changed = {t} /\ Listing(v, t, n).src = [v EXCEPT ![t] = n]
  BY <1>1 DEF Listing, Edited
<1>3. Listing(v, t, 1).src = v  BY <1>1 DEF Listing, Edited, Version
<1> QED  BY <1>2, <1>3

\* A program whose files show its own tunable
Own(prog) ==
  \A k \in 1..3 : /\ prog.blocks[k].changed = {prog.of}
                  /\ prog.blocks[k].src = [prog.blocks[1].src EXCEPT ![prog.of] = k]

RowsOwn(table) == \A id \in Ids : table[id] # None /\ table[id].gen => Own(table[id].prog)

LEMMA OwnBlocksAre == OwnBlocks <=> RowsOwn(rows)
BY Zenon DEF OwnBlocks, RowsOwn, Own

LEMMA OwnBlocksStep ==
  ASSUME TypeOK, FilesInv, OwnBlocks, [Next]_vars
  PROVE  OwnBlocks'
<1>0. RowsOwn(rows)  BY OwnBlocksAre
<1> SUFFICES RowsOwn(rows')
  BY Zenon DEF OwnBlocks, RowsOwn, Own
<1>a. (\A id \in Ids : rows'[id] = None \/ rows'[id] = rows[id]) => RowsOwn(rows')
  BY <1>0 DEF RowsOwn
<1>1. CASE AddRow
  <2> DEFINE prog == [of |-> job.t, blocks |-> bb[job.id]]
             row == [prog |-> prog, gen |-> job.gen, spans |-> FALSE]
  <2>1. job.pc = "row" /\ job.id \in Ids /\ job.t \in Tunables
    BY <1>1 DEF AddRow, At, TypeOK, PCs
  <2>2. rows' = rows \/ rows' = [rows EXCEPT ![job.id] = row]
    BY <1>1 DEF AddRow, Appended
  <2>3. ASSUME job.gen = TRUE PROVE Own(prog)
    <3>1. PICK v \in Version : \A n \in 1..3 : bb[job.id][n] = Listing(v, job.t, n)
      BY <2>1, <2>3 DEF FilesInv
    <3>2. bb[job.id][1].changed # {}  BY <2>1 DEF FilesInv, HasBlocks
    <3>3. \A n \in 1..3 : /\ bb[job.id][n].changed = {job.t}
                          /\ bb[job.id][n].src = [bb[job.id][1].src EXCEPT ![job.t] = n]
      <4>0. 1 \in 1..3  OBVIOUS
      <4>3. bb[job.id][1] = Listing(v, job.t, 1)  BY <3>1, <4>0
      <4>1. Listing(v, job.t, 1).changed # {}  BY <3>2, <4>3
      <4>2. ASSUME NEW n \in 1..3
            PROVE  /\ Listing(v, job.t, n).changed = {job.t}
                   /\ Listing(v, job.t, n).src = [Listing(v, job.t, 1).src EXCEPT ![job.t] = n]
        <5>1. PICK t \in Tunables : t = job.t  BY <2>1
        <5>2. Listing(v, t, 1).changed # {}  BY <4>1, <5>1
        <5>3. /\ Listing(v, t, n).changed = {t}
              /\ Listing(v, t, n).src = [Listing(v, t, 1).src EXCEPT ![t] = n]
          BY <5>2, OwnListing, ZenonT(60)
        <5> QED  BY <5>1, <5>3
      <4>4. \A n \in 1..3 : bb[job.id][n] = Listing(v, job.t, n)  BY <3>1
      <4> HIDE DEF Listing
      <4>5. ASSUME NEW n \in 1..3
            PROVE  /\ bb[job.id][n].changed = {job.t}
                   /\ bb[job.id][n].src = [bb[job.id][1].src EXCEPT ![job.t] = n]
        <5>1. bb[job.id][n] = Listing(v, job.t, n)  BY <4>4, <4>5
        <5>2. /\ Listing(v, job.t, n).changed = {job.t}
              /\ Listing(v, job.t, n).src = [Listing(v, job.t, 1).src EXCEPT ![job.t] = n]
          BY <4>2, <4>5
        <5> QED  BY <5>1, <5>2, <4>3
      <4> QED  BY <4>5
    <3> QED  BY <3>3 DEF Own
  <2>4. row.prog = prog /\ row.gen = job.gen /\ job.gen \in BOOLEAN
    BY DEF TypeOK, Job
  <2> HIDE DEF row, prog
  <2>5. \A id \in Ids : rows'[id] = rows[id] \/ rows'[id] = row
    BY <2>1, <2>2 DEF TypeOK
  <2> QED  BY <1>0, <2>3, <2>4, <2>5 DEF RowsOwn
<1>2. CASE SetIndex
  <2>1. job.id \in Ids  BY <1>2 DEF SetIndex, At, TypeOK, PCs
  <2>2. CASE rows' = rows  BY <1>0, <2>2
  <2>3. CASE rows[job.id] # None /\ rows' = [rows EXCEPT ![job.id] = [@ EXCEPT !.spans = TRUE]]
    <3>1. rows[job.id] \in Row  BY <2>1, <2>3 DEF TypeOK
    <3>2. /\ rows'[job.id].prog = rows[job.id].prog /\ rows'[job.id].gen = rows[job.id].gen
          /\ \A id \in Ids : id # job.id => rows'[id] = rows[id]
      BY <2>1, <2>3, <3>1 DEF TypeOK, Row
    <3>3. rows'[job.id].gen => Own(rows'[job.id].prog)
      <4>1. rows[job.id].gen => Own(rows[job.id].prog)
        BY <1>0, <2>1, <2>3 DEF RowsOwn
      <4>2. rows[job.id].gen \in BOOLEAN  BY <3>1 DEF Row
      <4> QED  BY <3>2, <4>1, Zenon
    <3>4. ASSUME NEW id \in Ids, rows'[id] # None, rows'[id].gen, id # job.id
          PROVE  Own(rows'[id].prog)
      <4>1. rows'[id] = rows[id]  BY <3>2, <3>4
      <4> QED  BY <1>0, <3>4, <4>1 DEF RowsOwn
    <3> QED  BY <3>3, <3>4, Zenon DEF RowsOwn
  <2> QED  BY <1>2, <2>2, <2>3 DEF SetIndex
<1>3. CASE Remove \/ WriteStub \/ NoRelationship \/ AddCs \/ AddSpans
  BY <1>a, <1>3 DEF Remove, WriteStub, NoRelationship, AddCs, AddSpans, TypeOK
<1>4. CASE \/ StartBuild
           \/ (\E id \in Ids : StartTunable(id))
           \/ Make \/ Compile \/ Modify \/ Recompile \/ CompileFails \/ Restore \/ Extract \/ Kill
           \/ Checkout \/ UNCHANGED vars
  BY <1>a, <1>4, StartEffect DEF StartTunable, Make, Compile, Modify, Recompile, CompileFails,
       Restore, Extract, Kill, Checkout, vars
<1>5. CASE \E table \in Tables : KillInRewrite(table)
  BY <1>a, <1>5 DEF KillInRewrite, Empty, TypeOK
<1>6. CASE Command
  BY <1>a, <1>6 DEF Command, Load, Unload, Delete, DeleteAll, Clean, ClearTables, Empty, TypeOK
<1> QED  BY <1>1, <1>2, <1>3, <1>4, <1>5, <1>6 DEF Next, Step, Command

LEMMA LoadedStep ==
  ASSUME TypeOK, TableInvs, LoadedKeepsRow, [Next]_vars
  PROVE  LoadedKeepsRow'
<1>a. loaded' = loaded /\ rows' = rows /\ lost' = lost => LoadedKeepsRow'
  BY DEF LoadedKeepsRow
<1>1. CASE Remove
  <2>1. job.id \in Ids /\ rows[job.id] = None
    BY <1>1 DEF Remove, At, TypeOK, PCs, TableInvs, TablesInv
  <2> QED  BY <1>1, <2>1 DEF Remove, LoadedKeepsRow, TypeOK
<1>2. CASE AddRow
  <2>1. job.id \in Ids /\ rows[job.id] = None
    BY <1>2 DEF AddRow, At, TypeOK, PCs, TableInvs, TablesInv
  <2>2. \A id \in Ids : rows[id] # None => rows'[id] = rows[id]
    BY <1>2, <2>1 DEF AddRow, Appended, TypeOK
  <2> QED  BY <1>2, <2>2 DEF AddRow, LoadedKeepsRow
<1>3. CASE SetIndex
  <2>1. \A id \in Ids : rows[id] # None => rows'[id] # None /\ rows'[id].prog = rows[id].prog
    <3>1. job.id \in Ids  BY <1>3 DEF SetIndex, At, TypeOK, PCs
    <3>2. \A id \in Ids : rows[id] # None => rows[id] \in Row  BY DEF TypeOK
    <3>3. rows[job.id] # None => [rows[job.id] EXCEPT !.spans = TRUE] \in Row
      BY <3>1, <3>2 DEF Row
    <3> QED  BY <1>3, <3>1, <3>2, <3>3, NoneAssumption DEF SetIndex, TypeOK, Row
  <2> QED  BY <1>3, <2>1 DEF SetIndex, LoadedKeepsRow
<1>4. CASE WriteStub \/ NoRelationship \/ AddCs \/ AddSpans
  BY <1>a, <1>4 DEF WriteStub, NoRelationship, AddCs, AddSpans
<1>5. CASE \/ StartBuild
           \/ (\E id \in Ids : StartTunable(id))
           \/ Make \/ Compile \/ Modify \/ Recompile \/ CompileFails \/ Restore \/ Extract \/ Kill
           \/ Checkout \/ UNCHANGED vars
  BY <1>a, <1>5, StartEffect DEF StartTunable, Make, Compile, Modify, Recompile, CompileFails,
       Restore, Extract, Kill, Checkout, vars
<1>6. ASSUME NEW table \in Tables, KillInRewrite(table) PROVE LoadedKeepsRow'
  <2>1. CASE table = "scope"  BY <1>6, <2>1 DEF KillInRewrite, LoadedKeepsRow
  <2>2. CASE table # "scope"
    <3>1. job.id \in Ids /\ rows[job.id] = None
      BY <1>6, <2>2 DEF KillInRewrite, At, TypeOK, PCs, TableInvs, TablesInv
    <3> QED  BY <1>6, <2>2, <3>1 DEF KillInRewrite, LoadedKeepsRow, TypeOK
  <2> QED  BY <2>1, <2>2
<1>7. ASSUME NEW id \in Ids, Load(id) PROVE LoadedKeepsRow'
  <2>1. stub[id] = rows[id].prog  BY <1>7 DEF Load, HasStub, TableInvs, RowOwnsFiles
  <2> QED  BY <1>7, <2>1 DEF Load, HasStub, LoadedKeepsRow, TypeOK
<1>8. ASSUME NEW id \in Ids, Unload(id) \/ Delete(id) PROVE LoadedKeepsRow'
  BY <1>8 DEF Unload, Delete, LoadedKeepsRow, TypeOK
<1>9. CASE DeleteAll
  BY <1>9 DEF DeleteAll, LoadedKeepsRow, TypeOK
<1>10. CASE \E all \in BOOLEAN : Clean(all)
  BY <1>10 DEF Clean, Empty, LoadedKeepsRow
<1> QED
  BY <1>1, <1>2, <1>3, <1>4, <1>5, <1>6, <1>7, <1>8, <1>9, <1>10 DEF Next, Step

----------------------------------------------------------------------------
(* The inductive invariant *)

IInv == TypeOK /\ SourceInv /\ FilesInv /\ TableInvs /\ OwnBlocks /\ LoadedKeepsRow

LEMMA InitIInv == Init => IInv
<1> SUFFICES ASSUME Init PROVE IInv
  OBVIOUS
<1>1. TypeOK  BY InitTypes
<1>2. job.pc = "idle" /\ src = Pristine  BY IdleTypes DEF Init
<1>3. SourceInv /\ FilesInv  BY <1>2 DEF SourceInv, FilesInv, Base, At
<1>4. /\ \A id \in Ids : rows[id] = None /\ loaded[id] = None
      /\ headless = {}
  BY DEF Init, Empty
<1>5. TableInvs /\ OwnBlocks /\ LoadedKeepsRow
  BY <1>2, <1>4 DEF TableInvs, TablesInv, RowOwnsFiles, IndexedHasSpans, OwnBlocks, LoadedKeepsRow
<1> QED  BY <1>1, <1>3, <1>5 DEF IInv

LEMMA TypesStep == ASSUME IInv, [Next]_vars PROVE TypeOK'
<1>1. At("restore") => backup # None
  <2>1. At("restore") => backup = job.orig  BY DEF IInv, SourceInv
  <2>2. job.orig \in Version  BY DEF IInv, TypeOK, Job
  <2> QED  BY <2>1, <2>2, NoneAssumption
<1>2. At("cs") \/ At("row") => HasBlocks /\ None \notin {bb[job.id][k] : k \in 1..3}
  BY DEF IInv, FilesInv, At
<1>3. At("analyze") => None \notin {bb[job.id][k] : k \in 1..3}
  BY DEF IInv, FilesInv, At
<1>4. TypeOK  BY DEF IInv
<1>5. CASE UNCHANGED vars  BY <1>4, <1>5 DEF vars, TypeOK
<1> QED
  BY <1>1, <1>2, <1>3, <1>4, <1>5, CommandTypes, DiffTypes, CodegenTypes, KillTypes, BuildTypes
  DEF Next, Step

LEMMA IInvStep == IInv /\ [Next]_vars => IInv'
<1> SUFFICES ASSUME IInv, [Next]_vars PROVE IInv'
  OBVIOUS
<1>1. TypeOK /\ SourceInv /\ FilesInv /\ TableInvs /\ OwnBlocks /\ LoadedKeepsRow
  BY DEF IInv
<1>2. TypeOK'  BY TypesStep
<1>3. SourceInv' /\ FilesInv'  BY <1>1, SourceStep, FilesStep
<1>4. TableInvs'  BY <1>1, <1>2, TablesStep
<1>5. OwnBlocks' /\ LoadedKeepsRow'  BY <1>1, OwnBlocksStep, LoadedStep
<1> QED  BY <1>2, <1>3, <1>4, <1>5 DEF IInv

LEMMA Inductive == Spec => []IInv
BY InitIInv, IInvStep, PTL DEF Spec

----------------------------------------------------------------------------

\* The variables keep their types.
THEOREM TypeCorrect == Spec => []TypeOK
<1>1. IInv => TypeOK  BY DEF IInv
<1> QED  BY <1>1, Inductive, PTL

\* No failed or killed diff.py run leaves anything in a later program: its
\* blocks are of its own tunable's three values, in otherwise one source.
THEOREM BlocksAreOwn == Spec => []OwnBlocks
<1>1. IInv => OwnBlocks  BY DEF IInv
<1> QED  BY <1>1, Inductive, PTL

\* The stub, cs_raw and ss_raw of a row's ConstID are the row's, though ConstIDs
\* are reused and a kill may stop codegen.py anywhere.
THEOREM FilesAreOwn == Spec => []RowOwnsFiles
<1>1. IInv => RowOwnsFiles  BY DEF IInv, TableInvs
<1> QED  BY <1>1, Inductive, PTL

\* SS_Index is set only after the spans are there.
THEOREM IndexedRowsHaveSpans == Spec => []IndexedHasSpans
<1>1. IInv => IndexedHasSpans  BY DEF IInv, TableInvs
<1> QED  BY <1>1, Inductive, PTL

\* next_const_id, which reserves nothing, does not give away the ConstID of
\* pinned probes.
THEOREM LoadedIdsAreKept == Spec => []LoadedKeepsRow
<1>1. IInv => LoadedKeepsRow  BY DEF IInv
<1> QED  BY <1>1, Inductive, PTL

\* Builds that run to their end leave the kernel source as they found it.
THEOREM SourceIsRestored == Spec => []SourceRestored
<1>1. IInv => SourceRestored
  <2> SUFFICES ASSUME IInv PROVE SourceRestored
    OBVIOUS
  <2>1. ~spoiled => Base = Pristine  BY DEF IInv, SourceInv
  <2> QED  BY <2>1 DEF SourceRestored, Base, At
<1> QED  BY <1>1, Inductive, PTL
----------------------------------------------------------------------------
(* The index tables *)

\* The CS_Index column of a row leads to its own instructions.
CsOwn(is, table, row) ==
  LET texts == Texts[row.prog.blocks[1]]
  IN /\ Len(is) = Len(texts)
     /\ \A k \in 1..Len(texts) : is[k] \in DOMAIN table /\ table[is[k]] = texts[k]

\* What the index tables and the columns hold.  An index stays good because
\* contents are only appended; that the safe spans are still those of ss_raw is
\* because nothing writes them once the row names them.
IndexInv ==
  /\ cs_table \in Seq(STRING) /\ ss_table \in Seq(SUBSET Span)
  /\ csIndex \in [Ids -> Seq(Nat)] /\ ssIndex \in [Ids -> Nat]
  /\ job.pc = "row" => Unindexed = {}
  /\ job.pc = "spans" /\ rows[job.id] # None => rows[job.id].spans = FALSE
  /\ job.pc = "index" => Ranges # {} /\ ("ss" \notin lost => ss[job.id] = Ranges)
  /\ \A id \in Ids : rows[id] # None /\ "cs" \notin emptied =>
       CsOwn(csIndex[id], cs_table, rows[id])
  /\ \A id \in Ids : rows[id] # None /\ rows[id].spans /\ "ss" \notin emptied =>
       /\ ssIndex[id] \in DOMAIN ss_table
       /\ ss_table[ssIndex[id]] # {}
       /\ ss_table[ssIndex[id]] \subseteq OwnSpans(rows[id].prog)
       /\ "ss" \notin lost => ss_table[ssIndex[id]] = ss[id]

\* A content that is in a table is found under its index.
LEMMA IndexFinds ==
  ASSUME NEW S, NEW table \in Seq(S), NEW x, Has(table, x)
  PROVE  /\ IndexOf(table, x) \in DOMAIN table /\ IndexOf(table, x) \in Nat
         /\ table[IndexOf(table, x)] = x
BY DEF Has, IndexOf

\* Contents that are added do not move those that are there.
LEMMA IndicesStay ==
  ASSUME NEW S, NEW table \in Seq(S), NEW x \in S
  PROVE  /\ Append(table, x) \in Seq(S)
         /\ \A i \in DOMAIN table : i \in DOMAIN Append(table, x) /\ Append(table, x)[i] = table[i]
OBVIOUS

\* The columns of rows that are or stay
LEMMA ColumnsKept ==
  ASSUME IndexInv, KeepColumns
  PROVE  /\ csIndex' \in [Ids -> Seq(Nat)] /\ ssIndex' \in [Ids -> Nat]
         /\ \A id \in Ids : rows'[id] # None => csIndex'[id] = csIndex[id] /\ ssIndex'[id] = ssIndex[id]
<1>1. csIndex \in [Ids -> Seq(Nat)] /\ ssIndex \in [Ids -> Nat] /\ <<>> \in Seq(Nat) /\ 0 \in Nat
  BY DEF IndexInv
<1>2. csIndex' = Column(csIndex, <<>>) /\ ssIndex' = Column(ssIndex, 0)  BY DEF KeepColumns
<1>3. csIndex' \in [Ids -> Seq(Nat)] /\ \A id \in Ids : rows'[id] # None => csIndex'[id] = csIndex[id]
  BY <1>1, <1>2 DEF Column
<1>4. ssIndex' \in [Ids -> Nat] /\ \A id \in Ids : rows'[id] # None => ssIndex'[id] = ssIndex[id]
  BY <1>1, <1>2 DEF Column
<1> QED  BY <1>3, <1>4

\* Nothing but codegen.py adds a row, and nothing else changes one or the safe
\* spans it names.
Quiet ==
  /\ \A id \in Ids : rows'[id] # None =>
       /\ rows'[id] = rows[id]
       /\ rows[id].spans = TRUE /\ "ss" \notin lost' => ss'[id] = ss[id]
  /\ lost \subseteq lost'
  /\ job'.pc # "row"
  /\ job'.pc = "spans" => rows'[job'.id] = None
  /\ job'.pc = "index" => /\ Ranges' # {}
                          /\ "ss" \notin lost' => ss'[job'.id] = Ranges'

LEMMA OtherIsQuiet ==
  ASSUME TypeOK, TableInvs, IndexInv, OtherStep
  PROVE  Quiet
<1>1. CASE StartBuild
  <2>1. job'.pc = "next"  BY <1>1, StartEffect
  <2> QED  BY <1>1, <2>1, StartEffect DEF Quiet
<1>2. CASE \E id \in Ids : StartTunable(id)
  <2>1. job'.pc \in {"compile", "remove"}  BY <1>2 DEF StartTunable
  <2> QED  BY <1>2, <2>1 DEF StartTunable, Quiet
<1>3. CASE Make \/ Kill
  <2>1. job'.pc = "idle"  BY <1>3, IdleTypes DEF Make, Kill, Killed
  <2> QED  BY <1>3, <2>1 DEF Make, Kill, Quiet
<1>4. CASE Compile \/ Modify \/ Recompile \/ Restore
  BY <1>4, DiffGoes DEF Compile, Modify, Recompile, Restore, Quiet
<1>5. CASE CompileFails
  <2>1. job'.pc = "next"  BY <1>5, GoneTypes DEF CompileFails, At, PCs
  <2> QED  BY <1>5, <2>1 DEF CompileFails, Quiet
<1>6. CASE Extract
  <2>1. job'.pc \in {"compile", "remove"}
    BY <1>6, GoneTypes DEF Extract, At, PCs, TypeOK, Job
  <2> QED  BY <1>6, <2>1 DEF Extract, Quiet
<1>7. CASE Remove
  <2>1. job'.pc \in {"next", "analyze"} /\ job.id \in Ids
    BY <1>7, GoneTypes DEF Remove, At, PCs, TypeOK
  <2> QED  BY <1>7, <2>1 DEF Remove, TypeOK, Quiet
<1>8. CASE WriteStub
  <2>1. job'.pc = "cs"  BY <1>8, GoneTypes DEF WriteStub, At, PCs
  <2> QED  BY <1>8, <2>1 DEF WriteStub, Quiet
<1>9. CASE NoRelationship
  <2>1. job.pc = "analyze" /\ job'.pc = "spans" /\ job'.id = job.id
    BY <1>9, GoneTypes DEF NoRelationship, At, PCs
  <2>2. rows[job.id] = None  BY <2>1 DEF TableInvs, TablesInv
  <2> QED  BY <1>9, <2>1, <2>2 DEF NoRelationship, Quiet
<1>10. CASE AddSpans
  <2> DEFINE new == Ranges
  <2>1. /\ job.pc = "spans" /\ job'.pc = IF new = {} THEN "next" ELSE "index"
        /\ job'.id = job.id /\ job'.t = job.t /\ job'.spanned = job.spanned /\ job.id \in Ids
    BY <1>10, GoneTypes DEF AddSpans, At, PCs, TypeOK, Goto, Job, Ranges
  <2>2. rows' = rows /\ cs' = cs /\ lost' = lost  BY <1>10 DEF AddSpans
  <2>3. Ranges' = new  BY <2>1, <2>2 DEF Ranges
  <2>4. ss[job.id] = {} /\ headless \subseteq lost  BY <2>1 DEF TableInvs, TablesInv
  <2>5. "ss" \notin lost => ss' = [ss EXCEPT ![job.id] = @ \cup new]
    BY <1>10, <2>4 DEF AddSpans, Appended, Ranges
  <2> HIDE DEF new
  <2>6. "ss" \notin lost => ss'[job.id] = new /\ \A id \in Ids \ {job.id} : ss'[id] = ss[id]
    BY <2>1, <2>4, <2>5 DEF TypeOK
  <2>7. rows[job.id] # None => rows[job.id].spans = FALSE  BY <2>1 DEF IndexInv
  <2> QED  BY <2>1, <2>2, <2>3, <2>6, <2>7 DEF Quiet
<1>11. ASSUME NEW table \in Tables, KillInRewrite(table) PROVE Quiet
  <2>1. job'.pc = "idle"  BY <1>11, IdleTypes DEF KillInRewrite, Killed
  <2>2. lost' = lost \cup {table}  BY <1>11 DEF KillInRewrite
  <2>3. CASE table = "scope"
    <3>1. \A id \in Ids : rows'[id] = None  BY <1>11, <2>3 DEF KillInRewrite, Empty
    <3> QED  BY <2>1, <2>2, <3>1 DEF Quiet
  <2>4. CASE table # "scope"
    <3>1. job.pc = "remove" /\ job.id \in Ids  BY <1>11, <2>4 DEF KillInRewrite, At, TypeOK, PCs
    <3>2. /\ rows' = [rows EXCEPT ![job.id] = None]
          /\ table # "ss" => ss' = ss
      BY <1>11, <2>4 DEF KillInRewrite
    <3>3. \A id \in Ids : rows'[id] # None => rows'[id] = rows[id]
      BY <3>1, <3>2 DEF TypeOK
    <3> QED  BY <2>1, <2>2, <3>2, <3>3 DEF Quiet
  <2> QED  BY <2>3, <2>4
<1>12. ASSUME NEW id \in Ids, Load(id) \/ Unload(id) \/ Delete(id) PROVE Quiet
  <2>1. job.pc = "idle" /\ job' = job /\ ss' = ss /\ lost' = lost
    BY <1>12 DEF Load, Unload, Delete, At
  <2>2. \A i \in Ids : rows'[i] # None => rows'[i] = rows[i]
    BY <1>12 DEF Load, Unload, Delete, TypeOK
  <2> QED  BY <2>1, <2>2 DEF Quiet
<1>13. CASE Checkout
  BY <1>13 DEF Checkout, At, Quiet
<1> QED
  BY <1>1, <1>2, <1>3, <1>4, <1>5, <1>6, <1>7, <1>8, <1>9, <1>10, <1>11, <1>12, <1>13 DEF OtherStep

LEMMA OtherKeeps ==
  ASSUME IndexInv, Quiet, KeepColumns, KeepTables
  PROVE  IndexInv'
<1>1. cs_table' = cs_table /\ ss_table' = ss_table /\ emptied' = emptied  BY DEF KeepTables
<1>2. /\ csIndex' \in [Ids -> Seq(Nat)] /\ ssIndex' \in [Ids -> Nat]
      /\ \A id \in Ids : rows'[id] # None => csIndex'[id] = csIndex[id] /\ ssIndex'[id] = ssIndex[id]
  BY ColumnsKept
<1>3. ASSUME NEW id \in Ids, rows'[id] # None, "cs" \notin emptied
      PROVE  CsOwn(csIndex'[id], cs_table, rows'[id])
  BY <1>2, <1>3 DEF IndexInv, Quiet
<1>4. ASSUME NEW id \in Ids, rows'[id] # None, rows'[id].spans, "ss" \notin emptied
      PROVE  /\ ssIndex'[id] \in DOMAIN ss_table
             /\ ss_table[ssIndex'[id]] # {}
             /\ ss_table[ssIndex'[id]] \subseteq OwnSpans(rows'[id].prog)
             /\ "ss" \notin lost' => ss_table[ssIndex'[id]] = ss'[id]
  <2>1. rows'[id] = rows[id] /\ rows[id].spans  BY <1>4 DEF Quiet
  <2>2. rows[id].spans = TRUE /\ "ss" \notin lost' => ss'[id] = ss[id]  BY <1>4 DEF Quiet
  <2> QED  BY <1>2, <1>4, <2>1, <2>2 DEF IndexInv, Quiet
<1> QED  BY <1>1, <1>2, <1>3, <1>4 DEF IndexInv, Quiet

\* While the critical spans are written the tunable has blocks, and a text for
\* each of its probes.
LEMMA InstructionTypes ==
  ASSUME TypeOK, FilesInv, job.pc \in {"cs", "row"}
  PROVE  Instructions \in Seq(STRING)
<1>1. bb[job.id] \in [1..3 -> Blocks \cup {None}]  BY DEF TypeOK, PCs
<1>2. bb[job.id][1] # None  BY DEF FilesInv
<1>3. bb[job.id][1] \in Blocks  BY <1>1, <1>2
<1> QED  BY <1>3, TextAssumption DEF Instructions

LEMMA IndexCsStep ==
  ASSUME TypeOK, FilesInv, IndexInv, IndexCs
  PROVE  IndexInv'
<1>1. job.pc = "cs"  BY DEF IndexCs, At
<1>2. PICK k \in Unindexed : cs_table' = Append(cs_table, Instructions[k])  BY DEF IndexCs
<1>3. Instructions[k] \in STRING
  BY <1>1, InstructionTypes DEF Unindexed
<1>4. /\ ss_table' = ss_table
      /\ csIndex' = csIndex /\ ssIndex' = ssIndex /\ emptied' = emptied
      /\ rows' = rows /\ ss' = ss /\ job' = job /\ lost' = lost
  BY DEF IndexCs, vars
<1>5. /\ cs_table' \in Seq(STRING)
      /\ \A i \in DOMAIN cs_table : i \in DOMAIN cs_table' /\ cs_table'[i] = cs_table[i]
  BY <1>2, <1>3, IndicesStay DEF IndexInv
<1>6. ASSUME NEW id \in Ids, rows[id] # None, "cs" \notin emptied
      PROVE  CsOwn(csIndex[id], cs_table', rows[id])
  BY <1>5, <1>6 DEF IndexInv, CsOwn
<1> QED  BY <1>1, <1>4, <1>5, <1>6 DEF IndexInv

LEMMA IndexSsStep ==
  ASSUME TypeOK, IndexInv, IndexSs
  PROVE  IndexInv'
<1>1. job.pc = "index" /\ job.id \in Ids  BY DEF IndexSs, At, TypeOK, PCs
<1>2. Ranges \in SUBSET Span
  <2>1. cs[job.id] \subseteq Blocks /\ job.t \in Tunables  BY <1>1 DEF TypeOK, PCs
  <2> QED  BY <2>1 DEF Ranges, SpansOf, Span
<1>3. /\ ss_table' = Append(ss_table, Ranges) /\ cs_table' = cs_table
      /\ csIndex' = csIndex /\ ssIndex' = ssIndex /\ emptied' = emptied
      /\ rows' = rows /\ ss' = ss /\ cs' = cs /\ job' = job /\ lost' = lost
  BY DEF IndexSs, vars
<1>4. /\ ss_table' \in Seq(SUBSET Span)
      /\ \A i \in DOMAIN ss_table : i \in DOMAIN ss_table' /\ ss_table'[i] = ss_table[i]
  BY <1>2, <1>3, IndicesStay DEF IndexInv
<1>5. Ranges' = Ranges  BY <1>3 DEF Ranges
<1> QED  BY <1>1, <1>3, <1>4, <1>5 DEF IndexInv

LEMMA KillInIndexStep ==
  ASSUME TypeOK, IndexInv, KillInIndex
  PROVE  IndexInv'
<1>1. job'.pc = "idle" /\ rows' = rows /\ ss' = ss /\ lost' = lost
  BY IdleTypes DEF KillInIndex, Kill, Killed
<1>2. /\ csIndex' \in [Ids -> Seq(Nat)] /\ ssIndex' \in [Ids -> Nat]
      /\ \A id \in Ids : rows'[id] # None => csIndex'[id] = csIndex[id] /\ ssIndex'[id] = ssIndex[id]
  BY ColumnsKept DEF KillInIndex
<1>3. \/ cs_table' = <<>> /\ ss_table' = ss_table /\ emptied' = emptied \cup {"cs"}
      \/ ss_table' = <<>> /\ cs_table' = cs_table /\ emptied' = emptied \cup {"ss"}
  BY DEF KillInIndex
<1>4. cs_table' \in Seq(STRING) /\ ss_table' \in Seq(SUBSET Span)
  <2>1. CASE cs_table' = <<>> /\ ss_table' = ss_table  BY <2>1 DEF IndexInv
  <2>2. CASE ss_table' = <<>> /\ cs_table' = cs_table  BY <2>2 DEF IndexInv
  <2> QED  BY <1>3, <2>1, <2>2
<1> QED  BY <1>1, <1>2, <1>3, <1>4 DEF IndexInv

LEMMA AddCsIndexedStep ==
  ASSUME TypeOK, IndexInv, AddCsIndexed
  PROVE  IndexInv'
<1>1. /\ job.pc = "cs" /\ job'.pc = "row" /\ job'.id = job.id
      /\ bb' = bb /\ rows' = rows /\ ss' = ss /\ lost' = lost
  BY GoneTypes DEF AddCsIndexed, AddCs, At, PCs
<1>2. /\ csIndex' \in [Ids -> Seq(Nat)] /\ ssIndex' \in [Ids -> Nat]
      /\ \A id \in Ids : rows'[id] # None => csIndex'[id] = csIndex[id] /\ ssIndex'[id] = ssIndex[id]
  BY ColumnsKept DEF AddCsIndexed
<1>3. cs_table' = cs_table /\ ss_table' = ss_table /\ emptied' = emptied
  BY DEF AddCsIndexed, KeepTables
<1>4. Unindexed' = {}
  BY <1>1, <1>3 DEF AddCsIndexed, Unindexed, Instructions, Has
<1> QED  BY <1>1, <1>2, <1>3, <1>4 DEF IndexInv

LEMMA AddRowIndexedStep ==
  ASSUME TypeOK, FilesInv, TableInvs, IndexInv, AddRowIndexed
  PROVE  IndexInv'
<1> DEFINE row == [prog |-> [of |-> job.t, blocks |-> bb[job.id]], gen |-> job.gen, spans |-> FALSE]
           found == [k \in DOMAIN Instructions |-> IndexOf(cs_table, Instructions[k])]
<1>1. /\ job.pc = "row" /\ job'.pc = "spans" /\ job'.id = job.id /\ job.id \in Ids
      /\ ss' = ss /\ lost' = lost
  BY GoneTypes DEF AddRowIndexed, AddRow, At, PCs, TypeOK
<1>2. ssIndex' = ssIndex /\ cs_table' = cs_table /\ ss_table' = ss_table /\ emptied' = emptied
  BY DEF AddRowIndexed, KeepTables
<1>3. rows[job.id] = None  BY <1>1 DEF TableInvs, TablesInv
<1>4. found \in Seq(Nat) /\ CsOwn(found, cs_table, row)
  <2>1. Instructions \in Seq(STRING)  BY <1>1, InstructionTypes
  <2>2. \A k \in DOMAIN Instructions : Has(cs_table, Instructions[k])
    BY <1>1 DEF IndexInv, Unindexed
  <2>3. cs_table \in Seq(STRING)  BY DEF IndexInv
  <2>4. \A k \in DOMAIN Instructions :
          found[k] \in DOMAIN cs_table /\ found[k] \in Nat /\ cs_table[found[k]] = Instructions[k]
    BY <2>2, <2>3, IndexFinds
  <2>5. /\ DOMAIN found = DOMAIN Instructions /\ DOMAIN Instructions = 1..Len(Instructions)
        /\ Len(Instructions) \in Nat
    BY <2>1
  <2>6. Instructions = Texts[row.prog.blocks[1]]  BY DEF Instructions
  <2> HIDE DEF found, row
  <2>7. found \in Seq(Nat) /\ Len(found) = Len(Instructions)
    <3>1. found \in [1..Len(Instructions) -> Nat]  BY <2>4, <2>5 DEF found
    <3> QED  BY <2>5, <3>1
  <2> QED  BY <2>4, <2>5, <2>6, <2>7 DEF CsOwn
<1>5. row.spans = FALSE  OBVIOUS
<1>6. rows' = rows \/ rows' = [rows EXCEPT ![job.id] = row]
  BY DEF AddRowIndexed, AddRow, Appended
<1>7. csIndex' = IF rows'[job.id] = None THEN csIndex ELSE [csIndex EXCEPT ![job.id] = found]
  BY DEF AddRowIndexed
<1> HIDE DEF row, found
<1>8. csIndex' \in [Ids -> Seq(Nat)] /\ ssIndex' \in [Ids -> Nat]
  BY <1>2, <1>4, <1>7 DEF IndexInv
<1>9. \A id \in Ids : rows'[id] # None =>
        \/ id # job.id /\ rows'[id] = rows[id] /\ csIndex'[id] = csIndex[id]
        \/ id = job.id /\ rows'[id] = row /\ csIndex'[id] = found
  BY <1>1, <1>3, <1>6, <1>7 DEF TypeOK, IndexInv
<1> QED  BY <1>1, <1>2, <1>4, <1>5, <1>8, <1>9 DEF IndexInv

LEMMA SetIndexIndexedStep ==
  ASSUME TypeOK, TableInvs, IndexInv, SetIndexIndexed
  PROVE  IndexInv'
<1> DEFINE index == IndexOf(ss_table, Ranges)
<1>1. /\ job.pc = "index" /\ job'.pc = "next" /\ job'.id = job.id /\ job.id \in Ids
      /\ ss' = ss /\ lost' = lost
  BY GoneTypes DEF SetIndexIndexed, SetIndex, At, PCs, TypeOK
<1>2. csIndex' = csIndex /\ cs_table' = cs_table /\ ss_table' = ss_table /\ emptied' = emptied
  BY DEF SetIndexIndexed, KeepTables
<1>3. index \in DOMAIN ss_table /\ index \in Nat /\ ss_table[index] = Ranges
  BY IndexFinds DEF SetIndexIndexed, IndexInv
<1>4. ssIndex' = IF rows[job.id] = None THEN ssIndex ELSE [ssIndex EXCEPT ![job.id] = index]
  BY DEF SetIndexIndexed
<1>5. Ranges # {} /\ ("ss" \notin lost => ss[job.id] = Ranges)  BY <1>1 DEF IndexInv
<1>6. rows[job.id] # None => Ranges \subseteq OwnSpans(rows[job.id].prog)
  <2> SUFFICES ASSUME rows[job.id] # None PROVE Ranges \subseteq OwnSpans(rows[job.id].prog)
    OBVIOUS
  <2>1. rows[job.id].prog.of = job.t /\ cs[job.id] \subseteq {rows[job.id].prog.blocks[1]}
    BY <1>1 DEF TableInvs, TablesInv, RowOwnsFiles
  <2> QED  BY <2>1 DEF Ranges, SpansOf, OwnSpans
<1>7. rows' = IF rows[job.id] = None THEN rows ELSE [rows EXCEPT ![job.id].spans = TRUE]
  BY DEF SetIndexIndexed, SetIndex
<1> HIDE DEF index
<1>8. ssIndex' \in [Ids -> Nat]  BY <1>3, <1>4 DEF IndexInv
<1>9. \A id \in Ids : rows'[id] # None =>
        /\ rows[id] # None /\ rows'[id].prog = rows[id].prog
        /\ \/ id # job.id /\ rows'[id] = rows[id] /\ ssIndex'[id] = ssIndex[id]
           \/ id = job.id /\ ssIndex'[id] = index
  <2>1. rows[job.id] # None => rows[job.id] \in Row  BY <1>1 DEF TypeOK
  <2> QED  BY <1>1, <1>4, <1>7, <2>1 DEF TypeOK, Row, IndexInv
<1>10. ASSUME NEW id \in Ids, rows'[id] # None, "cs" \notin emptied
       PROVE  CsOwn(csIndex[id], cs_table, rows'[id])
  <2>1. CsOwn(csIndex[id], cs_table, rows[id])  BY <1>9, <1>10 DEF IndexInv
  <2>2. rows'[id].prog = rows[id].prog  BY <1>9, <1>10
  <2> QED  BY <2>1, <2>2 DEF CsOwn
<1>11. ASSUME NEW id \in Ids, rows'[id] # None, rows'[id].spans, "ss" \notin emptied
       PROVE  /\ ssIndex'[id] \in DOMAIN ss_table
              /\ ss_table[ssIndex'[id]] # {}
              /\ ss_table[ssIndex'[id]] \subseteq OwnSpans(rows'[id].prog)
              /\ "ss" \notin lost => ss_table[ssIndex'[id]] = ss[id]
  <2>1. CASE id # job.id  BY <1>9, <1>11, <2>1 DEF IndexInv
  <2>2. CASE id = job.id  BY <1>3, <1>5, <1>6, <1>9, <1>11, <2>2
  <2> QED  BY <2>1, <2>2
<1> QED  BY <1>1, <1>2, <1>8, <1>10, <1>11 DEF IndexInv

LEMMA ClearIndexedStep ==
  ASSUME IndexInv, ClearIndexed
  PROVE  IndexInv'
<1>1. job.pc = "idle" /\ job' = job  BY DEF ClearIndexed, DeleteAll, Clean, At
<1>2. \A id \in Ids : rows'[id] = None
  BY DEF ClearIndexed, DeleteAll, Clean, ClearTables, Empty
<1>3. csIndex' \in [Ids -> Seq(Nat)] /\ ssIndex' \in [Ids -> Nat]
  BY ColumnsKept DEF ClearIndexed
<1>4. cs_table' \in Seq(STRING) /\ ss_table' \in Seq(SUBSET Span)
  BY DEF ClearIndexed
<1> QED  BY <1>1, <1>2, <1>3, <1>4 DEF IndexInv

LEMMA IndexStep ==
  ASSUME TypeOK, FilesInv, TableInvs, IndexInv, [NextIndexed]_allVars
  PROVE  IndexInv'
<1>1. CASE OtherStep
  <2>1. Quiet /\ KeepColumns /\ KeepTables  BY <1>1, OtherIsQuiet DEF OtherStep
  <2> QED  BY <2>1, OtherKeeps
<1>2. CASE UNCHANGED allVars
  <2>1. vars' = vars /\ indices' = indices  BY <1>2 DEF allVars
  <2>2. Instructions' = Instructions /\ Ranges' = Ranges
    BY <2>1 DEF vars, Instructions, Ranges
  <2>3. Unindexed' = Unindexed  BY <2>1, <2>2 DEF indices, Unindexed, Has
  <2> QED  BY <2>1, <2>2, <2>3 DEF vars, indices, IndexInv, CsOwn
<1> QED
  BY <1>1, <1>2, IndexCsStep, IndexSsStep, KillInIndexStep, AddCsIndexedStep, AddRowIndexedStep,
     SetIndexIndexedStep, ClearIndexedStep
  DEF NextIndexed

LEMMA InitIndex == InitIndexed => IndexInv
<1> SUFFICES ASSUME InitIndexed PROVE IndexInv
  OBVIOUS
<1>1. job.pc = "idle" /\ \A id \in Ids : rows[id] = None
  BY IdleTypes DEF InitIndexed, Init, Empty
<1>2. csIndex \in [Ids -> Seq(Nat)] /\ ssIndex \in [Ids -> Nat]
  BY DEF InitIndexed, Empty
<1>3. cs_table \in Seq(STRING) /\ ss_table \in Seq(SUBSET Span)  BY DEF InitIndexed
<1> QED  BY <1>1, <1>2, <1>3 DEF IndexInv

\* A step with the index tables is a step without them.
LEMMA IndexedIsBuild ==
  /\ InitIndexed => Init
  /\ [NextIndexed]_allVars => [Next]_vars
<1>1. IndexCs \/ IndexSs => UNCHANGED vars  BY DEF IndexCs, IndexSs
<1>2. KillInIndex => Next  BY DEF KillInIndex, Next
<1>3. AddCsIndexed \/ AddRowIndexed \/ SetIndexIndexed => Next
  BY DEF AddCsIndexed, AddRowIndexed, SetIndexIndexed, Next, Step
<1>4. ClearIndexed => Next  BY DEF ClearIndexed, Next
<1>5. OtherStep => Next  BY DEF OtherStep, Next, Step
<1>6. UNCHANGED allVars => UNCHANGED vars  BY DEF allVars
<1> QED  BY <1>1, <1>2, <1>3, <1>4, <1>5, <1>6 DEF InitIndexed, NextIndexed

\* What holds of builds holds with the index tables beside them.
THEOREM IndexedImplementsBuild == SpecIndexed => Spec
BY IndexedIsBuild, PTL DEF Spec, SpecIndexed

\* The indices that a row holds lead to its own critical and safe spans, the latter
\* those that its loads read, though index tables are shared by all ConstIDs,
\* outlive their rows and are rewritten under kills.
THEOREM IndicesAreOwnTheorem == SpecIndexed => []IndicesAreOwn
<1>1. InitIndexed => IInv /\ IndexInv  BY InitIndex, InitIInv DEF InitIndexed
<1>2. IInv /\ IndexInv /\ [NextIndexed]_allVars => (IInv /\ IndexInv)'
  <2> SUFFICES ASSUME IInv, IndexInv, [NextIndexed]_allVars PROVE IInv' /\ IndexInv'
    OBVIOUS
  <2>1. IInv'  BY IndexedIsBuild, IInvStep
  <2>2. IndexInv'  BY IndexStep DEF IInv
  <2> QED  BY <2>1, <2>2
<1>3. IInv /\ IndexInv => IndicesAreOwn
  <2> SUFFICES ASSUME IInv, IndexInv PROVE IndicesAreOwn
    OBVIOUS
  <2>1. ASSUME NEW id \in Ids, rows[id] # None, "cs" \notin emptied
        PROVE  [k \in DOMAIN csIndex[id] |-> Found(cs_table, csIndex[id][k])]
                 = Texts[rows[id].prog.blocks[1]]
    <3> DEFINE texts == Texts[rows[id].prog.blocks[1]]
    <3>1. texts \in Seq(STRING)
      <4>1. rows[id] \in Row  BY <2>1 DEF IInv, TypeOK
      <4> QED  BY <4>1, TextAssumption DEF Row, Program
    <3>2. csIndex[id] \in Seq(Nat) /\ CsOwn(csIndex[id], cs_table, rows[id])
      BY <2>1 DEF IndexInv
    <3> HIDE DEF texts
    <3>3. /\ Len(csIndex[id]) = Len(texts)
          /\ \A k \in 1..Len(texts) : Found(cs_table, csIndex[id][k]) = texts[k]
      BY <3>2 DEF CsOwn, Found, texts
    <3>4. DOMAIN csIndex[id] = 1..Len(texts)  BY <3>2, <3>3
    <3>5. [k \in 1..Len(texts) |-> Found(cs_table, csIndex[id][k])] = texts  BY <3>1, <3>3
    <3> QED  BY <3>4, <3>5 DEF texts
  <2>2. ASSUME NEW id \in Ids, rows[id] # None, rows[id].spans, "ss" \notin emptied
        PROVE  LET found == Found(ss_table, ssIndex[id])
               IN /\ found # {} /\ found \subseteq OwnSpans(rows[id].prog)
                  /\ "ss" \notin lost => found = ss[id]
    BY <2>2 DEF IndexInv, Found
  <2> QED  BY <2>1, <2>2 DEF IndicesAreOwn
<1> QED  BY <1>1, <1>2, <1>3, PTL DEF SpecIndexed
=============================================================================
