----------------------------- MODULE IndexTables -----------------------------
(***************************************************************************)
(* The index tables cs_table and ss_table beside the tables of             *)
(* BuildPipeline.  Each numbers the different contents it has seen, a row  *)
(* of the scope table holds numbers in place of texts: one for each probe  *)
(* in CS_Index, one for all ranges in SS_Index.  A new content is added by *)
(* rewriting the file, which empties it first; entries go only with all of *)
(* them.                                                                   *)
(*                                                                         *)
(* Every step is a step of BuildPipeline or leaves its variables alone.    *)
(***************************************************************************)
EXTENDS BuildPipeline

CONSTANT Texts  \* the changed instructions of each probe in the original's blocks

ASSUME TextAssumption == Texts \in [Blocks -> Seq(STRING)]

VARIABLES
  cs_table, ss_table,  \* the contents, in the order of their indices
  csIndex,             \* CS_Index of each row, <<>> if there is none
  ssIndex,             \* SS_Index of each row, 0 if empty
  emptied              \* history: index tables that a kill has emptied since
                       \* all tables were last cleared

indices == <<cs_table, ss_table, csIndex, ssIndex, emptied>>
allVars == <<vars, indices>>

InitIndexed ==
  /\ Init
  /\ cs_table = <<>> /\ ss_table = <<>>
  /\ csIndex = Empty(<<>>) /\ ssIndex = Empty(0) /\ emptied = {}

Has(table, content) == \E i \in DOMAIN table : table[i] = content

\* Mutant: the largest index is returned also for a content that is there.
LastIndex(table, content) == Len(table)

\* The index of a content that is in the table
IndexOf(table, content) == CHOOSE i \in DOMAIN table : table[i] = content

\* The instructions of the critical spans, and the ranges of the safe spans, of
\* the tunable under way
Instructions == Texts[bb[job.id][1]]
Ranges == SpansOf(job.spanned, job.t, cs[job.id])

\* A row that goes takes its columns along.
Column(col, none) == [id \in Ids |-> IF rows'[id] = None THEN none ELSE col[id]]
KeepColumns == csIndex' = Column(csIndex, <<>>) /\ ssIndex' = Column(ssIndex, 0)
KeepTables  == UNCHANGED <<cs_table, ss_table, emptied>>

----------------------------------------------------------------------------
\* The probes whose instructions have no index yet
Unindexed == {k \in DOMAIN Instructions : ~Has(cs_table, Instructions[k])}

\* get_or_add_cs_index, for one probe after the other
IndexCs ==
  /\ At("cs")
  /\ \E k \in Unindexed :
       /\ \A j \in Unindexed : k <= j
       /\ cs_table' = Append(cs_table, Instructions[k])
  /\ UNCHANGED <<vars, ss_table, csIndex, ssIndex, emptied>>

\* get_or_add_ss_index, before the row is updated, also when there is none
IndexSs ==
  /\ At("index") /\ ~Has(ss_table, Ranges)
  /\ ss_table' = Append(ss_table, Ranges)
  /\ UNCHANGED <<vars, cs_table, csIndex, ssIndex, emptied>>

\* In the middle of either rewrite
KillInIndex ==
  /\ Kill
  /\ \/ /\ At("cs") /\ Unindexed # {}
        /\ cs_table' = <<>> /\ emptied' = emptied \cup {"cs"}
        /\ UNCHANGED ss_table
     \/ /\ At("index") /\ ~Has(ss_table, Ranges)
        /\ ss_table' = <<>> /\ emptied' = emptied \cup {"ss"}
        /\ UNCHANGED cs_table
  /\ KeepColumns

AddCsIndexed ==
  /\ AddCs /\ Unindexed = {}
  /\ KeepColumns /\ KeepTables

\* The row names its critical spans; SS_Index is empty.
AddRowIndexed ==
  /\ AddRow
  /\ csIndex' = IF rows'[job.id] = None THEN csIndex
                ELSE [csIndex EXCEPT ![job.id] =
                        [k \in DOMAIN Instructions |-> IndexOf(cs_table, Instructions[k])]]
  /\ UNCHANGED ssIndex /\ KeepTables

\* _update_scope_table_ss_index
SetIndexIndexed ==
  /\ SetIndex /\ Has(ss_table, Ranges)
  /\ ssIndex' = IF rows[job.id] = None THEN ssIndex
                ELSE [ssIndex EXCEPT ![job.id] = IndexOf(ss_table, Ranges)]
  /\ UNCHANGED csIndex /\ KeepTables

\* table delete --all and clean empty the index tables after the scope table.
ClearIndexed ==
  /\ DeleteAll \/ \E all \in BOOLEAN : Clean(all)
  /\ cs_table' = <<>> /\ ss_table' = <<>> /\ emptied' = {}
  /\ KeepColumns

\* The other steps know nothing of the index tables: a row that is deleted, or
\* removed before its ConstID is used again, leaves its contents there.
OtherStep ==
  /\ \/ StartBuild
     \/ \E id \in Ids : StartTunable(id)
     \/ Make \/ Compile \/ Modify \/ Recompile \/ CompileFails \/ Restore \/ Extract
     \/ Remove \/ WriteStub \/ NoRelationship \/ AddSpans
     \/ Kill \/ \E table \in Tables : KillInRewrite(table)
     \/ \E id \in Ids : Load(id) \/ Unload(id) \/ Delete(id)
     \/ Checkout
  /\ KeepColumns /\ KeepTables

NextIndexed ==
  \/ IndexCs \/ IndexSs \/ KillInIndex
  \/ AddCsIndexed \/ AddRowIndexed \/ SetIndexIndexed \/ ClearIndexed \/ OtherStep

SpecIndexed == InitIndexed /\ [][NextIndexed]_allVars

----------------------------------------------------------------------------
\* What read_scope_table finds under an index: a row that names several is listed
\* as text, and each of its indices is looked up here by itself.
Found(table, index) == IF index \in DOMAIN table THEN table[index] ELSE None

\* The indices of a row lead to its own critical and safe spans, and these are the
\* safe spans that its loads read from ss_raw, whatever was deleted, built again
\* and killed, unless a kill emptied a table they are in.
IndicesAreOwn ==
  \A id \in Ids : rows[id] # None =>
    LET prog == rows[id].prog
    IN /\ "cs" \notin emptied =>
            [k \in DOMAIN csIndex[id] |-> Found(cs_table, csIndex[id][k])] = Texts[prog.blocks[1]]
       /\ rows[id].spans /\ "ss" \notin emptied =>
            LET found == Found(ss_table, ssIndex[id])
            IN /\ found # {} /\ found \subseteq OwnSpans(prog)
               /\ "ss" \notin lost => found = ss[id]
=============================================================================
