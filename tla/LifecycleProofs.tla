--------------------------- MODULE LifecycleProofs ---------------------------
(***************************************************************************)
(* Proofs about Lifecycle: its types for any commands, and, when commands  *)
(* run one at a time by a user who can list bpffs, that the four places    *)
(* agree whenever no command runs.                                         *)
(***************************************************************************)
EXTENDS Lifecycle, TLAPS

\* One command at a time; the pins can be seen.
Sequential == Visible /\ \E p : Procs = {p}

----------------------------------------------------------------------------
(* What the two ways to move on do to the local variables *)

LEMMA Gone ==
  ASSUME TypeOK, NEW p \in Procs, NEW pc \in Points, Go(p, pc)
  PROVE  /\ proc' \in [Procs -> Process]
         /\ proc'[p] \in Process
         /\ proc'[p].pc = pc /\ proc'[p].op = proc[p].op /\ proc'[p].id = proc[p].id
         /\ proc'[p].mode = proc[p].mode /\ proc'[p].seen = proc[p].seen
         /\ proc'[p].todo = proc[p].todo /\ proc'[p].rows = proc[p].rows
         /\ proc'[p].status = proc[p].status
BY DEF TypeOK, Go, Process

LEMMA IdleTypes == Idle \in Process
BY DEF Idle, Process, Nothing, Entries, Points

LEMMA Exited ==
  ASSUME TypeOK, NEW p \in Procs, Exit(p)
  PROVE  proc' \in [Procs -> Process] /\ proc'[p] = Idle
BY IdleTypes DEF TypeOK, Exit

\* The local variables a command starts with.
LEMMA Started ==
  ASSUME TypeOK, NEW p \in Procs, NEW w \in Process, proc' = [proc EXCEPT ![p] = w]
  PROVE  proc' \in [Procs -> Process] /\ proc'[p] = w
BY DEF TypeOK

----------------------------------------------------------------------------
(* Types *)

LEMMA LoadTypes == ASSUME TypeOK, NEW p \in Procs, LoadNext(p) PROVE TypeOK'
<1> USE DEF files, kernel, history
<1>0. /\ proc[p].pc \in Points /\ proc[p].id \in Ids \cup {None}
      /\ proc[p].mode \in Modes \cup {None}
  BY DEF TypeOK, Process
<1>1. ASSUME NEW i \in Ids, NEW m \in Modes, Load(p, i, m) PROVE TypeOK'
  <2> DEFINE w == [Idle EXCEPT !.pc = "kfuncs", !.op = "load", !.id = i, !.mode = m]
  <2>1. w \in Process  BY IdleTypes DEF Process, Points, Idle
  <2>2. proc' \in [Procs -> Process]  BY <1>1, <2>1, Started DEF Load
  <2> QED  BY <1>1, <2>2 DEF Load, TypeOK
<1>2. ASSUME EnsureKfuncs(p) PROVE TypeOK'
  <2>1. proc' \in [Procs -> Process]  BY <1>2, Gone, Exited DEF EnsureKfuncs, Points
  <2> QED  BY <1>2, <2>1 DEF EnsureKfuncs, TypeOK
<1>3. ASSUME Attach(p) PROVE TypeOK'
  <2>1. proc' \in [Procs -> Process]  BY <1>3, Gone, Exited DEF Attach, Points
  <2> QED  BY <1>3, <2>1 DEF Attach, TypeOK
<1>4. ASSUME Fill(p) PROVE TypeOK'
  <2>1. proc' \in [Procs -> Process]  BY <1>4, Gone DEF Fill, Points
  <2> DEFINE activated == [active EXCEPT ![proc[p].id] = @ \/ (pins[proc[p].id] /\ proc[p].mode = "immediate")]
             filled == [tables EXCEPT ![proc[p].id] = ssfile]
  <2>2. /\ active' \in {active, activated} /\ tables' \in {tables, filled}
        /\ spoiled' \in {spoiled, TRUE}
        /\ UNCHANGED <<files, pins, kfuncs, module, reversed, bare>>
    BY <1>4 DEF Fill
  <2>3. active \in [Ids -> BOOLEAN] /\ tables \in [Ids -> Ids \cup {None}]
        /\ spoiled \in BOOLEAN /\ ssfile \in Ids \cup {None}
    BY DEF TypeOK
  <2>4. activated \in [Ids -> BOOLEAN]
    <3> DEFINE v == active[proc[p].id] \/ (pins[proc[p].id] /\ proc[p].mode = "immediate")
    <3>1. v \in BOOLEAN  OBVIOUS
    <3>2. activated = [active EXCEPT ![proc[p].id] = v]  OBVIOUS
    <3> HIDE DEF activated, v
    <3> QED  BY <2>3, <3>1, <3>2
  <2>5. filled \in [Ids -> Ids \cup {None}]  BY <2>3
  <2> HIDE DEF activated, filled
  <2>6. active' \in [Ids -> BOOLEAN]  BY <2>2, <2>3, <2>4
  <2>7. tables' \in [Ids -> Ids \cup {None}]  BY <2>2, <2>3, <2>5
  <2>8. spoiled' \in BOOLEAN  BY <2>2, <2>3
  <2> QED  BY <2>1, <2>2, <2>6, <2>7, <2>8 DEF TypeOK
<1>5. ASSUME Activate(p) PROVE TypeOK'
  <2>1. proc' \in [Procs -> Process]  BY <1>5, Gone DEF Activate, Points
  <2> QED  BY <1>5, <2>1 DEF Activate, TypeOK
<1>6. ASSUME RemoveOldModule(p) PROVE TypeOK'
  <2>1. proc' \in [Procs -> Process]  BY <1>6, Gone DEF RemoveOldModule, Points
  <2> QED  BY <1>6, <2>1 DEF RemoveOldModule, ReverseTransition, TypeOK
<1>7. ASSUME Insmod(p) PROVE TypeOK'
  <2>1. proc' \in [Procs -> Process]  BY <1>7, Gone DEF Insmod, Points
  <2> QED  BY <1>7, <2>1 DEF Insmod, TypeOK
<1>8. ASSUME Status(p) PROVE TypeOK'
  <2>1. proc' \in [Procs -> Process]  BY <1>8, Gone DEF Status, Points
  <2> QED  BY <1>8, <2>1 DEF Status, SetRow, TypeOK
<1>9. ASSUME Save(p) PROVE TypeOK'
  <2>1. proc' \in [Procs -> Process]  BY <1>9, Exited DEF Save
  <2>2. file' \in Entries  BY <1>0, <1>9 DEF Save, TypeOK, Entries
  <2> QED  BY <1>9, <2>1, <2>2 DEF Save, TypeOK
<1> QED
  BY <1>1, <1>2, <1>3, <1>4, <1>5, <1>6, <1>7, <1>8, <1>9 DEF LoadNext

LEMMA UnloadTypes == ASSUME TypeOK, NEW p \in Procs, UnloadNext(p) PROVE TypeOK'
<1> USE DEF files, kernel, history
<1>0. /\ proc[p] \in Process /\ proc[p].id \in Ids \cup {None}
      /\ proc[p].seen \in Entries /\ proc[p].todo \subseteq Ids
  BY DEF TypeOK, Process
<1>1. ASSUME NEW T \in SUBSET Ids, Unload(p, T) PROVE TypeOK'
  <2> DEFINE w == [Idle EXCEPT !.pc = "pick", !.op = "unload", !.seen = file,
                               !.todo = {i \in T : file[i] # None}]
  <2>1. w \in Process  BY IdleTypes DEF Process, Points, Idle, TypeOK
  <2>2. proc' \in [Procs -> Process]  BY <1>1, <2>1, Started DEF Unload
  <2> QED  BY <1>1, <2>2 DEF Unload, TypeOK
<1>2. ASSUME NEW T \in SUBSET Ids, NEW s \in {None, "active"}, Delete(p, T, s) PROVE TypeOK'
  <2> DEFINE w == [Idle EXCEPT !.pc = "pick", !.op = "delete", !.seen = file,
                               !.todo = {i \in T : file[i] # None}, !.rows = T, !.status = s]
  <2>1. w \in Process  BY IdleTypes DEF Process, Points, Idle, TypeOK
  <2>2. proc' \in [Procs -> Process]  BY <1>2, <2>1, Started DEF Delete
  <2> QED  BY <1>2, <2>2 DEF Delete, TypeOK
<1>3. ASSUME UnloadAll(p) PROVE TypeOK'
  <2> DEFINE w == [Idle EXCEPT !.pc = IF file = Nothing THEN "clean_pins" ELSE "pick",
                               !.op = "unload_all", !.seen = file,
                               !.todo = {i \in Ids : file[i] # None}]
  <2>1. w \in Process  BY IdleTypes, ZenonT(60) DEF Process, Points, Idle, TypeOK
  <2>2. proc' \in [Procs -> Process]  BY <1>3, <2>1, Started DEF UnloadAll
  <2> QED  BY <1>3, <2>2 DEF UnloadAll, ReverseTransition, TypeOK
<1>4. ASSUME Pick(p) PROVE TypeOK'
  <2>0. PICK i \in proc[p].todo : \E pc \in FirstSteps(p, i) :
          proc' = [proc EXCEPT ![p].id = i, ![p].pc = pc]
    BY <1>4 DEF Pick
  <2>1. PICK pc \in FirstSteps(p, i) : proc' = [proc EXCEPT ![p].id = i, ![p].pc = pc]
    BY <2>0
  <2>2. i \in Ids /\ pc \in Points  BY <1>0 DEF FirstSteps, Points
  <2> DEFINE w == [proc[p] EXCEPT !.id = i, !.pc = pc]
  <2>3. w \in Process  BY <1>0, <2>2 DEF Process
  <2>4. proc' = [proc EXCEPT ![p] = w]  BY <2>1 DEF TypeOK
  <2>5. proc' \in [Procs -> Process]  BY <2>3, <2>4, Started
  <2> QED  BY <1>4, <2>5 DEF Pick, TypeOK
<1>5. ASSUME Deactivate(p) PROVE TypeOK'
  <2>1. proc' \in [Procs -> Process]  BY <1>5, Gone DEF Deactivate, Points
  <2> QED  BY <1>5, <2>1 DEF Deactivate, TypeOK
<1>6. ASSUME Rmmod(p) PROVE TypeOK'
  <2>1. proc' \in [Procs -> Process]  BY <1>6, Gone DEF Rmmod, Points
  <2> QED  BY <1>6, <2>1 DEF Rmmod, ReverseTransition, TypeOK
<1>7. ASSUME RemovePins(p) PROVE TypeOK'
  <2>1. proc' \in [Procs -> Process]  BY <1>7, Gone, Exited DEF RemovePins, Points
  <2>2. bare' \subseteq Ids  BY <1>7, <1>0 DEF RemovePins, TypeOK, Entries
  <2> QED  BY <1>7, <2>1, <2>2 DEF RemovePins, TypeOK
<1>8. ASSUME Pop(p) PROVE TypeOK'
  <2>1. proc' \in [Procs -> Process]  BY <1>8, Gone, Exited DEF Pop, Points
  <2> QED  BY <1>8, <2>1 DEF Pop, TypeOK, Entries
<1>9. ASSUME Ready(p) PROVE TypeOK'
  <2> DEFINE i == proc[p].id
             w == [proc[p] EXCEPT !.pc = "pick", !.todo = @ \ {i}, !.seen[i] = None]
  <2>1. [proc[p].seen EXCEPT ![i] = None] \in Entries  BY <1>0 DEF Entries
  <2>2. w \in Process  BY <1>0, <2>1, ZenonT(60) DEF Process, Points
  <2>3. proc' = [proc EXCEPT ![p] = w]  BY <1>9 DEF Ready, TypeOK
  <2>4. proc' \in [Procs -> Process]  BY <2>2, <2>3, Started
  <2> QED  BY <1>9, <2>4 DEF Ready, SetRow, TypeOK
<1>10. ASSUME SaveSeen(p) PROVE TypeOK'
  <2>1. proc' \in [Procs -> Process]  BY <1>10, Gone, Exited DEF SaveSeen, Points
  <2> QED  BY <1>10, <1>0, <2>1 DEF SaveSeen, TypeOK
<1>11. ASSUME Unloaded(p) PROVE TypeOK'
  <2>1. proc' \in [Procs -> Process]  BY <1>11, Gone DEF Unloaded, Points
  <2> QED  BY <1>11, <2>1 DEF Unloaded, TypeOK
<1>12. ASSUME CleanPins(p) PROVE TypeOK'
  <2>1. proc' \in [Procs -> Process]  BY <1>12, Gone DEF CleanPins, Points
  <2> QED  BY <1>12, <2>1 DEF CleanPins, RemoveAllPins, TypeOK
<1>13. ASSUME RemoveKfuncs(p) PROVE TypeOK'
  <2>1. proc' \in [Procs -> Process]  BY <1>13, Gone, Exited DEF RemoveKfuncs, Points
  <2> QED  BY <1>13, <2>1 DEF RemoveKfuncs, TypeOK
<1>14. ASSUME Clear(p) PROVE TypeOK'
  <2>1. proc' \in [Procs -> Process]  BY <1>14, Exited DEF Clear
  <2> QED  BY <1>14, <2>1 DEF Clear, SetAllRows, TypeOK, Nothing, Entries
<1>15. ASSUME DeleteRows(p) PROVE TypeOK'
  <2>1. proc' \in [Procs -> Process]  BY <1>15, Exited DEF DeleteRows
  <2> QED  BY <1>15, <2>1 DEF DeleteRows, TypeOK
<1>16. ASSUME Clean(p) PROVE TypeOK'
  <2> DEFINE w == [Idle EXCEPT !.pc = "wipe_pins", !.op = "clean"]
  <2>1. w \in Process  BY IdleTypes DEF Process, Points, Idle
  <2>2. proc' \in [Procs -> Process]  BY <1>16, <2>1, Started DEF Clean
  <2> QED  BY <1>16, <2>2 DEF Clean, TypeOK, Nothing, Entries
<1>17. ASSUME WipePins(p) PROVE TypeOK'
  <2>1. proc' \in [Procs -> Process]  BY <1>17, Exited DEF WipePins
  <2> QED  BY <1>17, <2>1, LifecycleAssumption DEF WipePins, RemoveAllPins, TypeOK
<1> QED
  BY <1>1, <1>2, <1>3, <1>4, <1>5, <1>6, <1>7, <1>8, <1>9, <1>10, <1>11, <1>12, <1>13,
     <1>14, <1>15, <1>16, <1>17 DEF UnloadNext

LEMMA TypeStep == TypeOK /\ [Next]_vars => TypeOK'
<1> SUFFICES ASSUME TypeOK, [Next]_vars PROVE TypeOK'
  OBVIOUS
<1> USE DEF files, kernel, history
<1>1. ASSUME NEW p \in Procs, LoadNext(p) PROVE TypeOK'  BY <1>1, LoadTypes
<1>2. ASSUME NEW p \in Procs, UnloadNext(p) PROVE TypeOK'  BY <1>2, UnloadTypes
<1>3. ASSUME NEW p \in Procs, Kill(p) PROVE TypeOK'
  <2>1. proc' \in [Procs -> Process]  BY <1>3, Exited DEF Kill
  <2> QED  BY <1>3, <2>1 DEF Kill, TypeOK, Nothing, Entries
<1>4. ASSUME NEW i \in Ids, Build(i) PROVE TypeOK'  BY <1>4 DEF Build, TypeOK
<1>5. CASE UNCHANGED vars  BY <1>5 DEF vars, TypeOK
<1> QED  BY <1>1, <1>2, <1>3, <1>4, <1>5 DEF Next

\* Every variable keeps its type, whoever runs the commands and whatever fails.
THEOREM TypeCorrect == Spec => []TypeOK
<1>1. Init => TypeOK
  BY IdleTypes DEF Init, TypeOK, Nothing, Entries
<1> QED  BY <1>1, TypeStep, PTL DEF Spec

----------------------------------------------------------------------------
(* The story the four places tell, command by command *)

\* What Settled says of one ConstID.
Told(i) ==
  IF file[i] = None
    THEN ~pins[i] /\ row[i] # "active"
    ELSE pins[i] /\ active[i] /\ tables[i] = i /\ kfuncs /\ row[i] = "active"

Others(p) == \A i \in Ids : i # proc[p].id => Told(i)

Resting(p) ==
  /\ proc[p].pc = "idle" => \A i \in Ids : Told(i)
  /\ proc[p].op = None => proc[p].pc = "idle"

\* A load gives its ConstID pins, tables, xk_active, the row and the entry, in
\* this order, or takes the pins away again.
Loading(p) ==
  LET i  == proc[p].id
      pc == proc[p].pc
  IN  proc[p].op = "load" =>
        /\ i \in Ids /\ proc[p].mode \in Modes
        /\ pc \in {"kfuncs", "attach", "fill", "activate", "old_module", "insmod", "wait",
                   "status", "save", "rm", "pop"}
        /\ Others(p)
        /\ file[i] = None /\ ssfile = i
        /\ row[i] = (IF pc = "save" THEN "active" ELSE "ready")
        /\ pc # "kfuncs" => kfuncs
        /\ pc \in {"kfuncs", "attach", "pop"} => ~pins[i]
        /\ pc \notin {"kfuncs", "attach", "pop", "rm"} => pins[i]
        /\ pc \notin {"kfuncs", "attach", "pop", "rm", "fill"} => tables[i] = i
        /\ pc \in {"status", "save"} => active[i]

\* An unload has a true copy of the file, except for the ConstID at hand.
Unloading(p) ==
  LET i  == proc[p].id
      pc == proc[p].pc
  IN  proc[p].op \in {"unload", "unload_all", "delete"} =>
        /\ pc \in {"pick", "deactivate", "rmmod", "rm", "pop", "ready",
                   "clean_pins", "rm_kfuncs", "clear"}
        /\ pc \in {"deactivate", "rmmod", "rm", "pop", "ready"} =>
             i \in Ids /\ Others(p) /\ \A j \in Ids : j # i => proc[p].seen[j] = file[j]
        /\ pc = "pick" => proc[p].seen = file /\ \A j \in Ids : Told(j)
        /\ pc \in {"deactivate", "rmmod", "rm", "pop"} => proc[p].seen[i] = file[i]
        /\ pc \in {"deactivate", "rmmod", "rm"} => i \in proc[p].todo
        /\ pc \in {"pop", "ready"} => ~pins[i]
        /\ pc = "ready" => file[i] = None
        /\ pc \in {"clean_pins", "rm_kfuncs", "clear"} =>
             file = Nothing /\ \A j \in Ids : Told(j)

\* What is left when unload --all has been through its ConstIDs.
Complete(p) ==
  /\ proc[p].op \in {"unload", "unload_all", "delete"} =>
       \A j \in proc[p].todo : proc[p].seen[j] # None
  /\ proc[p].op = "unload_all" /\ proc[p].pc \notin {"clean_pins", "rm_kfuncs", "clear"} =>
       \A j \in Ids : proc[p].seen[j] # None => j \in proc[p].todo
  /\ proc[p].op = "delete" =>
       \A j \in proc[p].rows : proc[p].seen[j] # None => j \in proc[p].todo

Cleaning(p) ==
  proc[p].op = "clean" =>
    proc[p].pc = "wipe_pins" /\ file = Nothing /\ \A i \in Ids : row[i] # "active"

Story(p) == Resting(p) /\ Loading(p) /\ Unloading(p) /\ Complete(p) /\ Cleaning(p)

StoryInv == ~spoiled => \A p \in Procs : Story(p)

\* The idle command plays no other part.
LEMMA IdleStory ==
  ASSUME NEW p \in Procs, proc[p] = Idle, \A i \in Ids : Told(i)
  PROVE  Story(p)
BY DEF Story, Resting, Loading, Unloading, Complete, Cleaning, Idle, None

LEMMA LoadStory ==
  ASSUME TypeOK, NEW p \in Procs, ~spoiled, ~spoiled', Story(p), LoadNext(p)
  PROVE  Story(p)'
<1> DEFINE i == proc[p].id
<1> USE DEF files, kernel, history, None
<1>0. proc[p] \in Process /\ file \in Entries /\ i \in Ids \cup {None}
  BY DEF TypeOK, Process
<1>1. ASSUME NEW j \in Ids, NEW m \in Modes, Load(p, j, m) PROVE Story(p)'
  <2> DEFINE w == [Idle EXCEPT !.pc = "kfuncs", !.op = "load", !.id = j, !.mode = m]
  <2>1. w \in Process  BY IdleTypes DEF Process, Points, Idle
  <2>2. proc'[p] = w  BY <1>1, <2>1, Started DEF Load
  <2>3. \A k \in Ids : Told(k)  BY <1>1 DEF Load, Story, Resting, Idle
  <2>4. \A k \in Ids : Told(k)'  BY <1>1, <2>3 DEF Load, Told
  <2>5. file[j] = None /\ ~pins[j] /\ row[j] = "ready"  BY <1>1, <2>3 DEF Load, Told, TypeOK
  <2> QED
    BY <1>1, <2>2, <2>4, <2>5
    DEF Load, Story, Resting, Loading, Unloading, Complete, Cleaning, Others, Idle, Modes
<1>2. ASSUME EnsureKfuncs(p) PROVE Story(p)'
  <2>1. \A k \in Ids : Told(k)
    BY <1>2, <1>0 DEF EnsureKfuncs, At, Story, Loading, Others, Told
  <2>2. \A k \in Ids : Told(k)'  BY <1>2, <2>1 DEF EnsureKfuncs, Told
  <2>3. CASE Exit(p)
    <3>1. proc'[p] = Idle /\ p \in Procs'  BY <2>3, Exited
    <3> QED  BY <3>1, <2>2 DEF Story, Resting, Loading, Unloading, Complete, Cleaning, Idle
  <2>4. CASE kfuncs' = TRUE /\ Go(p, "attach")
    <3>1. proc'[p].pc = "attach" /\ proc'[p].op = "load" /\ proc'[p].id = i /\ proc'[p].mode = proc[p].mode
      BY <1>2, <2>4, Gone DEF EnsureKfuncs, At, Points
    <3> QED
      BY <1>2, <2>2, <2>4, <3>1
      DEF EnsureKfuncs, At, Story, Resting, Loading, Unloading, Complete, Cleaning, Others
  <2> QED  BY <1>2, <2>3, <2>4 DEF EnsureKfuncs
<1>3. ASSUME Attach(p) PROVE Story(p)'
  <2>1. At(p, "load", "attach") /\ Loading(p) /\ i \in Ids /\ Others(p) /\ ~pins[i] /\ kfuncs
    BY <1>3 DEF Attach, At, Story, Loading
  <2>2. CASE Exit(p)
    <3>1. UNCHANGED <<pins, active, tables>>
      <4>1. ~Go(p, "fill") BY <2>2, Gone, Exited DEF Idle, Points
      <4> QED BY <1>3, <4>1 DEF Attach
    <3>2. proc'[p] = Idle  BY <2>2, Exited
    <3>3. \A k \in Ids : Told(k)
      BY <2>1 DEF Others, Told, Loading, At
    <3>4. \A k \in Ids : Told(k)'  BY <1>3, <3>1, <3>3 DEF Attach, Told
    <3> QED  BY <3>2, <3>4 DEF Story, Resting, Loading, Unloading, Complete, Cleaning, Idle
  <2>3. CASE ~Exit(p)
    <3>1. /\ pins' = [pins EXCEPT ![i] = TRUE]
          /\ active' = [active EXCEPT ![i] = FALSE]
          /\ tables' = [tables EXCEPT ![i] = None]
          /\ Go(p, "fill")
      BY <1>3, <2>3 DEF Attach
    <3>2. proc'[p].pc = "fill" /\ proc'[p].op = "load" /\ proc'[p].id = i /\ proc'[p].mode = proc[p].mode
      BY <2>1, <3>1, Gone DEF At, Points
    <3>3. Others(p)'  BY <1>3, <2>1, <3>1, <3>2 DEF Attach, Others, Told, TypeOK
    <3>4. pins'[i]  BY <2>1, <3>1 DEF TypeOK
    <3> QED
      BY <1>3, <2>1, <3>2, <3>3, <3>4
      DEF Attach, At, Story, Resting, Loading, Unloading, Complete, Cleaning
  <2> QED  BY <2>2, <2>3
<1>4. ASSUME Fill(p) PROVE Story(p)'
  <2>1. At(p, "load", "fill") /\ Loading(p) /\ i \in Ids /\ Others(p)
    BY <1>4 DEF Fill, At, Story, Loading
  <2>2. PICK pc \in {"status", "activate", "old_module"} :
          Go(p, pc) /\ (pc = "status" => proc[p].mode = "immediate")
    BY <1>4 DEF Fill
  <2>3. proc'[p].pc = pc /\ proc'[p].op = "load" /\ proc'[p].id = i /\ proc'[p].mode = proc[p].mode
    BY <2>1, <2>2, Gone DEF At, Points
  <2>4. Others(p)'  BY <1>4, <2>1, <2>3 DEF Fill, Others, Told, TypeOK
  <2>5. tables'[i] = i /\ pins'[i]
    BY <1>4, <2>1 DEF Fill, Loading, At, TypeOK
  <2>6. pc = "status" => active'[i]
    BY <1>4, <2>1, <2>2 DEF Fill, Loading, At, TypeOK
  <2> QED
    BY <1>4, <2>1, <2>3, <2>4, <2>5, <2>6
    DEF Fill, At, Story, Resting, Loading, Unloading, Complete, Cleaning
<1>5. ASSUME Activate(p) PROVE Story(p)'
  <2>1. proc[p].op = "load" /\ proc[p].pc \in {"activate", "wait"} /\ Loading(p) /\ i \in Ids /\ Others(p)
    BY <1>5 DEF Activate, At, Story, Loading
  <2>2. proc'[p].pc = "status" /\ proc'[p].op = "load" /\ proc'[p].id = i /\ proc'[p].mode = proc[p].mode
    BY <1>5, <2>1, Gone DEF Activate, Points
  <2>3. Others(p)'  BY <1>5, <2>1, <2>2 DEF Activate, Others, Told, TypeOK
  <2>4. active'[i]  BY <1>5, <2>1 DEF Activate, Loading, TypeOK
  <2> QED
    BY <1>5, <2>1, <2>2, <2>3, <2>4
    DEF Activate, Story, Resting, Loading, Unloading, Complete, Cleaning
<1>6. ASSUME RemoveOldModule(p) PROVE Story(p)'
  <2>1. At(p, "load", "old_module") /\ Loading(p) /\ i \in Ids /\ Others(p)
    BY <1>6 DEF RemoveOldModule, At, Story, Loading
  <2>2. proc'[p].pc = "insmod" /\ proc'[p].op = "load" /\ proc'[p].id = i /\ proc'[p].mode = proc[p].mode
    BY <1>6, <2>1, Gone DEF RemoveOldModule, At, Points
  <2>3. Others(p)'  BY <1>6, <2>1, <2>2 DEF RemoveOldModule, Others, Told
  <2> QED
    BY <1>6, <2>1, <2>2, <2>3
    DEF RemoveOldModule, At, Story, Resting, Loading, Unloading, Complete, Cleaning
<1>7. ASSUME Insmod(p) PROVE Story(p)'
  <2>1. At(p, "load", "insmod") /\ Loading(p) /\ i \in Ids /\ Others(p)
    BY <1>7 DEF Insmod, At, Story, Loading
  <2>2. PICK pc \in {"wait", "rm"} : Go(p, pc)  BY <1>7 DEF Insmod
  <2>3. proc'[p].pc = pc /\ proc'[p].op = "load" /\ proc'[p].id = i /\ proc'[p].mode = proc[p].mode
    BY <2>1, <2>2, Gone DEF At, Points
  <2>4. Others(p)'  BY <1>7, <2>1, <2>3 DEF Insmod, Others, Told
  <2> QED
    BY <1>7, <2>1, <2>3, <2>4
    DEF Insmod, At, Story, Resting, Loading, Unloading, Complete, Cleaning
<1>8. ASSUME Status(p) PROVE Story(p)'
  <2>1. At(p, "load", "status") /\ Loading(p) /\ i \in Ids /\ Others(p)
    BY <1>8 DEF Status, At, Story, Loading
  <2>2. proc'[p].pc = "save" /\ proc'[p].op = "load" /\ proc'[p].id = i /\ proc'[p].mode = proc[p].mode
    BY <1>8, <2>1, Gone DEF Status, At, Points
  <2>3. Others(p)'  BY <1>8, <2>1, <2>2 DEF Status, SetRow, Others, Told, TypeOK
  <2>4. row'[i] = "active"  BY <1>8, <2>1 DEF Status, SetRow, At, Loading, TypeOK
  <2> QED
    BY <1>8, <2>1, <2>2, <2>3, <2>4
    DEF Status, At, Story, Resting, Loading, Unloading, Complete, Cleaning
<1>9. ASSUME Save(p) PROVE Story(p)'
  <2>1. At(p, "load", "save") /\ Loading(p) /\ i \in Ids /\ Others(p)
    BY <1>9 DEF Save, At, Story, Loading
  <2>2. proc'[p] = Idle  BY <1>9, Exited DEF Save
  <2>3. pins[i] /\ active[i] /\ tables[i] = i /\ kfuncs /\ row[i] = "active"
    BY <2>1 DEF At, Loading
  <2>4. proc[p].mode # None  BY <2>1 DEF At, Loading, Modes
  <2>5. file' = [file EXCEPT ![i] = proc[p].mode]  BY <1>9 DEF Save
  <2>6. file'[i] = proc[p].mode /\ \A k \in Ids : k # i => file'[k] = file[k]
    BY <1>0, <2>1, <2>5 DEF Entries
  <2>7. UNCHANGED <<row, pins, active, tables, kfuncs>>  BY <1>9 DEF Save
  <2>8. \A k \in Ids : Told(k)'  BY <2>1, <2>3, <2>4, <2>6, <2>7 DEF Others, Told
  <2> QED  BY <2>2, <2>8 DEF Story, Resting, Loading, Unloading, Complete, Cleaning, Idle
<1> QED
  BY <1>1, <1>2, <1>3, <1>4, <1>5, <1>6, <1>7, <1>8, <1>9 DEF LoadNext

LEMMA UnloadStory ==
  ASSUME TypeOK, Visible, NEW p \in Procs, ~spoiled, ~spoiled', Story(p), UnloadNext(p)
  PROVE  Story(p)'
<1> DEFINE i == proc[p].id
<1> USE DEF files, kernel, history, None
<1>0. /\ proc[p] \in Process /\ file \in Entries /\ i \in Ids \cup {None}
      /\ proc[p].seen \in Entries /\ proc[p].todo \subseteq Ids /\ proc[p].rows \subseteq Ids
  BY DEF TypeOK, Process
<1>1. ASSUME NEW T \in SUBSET Ids, Unload(p, T) PROVE Story(p)'
  <2> DEFINE w == [Idle EXCEPT !.pc = "pick", !.op = "unload", !.seen = file,
                               !.todo = {j \in T : file[j] # None}]
  <2>1. w \in Process  BY IdleTypes DEF Process, Points, Idle, TypeOK
  <2>2. proc'[p] = w  BY <1>1, <2>1, Started DEF Unload
  <2>3. \A k \in Ids : Told(k)'  BY <1>1 DEF Unload, Story, Resting, Idle, Told
  <2> QED
    BY <1>1, <2>2, <2>3 DEF Unload, Story, Resting, Loading, Unloading, Complete, Cleaning, Idle
<1>2. ASSUME NEW T \in SUBSET Ids, NEW s \in {None, "active"}, Delete(p, T, s) PROVE Story(p)'
  <2> DEFINE w == [Idle EXCEPT !.pc = "pick", !.op = "delete", !.seen = file,
                               !.todo = {j \in T : file[j] # None}, !.rows = T, !.status = s]
  <2>1. w \in Process  BY IdleTypes DEF Process, Points, Idle, TypeOK
  <2>2. proc'[p] = w  BY <1>2, <2>1, Started DEF Delete
  <2>3. \A k \in Ids : Told(k)'  BY <1>2 DEF Delete, Story, Resting, Idle, Told
  <2> QED
    BY <1>2, <2>2, <2>3 DEF Delete, Story, Resting, Loading, Unloading, Complete, Cleaning, Idle
<1>3. ASSUME UnloadAll(p) PROVE Story(p)'
  <2> DEFINE w == [Idle EXCEPT !.pc = IF file = Nothing THEN "clean_pins" ELSE "pick",
                               !.op = "unload_all", !.seen = file,
                               !.todo = {j \in Ids : file[j] # None}]
  <2>1. w \in Process  BY IdleTypes, ZenonT(60) DEF Process, Points, Idle, TypeOK
  <2>2. proc'[p] = w  BY <1>3, <2>1, Started DEF UnloadAll
  <2>3. \A k \in Ids : Told(k)'  BY <1>3 DEF UnloadAll, Story, Resting, Idle, Told
  <2> QED
    BY <1>3, <2>2, <2>3 DEF UnloadAll, Story, Resting, Loading, Unloading, Complete, Cleaning, Idle
<1>4. ASSUME Pick(p) PROVE Story(p)'
  <2>0. PICK j \in proc[p].todo : \E pc \in FirstSteps(p, j) :
          proc' = [proc EXCEPT ![p].id = j, ![p].pc = pc]
    BY <1>4 DEF Pick
  <2>1. PICK pc \in FirstSteps(p, j) : proc' = [proc EXCEPT ![p].id = j, ![p].pc = pc]
    BY <2>0
  <2> DEFINE w == [proc[p] EXCEPT !.id = j, !.pc = pc]
  <2>2. proc[p].pc = "pick" /\ j \in Ids  BY <1>0, <1>4 DEF Pick
  <2>3. pc \in {"rm", "deactivate", "ready"}  BY DEF FirstSteps
  <2>4. proc'[p] = w  BY <2>1 DEF TypeOK
  <2>5. proc[p].op \in {"unload", "unload_all", "delete"}
    BY <2>2, <1>0 DEF Story, Loading, Cleaning, Resting, Process
  <2>6. /\ proc[p].seen = file /\ \A k \in Ids : Told(k)
        /\ file[j] # None
    BY <2>2, <2>5 DEF Story, Unloading, Complete
  <2>7. pc # "ready"  BY <2>2, <2>6 DEF FirstSteps, Told
  <2>8. \A k \in Ids : Told(k)'  BY <1>4, <2>6 DEF Pick, Told
  <2>9. Complete(p)'  BY <2>2, <2>3, <2>4, <2>5 DEF Story, Complete
  <2>10. /\ proc'[p].op = proc[p].op /\ proc'[p].seen = file /\ proc'[p].id = j
         /\ proc'[p].pc \in {"rm", "deactivate"} /\ j \in proc'[p].todo
    BY <2>3, <2>4, <2>6, <2>7, <1>0 DEF Process
  <2>11. file' = file  BY <1>4 DEF Pick
  <2>12. Unloading(p)'  BY <2>2, <2>8, <2>10, <2>11 DEF Unloading, Others
  <2> QED  BY <2>5, <2>9, <2>10, <2>12 DEF Story, Resting, Loading, Cleaning
<1>5. ASSUME Deactivate(p) PROVE Story(p)'
  <2>1. Unloading(p) /\ proc[p].op \in {"unload", "unload_all", "delete"} /\ proc[p].pc = "deactivate"
    BY <1>5, <1>0 DEF Deactivate, Story, Loading, Cleaning, Resting, Process
  <2>2. PICK pc \in {"rmmod", "rm"} : Go(p, pc)  BY <1>5 DEF Deactivate
  <2>3. /\ proc'[p].pc = pc /\ proc'[p].op = proc[p].op /\ proc'[p].id = i
        /\ proc'[p].seen = proc[p].seen /\ proc'[p].todo = proc[p].todo /\ proc'[p].rows = proc[p].rows
    BY <2>2, Gone DEF Points
  <2>4. Others(p) /\ i \in Ids  BY <2>1 DEF Unloading
  <2>5. Others(p)'  BY <1>5, <2>3, <2>4 DEF Deactivate, Others, Told, TypeOK
  <2>6. Complete(p)'  BY <2>1, <2>3 DEF Story, Complete
  <2> QED
    BY <1>5, <2>1, <2>3, <2>5, <2>6
    DEF Deactivate, Story, Resting, Loading, Unloading, Cleaning
<1>6. ASSUME Rmmod(p) PROVE Story(p)'
  <2>1. Unloading(p) /\ proc[p].op \in {"unload", "unload_all", "delete"} /\ proc[p].pc = "rmmod"
    BY <1>6, <1>0 DEF Rmmod, Story, Loading, Cleaning, Resting, Process
  <2>2. /\ proc'[p].pc = "rm" /\ proc'[p].op = proc[p].op /\ proc'[p].id = i
        /\ proc'[p].seen = proc[p].seen /\ proc'[p].todo = proc[p].todo /\ proc'[p].rows = proc[p].rows
    BY <1>6, Gone DEF Rmmod, Points
  <2>3. Others(p)'  BY <1>6, <2>1, <2>2 DEF Rmmod, Unloading, Others, Told
  <2>4. Complete(p)'  BY <2>1, <2>2 DEF Story, Complete
  <2> QED
    BY <1>6, <2>1, <2>2, <2>3, <2>4
    DEF Rmmod, Story, Resting, Loading, Unloading, Cleaning
<1>7. ASSUME RemovePins(p) PROVE Story(p)'
  <2>1. /\ pins' = [pins EXCEPT ![i] = FALSE]
        /\ active' = [active EXCEPT ![i] = FALSE]
        /\ Go(p, "pop")
    BY <1>7 DEF RemovePins
  <2>2. /\ proc'[p].pc = "pop" /\ proc'[p].op = proc[p].op /\ proc'[p].id = i
        /\ proc'[p].mode = proc[p].mode
        /\ proc'[p].seen = proc[p].seen /\ proc'[p].todo = proc[p].todo /\ proc'[p].rows = proc[p].rows
    BY <2>1, Gone DEF Points
  <2>3. proc[p].pc = "rm" /\ proc[p].op \in {"load", "unload", "unload_all", "delete"}
    BY <1>7, <1>0 DEF RemovePins, Story, Cleaning, Resting, Process
  <2>4. Others(p) /\ i \in Ids  BY <2>3 DEF Story, Loading, Unloading
  <2>5. Others(p)' /\ ~pins'[i]  BY <1>7, <2>1, <2>2, <2>4 DEF RemovePins, Others, Told, TypeOK
  <2>6. Complete(p)'  BY <2>2, <2>3 DEF Story, Complete
  <2>7. Loading(p)'  BY <1>7, <2>2, <2>3, <2>5 DEF RemovePins, Story, Loading
  <2>8. Unloading(p)'  BY <1>7, <2>2, <2>3, <2>4, <2>5 DEF RemovePins, Story, Unloading
  <2> QED  BY <2>2, <2>3, <2>6, <2>7, <2>8 DEF Story, Resting, Cleaning
<1>8. ASSUME Pop(p) PROVE Story(p)'
  <2>1. proc[p].pc = "pop" /\ proc[p].op \in {"load", "unload", "unload_all", "delete"}
    BY <1>8, <1>0 DEF Pop, Story, Cleaning, Resting, Process
  <2>2. Others(p) /\ i \in Ids /\ ~pins[i]  BY <2>1 DEF Story, Loading, Unloading
  <2>3. file'[i] = None /\ \A k \in Ids : k # i => file'[k] = file[k]
    BY <1>0, <1>8, <2>2 DEF Pop, Entries
  <2>4. \A k \in Ids : k # i => Told(k)'  BY <1>8, <2>2, <2>3 DEF Pop, Others, Told
  <2>5. CASE proc[p].op = "load"
    <3>1. proc'[p] = Idle  BY <1>8, <2>5, Exited DEF Pop
    <3>2. row[i] # "active"  BY <2>1, <2>5 DEF Story, Loading
    <3>3. \A k \in Ids : Told(k)'  BY <1>8, <2>2, <2>3, <2>4, <3>2 DEF Pop, Told
    <3> QED  BY <3>1, <3>3 DEF Story, Resting, Loading, Unloading, Complete, Cleaning, Idle
  <2>6. CASE proc[p].op # "load"
    <3>1. /\ proc'[p].pc = "ready" /\ proc'[p].op = proc[p].op /\ proc'[p].id = i
          /\ proc'[p].seen = proc[p].seen /\ proc'[p].todo = proc[p].todo /\ proc'[p].rows = proc[p].rows
      BY <1>8, <2>6, Gone DEF Pop, Points
    <3>2. Others(p)'  BY <2>4, <3>1 DEF Others
    <3>3. Complete(p)'  BY <2>1, <2>6, <3>1 DEF Story, Complete
    <3>4. Unloading(p)'
      BY <1>8, <2>1, <2>2, <2>3, <2>6, <3>1, <3>2 DEF Pop, Story, Unloading
    <3> QED  BY <2>1, <2>6, <3>1, <3>3, <3>4 DEF Story, Resting, Loading, Cleaning
  <2> QED  BY <2>5, <2>6
<1>9. ASSUME Ready(p) PROVE Story(p)'
  <2>1. Unloading(p) /\ proc[p].op \in {"unload", "unload_all", "delete"} /\ proc[p].pc = "ready"
    BY <1>9, <1>0 DEF Ready, Story, Loading, Cleaning, Resting, Process
  <2> DEFINE w == [proc[p] EXCEPT !.pc = "pick", !.todo = @ \ {i}, !.seen[i] = None]
  <2>2. proc'[p] = w  BY <1>9 DEF Ready, TypeOK
  <2>3. Others(p) /\ i \in Ids /\ ~pins[i] /\ file[i] = None
    BY <2>1 DEF Unloading
  <2>4. [proc[p].seen EXCEPT ![i] = None] = file
    BY <1>0, <2>1, <2>3 DEF Unloading, Entries
  <2>5. row'[i] # "active" /\ \A k \in Ids : k # i => row'[k] = row[k]
    BY <1>9, <2>3 DEF Ready, SetRow, TypeOK
  <2>6. \A k \in Ids : Told(k)'  BY <1>9, <2>3, <2>5 DEF Ready, Others, Told
  <2>7. /\ proc'[p].pc = "pick" /\ proc'[p].op = proc[p].op /\ proc'[p].seen = file
        /\ proc'[p].todo = proc[p].todo \ {i} /\ proc'[p].rows = proc[p].rows
    BY <2>2, <2>4, <1>0 DEF Process
  <2>8. \A j \in Ids : j # i => proc[p].seen[j] = file[j]  BY <2>1 DEF Unloading
  <2>9. Complete(p)'  BY <1>0, <2>1, <2>3, <2>7, <2>8 DEF Story, Complete
  <2> QED
    BY <1>9, <2>1, <2>6, <2>7, <2>9 DEF Ready, Story, Resting, Loading, Unloading, Cleaning
<1>10. ASSUME SaveSeen(p) PROVE Story(p)'
  <2>1. proc[p].op = "unload" /\ proc[p].pc = "pick"  BY <1>10 DEF SaveSeen, At
  <2>2. proc[p].seen = file /\ \A k \in Ids : Told(k)  BY <2>1 DEF Story, Unloading
  <2>3. \A k \in Ids : Told(k)'  BY <1>10, <2>2 DEF SaveSeen, Told
  <2>4. CASE Exit(p)
    <3>1. proc'[p] = Idle  BY <2>4, Exited
    <3> QED  BY <2>3, <3>1, IdleStory DEF Story, Resting, Loading, Unloading, Complete, Cleaning, Idle
  <2>5. CASE proc[p].seen = Nothing /\ Go(p, "clean_pins")
    <3>1. /\ proc'[p].pc = "clean_pins" /\ proc'[p].op = "unload"
          /\ proc'[p].seen = proc[p].seen /\ proc'[p].todo = proc[p].todo /\ proc'[p].rows = proc[p].rows
      BY <2>1, <2>5, Gone DEF Points
    <3>2. file' = Nothing  BY <1>10, <2>5 DEF SaveSeen
    <3> QED
      BY <2>1, <2>3, <3>1, <3>2 DEF Story, Resting, Loading, Unloading, Complete, Cleaning
  <2> QED  BY <1>10, <2>4, <2>5 DEF SaveSeen
<1>11. ASSUME Unloaded(p) PROVE Story(p)'
  <2>1. proc[p].op = "unload_all" /\ proc[p].pc = "pick" /\ proc[p].todo = {}
    BY <1>11 DEF Unloaded, At
  <2>2. proc[p].seen = file /\ \A k \in Ids : Told(k)  BY <2>1 DEF Story, Unloading
  <2>3. \A k \in Ids : file[k] = None  BY <2>1, <2>2 DEF Story, Complete
  <2>4. file = Nothing  BY <1>0, <2>3 DEF Entries, Nothing
  <2>5. \A k \in Ids : Told(k)'  BY <1>11, <2>2 DEF Unloaded, Told
  <2>6. /\ proc'[p].pc = "clean_pins" /\ proc'[p].op = "unload_all"
        /\ proc'[p].seen = proc[p].seen /\ proc'[p].todo = proc[p].todo /\ proc'[p].rows = proc[p].rows
    BY <1>11, <2>1, Gone DEF Unloaded, Points
  <2> QED
    BY <1>11, <2>1, <2>4, <2>5, <2>6
    DEF Unloaded, Story, Resting, Loading, Unloading, Complete, Cleaning
<1>12. ASSUME CleanPins(p) PROVE Story(p)'
  <2>1. proc[p].op \in {"unload", "unload_all", "delete"} /\ proc[p].pc = "clean_pins"
    BY <1>12, <1>0 DEF CleanPins, Story, Loading, Cleaning, Resting, Process
  <2>2. file = Nothing /\ \A k \in Ids : Told(k)  BY <2>1 DEF Story, Unloading
  <2>3. /\ proc'[p].pc = "rm_kfuncs" /\ proc'[p].op = proc[p].op
        /\ proc'[p].seen = proc[p].seen /\ proc'[p].todo = proc[p].todo /\ proc'[p].rows = proc[p].rows
    BY <1>12, Gone DEF CleanPins, Points
  <2>4. \A k \in Ids : Told(k)'
    BY <1>12, <2>2 DEF CleanPins, RemoveAllPins, Told, Nothing
  <2> QED
    BY <1>12, <2>1, <2>2, <2>3, <2>4
    DEF CleanPins, Story, Resting, Loading, Unloading, Complete, Cleaning
<1>13. ASSUME RemoveKfuncs(p) PROVE Story(p)'
  <2>1. proc[p].op \in {"unload", "unload_all", "delete"} /\ proc[p].pc = "rm_kfuncs"
    BY <1>13, <1>0 DEF RemoveKfuncs, Story, Loading, Cleaning, Resting, Process
  <2>2. file = Nothing /\ \A k \in Ids : Told(k)  BY <2>1 DEF Story, Unloading
  <2>3. \A k \in Ids : Told(k)'  BY <1>13, <2>2 DEF RemoveKfuncs, Told, Nothing
  <2>4. CASE Exit(p)
    <3>1. proc'[p] = Idle  BY <2>4, Exited
    <3> QED  BY <2>3, <3>1 DEF Story, Resting, Loading, Unloading, Complete, Cleaning, Idle
  <2>5. CASE Go(p, "clear")
    <3>1. /\ proc'[p].pc = "clear" /\ proc'[p].op = proc[p].op
          /\ proc'[p].seen = proc[p].seen /\ proc'[p].todo = proc[p].todo /\ proc'[p].rows = proc[p].rows
      BY <2>5, Gone DEF Points
    <3> QED
      BY <1>13, <2>1, <2>2, <2>3, <3>1
      DEF RemoveKfuncs, Story, Resting, Loading, Unloading, Complete, Cleaning
  <2> QED  BY <1>13, <2>4, <2>5 DEF RemoveKfuncs
<1>14. ASSUME Clear(p) PROVE Story(p)'
  <2>1. proc[p].op \in {"unload", "unload_all", "delete"} /\ proc[p].pc = "clear"
    BY <1>14, <1>0 DEF Clear, Story, Loading, Cleaning, Resting, Process
  <2>2. file = Nothing /\ \A k \in Ids : Told(k)  BY <2>1 DEF Story, Unloading
  <2>3. \A k \in Ids : Told(k)'  BY <1>14, <2>2 DEF Clear, SetAllRows, Told, Nothing
  <2>4. proc'[p] = Idle  BY <1>14, Exited DEF Clear
  <2> QED  BY <2>3, <2>4 DEF Story, Resting, Loading, Unloading, Complete, Cleaning, Idle
<1>15. ASSUME DeleteRows(p) PROVE Story(p)'
  <2>1. proc[p].op = "delete" /\ proc[p].pc = "pick"  BY <1>15 DEF DeleteRows, At
  <2>2. proc[p].seen = file /\ \A k \in Ids : Told(k)  BY <2>1 DEF Story, Unloading
  <2>5. \A k \in proc[p].rows : file[k] = None
    BY <1>15, <2>1, <2>2 DEF DeleteRows, Story, Complete
  <2>6. \A k \in Ids : (row'[k] = "deleted" /\ k \in proc[p].rows) \/ row'[k] = row[k]
    BY <1>15 DEF DeleteRows
  <2>7. UNCHANGED <<file, pins, active, tables, kfuncs>>  BY <1>15 DEF DeleteRows
  <2>3. \A k \in Ids : Told(k)'  BY <2>2, <2>5, <2>6, <2>7 DEF Told
  <2>4. proc'[p] = Idle  BY <1>15, Exited DEF DeleteRows
  <2> QED  BY <2>3, <2>4 DEF Story, Resting, Loading, Unloading, Complete, Cleaning, Idle
<1>16. ASSUME Clean(p) PROVE Story(p)'
  <2> DEFINE w == [Idle EXCEPT !.pc = "wipe_pins", !.op = "clean"]
  <2>1. w \in Process  BY IdleTypes DEF Process, Points, Idle
  <2>2. proc'[p] = w  BY <1>16, <2>1, Started DEF Clean
  <2>3. proc'[p].op = "clean" /\ proc'[p].pc = "wipe_pins"  BY <2>2 DEF Idle
  <2>4. file' = Nothing /\ \A k \in Ids : row'[k] # "active"  BY <1>16 DEF Clean
  <2> QED  BY <2>3, <2>4 DEF Story, Resting, Loading, Unloading, Complete, Cleaning
<1>17. ASSUME WipePins(p) PROVE Story(p)'
  <2>1. proc[p].op = "clean"
    BY <1>17, <1>0 DEF WipePins, Story, Loading, Unloading, Resting, Process
  <2>2. file = Nothing /\ \A k \in Ids : row[k] # "active"  BY <2>1 DEF Story, Cleaning
  <2>3. \A k \in Ids : ~pins'[k]  BY <1>17 DEF WipePins, RemoveAllPins
  <2>4. \A k \in Ids : Told(k)'  BY <1>17, <2>2, <2>3 DEF WipePins, Told, Nothing
  <2>5. proc'[p] = Idle  BY <1>17, Exited DEF WipePins
  <2> QED  BY <2>4, <2>5 DEF Story, Resting, Loading, Unloading, Complete, Cleaning, Idle
<1> QED
  BY <1>1, <1>2, <1>3, <1>4, <1>5, <1>6, <1>7, <1>8, <1>9, <1>10, <1>11, <1>12, <1>13,
     <1>14, <1>15, <1>16, <1>17 DEF UnloadNext

\* A command that ends an "unload --all" with no pin left has told the story
\* from scratch, whatever went wrong before.
LEMMA ClearStory ==
  ASSUME TypeOK, NEW p \in Procs, spoiled, ~spoiled', UnloadNext(p)
  PROVE  Story(p)'
<1> USE DEF files, kernel, history, None
<1>1. Clear(p)
  BY DEF UnloadNext, Unload, Delete, UnloadAll, Pick, Deactivate, Rmmod, RemovePins, Pop, Ready,
         SaveSeen, Unloaded, CleanPins, RemoveKfuncs, Clear, DeleteRows, Clean, WipePins
<1>2. \A i \in Ids : ~pins[i]  BY <1>1 DEF Clear
<1>3. \A i \in Ids : Told(i)'  BY <1>1, <1>2 DEF Clear, SetAllRows, Told, Nothing
<1>4. proc'[p] = Idle  BY <1>1, Exited DEF Clear
<1> QED  BY <1>3, <1>4 DEF Story, Resting, Loading, Unloading, Complete, Cleaning, Idle

\* Run one at a time by a user who can list bpffs, the commands tell a story that
\* holds together, until one of them is killed or fails to remove a pin.
THEOREM StoryInvariant == ASSUME Sequential PROVE Spec => [](TypeOK /\ StoryInv)
<1> USE DEF files, kernel, history
<1>0. PICK p : Procs = {p}  BY DEF Sequential
<1>1. Init => StoryInv
  BY <1>0 DEF Init, StoryInv, Story, Told, Nothing, Resting, Loading, Unloading, Complete,
              Cleaning, Idle, None
<1>2. TypeOK /\ StoryInv /\ [Next]_vars => StoryInv'
  <2> SUFFICES ASSUME TypeOK, StoryInv, [Next]_vars, ~spoiled' PROVE Story(p)'
    BY <1>0 DEF StoryInv
  <2>0. p \in Procs /\ (~spoiled => Story(p))  BY <1>0 DEF StoryInv
  <2>1. CASE LoadNext(p)
    <3>1. ~spoiled
      BY <2>1 DEF LoadNext, Load, EnsureKfuncs, Attach, Fill, Activate, RemoveOldModule, Insmod,
                  Status, Save
    <3> QED  BY <2>0, <2>1, <3>1, LoadStory
  <2>2. CASE UnloadNext(p)  BY <2>0, <2>2, UnloadStory, ClearStory DEF Sequential, TypeOK
  <2>3. CASE Kill(p)  BY <2>3 DEF Kill
  <2>4. ASSUME NEW i \in Ids, Build(i) PROVE Story(p)'
    <3>1. ~spoiled /\ Story(p)  BY <2>0, <2>4 DEF Build
    <3>2. \A k \in Ids : Told(k) => Told(k)'  BY <2>4 DEF Build, Told, TypeOK
    <3>3. \A k \in Ids : row[k] \in {"ready", "active"} => row'[k] = row[k]
      BY <2>4 DEF Build, TypeOK
    <3>4. \A k \in Ids : row[k] # "active" => row'[k] # "active"  BY <2>4 DEF Build, TypeOK
    <3>5. UNCHANGED <<proc, file, ssfile, pins, active, tables, kfuncs>>  BY <2>4 DEF Build
    <3>6. Resting(p)' /\ Complete(p)' /\ Cleaning(p)'
      BY <3>1, <3>2, <3>4, <3>5 DEF Story, Resting, Complete, Cleaning
    <3>7. Loading(p)'  BY <3>1, <3>2, <3>3, <3>5 DEF Story, Loading, Others
    <3>8. Unloading(p)'  BY <3>1, <3>2, <3>5 DEF Story, Unloading, Others
    <3> QED  BY <3>6, <3>7, <3>8 DEF Story
  <2>5. CASE UNCHANGED vars
    <3>1. ~spoiled /\ Story(p)  BY <2>0, <2>5 DEF vars
    <3> QED
      BY <2>5, <3>1 DEF vars, Story, Told, Resting, Loading, Unloading, Complete, Cleaning, Others
  <2> QED  BY <1>0, <2>1, <2>2, <2>3, <2>4, <2>5 DEF Next
<1>3. Init => TypeOK  BY IdleTypes DEF Init, TypeOK, Nothing, Entries
<1> QED  BY <1>1, <1>2, <1>3, TypeStep, PTL DEF Spec

\* When no command runs, a ConstID in runtime_state is attached, active, with its
\* own spans and marked active in the scope table, and no other one is attached:
\* cmd_load, cmd_unload, cmd_table and cmd_clean keep the four places together
\* for any number of ConstIDs and whichever of their programs fail.
THEOREM SettledTheorem == ASSUME Sequential PROVE Spec => []Settled
<1>1. TypeOK /\ StoryInv => Settled
  <2> SUFFICES ASSUME StoryInv, AllIdle, ~spoiled PROVE \A i \in Ids : Told(i)
    BY DEF Settled, Told
  <2>1. PICK p : Procs = {p}  BY DEF Sequential
  <2>2. proc[p].pc = "idle" /\ Story(p)  BY <2>1 DEF AllIdle, Idle, StoryInv
  <2> QED  BY <2>2 DEF Story, Resting
<1> QED  BY <1>1, StoryInvariant, PTL

\* A load that cmd_load lets through finds no pin of its ConstID in the way and
\* the kfuncs module in place.
THEOREM LoadFindsRoomTheorem == ASSUME Sequential PROVE Spec => []LoadFindsRoom
<1>1. TypeOK /\ StoryInv => LoadFindsRoom
  BY DEF StoryInv, LoadFindsRoom, Story, Loading, At
<1> QED  BY <1>1, StoryInvariant, PTL

=============================================================================
