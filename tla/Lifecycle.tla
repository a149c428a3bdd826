------------------------------ MODULE Lifecycle ------------------------------
(***************************************************************************)
(* The life of ConstIDs as the command line drives it (src/cli.py:         *)
(* cmd_load, cmd_unload, cmd_table, cmd_clean; src/loader.py): each command *)
(* is a process that runs other programs one after the other, any of which *)
(* may fail, and that may itself be killed between two of them.  What it   *)
(* changes is spread over four places that nothing keeps together: the     *)
(* file runtime_state, the scope table, the pins in bpffs (a program is    *)
(* attached as long as its pin exists) and the two kernel modules.         *)
(*                                                                         *)
(* Reading and rewriting a file with nothing run in between is one step.   *)
(***************************************************************************)
CONSTANTS
  Ids,      \* ConstIDs
  Procs,    \* commands that run at the same time
  Visible,  \* the user who runs them may list bpffs
  Fails,    \* a program that a command runs may fail
  Kills     \* a command may be killed

None  == "none"
Modes == {"immediate", "per-task", "global"}

ASSUME LifecycleAssumption ==
  /\ None \notin Ids
  /\ Visible \in BOOLEAN /\ Fails \in BOOLEAN /\ Kills \in BOOLEAN

VARIABLES
  proc,      \* the running commands and their local variables
  file,      \* runtime_state: the mode of each active ConstID
  row,       \* the scope table: the status of each ConstID
  ssfile,    \* the ConstID whose spans /dev/shm/xkernel/ss holds
  pins,      \* bpffs: the programs of a ConstID are pinned and attached
  active,    \* xk_active in the maps of a ConstID
  tables,    \* whose spans its cs_map and ss_map hold
  kfuncs,    \* xk-kfuncs is loaded
  module,    \* the ConstID with whose spans xk-consistency was loaded
  reversed,  \* history: their spans went through a reverse transition since
             \* they were deactivated
  bare,      \* history: global ConstIDs detached without one
  spoiled    \* history: a command was killed, or passed over a failure that left
             \* something undone, and no "unload --all" has cleaned up since

files   == <<file, row, ssfile>>
kernel  == <<pins, active, tables, kfuncs, module>>
history == <<reversed, bare, spoiled>>
vars    == <<proc, files, kernel, history>>

Entries == [Ids -> Modes \cup {None}]
Nothing == [i \in Ids |-> None]
Points  ==
  {"idle", "kfuncs", "attach", "fill", "activate", "old_module", "insmod", "wait",
   "status", "save", "pick", "deactivate", "rmmod", "rm", "pop", "ready",
   "clean_pins", "rm_kfuncs", "clear", "wipe_pins"}
Process ==
  [pc : Points, op : {None, "load", "unload", "unload_all", "delete", "clean"},
   id : Ids \cup {None}, mode : Modes \cup {None}, seen : Entries, todo : SUBSET Ids,
   rows : SUBSET Ids, status : {None, "active"}]
Idle ==
  [pc |-> "idle", op |-> None, id |-> None, mode |-> None, seen |-> Nothing, todo |-> {},
   rows |-> {}, status |-> None]

TypeOK ==
  /\ proc \in [Procs -> Process]
  /\ file \in Entries
  /\ row \in [Ids -> {"ready", "active", "deleted"}]
  /\ ssfile \in Ids \cup {None} /\ module \in Ids \cup {None}
  /\ pins \in [Ids -> BOOLEAN] /\ active \in [Ids -> BOOLEAN]
  /\ tables \in [Ids -> Ids \cup {None}]
  /\ kfuncs \in BOOLEAN /\ spoiled \in BOOLEAN
  /\ reversed \subseteq Ids /\ bare \subseteq Ids

\* After a build: every ConstID has a row, nothing is loaded.
Init ==
  /\ proc = [p \in Procs |-> Idle]
  /\ file = Nothing /\ row = [i \in Ids |-> "ready"] /\ ssfile = None
  /\ pins = [i \in Ids |-> FALSE] /\ active = [i \in Ids |-> FALSE]
  /\ tables = Nothing
  /\ kfuncs = FALSE /\ module = None
  /\ reversed = {} /\ bare = {} /\ spoiled = FALSE

At(p, op, pc) == proc[p].op = op /\ proc[p].pc = pc
Go(p, pc)     == proc' = [proc EXCEPT ![p].pc = pc]
Exit(p)       == proc' = [proc EXCEPT ![p] = Idle]

\* update_status: a ConstID without a row is passed over.
SetRow(i, status) == row' = [row EXCEPT ![i] = IF @ = "deleted" THEN @ ELSE status]

\* update_all_status
SetAllRows(status) == row' = [i \in Ids |-> IF row[i] = "deleted" THEN "deleted" ELSE status]

----------------------------------------------------------------------------
(* load *)

\* The file says that i is not loaded and the table that it was built.  The
\* span files of the previous load are overwritten, then the stub is compiled.
Load(p, i, m) ==
  /\ proc[p] = Idle
  /\ file[i] = None /\ row[i] # "deleted"
  /\ ssfile' = i
  /\ proc' = [proc EXCEPT ![p] = [Idle EXCEPT !.pc = "kfuncs", !.op = "load", !.id = i, !.mode = m]]
  /\ UNCHANGED <<file, row, kernel, history>>

\* ensure_kfuncs_loaded.
EnsureKfuncs(p) ==
  /\ At(p, "load", "kfuncs")
  /\ \/ kfuncs' = TRUE /\ Go(p, "attach")
     \/ Fails /\ ~kfuncs /\ kfuncs' = kfuncs /\ Exit(p)
  /\ UNCHANGED <<files, pins, active, tables, module, history>>

\* bpftool prog loadall: refused when a pin of that name exists, or when the
\* module with the functions the programs call is gone.
Attach(p) ==
  LET i == proc[p].id
  IN  /\ At(p, "load", "attach")
      /\ \/ /\ ~pins[i] /\ kfuncs
            /\ pins' = [pins EXCEPT ![i] = TRUE]
            /\ active' = [active EXCEPT ![i] = FALSE]
            /\ tables' = [tables EXCEPT ![i] = None]
            /\ reversed' = reversed \ {i} /\ bare' = bare \ {i}
            /\ Go(p, "fill")
         \/ /\ Fails \/ pins[i] \/ ~kfuncs
            /\ Exit(p)
            /\ UNCHANGED <<pins, active, tables, reversed, bare>>
      /\ UNCHANGED <<files, kfuncs, module, spoiled>>

\* The rest of load_and_attach_per_constid and the two span tables, which are
\* read back from the span files.  Nobody looks at the result of a map update.
Fill(p) ==
  LET i == proc[p].id
      activated == [active EXCEPT ![i] = @ \/ (pins[i] /\ proc[p].mode = "immediate")]
      filled    == [tables EXCEPT ![i] = ssfile]
  IN  /\ At(p, "load", "fill")
      /\ \/ active' = activated /\ tables' = filled /\ spoiled' = spoiled
         \/ /\ Fails /\ spoiled' = TRUE
            /\ active' \in {active, activated} /\ tables' \in {tables, filled}
      /\ Go(p, CASE proc[p].mode = "immediate" -> "status"
                 [] proc[p].mode = "per-task"  -> "activate"
                 [] OTHER                      -> "old_module")
      /\ UNCHANGED <<files, pins, kfuncs, module, reversed, bare>>

\* activate_constid, at once in per-task mode, after the wait in global mode.
Activate(p) ==
  /\ At(p, "load", "activate") \/ At(p, "load", "wait")
  /\ \/ active' = [active EXCEPT ![proc[p].id] = pins[proc[p].id]] /\ spoiled' = spoiled
     \/ Fails /\ active' = active /\ spoiled' = TRUE
  /\ reversed' = reversed \ {proc[p].id}
  /\ Go(p, "status")
  /\ UNCHANGED <<files, pins, tables, kfuncs, module, bare>>

\* Unloading the module runs a reverse transition over the spans it holds.
ReverseTransition ==
  /\ module' = None
  /\ reversed' = reversed \cup {i \in Ids : i = module /\ ~active[i]}

\* Mode 2: a module that an earlier load left behind is removed.
RemoveOldModule(p) ==
  /\ At(p, "load", "old_module")
  /\ \/ ReverseTransition
     \/ Fails /\ UNCHANGED <<module, reversed>>
  /\ Go(p, "insmod")
  /\ UNCHANGED <<files, pins, active, tables, kfuncs, bare, spoiled>>

\* Mutant: the programs of a load that failed stay attached.
InsmodKeepsPrograms(p) ==
  /\ At(p, "load", "insmod")
  /\ \/ module = None /\ module' = ssfile /\ Go(p, "wait")
     \/ (Fails \/ module # None) /\ module' = module /\ Exit(p)
  /\ UNCHANGED <<files, pins, active, tables, kfuncs, history>>

\* insmod reads the SS file; when it fails, or the module could not be built,
\* the ConstID is unloaded again.
Insmod(p) ==
  /\ At(p, "load", "insmod")
  /\ \/ module = None /\ module' = ssfile /\ Go(p, "wait")
     \/ (Fails \/ module # None) /\ module' = module /\ Go(p, "rm")
  /\ UNCHANGED <<files, pins, active, tables, kfuncs, history>>

\* update_status(const_id, "active").
Status(p) ==
  /\ At(p, "load", "status")
  /\ SetRow(proc[p].id, "active")
  /\ Go(p, "save")
  /\ UNCHANGED <<file, ssfile, kernel, history>>

\* The entry in runtime_state, which is read again for it.
Save(p) ==
  /\ At(p, "load", "save")
  /\ file' = [file EXCEPT ![proc[p].id] = proc[p].mode]
  /\ Exit(p)
  /\ UNCHANGED <<row, ssfile, kernel, history>>

----------------------------------------------------------------------------
(* unload, table delete, clean *)

\* cmd_unload for the ConstIDs T.  The file is read here and not again.
Unload(p, T) ==
  /\ proc[p] = Idle
  /\ proc' = [proc EXCEPT ![p] = [Idle EXCEPT !.pc = "pick", !.op = "unload", !.seen = file,
                                            !.todo = {i \in T : file[i] # None}]]
  /\ UNCHANGED <<files, kernel, history>>

\* cmd_table delete for the rows T, which may be selected by their status as
\* well: those that are active are unloaded first.
Delete(p, T, s) ==
  /\ proc[p] = Idle
  /\ \A i \in T : row[i] # "deleted" /\ s \in {None, row[i]}
  /\ proc' = [proc EXCEPT ![p] =
       [Idle EXCEPT !.pc = "pick", !.op = "delete", !.seen = file,
                    !.todo = {i \in T : file[i] # None}, !.rows = T, !.status = s]]
  /\ UNCHANGED <<files, kernel, history>>

\* unload --all.  With nothing active, a module left behind is removed.
UnloadAll(p) ==
  /\ proc[p] = Idle
  /\ proc' = [proc EXCEPT ![p] =
       [Idle EXCEPT !.pc = IF file = Nothing THEN "clean_pins" ELSE "pick",
                    !.op = "unload_all", !.seen = file,
                    !.todo = {i \in Ids : file[i] # None}]]
  /\ \/ file = Nothing /\ ReverseTransition
     \/ (file # Nothing \/ Fails) /\ UNCHANGED <<module, reversed>>
  /\ UNCHANGED <<files, pins, active, tables, kfuncs, bare, spoiled>>

\* _reverse_transition_single finds the maps of a ConstID through its pins.  It
\* does nothing when it sees no directory, and goes straight to unload_constid,
\* as table delete always does, when it finds no map there.
FirstSteps(p, i) ==
  IF proc[p].op = "delete" THEN {"rm"}
  ELSE IF ~Visible THEN {"ready"}
  ELSE IF ~pins[i] THEN {"ready", "rm"}
  ELSE {"deactivate"} \cup (IF Fails THEN {"rm"} ELSE {})

\* The next ConstID, in any order.
Pick(p) ==
  \E i \in proc[p].todo :
    /\ proc[p].pc = "pick"
    /\ \E pc \in FirstSteps(p, i) : proc' = [proc EXCEPT ![p].id = i, ![p].pc = pc]
    /\ UNCHANGED <<files, kernel, history>>

\* deactivate_constid; mode 1 then bumps the epoch and waits two seconds.
Deactivate(p) ==
  /\ proc[p].pc = "deactivate"
  /\ \/ active' = [active EXCEPT ![proc[p].id] = FALSE]
     \/ Fails /\ active' = active
  /\ Go(p, IF proc[p].seen[proc[p].id] = "global" THEN "rmmod" ELSE "rm")
  /\ UNCHANGED <<files, pins, tables, kfuncs, module, history>>

\* Mode 2: rmmod, unless the module is gone already, and wait for its verdict.
Rmmod(p) ==
  /\ proc[p].pc = "rmmod"
  /\ \/ ReverseTransition
     \/ Fails /\ UNCHANGED <<module, reversed>>
  /\ Go(p, "rm")
  /\ UNCHANGED <<files, pins, active, tables, kfuncs, bare, spoiled>>

\* unload_constid: the pins, and with them the programs and maps.
RemovePins(p) ==
  LET i == proc[p].id
  IN  /\ proc[p].pc = "rm"
      /\ \/ /\ pins' = [pins EXCEPT ![i] = FALSE]
            /\ active' = [active EXCEPT ![i] = FALSE]
            /\ bare' = bare \cup {j \in Ids \ reversed :
                 j = i /\ pins[j] /\ proc[p].op \in {"unload", "unload_all"} /\ proc[p].seen[j] = "global"}
            /\ spoiled' = spoiled
            /\ Go(p, "pop")
         \/ /\ Fails
            /\ UNCHANGED <<pins, active, bare>>
            /\ spoiled' = TRUE
            /\ IF proc[p].op = "load" THEN Exit(p) ELSE Go(p, "ready")
      /\ UNCHANGED <<files, tables, kfuncs, module, reversed>>

\* unload_constid: the entry in runtime_state.
Pop(p) ==
  /\ proc[p].pc = "pop"
  /\ file' = [file EXCEPT ![proc[p].id] = None]
  /\ IF proc[p].op = "load" THEN Exit(p) ELSE Go(p, "ready")
  /\ UNCHANGED <<row, ssfile, kernel, history>>

\* Mutant: the entry stays in unload's own copy, which is saved at the end.
ReadyKeepsEntry(p) ==
  LET i == proc[p].id
  IN  /\ proc[p].pc = "ready"
      /\ SetRow(i, "ready")
      /\ proc' = [proc EXCEPT ![p].pc = "pick", ![p].todo = @ \ {i}]
      /\ UNCHANGED <<file, ssfile, kernel, history>>

\* update_status(cid, "ready"); unload drops the ConstID from its own copy of
\* the active ones.
Ready(p) ==
  LET i == proc[p].id
  IN  /\ proc[p].pc = "ready"
      /\ SetRow(i, "ready")
      /\ proc' = [proc EXCEPT ![p].pc = "pick", ![p].todo = @ \ {i}, ![p].seen[i] = None]
      /\ UNCHANGED <<file, ssfile, kernel, history>>

\* unload ID: the copy replaces the file; with nothing left the rest goes too.
SaveSeen(p) ==
  /\ At(p, "unload", "pick") /\ proc[p].todo = {}
  /\ file' = proc[p].seen
  /\ IF proc[p].seen = Nothing THEN Go(p, "clean_pins") ELSE Exit(p)
  /\ UNCHANGED <<row, ssfile, kernel, history>>

Unloaded(p) ==
  /\ At(p, "unload_all", "pick") /\ proc[p].todo = {}
  /\ Go(p, "clean_pins")
  /\ UNCHANGED <<files, kernel, history>>

\* _cleanup_bpf_pins: all of /sys/fs/bpf/xkernel, as root.
RemoveAllPins ==
  /\ pins' = [i \in Ids |-> FALSE]
  /\ active' = [i \in Ids |-> FALSE]

CleanPins(p) ==
  /\ proc[p].pc = "clean_pins"
  /\ Go(p, "rm_kfuncs")
  /\ \/ RemoveAllPins /\ spoiled' = spoiled
     \/ Fails /\ UNCHANGED <<pins, active>> /\ spoiled' = TRUE
  /\ UNCHANGED <<files, tables, kfuncs, module, reversed, bare>>

\* _unload_kfuncs_module: refused while attached programs hold a reference.
RemoveKfuncs(p) ==
  /\ proc[p].pc = "rm_kfuncs"
  /\ \/ (\A i \in Ids : ~pins[i]) /\ kfuncs' = FALSE
     \/ (Fails \/ \E i \in Ids : pins[i]) /\ kfuncs' = kfuncs
  /\ IF proc[p].op = "unload_all" THEN Go(p, "clear") ELSE Exit(p)
  /\ UNCHANGED <<files, pins, active, tables, module, history>>

\* unload --all ends with an empty runtime_state and update_all_status("ready").
Clear(p) ==
  /\ proc[p].pc = "clear"
  /\ file' = Nothing
  /\ SetAllRows("ready")
  /\ spoiled' = (spoiled /\ \E i \in Ids : pins[i])
  /\ Exit(p)
  /\ UNCHANGED <<ssfile, kernel, reversed, bare>>

\* table delete, after the unloading: the rows go that are still selected
\* (delete_entries of src/table.py).
DeleteRows(p) ==
  /\ At(p, "delete", "pick") /\ proc[p].todo = {}
  /\ row' = [i \in Ids |-> IF i \in proc[p].rows /\ proc[p].status \in {None, row[i]}
                          THEN "deleted" ELSE row[i]]
  /\ Exit(p)
  /\ UNCHANGED <<file, ssfile, kernel, history>>

\* cmd_clean: everything in /dev/shm/xkernel, then the pins if they can be seen.
Clean(p) ==
  /\ proc[p] = Idle
  /\ proc' = [proc EXCEPT ![p] = [Idle EXCEPT !.pc = "wipe_pins", !.op = "clean"]]
  /\ file' = Nothing /\ row' = [i \in Ids |-> "deleted"] /\ ssfile' = None
  /\ UNCHANGED <<kernel, history>>

WipePins(p) ==
  /\ proc[p].pc = "wipe_pins"
  /\ \/ Visible /\ RemoveAllPins /\ spoiled' = spoiled
     \/ (Fails \/ ~Visible) /\ UNCHANGED <<pins, active>> /\ spoiled' = (spoiled \/ Visible)
  /\ Exit(p)
  /\ UNCHANGED <<files, tables, kfuncs, module, reversed, bare>>

----------------------------------------------------------------------------
(* The specification *)

\* xkernel-tool build gives a deleted ConstID a row again.
Build(i) ==
  /\ row[i] = "deleted"
  /\ row' = [row EXCEPT ![i] = "ready"]
  /\ UNCHANGED <<proc, file, ssfile, kernel, history>>

\* Points at which a command rewrites a file, which open(..., 'w') empties first.
WritesState(p) ==
  \/ proc[p].pc \in {"save", "pop", "rm_kfuncs", "clear"}
  \/ proc[p].pc = "kfuncs" /\ ~kfuncs
  \/ At(p, "unload", "pick") /\ proc[p].todo = {}
WritesTable(p) ==
  \/ proc[p].pc \in {"status", "ready", "clear"}
  \/ At(p, "delete", "pick") /\ proc[p].todo = {}

\* A killed command leaves everything as it is, or the file it was writing empty.
Kill(p) ==
  /\ Kills /\ proc[p] # Idle
  /\ \/ file' = file /\ row' = row
     \/ WritesState(p) /\ file' = Nothing /\ row' = row
     \/ WritesTable(p) /\ file' = file /\ row' = [i \in Ids |-> "deleted"]
  /\ Exit(p)
  /\ spoiled' = TRUE
  /\ UNCHANGED <<ssfile, kernel, reversed, bare>>

LoadNext(p) ==
  \/ \E i \in Ids, m \in Modes : Load(p, i, m)
  \/ EnsureKfuncs(p) \/ Attach(p) \/ Fill(p) \/ Activate(p)
  \/ RemoveOldModule(p) \/ Insmod(p) \/ Status(p) \/ Save(p)

UnloadNext(p) ==
  \/ \E T \in (SUBSET Ids) \ {{}} : 
       Unload(p, T) \/ \E s \in {None, "active"} : Delete(p, T, s)
  \/ UnloadAll(p) \/ Pick(p) \/ Deactivate(p) \/ Rmmod(p) \/ RemovePins(p)
  \/ Pop(p) \/ Ready(p) \/ SaveSeen(p) \/ Unloaded(p) \/ CleanPins(p)
  \/ RemoveKfuncs(p) \/ Clear(p) \/ DeleteRows(p) \/ Clean(p) \/ WipePins(p)

Next ==
  \/ \E p \in Procs : LoadNext(p) \/ UnloadNext(p) \/ Kill(p)
  \/ \E i \in Ids : Build(i)

Spec == Init /\ [][Next]_vars

----------------------------------------------------------------------------
(* Properties *)

AllIdle == \A p \in Procs : proc[p] = Idle

\* When no command runs, the four places tell the same story: a ConstID in
\* runtime_state is attached, active, with its own spans, and marked active in
\* the scope table; every other is gone from bpffs.  A killed command, a lost map
\* update or a pin that could not be removed may break this, until an
\* "unload --all" has made up for it.
Settled ==
  AllIdle /\ ~spoiled =>
    \A i \in Ids :
      IF file[i] = None
        THEN ~pins[i] /\ row[i] # "active"
        ELSE pins[i] /\ active[i] /\ tables[i] = i /\ kfuncs /\ row[i] = "active"

\* A ConstID that cmd_load finds unloaded in runtime_state can be loaded: no
\* pin of an earlier load is in the way, and the kfuncs stay for it.
LoadFindsRoom ==
  \A p \in Procs :
    At(p, "load", "attach") /\ ~spoiled => ~pins[proc[p].id] /\ kfuncs

\* unload detaches a ConstID in global mode only after a reverse transition
\* over its own safe spans (_reverse_transition_single).
ReversedBeforeGone == bare = {}

=============================================================================
