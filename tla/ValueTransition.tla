--------------------------- MODULE ValueTransition ---------------------------
(***************************************************************************)
(* Which value of a perf-const a thread sees while a ConstID is loaded,    *)
(* runs and is unloaded: the BPF runtime (bpf/xkernel.bpf.h: the guard at  *)
(* the entry of a safe span, the stack check, transition_done) against the *)
(* loader's unsynchronised writes to its maps (src/cli.py: cmd_load and    *)
(* _reverse_transition_single; src/loader.py).                             *)
(*                                                                         *)
(* A BPF program runs to its end on its thread with preemption off, and a  *)
(* map write of the loader is a process of its own, so each is one step.   *)
(* In mode 2 the kernel module is represented by what GlobalTransition     *)
(* promises: it announces the transition after a quiet moment.             *)
(***************************************************************************)
EXTENDS SpanTable

CONSTANTS
  Threads,
  Modes,          \* modes to load with: 0 immediate, 1 per-task, 2 global
  SafeSpans,      \* the SS file: a sequence of spans, sorted
  CriticalSpans,  \* the CS file
  Outside,        \* an address in no span: a return address of other code
  MaxDepth,       \* bound: frames on a stack
  Visible,        \* stack entries bpf_get_stack returns, the function itself first
  Failures        \* what may fail: "stack", bpf_get_stack; "update", bpftool
                  \* map update; "timeout", the module gives up waiting

ASSUME TransitionAssumption ==
  /\ Modes \subseteq 0..2 /\ MaxDepth \in Nat /\ Visible \in Nat \ {0}
  /\ SafeSpans \in Seq(Span) /\ CriticalSpans \in Seq(Span)
  /\ Outside \in Addresses
  /\ Failures \subseteq {"stack", "update", "timeout"}

VARIABLES
  Mode, faults,             \* the mode of this load; what fails now and then in it
  pc, row,                  \* the loader, and the map entry it writes next
  cs, csLen, ss, ssLen,     \* cs_map, cs_len, ss_map, ss_len
  mode, active, epoch,      \* xk_mode, xk_active, xk_epoch
  attached,                 \* the programs are attached
  storage,                  \* task_storage
  frames,                   \* stack of each thread, innermost frame last
  quiet, fresh, anomalies       \* history, see below

loader == <<pc, row>>
tables == <<cs, csLen, ss, ssLen>>
flags  == <<mode, active, epoch, attached>>
given  == <<Mode, faults>>
vars   == <<given, loader, tables, flags, storage, frames, quiet, fresh, anomalies>>

Values == {"none", "old", "new"}
Frames == [span : 0..Len(SafeSpans), value : Values]
Steps  == {"idle", "mode", "cs_len", "cs", "ss_len", "ss", "wait", "activate",
           "loaded", "epoch", "grace", "unloaded"}

\* The return address a calling frame leaves on the stack.
CallSite(f) == IF f.span = 0 THEN Outside ELSE SafeSpans[f.span].eoff

Inside(t) == \E i \in DOMAIN frames[t] : frames[t][i].span # 0

TypeOK ==
  /\ Mode \in Modes /\ faults \subseteq Failures
  /\ pc \in Steps /\ row \in 0..(Len(SafeSpans) + Len(CriticalSpans))
  /\ cs \in [Index -> Span \cup {Empty[0]}] /\ ss \in [Index -> Span \cup {Empty[0]}]
  /\ csLen \in {0, Len(CriticalSpans)} /\ ssLen \in {0, Len(SafeSpans)}
  /\ mode \in {0, Mode} /\ active \in BOOLEAN /\ epoch \in 0..1
  /\ attached \in BOOLEAN
  /\ storage \in [Threads -> [done : BOOLEAN, epoch : 0..1]]
  /\ frames \in [Threads -> Seq(Frames)]
  /\ \A t \in Threads : Len(frames[t]) <= MaxDepth
  /\ quiet \in BOOLEAN /\ fresh \subseteq Threads
  /\ anomalies \in [Threads -> SUBSET {"forward", "backward", "stale"}]

\* Only the modes that walk stacks, or wait for the module, can fail at it.
CanFail(m) == {"update"} \cup (IF m = 1 THEN {"stack"} ELSE {})
                        \cup (IF m = 2 THEN {"timeout"} ELSE {})

Init ==
  /\ Mode \in Modes /\ faults \in SUBSET (Failures \cap CanFail(Mode))
  /\ pc = "idle" /\ row = 0
  /\ cs = Empty /\ csLen = 0 /\ ss = Empty /\ ssLen = 0
  /\ mode = 0 /\ active = FALSE /\ epoch = 0 /\ attached = FALSE
  /\ storage = [t \in Threads |-> [done |-> FALSE, epoch |-> 0]]
  /\ frames = [t \in Threads |-> <<>>]
  /\ quiet = FALSE /\ fresh = {} /\ anomalies = [t \in Threads |-> {}]

----------------------------------------------------------------------------
(* The BPF programs *)

\* Mutant: the walk skips one caller too many.
WalkedFewer(t) ==
  LET n == Len(frames[t])
  IN  {frames[t][i] : i \in {j \in 1..(n - 1) : n - j < Visible - 1}}

\* The frames whose return addresses the walk sees: bpf_get_stack fills a
\* buffer of MAX_STACK_DEPTH bytes, and entry 0 is the probed function itself.
Walked(t) ==
  LET n == Len(frames[t])
  IN  {frames[t][i] : i \in {j \in 1..n : n - j < Visible - 1}}

\* check_stack_safe: no address on the stack is in the table in use.  A failed
\* bpf_get_stack is not noticed (stack_size is unsigned) and leaves a zeroed
\* or uninitialised buffer: any answer.
StackSafe(t, answer) ==
  \/ "stack" \in faults /\ answer \in BOOLEAN
  \/ LET table == IF ssLen > 0 THEN ss ELSE cs
         len   == IF ssLen > 0 THEN ssLen ELSE csLen
     IN  answer = (\A f \in Walked(t) : ~Search(table, len, CallSite(f)))

\* Mutant: a thread that has made the transition is checked again.
CheckAgain(t) ==
  \/ storage' = storage
  \/ /\ csLen > 0 \/ ssLen > 0
     /\ \E answer \in BOOLEAN :
          /\ StackSafe(t, answer)
          /\ storage' = [storage EXCEPT ![t] = [done |-> answer, epoch |-> epoch]]

\* per_task_transition_handler, the fields that outlive it.
Check(t) ==
  \/ storage' = storage         \* no spans yet, or no memory for the storage
  \/ /\ csLen > 0 \/ ssLen > 0
     /\ \E answer \in BOOLEAN :
          /\ StackSafe(t, answer)
          /\ storage' = [storage EXCEPT ![t] =
               [done  |-> (@.done /\ @.epoch = epoch) \/ answer, epoch |-> epoch]]

\* ss_guard_handler, the probe at the entry of a safe span.
Guard(t) == IF attached /\ mode = 1 THEN Check(t) ELSE storage' = storage

\* transition_done.
TransitionDone(t) == active /\ (mode = 1 => storage[t].done)

----------------------------------------------------------------------------
(* The threads *)

\* A thread calls a function that has no span.
Call(t) ==
  /\ Len(frames[t]) < MaxDepth
  /\ frames' = [frames EXCEPT ![t] = Append(@, [span |-> 0, value |-> "none"])]
  /\ UNCHANGED <<loader, tables, flags, storage, quiet, fresh, anomalies>>

\* A thread enters a safe span; the guard looks at the frames below it.
Enter(t, s) ==
  /\ Len(frames[t]) < MaxDepth
  /\ Guard(t)
  /\ frames' = [frames EXCEPT ![t] = Append(@, [span |-> s, value |-> "none"])]
  /\ UNCHANGED <<loader, tables, flags, quiet, fresh, anomalies>>

\* A span uses the constant: the policy probe replaces its value, or does not.
\* Every span open on the stack now works with that value; anomalies records
\* when one had worked with the other, and a new value from an earlier epoch.
Use(t) ==
  LET n == Len(frames[t])
      v == IF attached /\ TransitionDone(t) THEN "new" ELSE "old"
      open == {i \in 1..n : frames[t][i].span # 0}
  IN  /\ n > 0 /\ frames[t][n].span # 0
      /\ frames' = [frames EXCEPT ![t] =
           [i \in 1..n |-> IF i \in open THEN [frames[t][i] EXCEPT !.value = v]
                           ELSE frames[t][i]]]
      /\ anomalies' = [anomalies EXCEPT ![t] = @
           \cup (IF v = "new" /\ \E i \in open : frames[t][i].value = "old"
                 THEN {"forward"} ELSE {})
           \cup (IF v = "old" /\ \E i \in open : frames[t][i].value = "new"
                 THEN {"backward"} ELSE {})
           \cup (IF v = "new" /\ mode = 1 /\ storage[t].epoch # epoch
                 THEN {"stale"} ELSE {})]
      /\ UNCHANGED <<loader, tables, flags, storage, quiet, fresh>>

Return(t) ==
  /\ frames[t] # <<>>
  /\ frames' = [frames EXCEPT ![t] = SubSeq(@, 1, Len(@) - 1)]
  /\ UNCHANGED <<loader, tables, flags, storage, quiet, fresh, anomalies>>

----------------------------------------------------------------------------
(* The loader *)

\* update_map_by_id: its result is ignored.
Update(done, before) == done \/ ("update" \in faults /\ before)

\* bpftool prog loadall ... autoattach.
Attach ==
  /\ pc = "idle"
  /\ attached' = TRUE /\ pc' = "mode"
  /\ UNCHANGED <<row, tables, mode, active, epoch, storage, frames, quiet, fresh, anomalies>>

\* The threads that the mode can take over without mixing.
Fresh == IF Mode = 1 THEN {t \in Threads : ~storage[t].done}
         ELSE {t \in Threads : ~Inside(t)}

\* set_bss_variable xk_mode, and xk_active in mode 0.
SetMode ==
  /\ pc = "mode" /\ pc' = "cs_len"
  /\ Update(mode' = Mode, mode' = mode)
  /\ IF Mode = 0
     THEN Update(active' = TRUE, active' = active) /\ fresh' = Fresh
     ELSE UNCHANGED <<active, fresh>>
  /\ UNCHANGED <<row, tables, epoch, attached, storage, frames, quiet, anomalies>>

\* load_critical_spans_for_constid: the length first, then the entries.
WriteCsLen ==
  /\ pc = "cs_len" /\ pc' = IF CriticalSpans = <<>> THEN "ss_len" ELSE "cs"
  /\ Update(csLen' = Len(CriticalSpans), csLen' = csLen)
  /\ row' = 0
  /\ UNCHANGED <<cs, ss, ssLen, flags, storage, frames, quiet, fresh, anomalies>>

WriteCs ==
  /\ pc = "cs" /\ pc' = IF row + 1 = Len(CriticalSpans) THEN "ss_len" ELSE "cs"
  /\ IF row \in Index
     THEN Update(cs' = [cs EXCEPT ![row] = CriticalSpans[row + 1]], cs' = cs)
     ELSE cs' = cs
  /\ row' = row + 1
  /\ UNCHANGED <<csLen, ss, ssLen, flags, storage, frames, quiet, fresh, anomalies>>

\* load_safe_spans_for_constid, in the same order.
AfterSpans == CASE Mode = 0 -> "loaded" [] Mode = 1 -> "activate" [] OTHER -> "wait"

\* load_safe_spans_for_constid, the length.
WriteSsLen ==
  /\ pc = "ss_len" /\ pc' = IF SafeSpans = <<>> THEN AfterSpans ELSE "ss"
  /\ Update(ssLen' = Len(SafeSpans), ssLen' = ssLen)
  /\ row' = 0
  /\ UNCHANGED <<cs, csLen, ss, flags, storage, frames, quiet, fresh, anomalies>>

WriteSs ==
  /\ pc = "ss" /\ pc' = IF row + 1 = Len(SafeSpans) THEN AfterSpans ELSE "ss"
  /\ IF row \in Index
     THEN Update(ss' = [ss EXCEPT ![row] = SafeSpans[row + 1]], ss' = ss)
     ELSE ss' = ss
  /\ row' = row + 1
  /\ UNCHANGED <<cs, csLen, ssLen, flags, storage, frames, quiet, fresh, anomalies>>

\* cmd_load polls dmesg until the module has announced the transition, or has
\* given up: it goes on all the same.
Announced ==
  /\ pc = "wait" /\ pc' = "activate"
  /\ \A t \in Threads : ~Inside(t)
  /\ quiet' = TRUE
  /\ UNCHANGED <<row, tables, flags, storage, frames, fresh, anomalies>>

TimedOut ==
  /\ pc = "wait" /\ pc' = "activate"
  /\ "timeout" \in faults
  /\ UNCHANGED <<row, tables, flags, storage, frames, quiet, fresh, anomalies>>

\* activate_constid.
Activate ==
  /\ pc = "activate" /\ pc' = "loaded"
  /\ Update(active' = TRUE, active' = active)
  /\ fresh' = Fresh
  /\ UNCHANGED <<row, tables, mode, epoch, attached, storage, frames, quiet, anomalies>>

\* Mutant: the epoch moves first, the switch is thrown by nobody.
DeactivateForgotten ==
  /\ pc = "loaded" /\ pc' = IF Mode = 1 THEN "epoch" ELSE "grace"
  /\ UNCHANGED <<row, tables, flags, storage, frames, quiet, fresh, anomalies>>

\* deactivate_constid, the first step of every reverse transition.
Deactivate ==
  /\ pc = "loaded" /\ pc' = IF Mode = 1 THEN "epoch" ELSE "grace"
  /\ Update(active' = FALSE, active' = active)
  /\ UNCHANGED <<row, tables, mode, epoch, attached, storage, frames, quiet, fresh, anomalies>>

\* bump_epoch.
BumpEpoch ==
  /\ pc = "epoch" /\ pc' = "grace"
  /\ Update(epoch' = epoch + 1, epoch' = epoch)
  /\ UNCHANGED <<row, tables, mode, active, attached, storage, frames, quiet, fresh, anomalies>>

\* unload_constid, after the grace period.
Unload ==
  /\ pc = "grace" /\ pc' = "unloaded"
  /\ attached' = FALSE
  /\ UNCHANGED <<row, tables, mode, active, epoch, storage, frames, quiet, fresh, anomalies>>

Load   == Attach \/ SetMode \/ WriteCsLen \/ WriteCs \/ WriteSsLen \/ WriteSs
          \/ Announced \/ TimedOut \/ Activate \/ Deactivate \/ BumpEpoch \/ Unload
Thread(t) == Call(t) \/ Use(t) \/ Return(t) \/ \E s \in DOMAIN SafeSpans : Enter(t, s)
Next   == (Load \/ \E t \in Threads : Thread(t)) /\ UNCHANGED given
Spec   == Init /\ [][Next]_vars

----------------------------------------------------------------------------
(* Properties *)

\* A thread the mode can take over when the ConstID is activated (per-task: not
\* yet through its check; otherwise: outside every safe span) never works with
\* the old value and then with the new one inside open spans.  In per-task mode
\* nothing may fail; the other modes keep the promise whatever fails.
FreshNeverMixes ==
  Mode # 1 \/ faults = {} => \A t \in fresh : "forward" \notin anomalies[t]

\* A thread that works with the new value goes on with it until the reverse
\* transition, whatever fails.
NewIsKept ==
  [][\A t \in Threads : \A i \in DOMAIN frames[t] \cap DOMAIN frames'[t] :
       frames[t][i].value = "new" /\ frames'[t][i].value = "old"
         => pc \in {"epoch", "grace", "unloaded"}]_vars

\* A thread that passed the check in an earlier epoch gets no new value, unless
\* the clearing of xk_active is lost.
StaleNeverApplies ==
  "update" \notin faults => \A t \in Threads : "stale" \notin anomalies[t]

\* Each thread transitions when its stack exits the safe spans (README): none
\* mixes, those the guard has let through before the activation included.
NeverMixesForward == \A t \in Threads : "forward" \notin anomalies[t]

\* Clearing xk_active takes the new value back safely.
NeverMixesBackward == \A t \in Threads : "backward" \notin anomalies[t]

\* A global ConstID is active only after a moment with no thread in a safe span.
ActiveAfterQuiet == Mode = 2 /\ active => quiet
=============================================================================
