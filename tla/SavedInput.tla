----------------------------- MODULE SavedInput -----------------------------
(***************************************************************************)
(* The pair of probes for an instruction that destroys its input (shr, and *)
(* ...): the first saves the register before the instruction, the second   *)
(* computes the instruction again from what was saved, with the new value. *)
(* Between them lies a per-CPU map with one entry, and the two probes fire *)
(* apart, while other threads run the same function.                       *)
(*                                                                         *)
(* Each handler asks for the verdict anew (transition_done).  In per-task  *)
(* mode that is a flag of the current task, which a guard, the probe where *)
(* a safe span begins, may set at any time; an interrupt's handlers ask    *)
(* for, and set, the flag of the task it interrupted.                      *)
(*                                                                         *)
(* A register is the input that its content is, or was computed from.  The *)
(* kernel's scheduler and its interrupts are external.                     *)
(***************************************************************************)
EXTENDS Naturals

CONSTANTS
  Tasks,        \* threads that run the function
  Irqs,         \* interrupt contexts that run it
  Cpus,
  Inputs,       \* what the register may hold before the instruction
  Zero,         \* the entry of a new map
  Risks         \* what may go wrong, of which each behaviour chooses some

Contexts == Tasks \cup Irqs
Probes   == {"guard", "save", "apply"}
AllRisks == {"preempt", "interrupt", "attach", "update", "late"}

\* What has a verdict: the tasks, and the idle task of each CPU, which stands
\* for all that do not run the function.
Owners == Tasks \cup Cpus

ASSUME PairAssumption ==
  /\ Tasks \cap Irqs = {} /\ Tasks \cap Cpus = {}
  /\ Zero \notin Inputs
  /\ Risks \subseteq AllRisks

VARIABLES
  risks,      \* preempt: tasks are descheduled anywhere; interrupt: interrupts run
              \* the function; attach: bpftool attaches only some of the
              \* programs; update: a write to xk_active fails; late: a safe span
              \* begins at or after the instruction, its guard comes behind the save
  phase,      \* of the ConstID: unloaded, attaching, filling (the mode is set, the
              \* span tables are being written), loaded, unloading
  attached,   \* the probes that fire
  perTask,    \* xk_mode is 1
  active,     \* xk_active
  verdict,    \* task_storage: transition_done
  slot,       \* xk_save_i, one entry per CPU
  pc, cpu,    \* each context: outside, before the instruction, before the second probe
  current,    \* the task that is current while an interrupt runs
  reg,        \* each context's register, while it is inside
  lost,       \* history: whose last pass ended with a register computed from another input
  turned      \* history: what turned its verdict between its two probes

loader  == <<risks, phase, attached, perTask, active>>
context == <<pc, cpu, current>>
history == <<lost, turned>>
vars    == <<loader, verdict, slot, context, reg, history>>

Inside(c) == pc[c] # "out"

\* bpf_get_current_task_btf
Current(c) == IF c \in Tasks THEN c ELSE current[c]

\* External: an interrupt runs to its end before what it interrupted goes on.
Runs(c) == c \in Irqs \/ \A i \in Irqs : cpu[i] = cpu[c] => ~Inside(i)

\* External: without preemption a task keeps its CPU while it is inside, and
\* interrupts do not nest.
MayEnter(c) ==
  /\ c \in Irqs => "interrupt" \in risks
  /\ \A d \in Contexts : d # c /\ cpu[d] = cpu[c] /\ Inside(d) =>
       (c \in Irqs /\ d \in Tasks) \/ (c \in Tasks /\ d \in Tasks /\ "preempt" \in risks)

\* External: an interrupt finds a task of its CPU running: the one inside the
\* function, if tasks are not preempted there.
MayInterrupt(i, o) ==
  /\ IF o \in Tasks THEN cpu[o] = cpu[i] ELSE o = cpu[i]
  /\ \A t \in Tasks : cpu[t] = cpu[i] /\ Inside(t) => o = t \/ "preempt" \in risks

----------------------------------------------------------------------------
(* The BPF programs *)

\* transition_done
Done(c) == active /\ (perTask => verdict[Current(c)])

\* Who stands between the probes when the verdict turns.
Turned(by) ==
  turned' = [c \in Contexts |-> IF pc[c] = "apply" /\ ~Done(c) /\ Done(c)' THEN by ELSE turned[c]]

\* ss_guard_handler: the check of the stack, which leaves out the function it
\* fires in, may have any result.  A verdict stays until the epoch moves, in the
\* course of an unload; how often guards then check again is left open.
Guard(c) ==
  /\ pc[c] = "seed" \/ (pc[c] = "apply" /\ "late" \in risks)
  /\ Runs(c) /\ "guard" \in attached /\ perTask
  /\ \E answer \in BOOLEAN :
       /\ phase = "unloading" \/ (verdict[Current(c)] => answer)
       /\ verdict' = [verdict EXCEPT ![Current(c)] = answer]
  /\ UNCHANGED <<loader, slot, context, reg, lost>>
  /\ Turned("guard")

\* Mutant: one entry for all CPUs.
SavedShared(c) == [d \in Cpus |-> reg[c]]

\* The entry a save handler writes.
Saved(c) == [slot EXCEPT ![cpu[c]] = reg[c]]

\* __xk_save_N_i and then the instruction, with the constant compiled in.
Seed(c) ==
  /\ pc[c] = "seed" /\ Runs(c) /\ pc' = [pc EXCEPT ![c] = "apply"]
  /\ slot' = IF Done(c) /\ "save" \in attached THEN Saved(c) ELSE slot
  /\ UNCHANGED <<loader, verdict, cpu, current, reg, history>>

\* __sie_N_i computes from whatever the entry of this CPU holds.
Computed(c) == slot[cpu[c]]

\* The policy behind the second probe, which asks x_transition_done.  Of a pass that
\* ends as it should nothing is remembered.
Apply(c) ==
  /\ pc[c] = "apply" /\ Runs(c) /\ pc' = [pc EXCEPT ![c] = "out"]
  /\ reg' = [reg EXCEPT ![c] = Zero]
  /\ IF Done(c) /\ "apply" \in attached /\ Computed(c) # reg[c]
       THEN lost' = lost \cup {c} /\ turned' = turned
       ELSE lost' = lost \ {c} /\ turned' = [turned EXCEPT ![c] = "no"]
  /\ UNCHANGED <<loader, verdict, slot, cpu, current>>

----------------------------------------------------------------------------
(* The tasks and interrupts *)

\* External: the function up to its safe span and the instruction.
Enter(c) ==
  /\ pc[c] = "out" /\ MayEnter(c) /\ pc' = [pc EXCEPT ![c] = "seed"]
  /\ IF c \in Tasks THEN current' = current
     ELSE \E o \in Owners : MayInterrupt(c, o) /\ current' = [current EXCEPT ![c] = o]
  /\ \E x \in Inputs : reg' = [reg EXCEPT ![c] = x]
  /\ lost' = lost \ {c} /\ turned' = [turned EXCEPT ![c] = "no"]
  /\ UNCHANGED <<loader, verdict, slot, cpu>>

\* External: between its runs, or when it is preempted, a task changes its CPU.
Migrate(t) ==
  /\ t \in Tasks /\ Runs(t) /\ (pc[t] = "out" \/ "preempt" \in risks)
  /\ \E d \in Cpus : cpu' = [cpu EXCEPT ![t] = d]
  /\ UNCHANGED <<loader, verdict, slot, pc, current, reg, history>>

----------------------------------------------------------------------------
(* The loader *)

\* load_and_attach_per_constid: new programs with new maps, attached one by one
Load ==
  /\ phase = "unloaded" /\ phase' = "attaching"
  /\ perTask' = FALSE
  /\ verdict' = [o \in Owners |-> FALSE]
  /\ slot' = [d \in Cpus |-> Zero]
  /\ UNCHANGED <<risks, attached, active, context, reg, history>>

Attach(p) ==
  /\ phase = "attaching" /\ attached' = attached \cup {p}
  /\ UNCHANGED <<risks, phase, perTask, active, verdict, slot, context, reg, history>>

\* set_bss_variable .bss.xk_mode, for any mode
SetMode ==
  /\ phase = "attaching" /\ (attached = Probes \/ "attach" \in risks)
  /\ phase' = "filling" /\ perTask' \in BOOLEAN
  /\ UNCHANGED <<risks, attached, active, verdict, slot, context, reg, history>>

\* set_bss_variable .bss.xk_active 1: at the end of the same function in mode 0,
\* activate_constid in the others
Activate ==
  /\ phase = "filling" /\ phase' = "loaded"
  /\ active' \in {TRUE} \cup (IF "update" \in risks THEN {FALSE} ELSE {})
  /\ UNCHANGED <<risks, attached, perTask, verdict, slot, context, reg, lost>>
  /\ Turned("activation")

\* Mutant: the probes go first.
DeactivateLast ==
  /\ phase = "loaded" /\ phase' = "unloading"
  /\ UNCHANGED <<risks, attached, perTask, active, verdict, slot, context, reg, history>>

\* deactivate_constid, the first step of every unload
Deactivate ==
  /\ phase = "loaded" /\ phase' = "unloading"
  /\ active' \in {FALSE} \cup (IF "update" \in risks THEN {active} ELSE {})
  /\ UNCHANGED <<risks, attached, perTask, verdict, slot, context, reg, history>>

\* unload_constid removes the pins, one by one; xk_active goes with the last.
Detach(p) ==
  /\ phase = "unloading" /\ attached' = attached \ {p}
  /\ phase' = IF attached' = {} THEN "unloaded" ELSE phase
  /\ active' = (active /\ attached' # {})
  /\ UNCHANGED <<risks, perTask, verdict, slot, context, reg, history>>

----------------------------------------------------------------------------
Init ==
  /\ risks \in SUBSET Risks
  /\ phase = "unloaded" /\ attached = {} /\ perTask = FALSE /\ active = FALSE
  /\ verdict = [o \in Owners |-> FALSE]
  /\ slot = [d \in Cpus |-> Zero]
  /\ pc = [c \in Contexts |-> "out"] /\ cpu \in [Contexts -> Cpus]
  /\ current = [i \in Irqs |-> cpu[i]]
  /\ reg = [c \in Contexts |-> Zero]
  /\ lost = {} /\ turned = [c \in Contexts |-> "no"]

Next ==
  \/ \E c \in Contexts : Enter(c) \/ Guard(c) \/ Seed(c) \/ Apply(c) \/ Migrate(c)
  \/ Load \/ SetMode \/ Activate \/ Deactivate
  \/ \E p \in Probes : Attach(p) \/ Detach(p)

Spec == Init /\ [][Next]_vars

----------------------------------------------------------------------------
\* The types of the variables; xk_active is set only when the loader is done.
TypeOK ==
  /\ risks \subseteq Risks /\ attached \subseteq Probes
  /\ perTask \in BOOLEAN /\ active \in BOOLEAN
  /\ phase \in {"unloaded", "attaching", "filling", "loaded", "unloading"}
  /\ active => phase \in {"loaded", "unloading"}
  /\ verdict \in [Owners -> BOOLEAN]
  /\ slot \in [Cpus -> Inputs \cup {Zero}]
  /\ pc \in [Contexts -> {"out", "seed", "apply"}] /\ cpu \in [Contexts -> Cpus]
  /\ current \in [Irqs -> Owners]
  /\ reg \in [Contexts -> Inputs \cup {Zero}]
  /\ lost \subseteq Contexts /\ turned \in [Contexts -> {"no", "activation", "guard"}]

\* What may go wrong: the activation came between the two probes, or a guard did
\* that stands there.
Excused(c) == turned[c] = "activation" \/ ("late" \in risks /\ turned[c] = "guard")

\* The README's promise (src/README.md:351, "save original value before seed,
\* apply new computation after") holds for a task on a kernel that neither
\* preempts nor interrupts it with the same function, if all probes are there:
\* two handlers that ask for the verdict one after the other agree, whatever
\* earlier passes and loads left behind, but in the one pass in which the
\* activation, or a guard that stands between them, turns it.
TasksKeepTheirInput ==
  risks \subseteq {"late"} => \A t \in Tasks : Excused(t) \/ t \notin lost

\* It holds in interrupts whatever the tasks below them do, though they ask for
\* the verdict of the task they interrupted, which may be between its own probes.
InterruptsKeepTheirInput ==
  risks \cap {"attach", "update"} = {} => \A i \in Irqs : Excused(i) \/ i \notin lost

\* A safe span that begins at the instruction is "tiny but safe", says
\* _populate_ss_raw_single where it takes the critical span (codegen.py:5023).
LastResortIsSafe ==
  risks = {"late"} => \A t \in Tasks : turned[t] = "activation" \/ t \notin lost

\* The promise without conditions.
EveryInputIsKept == lost = {}
=============================================================================
