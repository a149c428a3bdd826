# Xkernel: models, checks and proofs

Xkernel changes performance constants of a running Linux kernel. A constant `V` is located in the
machine code by recompiling the kernel (binary diff), the way the compiler folded it into the code
is recovered by symbolic execution (`IV = f(V)`), and a BPF kprobe rewrites the register or memory
cell each time the code passes. A *critical span* (CS) is the instructions where the constant enters
the machine state, a *safe span* (SS) those in which a value derived from it is still live. A thread
that used the old value inside a safe span must not meet the new one before it has left: that is
what the consistency modes are for.

This directory has TLA+ models of the system from the edit of the kernel source to the last probe,
the TLC runs that check them on small instances, and proofs, checked by TLAPS, of what holds for every
instance. A file is named by its base name, and a line number is that of the file; where the text says that a property is *broken*,
section 4 has the instance on which TLC shows it.

## 1. Inventory

| Component | Source | State it keeps | Operations | Talks to |
|---|---|---|---|---|
| Global consistency module (Mode 2) | `kernel/consistency/core.c`, `core.h` | `state`, `refcount`, `t_start`, `t_end`, list of spans, the daemon | insmod, rmmod, reading of the span file, stack scan under `stop_machine`, daemon loop, timing report | kprobes, the CLI (through insmod/rmmod, dmesg and files in `/dev/shm/xkernel`) |
| Auxiliary kprobes | `kernel/consistency/kprobe.c` | `enabled`, which probes are registered | attach, detach, enable, guard and unguard handlers | every thread that runs kernel code; the module above |
| BPF runtime (Mode 1) | `bpf/xkernel.bpf.h` | `xk_mode`, `xk_active`, `xk_epoch`, span tables, per-task storage, statistics | guard handler, stack check (binary search), `transition_done`, statistics | tune probes (`x_tune.h`), the loader through map updates |
| X-tune API | `bpf/x_tune.h`, `bpf/util.bpf.h`, `bpf/kfuncs.bpf.h` | none | macros around `x_set` and `x_transition_done` | BPF runtime, kfuncs |
| kfuncs module | `kernel/kfuncs/kfuncs.c` | none | `bpf_probe_write_kernel` | generated BPF programs |
| Loader | `src/loader.py` | `runtime_state` file, pins under `/sys/fs/bpf/xkernel` | load and attach, fill span tables, activate, deactivate, bump the epoch, unload, jump optimization | bpftool, insmod/rmmod, BPF runtime |
| CLI | `src/cli.py` | scope table status column, CS and SS files, cs_artifact header | build, run, load, unload, status, table, clean, transition-stats | loader, table, generator |
| Scope tables | `src/table.py`, table writers of `src/codegen.py` | scope table, CS and SS tables, the stub files | add, list, delete, garbage collection of stubs | CLI |
| Binary diff | `src/diff.py`, `src/gen.py` | the source file and its backup, listings of three builds, block files | edit, recompile, compare, restore; location of blocks | kernel tree, compiler |
| Symbolic executor and code generator | `src/codegen.py` | symbolic machine state | execute a block, find `IV = f(V)`, choose probe points, translate offsets, write stubs and spans | diff, scope tables |
| Configuration | `src/config.py` | none | TOML parsing, resolution of safe spans | generator |
| X-tune skeletons | `src/xtune.py` | none | writes a policy file | scope table |
| Artifact, demo, legacy, docs, install scripts | `ae/`, `demo/`, `legacy/`, `docs/`, `scripts/` | - | plots, benchmarks, old versions | - |

What is hard in it. The kernel side is concurrent with every thread of the system: probes fire
between any two steps of the loader, of insmod and rmmod, and of the daemon, which loses and orders
wake-ups by hand and counts activations it does not control. The loader drives it through
processes that fail or are killed half way, and keeps a file that mirrors kernel state. The build
edits a file of the kernel tree in place and numbers its results with an ID that it takes from a table other commands
rewrite. The code generator works on text: it finds instructions by
their bytes, blocks by counted lines, numbers by replacing them in a string, and must
choose a probe point after the value is final and before its first use. The hazards in `PROJECT.json` name the line where each bites.

| Component | What makes it correct | Where |
|---|---|---|
| Global consistency module, auxiliary kprobes | a transition is announced only after a moment with no thread in a safe span; every transition ends; no code runs in freed memory | `GlobalTransition` |
| BPF runtime | a thread never works with the old and the new value in one activation of a span; a lookup finds exactly the addresses in spans; what an instruction destroyed is computed again from its own input | `ValueTransition`, `SpanTable`, `SpanSearch`, `SavedInput` |
| Statistics | every thread is counted once; the extremes are those of some thread; a report is possible | `TransitionStats` |
| Loader, CLI | runtime state, scope table, pins and modules agree between commands; what is unloaded can be loaded again; nothing detaches before its reverse transition | `Lifecycle` |
| Span files | guard probes, stack check and module work with the same spans, those of the ConstID at hand | `SpanFile` |
| Binary diff, scope tables, configuration | a stub is made from builds that differ in its own constant only; the source is put back; an ID's stub, blocks and spans are its own after any reuse | `BuildPipeline` |
| Binary diff, symbolic executor, code generator, jump optimization | the block of every use is found; a probed function does what the function rebuilt with the new value does, at any candidate offset; the safe span covers what a thread must not change over in; in whole images, the functions and places shown are those of the uses | `DiffBlocks`, `SymExec`, `JumpOpt`, `CodeGen`, `ImageDiff` |

## 2. Plan

Done, in this order: `QuietPoint`, `GlobalTransition`; `SpanTable`, `SpanSearch`, `ValueTransition`;
`Lifecycle`; `BuildPipeline`, `IndexTables`; `X86Block`, `SymExec`, `DiffBlocks`, `JumpOpt`, `CodeGen`; `SpanFile`;
`TransitionStats`; `SavedInput`; `ImageDiff`. The modules with proofs are listed in section 3 with what is proved.

What is left, most valuable first:

1. A proof that the symbolic executor is sound on a block (its expressions denote what `Execute` computes), and with it
   `OriginalIsNoOp` and the linear part (`mov`, `lea`) of `ProbeEqualsRebuild` for every width.
2. In the normal mode of `diff.py`, listings of several functions, with the padding and symbols in front of a function.
3. More instructions in the executor: stack slots, `mul`, `div`, `setcc`.
4. The timing file of mode 2.

The runs are few on purpose: one per question. Deviations of the code other than the one with a run (`lc_reverse`) are kept as
instances in section 4.

## 3. Modules

### GlobalTransition (and QuietPoint)

`QuietPoint` is the abstract promise: a transition is announced as done only if, at some moment after
it began, no activation of a safe span existed. It has three variables: the phase, the set of
activations inside spans, and whether a quiet moment has been seen since the phase began.

`GlobalTransition` is the module. Actors and control points:

| Actor | Code | Control | Actions |
|---|---|---|---|
| insmod, rmmod | `consistency_init`, `consistency_exit` | `lpc` | `Insmod` .. `InstantForward`, `Rmmod` .. `Unloaded` |
| daemon kthread | `transition_daemon` | `dpc`, local `s` is `ds`, `poll_count` is `polls` | `DStart` .. `DFailed` |
| any thread | kernel code with spans | its stack `frames[t]` | `Arrive`, `ReachExit`, `JumpBack`, `LeaveEarly`, ... |
| kprobe handlers | `handler_guard`, `handler_unguard` | run in the thread's step | `Guard`, `Unguard`, `RecordEnd` |

The daemon's test of the state, its `set_current_state` and its `schedule` are separate steps
(`DTop`, `DPark`, `DWoken`), because a wake-up can fall between them. A handler's atomic operation and
its store of the end time are separate steps (`Guard`/`Unguard`, then `RecordEnd`); `ending` is the set
of threads between the two. `unregister_kprobe` waits for running handlers: `DDisarm` stops new ones,
`DDone` and `DFailed` wait for `ending = {}`; that the spans are detached one after the other is left
out. The scan is one action: `stop_machine` parks every other CPU. Where a thread can be standing when
that happens depends on preemption, so `Preemptible` is a constant; without it a thread never stands
on a probe, and the daemon is asleep, during a scan.

The kernel code inside the spans is external. Constants say which spans it can enter past the guard,
leave before the end, jump back to the start of, or end in a call, and whether a probe could be
registered: `SideEntry`, `EarlyExit`, `BackEdge`, `TailCall`, `NoGuard`, `NoUnguard`. `Mortal` threads exit and
stay as zombies for a while. The scan sees the `MaxEntries` innermost activations of a stack; in the code it is the 100
innermost frames (`core.h:19`), whatever they are, so `MaxEntries` is how many activations are among them.

Properties: `DoneIsQuiet` and `AnnouncedIsQuiet` (an announced transition was quiet since its scan; the
first leaves out scans that gave up), `RefcountCovers` and `RefcountExact` (the count against the
activations inside), `ArmedUntilDecided` (probes stay from scan to verdict, across rmmod racing the
daemon), `UnloadIsClean`, `ForwardResolves`, `ReverseResolves`, `ImplementsQuietPoint`. The code breaks
`EndRecorded`, `EndOfThisTransition` and `DaemonStops`, and the first ones under some of the constants: no run checks
`AnnouncedIsQuiet`, which without deaths says no more than `DoneIsQuiet` and with them does not hold (section 4).

| Run | Instance | Shows |
|---|---|---|
| `gt_safety` | 2 threads, 2 spans, depth 2; early exits, back edges, a missing unguard probe, zombies | leaks only make the count too high: done is quiet |
| `gt_exact` | 3 threads, 1 span, depth 2, nothing wrong | the count is exact; the module implements `QuietPoint` |
| `gt_live` | 2 threads, 2 spans, every hazard in spans switched on, not preemptible | both transitions end; probes stay armed until the verdict; unloading is clean |

Bounds: `MaxDepth` 2 lets one thread recurse and lets a newcomer nest; two threads are enough for one to
steal the other's unit, three for two units and a thief. `MaxLeak` only stops the count from growing
without end by leaks. `MaxPolls` 1 or 2 lets the budget run out before and after progress.

Fairness (`FairSpec`): the daemon, a begun insmod or rmmod, and a running handler continue: they are
kernel code on a CPU or a thread that has been woken. Threads need
not leave a span: the timeout is there for that. rmmod is never forced to begin.

Proved in `GlobalTransitionProofs`, for every number of threads, spans and every bound: `TypeOK`; `Control`,
an inductive description of which control points go with which state, from which `ArmedUntilDecided`
and `UnloadIsClean` follow with every hazard allowed; and, assuming `NoStealing` (no tail call, side
entry or missing guard, no stack deeper than the scan sees, and no preemption; section 4 shows what a tail call, a missing
guard and a deep stack do),
`Counting`, which contains `DoneIsQuiet` and `RefcountCovers`. `Counting` needs `Control` (the daemon sees
zero only while the probes are armed and enabled) and `OnlyTopMoves` (an activation below another is
inside its span, so the scan finds it). Early exits, back edges, missing unguard probes and zombies
are allowed in these theorems.

Each of the other three needs what the code does not guarantee, as section 4 shows, and is proved
under just that: `RefcountExact`, assuming `NoStealing` and `NoLeaking` (spans are left only at their end, not entered
again from within, and the end is probed), because then every step adds to the count what it adds to the
activations inside; `AnnouncedIsQuiet`, assuming `NoStealing` and `NoDeaths` (no thread exits), because then no scan gives up
(`Whole`); and, with the same assumptions, `Spec => Abstract!Spec`, the refinement of `QuietPoint`: the scans begin
an abstract transition, `DDone`, `DFailed` and the instant ends finish it, a thread's steps are `Move`, and everything else stutters.
The abstract guard of an announcement, a quiet moment seen, is what `Counting` says at `DDone`. Liveness stays with TLC.

### SpanTable and SpanSearch

`SpanTable` is the table a guard searches (`cs_map`, `ss_map` with their lengths) and one step of the
search (`bs_fn`, `ss_bs_fn`): `Callback` halves `left .. right` with 32-bit indices (`Wrap` stands for
`2^32`), and the search ends when the indices cross or `bpf_loop` has called it `MAX_BPF_LOOP` times.
`SpanSearch` runs it for every list of spans that a load can produce and every address.

| Run | Instance | Shows |
|---|---|---|
| `ss_search` | lists of up to 4 spans over 6 addresses, `Wrap` 16, `MaxLoop` 6 | the search is exact, ends within the loop limit, and keeps its invariant where the index wraps below entry 0 |

Six addresses hold four spans with and without gaps; `Wrap` 16 is more than three times the largest index, as
`2^32` is, so that a wrapped index is never taken for a real one. The run's deadlock check is off: a search ends.

Proved in `ValueTransitionProofs`, which uses it, for every list, table size and word size: the types, the loop invariant
(everything left of `left` starts at or below the address, everything right of `right` above it),
that the halving interval is empty before `MAX_BPF_LOOP` calls (both under `SearchFits`: the list fits
in the table), and that the answer is exact when no span lies inside another and the list fits (`Exactable`).

### ValueTransition

One ConstID, its threads and the loader, in any of the modes (`Modes`). The loader (`pc`) attaches the programs, sets `xk_mode`,
writes the two tables entry by entry, activates, and on unloading deactivates, bumps the epoch and
detaches (`Attach` .. `Unload`); threads call, enter spans (`Enter` runs the guard), use the value (`Use`
asks `transition_done`) and return. `Walked` is what `bpf_get_stack` returns of a stack, and `StackSafe` runs
the search of `SpanTable` over it. A guard handler is one step (it runs to
its end on its thread with preemption off; that a map write may fall inside one search is left out); the
loader's map writes are one step each, so a handler meets every half-written table. In Mode 2 the module appears through what
`QuietPoint` promises: its announcement finds no thread in a span, or it times out (`TimedOut`).

Properties: `FreshNeverMixes` (a thread that was not in a span and not yet let through when `xk_active` was
set never works with the old and the new value in one activation), `NewIsKept` (what has been let through
stays so until the reverse transition), `StaleNeverApplies` (a verdict of an earlier epoch is not used).
The code breaks the stronger `NeverMixesForward`: threads are let through before the activation.

| Run | Instance | Shows |
|---|---|---|
| `vt_modes` | 1 thread, 2 safe spans, 3 modes, depth 3 = all the walk sees; any map update, any stack walk and the module's verdict may fail | every mode keeps its promise to fresh threads against every order of the loader's writes, an old verdict never applies the new value, and what was let through stays so |

Threads share nothing that they write, so one thread shows what any number does; the theorems
are for any number. Depth 3 holds a recursion with a frame outside the spans between. The walk sees 3 entries
here and 4 in the code (32 bytes); one frame more than it sees breaks the promise (section 4).

Proved in `ValueTransitionProofs`: `NewIsKept` for every mode and failure; `StaleNeverApplies` for every mode and every failure but the
lost clearing of `xk_active`; and `FreshNeverMixes`, for every mode,
under `Fits`: stacks are no deeper than the walk (`Visible`), there is a safe span, and the search finds
the call sites inside spans (spans fit and do not nest, which `SearchExactTheorem` shows to be enough). `Fits` matters in
per-task mode, in which moreover nothing may fail; the other modes keep the promise whatever fails. The
inductive invariant of that mode relates each thread's verdict to its stack: who is let through with `xk_active`
set had no span open at the check, and has entered every span since with the new value.

### Lifecycle

The commands of `cli.py` that change what is loaded. Each running command is a process with a program
counter and its locals (`proc[p]`: the ConstID, its mode, `seen`, the copy of runtime state that `cmd_unload` holds, `todo`,
`rows`). What they change is in four places that no code keeps together:

| Place | Variables | Written by |
|---|---|---|
| `/dev/shm/xkernel/runtime_state` | `file` | `cmd_load`, `unload_constid`, `cmd_unload`, `cmd_clean` |
| scope table | `row` | build, `update_status`, `delete_entries`, `cmd_clean` |
| bpffs and BPF maps | `pins`, `active`, `tables` | `bpftool`, `rm -rf`, map updates |
| kernel modules | `kfuncs`, `module` | insmod, rmmod |

`cmd_load` is `Load`, `EnsureKfuncs`, `Attach`, `Fill`, then by mode `Activate` or `RemoveOldModule`, `Insmod`, `Activate`, then `Status`,
`Save`; `cmd_unload` and `table delete` are `Unload`/`UnloadAll`/`Delete`, then per ConstID `Pick`, `Deactivate`, `Rmmod`, `RemovePins`, `Pop`,
`Ready`, then `SaveSeen`, `CleanPins`, `RemoveKfuncs`, `Clear` or `DeleteRows`. With `Fails` each program that a step runs may
fail, and the command does what the code does then (which is often nothing); with `Kills` a command may be killed at any
point, also while the file it rewrites is empty. Reading and rewriting a file with no program run in
between is one step. Two details are left out: the `kfuncs_loaded` flag of the file, which no code reads,
and the compilation of the stub, whose failure ends the command as a failing `Attach` does.

Properties: `Settled`, when no command runs the four places tell the same story; `LoadFindsRoom`, a
ConstID that `cmd_load` takes for unloaded has no pin in the way; `ReversedBeforeGone`, broken by two
global ConstIDs. The history variable `spoiled` is set by a kill, a lost map update or a pin that could not be removed, and only
`unload --all` clears it: so `Settled` also says that `unload --all` repairs everything.

| Run | Instance | Shows |
|---|---|---|
| `lc_settled` | 2 ConstIDs, 3 modes, 1 command at a time, every failure and kill | the places agree again after every command; `unload --all` repairs what a kill left |
| `lc_reverse` | 2 ConstIDs, nothing fails | a violation: the second global load takes the module from the first ConstID |

Two ConstIDs are enough for one to disturb the other; what a command does to a third is what it does to the second.

Proved in `LifecycleProofs`: the types for any commands at a time; and, for any number of ConstIDs and
assuming `Sequential` (one command at a time, by a user who can list bpffs), `Settled` and `LoadFindsRoom`.
The inductive invariant `StoryInv` is the story of each command point by point: for a load, which of pins, tables,
`xk_active`, row and entry the ConstID has by now (`Loading`); for an unload, that its copy of the file is true but for the ConstID at hand
(`Unloading`), and that no active ConstID has been forgotten on its list (`Complete`); for everyone else, `Told`.

### BuildPipeline (and IndexTables)

`xkernel-tool build` over one kernel source file, and the commands that use or remove its results. Variables and what they are in
the code:

| Variables | Code |
|---|---|
| `src`, `backup` | the file that `diff.py` edits with sed, and the copy it puts back |
| `bb` | `bb_cache/`: the block files v1, v2, v3 of each ConstID, as `gen.py` takes them from the output of two runs |
| `stub` | `xtune_stub_<id>.bpf.c` |
| `rows`, `cs`, `ss`, `headless` | `scope_table`, `cs_raw`, `ss_raw`, and which of them has lost its header line |
| `job` | the build: its place, the TOML file's other tunables, which of them have safe spans (`load_configs`, `--run-analysis`) |
| `loaded` | what `load` has pinned |

A build takes tunable after tunable: `StartTunable` (the ID is one more than the largest in the scope table), twice `Compile`,
`Modify`, `Recompile`, `Restore`, `Extract`, then `Remove` (the entries of an earlier use of the ID), `WriteStub` or
`NoRelationship`, `AddCs`, `AddRow`, `AddSpans`, `SetIndex`. Any compilation may fail and any step be killed;
a killed rewrite leaves its table empty (`KillInRewrite`). `Load`, `Unload`, `Delete`, `DeleteAll`, `Clean` and `Checkout` come between builds. `run` (`Run`) is a build without
the analysis: the loads it announces never happen, since it looks for a column that the table lacks (`cli.py:349`).
What a listing shows is abstracted to the definitions that differ between the two compilations, and the file they were made from.

Properties: `OwnBlocks` (the three block files of a row differ in its own constant and nothing else, however many builds stopped
with the file modified: this is where a wrong backup shows), `RowOwnsFiles` and `IndexedHasSpans` (stub, critical and safe spans after any reuse of the number),
`LoadedKeepsRow` (an ID whose probes are pinned is not given away), `SourceRestored`.

| Run | Instance | Shows |
|---|---|---|
| `bp_build` | `SpecIndexed`: 2 tunables of one file, one with safe spans of its own; TOML files of one or two; 2 IDs, 3 starts, 2 faults | all five and `IndicesAreOwn`, for every interleaving of failures, kills and other commands (4.8 million states) |

Three starts and two IDs reuse an ID after a failed and a successful build; two faults let a second one hit what the first left.
One tunable has two probes, the second of which changes the instruction that the other tunable's probe changes.

`IndexTables` adds the two tables that number contents (`cs_table`, `ss_table`) and the columns of the scope table that refer to them
(`csIndex`, `ssIndex`). It is superposed: its steps are the steps of `BuildPipeline` with more to say, or leave that module's variables alone
(`IndexCs`, `IndexSs`, `KillInIndex`). Entries are appended and never removed one by one; a kill in a rewrite empties a table (`emptied`) while rows go on
referring to it. `IndicesAreOwn`: a row's indices lead to its own critical and safe spans, the latter those that `load` reads from `ss_raw`.
A row with several critical-span indices is listed as text, since `read_scope_table` resolves a single number only (`table.py:158`); that is printing.

Proved in `BuildPipelineProofs` for any tunables, TOML files and bounds: the types and the five properties. The inductive invariant says what each
place of a build knows: `SourceInv` (what the file, the backup and the two recorded versions are at each `pc`; the tunable under way is modified
only between `Modify` and `Restore`), `FilesInv` (the block files that are there and what they show), `TableInvs` (what of an ID has been
removed and added), with `OwnBlocks` and `LoadedKeepsRow`. `SpecIndexed => Spec` (`IndexedImplementsBuild`) carries these over to the run's specification.
`IndicesAreOwn` is proved from `IndexInv`: an index stays good because contents are only appended (`CsOwn`), and the safe spans stay those of `ss_raw` because
nothing writes them once the row names them.

Assumed: one command at a time (nothing locks the file or the tables), and no value whose text is a prefix of another
(`macro_to_pattern`, `diff.py:1070`). The backup is named by the file's base name (`diff.py:1472`), so that two files of one name
share it; the model has one file.

### X86Block, SymExec, DiffBlocks, JumpOpt, CodeGen, ImageDiff

Six modules for the way of a constant from the listing to the running probe.

- `X86Block` is the reference, as the processor does it: registers of three widths, one memory cell, zero and carry, branches taken. A block is one text
  in several builds, an immediate being a function of the value built in; where a jump or a call leads does not vary (`FixedTargets`). (External: the code knows instructions as text.)
- `SymExec` is the symbolic executor: an expression is its tokens in postfix order, `SymStep` is `execute_instruction` (with the
  instructions it misreads, `Misread`: the suffix it strips belongs to the name), and `FindIV` is `find_iv_from_symstates` with
  the template, the differing literals and the line through the samples.
- `DiffBlocks` is what `diff.py` makes of two listings: the differing lines (immediates, and addresses moved by longer ones), the filter that removes shifted
  addresses, the count back to a line, and the block around it.
- `JumpOpt` is `try_jump_optimization`: the loop that rewrites an offset in the policy, compiles, loads, looks whether the kernel has optimized the probe, and goes on;
  each program may fail, and the load may be killed between any two steps and run again.
- `CodeGen` composes them. `Diff` finds the blocks, `Generate` plans one probe per block (`PlanOf`: store, comparison, simple, saved, inferred), chooses its sites
  (`Window`, or `Fallback` where the chain ends with its block, or the one place behind it), translates offsets to the running kernel by the instruction's bytes (`Translated`), writes the stub and the safe span; `Attach`, `Gen` (the skeleton of
  `xtune.py`) and `Tune` follow; `Run` lets a thread through the probed function and beside it through the rebuilt one.
- `ImageDiff` is `diff.py --vmlinux`, which compares two whole kernels and prints where probes would go. The functions to compare are told (`Tell`) or found in
  the object file (`Detect`), in which every function begins at address 0 of its section; `Compare` is the two kernels, in the second of which any of the functions may have moved.
  Its steps leave the variables of `CodeGen` alone and begin where a build would, for the functions in `Compared`.

Properties: `EveryUseFound` (the block of every use, in the same place in three builds), `SelectedStays` (jump-opt takes every probe
through its own sites alone, and moving one by the text of its offset never moves another),
`ProbeEqualsRebuild` (registers, memory and branches are those of the kernel built with the new value), `OriginalIsNoOp` (a policy that writes the original value
changes nothing), `OutsideIsWhole` (a thread that is outside the safe span when the transition ends runs the whole function with one value),
`PointsFollowUses` (comparing images finds the functions that use the constant, and in each the places behind the uses).

They hold under conditions, each an operator of its own and each needed: without it TLC refutes the property, which is to say that the tools generate a wrong probe
and say nothing.

| Condition | What happens otherwise |
|---|---|
| `SameLength`, `NoTwins`, `UsesDiffer` | a use is filtered as a shifted address, or its block is counted to the wrong line, or one build cannot tell it |
| `SeedSynthesised` | a reversible seed other than a move (`add`, `lea`, `or`) is replaced by the constant alone |
| `WidthKept` | a 16-bit comparison is simulated on 32 bits, a 32-bit shift on 64 |
| `SbbTold` | `sbb %x,%x` before the seed: the original constant does not tell 0 from all ones |
| `NotOverwritten`, `EnteredBefore` | the register is written, or a branch enters, between the chain and the site |
| `OwnPlaces` (`OwnBytes` of every plan) | the bytes of the instruction occur earlier in the function, and that is where the probe goes; two probes may get one offset, and jump-opt then moves both |
| `FlagsDead` | the flags of the replaced chain are read later |
| `OneConstant` | a use outside the chain, or off the line through the samples |
| `Shown`, `Unlike` | comparing images, a use has one immediate in both builds, or is cancelled against another instruction; for the functions found, in either listing, as a line that is no use and is left because a use cancelled its counterpart adds a function |
| `Unshadowed` | comparing images, a later function has an instruction at the address of the use, or an earlier one where the function itself has none, and is compared in its place |
| one handler, or the span from the running kernel and no probe on the last instruction | the thread changes over between two handlers; `codegen.py:5023` calls the span without a disassembly "tiny but safe" |

| Run | Instance | Shows |
|---|---|---|
| `cg_probe` | 6024 functions: 6 preludes, 15 to 17 seeds, up to two instructions after the seed, 3 terminators, widths 16/32/64 bits, functions of two blocks, and three made for a condition (`Lookalike`, `Shrinker`, `Mimicked`); values 1..7 of which 3 are sampled and 3 written; `SpecImages`: functions of up to 3 instructions, and `Mimicked`, also as one of two in a file, the other with no use, one or two | all six under the conditions |

Registers have 64, 16 and 4 values for the three widths: enough for an addition to wrap and for a literal to need a longer encoding (`Long` 11).
Two instructions after the seed make a chain that goes on, one that ends, and a reader behind it; two-instruction tails come without a prelude and on 32 bits, and 64-bit functions with two
terminators, to keep the run under three minutes. A behaviour ends after the run of the function, so the deadlock check is off.

Proved in `CodeGenProofs`, for any functions, registers, values, samples, widths and neighbours: `TypeOK`, `SelectedStays`, `EveryUseFound` and `PointsFollowUses`, and that
the tools behave beside `diff.py --vmlinux` as they do alone (`SpecImages => Spec`). Assumed of the constants: `FixedTargets`; `KeyOrder` lists the executor's keys; sizes and values are numbers.
The argument, in its steps:

- A line that the filter leaves counts back to itself or to an earlier changed one, so that the lines come in order; with that, blocks found one by one lie in the function and do not overlap
  (`BlocksInOrder`), by induction over the recursive function that finds them.
- A plan's chain, save and sites lie in its block (`PlanForIs`), whatever the executor makes of the block; so plans of different blocks have their sites in the order of the blocks (`PlansSound`).
- Translation keeps this where a place's bytes are its own (`TranslatedIs`): the n-th instruction with these bytes is then the one meant, the n before it being the places of earlier plans.
- The inductive invariant is `Diffed` (the blocks are those of the diff), `Planned` (the above), `Offsets` (policy file, object and loop have an offset for each probe) and `OwnOffsets`: under
  `OwnPlaces` each is a site of its own probe, the probes that the loop is through with are at what it selected, and those to come at what it parsed. No two probes share an offset then (`SitesApart`), which is why a rewrite by text moves one only (`PatchedIs`).
- For `EveryUseFound`: where no use looks like another the filter leaves exactly the uses (`FilterIs`), so a hunk loses no line, each line counts to itself (`LineNumberExact`), and equal lines give equal blocks (`SameBlocks`).
- For `PointsFollowUses`: `LineIs` and `LineApart` place each instruction once in the listing of a file (`FlattenSeq`), `FilterIs` applies to the whole listing, and `ImageInvariant` says what the command has chosen and printed.

Induction is over the numbers, by a least counterexample (`Smallest`), since the library's theorem takes an operator.

### SpanFile

The way of a ConstID's spans from the tables of its build to their three readers. `cmd_load` writes `/dev/shm/xkernel/cs` and `ss` (`WriteCs`, `WriteSs`), from them the header of guard
probes (`WriteHeader`, empty but in mode 1) and the BPF tables (`FillCs`, `FillSs`); the module parses the same file in chunks (`ReadSpans`, with `Cut`, what it makes of a line that a chunk's end cuts).
A line is a record with the width of its text. Loads of several ConstIDs follow each other in every mode and are killed anywhere; the files outlive them.

| Run | Instance | Shows |
|---|---|---|
| `sf_load` | 2 ConstIDs, some 400 tables of up to three safe spans (empty spans, functions the kernel lacks, names that are no identifiers), lines of 15 to 20 characters, chunks of 23 | `OwnSpansOnly`, `RowsAreSearched`, `ReadersAgree` |

With lines shorter than the chunk and three of them, the cut falls on every field of a line. `ReadersAgree` has the conditions of the code: safe spans that can be used, and no line cut.

Proved in `SpanFileProofs` for any tables, kernel, line widths and chunk size: the types and the three properties, assuming only that no function has the name `-`, which the
tables use for none (`FileAssumption`). The inductive invariant (`Typed`, `Loading`) says at each point of a load which sets of lines the files, the guards and the BPF tables hold:
those of the ConstID at hand (`Critical`, `Safe`), whatever was there before. The files are `FlattenSeq` of lists of lines; its lemmas rest on a least counterexample,
not on an induction theorem. With no line cut, each is parsed as it is written, and `ReadSpans` lists the lines of the file.

### TransitionStats

The cell of latency statistics that all threads share, its handlers and the report of `transition-stats`. `Guard` decides whether a thread is counted, then `AddCount`, `AddTotal`, `ReadMin`,
`SwapMin`, `ReadMax`, `SwapMax` are the single atomic operations; `Report` copies the cell word by word. The clock is external: any of `Latencies`.

| Run | Instance | Shows |
|---|---|---|
| `ts_report` | 2 threads, latencies 1, 2, 4, one epoch change | `CountedOnce`, `ExtremesOnlyImprove`, `AverageInRange`; `AloneExact` where no two handlers have met |

Two handlers are enough for one to spoil the other's compare-and-swap. The comments of the
cell promise more (`ExtremesExact`) and the code breaks it.

Proved in `TransitionStatsProofs` for any threads and latencies: the types, in which the extremes and what a handler has read of them are latencies that occurred, and `ExtremesOnlyImprove`, by
what a handler between its read and its swap remembers. For finitely many threads also `CountedOnce`, `AloneExact` and `AverageInRange`. The invariant `Counted` says that
count and total, together with what handlers on their way still have to add, are those of the log, in which a thread and an epoch occur once; it needs lemmas about
sums over finite sets (adding an element, changing one value). `AloneExact` needs that, as long as no handlers have met, every latency but that of the one handler on its way lies between the extremes; `AverageInRange`, that a handler adds
to the count before it adds to the total, and that a report reads the total before the count.

### SavedInput

The pair of probes around an instruction that destroys its input: `Seed` is the first handler (save the register to the CPU's map entry) with the instruction, `Apply` the second (compute again from
what is there). Each asks for the verdict by itself, `Done`: `xk_active` in the modes that have no other, and in per-task mode also the flag of the current task, which `Guard`, the probe where a safe
span begins, sets to whatever its check of the stack answers (it never takes back a verdict of its epoch). An interrupt's handlers ask for, and its guards set, the flag of the task it found on its CPU (`current`), which may itself be between its
two probes, or of a task that does not run the function (the idle task of each CPU stands for those). Tasks and interrupts run the function on several CPUs, migrate and preempt, while the loader
attaches the probes one by one, sets the mode, activates, deactivates and detaches them. `risks` says what may happen in a behaviour: preemption inside the function, interrupts that run it, probes that
fail to attach, updates that fail, and a guard that comes late, between the two probes. `turned` records what turned a context's verdict between its probes.

| Run | Instance | Shows |
|---|---|---|
| `si_pairs` | 2 tasks, 1 interrupt, 2 CPUs, every set of preempt, interrupt and late | without preemption and interrupts a task's two handlers agree, and an interrupt's do whatever tasks do (`TasksKeepTheirInput`, `InterruptsKeepTheirInput`) |

Both properties leave out a pass in which the verdict turned between the two probes, by the activation (no mode excludes it) or by a guard that stands there, and only such a pass: the code guards a span
at its first instruction, which is the entry of the function in the spans it makes by itself, but the tuned instruction where the critical span stands in for them, and any where spans are given. That no other guard divides a pass,
of another task or of an interrupt, is what the properties say. Two tasks share a CPU or not, and share no verdict; one interrupt comes between a task's two probes. The loader's failures are left to section 4 and to the proofs,
as nothing is promised when it fails. Of a pass that ends with its own input nothing is remembered (`lost`, `turned`), so that the run stays small.

Proved in `SavedInputProofs` for any tasks, interrupts, CPUs and inputs: the types and both properties. The inductive invariant: while it is active all probes fire (`Gate`), contexts
inside the pair do not share a CPU unless one has interrupted the other (`Apart`), the task an interrupt found stays on its CPU (`Hosted`), and between the probes, if the second is to compute, the
CPU's entry is what the context's register held (`Kept`). `Alone` says that a context that runs shares its CPU with no other one to which the
promise is made, and `OwnVerdict` that it shares its verdict with none: so a `Seed` overwrites no entry in use, and a `Guard` turns the verdict of nobody who waits for it, but its own when it comes late.

Left out: a BPF program that a kprobe of another skips while it runs (`bpf_prog_active`).

## 4. Other instances

Deviations that TLC finds and that no run repeats. Each instance is one of the cfg files with the constants
or the property changed as the table says.

| Start from | Change | Outcome |
|---|---|---|
| `gt_exact` | 2 threads, `Mortal = {t2}`, `AnnouncedIsQuiet` | violated: a dead, unreaped thread has no stack to save (`core.c:206`), the scan gives up and reports an instant transition, which the comment there (`core.c:217`) takes to mean that no thread is in a span |
| `gt_exact` | 2 threads, `TailCall = {s1}`, `DoneIsQuiet` | violated: a thread in a call that ends the span is not counted by the scan (`core.h:65`), but its end takes a unit (`core.c:141` says symmetrically) |
| `gt_exact` | 2 threads, 2 spans, `NoGuard = {s2}`, `DoneIsQuiet` | violated: the unguard probe is armed without its guard (`kprobe.c:101`) |
| `gt_exact` | 2 threads, `MaxEntries = 1`, `DoneIsQuiet` | violated: an activation below the part of the stack that the scan sees (`core.c:182`) is not counted, and its end is |
| `gt_exact` | 2 threads | `EndRecorded` violated: the daemon reads the end time before the handler stores it (`kprobe.c:57`) |
| `gt_exact` | 2 threads | `EndOfThisTransition` violated: a late handler writes into the cleared cell (`core.c:376`) |
| `gt_exact` | 1 thread, `FairSpec` | `DaemonStops` violated: the wake-up of `kthread_stop` is lost (`core.c:384`) |
| `gt_live` | 1 thread, `Preemptible = TRUE` | `ReverseResolves` violated: the wake-up from rmmod can be lost, and rmmod spins for ever |
| `ss_search` | `Nested = TRUE` | `SearchExact` violated: an inner span hides the outer one |
| `ss_search` | `MaxSpans = 2` | `SearchExact` violated: more spans than entries (`loader.py:1054`) |
| `vt_modes` | `MaxDepth = 4` | `FreshNeverMixes` violated: `bpf_get_stack` gets 32 bytes, four entries (`Visible`): a caller further out is not seen |
| `vt_modes` | `Modes = {1}`, `Failures = {}` | `NeverMixesForward` violated: guards let threads through before `xk_active` is set (`README.md:49`, `cli.py:832`), and a thread in its span at the activation changes over in the middle |
| `vt_modes` | `Modes = {1}`, `Failures = {}` | `NeverMixesBackward` violated: clearing `xk_active` takes the value back inside a span |
| `vt_modes` | `FreshNeverMixes` without its condition, `Failures = {"stack"}` | violated: a negative result of `bpf_get_stack` becomes a large `__u32` (`xkernel.bpf.h:193`) |
| `vt_modes` | `FreshNeverMixes` without its condition, `Failures = {"update"}` | violated: with `xk_mode` lost, per-task mode is immediate mode |
| `vt_modes` | `StaleNeverApplies` without its condition | violated: with the clearing of `xk_active` lost, the old epoch's verdict is used |
| `vt_modes` | `Modes = {2}`, `Failures = {}` | `NeverMixesForward` violated: threads enter spans between the announcement and the activation |
| `vt_modes` | `Modes = {2}`, `Failures = {"timeout"}` | `ActiveAfterQuiet` violated: `cmd_load` activates after a timeout as well |
| `lc_settled` | `Procs <- TwoProcs`, no failures or kills | `Settled` violated: unload saves a copy of the file in which a load in between is missing |
| `lc_settled` | `Visible = FALSE`, no failures or kills | `Settled` violated: unload does not see the pins and leaves the programs attached |
| `cg_probe` | `Functions <- Moves` | `EverySiteIsValid` violated: the window of sites ends with the first reader (`codegen.py:2702`, `2821`) but takes no notice of a writer before it; `docs/jump_optimization.md:19` calls every one a valid attachment point |
| `cg_probe` | `PointsFollowUses` without `Unshadowed` | violated: an address of the object file stands for the last function that has an instruction there (`diff.py:762`), whichever it was shown for; also if only later functions are excluded (`Shrinker`): where a use of the modified listing stands at no instruction of the original, an earlier function that has one there is taken |
| `cg_probe` | `PointsFollowUses` with `Unlike` of the original listing only | violated (`Mimicked`, `Gapped`): a line that is no use is left in the modified listing, as a use has cancelled its counterpart, and adds its function |
| `cg_probe` | `SelectedStays` without `OwnPlaces` | violated (`Lookalike`): a place is found by the bytes of an earlier one, and a probe leaves its sites |
| `cg_probe` | `OutsideIsWhole` without its last condition | violated: the safe span without a disassembly of the kernel is the critical span, which two handlers straddle (`codegen.py:5023`) |
| `sf_load` | `ModuleHasSpans` | violated: a line is cut by the 255-byte chunk and parsed as another (`core.c:277`); an empty file of safe spans has no fallback |
| `ts_report` | `ExtremesExact` | violated: the failure of a compare-and-swap is ignored (`xkernel.bpf.h:285`), where the comments of the cell (`xkernel.bpf.h:45`) say minimum and maximum |
| `si_pairs` | 1 task, no interrupt, `Risks = {"late"}`, `LastResortIsSafe` | violated: the safe span is the critical span, its guard comes after the save handler, which a thread without a verdict passes unsaved (`codegen.py:3291`), and before the second handler, which then finds a verdict (`3351`) and computes from an entry nobody wrote; the comment (`5023`) says "tiny but safe" |
| `si_pairs` | `Risks` all five, `EveryInputIsKept` | violated by preemption or migration between the two probes, an interrupt in the same function, an activation between them, a guard that comes late, or a probe that did not attach (`README.md:351`) |

## 5. What is only model-checked, and what is not modelled

Only model-checked:

- liveness (`ForwardResolves`, `ReverseResolves`), which is out of the prover's reach;
- `ProbeEqualsRebuild`, `OriginalIsNoOp` and `OutsideIsWhole`: they compare what two executions of a block compute, and a proof must first have, for every block, that the tokens of the executor denote
  what the processor computes: an induction over the block and over each expression, with arithmetic modulo three widths and bits of numbers. Not attempted.

Every other property of a passing run is a theorem. The type invariants of `GlobalTransition`, `SpanSearch`, `ValueTransition`,
`Lifecycle`, `BuildPipeline`, `SpanFile` and `SavedInput` are proved and in no run.

Abstracted. In `CodeGen`: a number is replaced in an expression as a token, where the code replaces its text (a number inside a longer one); continuation lines of a listing, the `--lines` filter and a kernel whose
instructions differ from the object file's; stack slots, `mul`, `div`, `setcc`. In `JumpOpt` a kill inside one rewrite of the policy. In `SpanFile` a load killed inside one write leaves an
empty file, which the next load rewrites before it reads it, and is left out.
Every list of programs and of spans a step handles one by one without testing anything in between is one step.

Hazards seen and not among those that `PROJECT.json` lists:

- `kprobe.c:57`, `core.c:376`: the end time of a transition (instances in section 4).
- `codegen.py:3180`: a probe that rewrites a stored constant does so after the store; a reader on another CPU sees the old value in between.
- `cli.py:763`, `loader.py:793`: files in `/dev/shm/xkernel` are shared by loads that run at the same time, and a ConstID's maps are found by comparing two listings of all maps.
- `cli.py:976`: without the right to list bpffs a pin looks absent (`Visible = FALSE`).
- `cli.py:1221`, `1222`: `table delete` of an active ConstID removes pins without a reverse transition; with `--status active` it sets the rows to ready first, and then finds none.
- `cli.py:1376`: with two ConstIDs loaded, `transition_stat` names several maps; the timing file of mode 2 is shared by all global ConstIDs.
- `cli.py:349`: `run` looks up a column `Name` that the scope table's header lacks, and so never loads.
- The critical spans hold addresses of the object file's section: where the function does not start at 0 of its section they are displaced.

Not modelled, with the reason:

- Code that nothing calls: in `codegen.py` `extract_source_values`, `extract_file_paths`, `clear_all_tables`, `add_scope_table_entry`,
  `convert_instruction_address_to_offset`, `get_function_name_from_bb_file`, `generate_bpf_file_for_group` and what it uses, `show_kprobe_placement_from_bpf_file`; in `diff.py`
  `find_instruction_line_in_file`, `find_basic_block_for_address`; in `cli.py` `update_status_by_file`; in `table.py` `query_entries`.
- Printing: the reports of `codegen.py` and `diff.py`, listings and filters of `table list`, `status`, `doctor`, `setup`, argument parsing.
- Of `diff.py --vmlinux`, how it modifies the source and puts it back (with a backup per phase) and what happens when that fails; `loader.py`'s own command line (`load_and_attach`).
- The analysis behind `--run-analysis`, of which only the outcome is modelled (`Backfills`).
- `legacy/` (the solver that `src/` replaced), `ae/`, `demo/`, `examples/`, `tunables/`, `scripts/`, tests and docs: no logic of the running system.
