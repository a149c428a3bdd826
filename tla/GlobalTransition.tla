-------------------------- MODULE GlobalTransition --------------------------
(***************************************************************************)
(* The Mode 2 kernel module xk-consistency.ko (src/kernel/consistency).    *)
(*                                                                         *)
(* Four kinds of actor share the module's globals:                         *)
(*   - the loading process, which runs consistency_init (insmod) and       *)
(*     consistency_exit (rmmod); its program counter is lpc;               *)
(*   - the daemon kthread transition_daemon; its program counter is dpc;   *)
(*   - every other thread of the system, running kernel code that contains *)
(*     safe spans: frames[t] are its activations of spans, innermost last; *)
(*   - the kprobe handlers, which run on the thread that hits the probe.   *)
(* Scan is one action because it runs under stop_machine.                  *)
(*                                                                         *)
(* An activation is at "soff" when the probe on the first instruction of   *)
(* the span has yet to fire, in its "body" when its address is strictly    *)
(* inside the span, in a "tail" call when it has called out of the span's  *)
(* last instruction (its return address is eoff), and at "eoff" when the   *)
(* probe on the first instruction after the span is about to fire.         *)
(***************************************************************************)
EXTENDS Naturals, Sequences, FiniteSets

CONSTANTS
  Threads,      \* threads of the system other than the daemon and rmmod
  Spans,        \* safe spans, disjoint (struct xk_target_func)
  MaxDepth,     \* bound: activations one thread's stack holds
  MaxEntries,   \* activations of a stack the scan sees (XK_MAX_STACK_ENTRIES)
  MaxLeak,      \* bound: the refcount above which no further unit of it gets lost
  MaxPolls,     \* timeout_sec * 1000 / max(poll_interval_ms, 1)
  Preemptible,  \* the kernel deschedules a thread on any instruction
  TailCall,     \* spans whose last instruction before eoff is a call
  SideEntry,    \* spans that control enters past soff
  EarlyExit,    \* spans that control leaves before eoff
  BackEdge,     \* spans whose soff is the target of a jump from the body
  NoGuard,      \* spans whose guard kprobe register_kprobe() refuses
  NoUnguard,    \* spans whose unguard kprobe register_kprobe() refuses
  Mortal        \* threads that may exit and linger as zombies

ASSUME ConstantsAssumption ==
  /\ IsFiniteSet(Threads) /\ IsFiniteSet(Spans)
  /\ {MaxDepth, MaxEntries} \subseteq Nat \ {0} /\ MaxLeak \in Nat /\ MaxPolls \in Nat
  /\ Preemptible \in BOOLEAN
  /\ \A S \in {TailCall, SideEntry, EarlyExit, BackEdge, NoGuard, NoUnguard} :
       S \subseteq Spans
  /\ Mortal \subseteq Threads

VARIABLES
  lpc,        \* control point of insmod / rmmod
  state,      \* enum xk_state
  refcount,   \* atomic_t refcount
  enabled,    \* kprobe.c's enabled flag
  armed,      \* the auxiliary kprobes are registered
  tstart,     \* t_start: 0, or the round (1 forward, 2 reverse) that wrote it
  tend,       \* t_end: likewise
  timing,     \* the last report written to TIMING_FILE
  dpc,        \* control point of the daemon
  ds,         \* the daemon's local s
  asleep,     \* the daemon's task state is not TASK_RUNNING
  stop,       \* kthread_should_stop()
  polls,      \* the daemon's poll_count
  frames,     \* the span activations on each thread's stack
  ending,     \* threads between a handler's atomic operation and its record
  dead,       \* threads that have exited and are not yet reaped
  quiet,      \* history: no activation existed at some moment since the scan
  aborted     \* history: the last scan gave up before the last thread

module    == <<lpc, state, refcount, enabled, armed, tstart, tend, timing>>
daemon    == <<dpc, ds, asleep, stop, polls>>
threads   == <<frames, ending, dead>>
history   == <<quiet, aborted>>
vars == <<module, daemon, threads, history>>

Pending  == {"PENDING", "REVERSE_PENDING"}
Terminal == {"DONE", "FAILED", "REVERSE_DONE", "REVERSE_FAILED"}
States   == Pending \union Terminal
Reports  == [reverse : BOOLEAN, ok : BOOLEAN, start : 0..2, end : 0..2]
NoReport == [reverse |-> FALSE, ok |-> FALSE, start |-> 0, end |-> 0]

Frame == [span : Spans, at : {"soff", "body", "tail", "eoff"}]

LoaderPC ==
  {"idle", "error", "attached", "scanned", "loaded", "exit_wait", "rattached",
   "rscanned", "rwake", "rwait", "stop", "stopping"}
DaemonPC ==
  {"none", "created", "top", "branch", "clear", "disarm", "drain_done",
   "drain_fail", "park", "parked", "poll", "expired", "exited"}

ScalarsOK ==
  /\ lpc \in LoaderPC /\ dpc \in DaemonPC
  /\ state \in States /\ ds \in States
  /\ refcount \in Nat /\ polls \in Nat
  /\ tstart \in 0..2 /\ tend \in 0..2 /\ timing \in Reports
  /\ {enabled, armed, asleep, stop, quiet, aborted} \subseteq BOOLEAN

StacksOK(fs) ==
  /\ fs \in [Threads -> Seq(Frame)]
  /\ \A t \in Threads : Len(fs[t]) <= MaxDepth

TypeOK ==
  /\ ScalarsOK
  /\ StacksOK(frames)
  /\ ending \subseteq Threads /\ dead \subseteq Threads

----------------------------------------------------------------------------
(* Stacks *)

Depth(t) == Len(frames[t])
Top(t)   == frames[t][Depth(t)]

\* The activations of fs at one of the places in P, over the threads in T.
ActivationsAt(fs, T, P) ==
  {a \in T \X (1..MaxDepth) : a[2] <= Len(fs[a[1]]) /\ fs[a[1]][a[2]].at \in P}

\* Activations whose entry is behind them: those that use the old value.
Occupants(fs) == ActivationsAt(fs, Threads, {"body", "tail", "eoff"})

\* xk_addr_in_span on every frame that stack_trace_save_tsk returns, the
\* innermost ones: soff <= address < eoff.
InSpan(T) ==
  {a \in ActivationsAt(frames, T, {"soff", "body"}) : Len(frames[a[1]]) - a[2] < MaxEntries}

AtProbe(t) == Depth(t) > 0 /\ Top(t).at \in {"soff", "eoff"}

\* stop_machine needs every CPU to reschedule: without preemption it waits for
\* the threads that stand on a probe and for the daemon to give up the CPU.
CPUsYield ==
  \/ Preemptible
  \/ (\A t \in Threads : ~AtProbe(t)) /\ dpc \in {"created", "parked"}

Push(t, s, at) == [frames EXCEPT ![t] = Append(@, [span |-> s, at |-> at])]
Pop(t)         == [frames EXCEPT ![t] = SubSeq(@, 1, Len(@) - 1)]
MoveTop(t, at) == [frames EXCEPT ![t][Depth(t)].at = at]

\* The transition a timestamp belongs to.
Round == IF lpc \in {"idle", "attached", "scanned", "loaded", "exit_wait"} THEN 1 ELSE 2

Report(rev, ok, from, to) == [reverse |-> rev, ok |-> ok, start |-> from, end |-> to]
IsReverse == ds = "REVERSE_PENDING"

----------------------------------------------------------------------------
Init ==
  /\ lpc = "idle" /\ state = "PENDING" /\ refcount = 0
  /\ enabled = FALSE /\ armed = FALSE /\ tstart = 0 /\ tend = 0
  /\ timing = NoReport
  /\ dpc = "none" /\ ds = "PENDING" /\ asleep = FALSE /\ stop = FALSE /\ polls = 0
  /\ frames = [t \in Threads |-> <<>>]
  /\ ending = {} /\ dead = {}
  /\ quiet = FALSE /\ aborted = FALSE

----------------------------------------------------------------------------
(* insmod: consistency_init *)

\* kthread_create (the new thread sleeps until its first wake-up),
\* load_target_spans, xk_attach_aux_kprobes(forward).
Insmod ==
  /\ lpc = "idle"
  /\ lpc' = "attached"
  /\ dpc' = "created" /\ asleep' = TRUE
  /\ state' = "PENDING" /\ refcount' = 0 /\ enabled' = FALSE /\ armed' = TRUE
  /\ UNCHANGED <<tstart, tend, timing, ds, stop, polls, threads, history>>

\* Neither span file can be read: insmod fails, the kthread stays behind.
InsmodNoSpans ==
  /\ lpc = "idle"
  /\ lpc' = "error"
  /\ dpc' = "created" /\ asleep' = TRUE
  /\ UNCHANGED <<state, refcount, enabled, armed, tstart, tend, timing,
                 ds, stop, polls, threads, history>>

\* Mutant: one unit per thread instead of one per activation.
ScanStacksPerThread(visited, whole) ==
  LET found == InSpan(visited) IN
    /\ refcount' = refcount + Cardinality({a[1] : a \in found})
    /\ enabled' = (enabled \/ (whole /\ found # {}))
    /\ tstart' = IF whole /\ found # {} THEN Round ELSE tstart
    /\ aborted' = ~whole

\* stop_machine_check_stacks over the threads in visited.
ScanStacks(visited, whole) ==
  LET found == InSpan(visited) IN
    /\ refcount' = refcount + Cardinality(found)
    /\ enabled' = (enabled \/ (whole /\ found # {}))
    /\ tstart' = IF whole /\ found # {} THEN Round ELSE tstart
    /\ aborted' = ~whole

\* stop_machine: every other CPU is parked while the stacks are walked.  The
\* walk gives up at the first thread whose stack cannot be saved, and a
\* thread that has exited has none.
Scan(from, to) ==
  /\ lpc = from
  /\ CPUsYield
  /\ \/ dead = {} /\ ScanStacks(Threads, TRUE)
     \/ dead # {} /\ \E visited \in SUBSET (Threads \ dead) : ScanStacks(visited, FALSE)
  /\ lpc' = to
  /\ quiet' = (Occupants(frames) = {})
  /\ UNCHANGED <<state, armed, tend, timing, daemon, threads>>

ForwardScan == Scan("attached", "scanned")

\* After the scan: wake the daemon, or finish on the spot.
WakeForward ==
  /\ lpc = "scanned" /\ enabled
  /\ lpc' = "loaded" /\ asleep' = FALSE
  /\ UNCHANGED <<state, refcount, enabled, armed, tstart, tend, timing,
                 dpc, ds, stop, polls, threads, history>>

InstantForward ==
  /\ lpc = "scanned" /\ ~enabled
  /\ timing' = Report(FALSE, TRUE, 1, 1)
  /\ armed' = FALSE /\ state' = "DONE" /\ lpc' = "loaded"
  /\ UNCHANGED <<refcount, enabled, tstart, tend, daemon, threads, history>>

----------------------------------------------------------------------------
(* rmmod: consistency_exit *)

Rmmod ==
  /\ lpc = "loaded"
  /\ lpc' = "exit_wait"
  /\ UNCHANGED <<state, refcount, enabled, armed, tstart, tend, timing,
                 daemon, threads, history>>

\* Mutant: the check for XK_STATE_FAILED is lost.
BeginReverseAnyway ==
  /\ lpc = "exit_wait" /\ state # "PENDING"
  /\ lpc' = "rattached"
  /\ refcount' = 0 /\ enabled' = FALSE /\ armed' = TRUE
  /\ UNCHANGED <<state, tstart, tend, timing, daemon, threads, history>>

\* The spin on PENDING is over; a failed forward transition is not reversed.
BeginReverse ==
  /\ lpc = "exit_wait" /\ state \notin {"PENDING", "FAILED"}
  /\ lpc' = "rattached"
  /\ refcount' = 0 /\ enabled' = FALSE /\ armed' = TRUE
  /\ UNCHANGED <<state, tstart, tend, timing, daemon, threads, history>>

SkipReverse ==
  /\ lpc = "exit_wait" /\ state = "FAILED"
  /\ lpc' = "stop"
  /\ UNCHANGED <<state, refcount, enabled, armed, tstart, tend, timing,
                 daemon, threads, history>>

ReverseScan == Scan("rattached", "rscanned")

SetReversePending ==
  /\ lpc = "rscanned" /\ enabled
  /\ state' = "REVERSE_PENDING" /\ lpc' = "rwake"
  /\ UNCHANGED <<refcount, enabled, armed, tstart, tend, timing, daemon, threads, history>>

\* Mutant: the daemon is left asleep.
WakeReverseForgotten ==
  /\ lpc = "rwake"
  /\ lpc' = "rwait"
  /\ UNCHANGED <<state, refcount, enabled, armed, tstart, tend, timing,
                 daemon, threads, history>>

\* wake_up_process() does nothing to a daemon that is running.
WakeReverse ==
  /\ lpc = "rwake"
  /\ lpc' = "rwait" /\ asleep' = FALSE
  /\ UNCHANGED <<state, refcount, enabled, armed, tstart, tend, timing,
                 dpc, ds, stop, polls, threads, history>>

InstantReverse ==
  /\ lpc = "rscanned" /\ ~enabled
  /\ timing' = Report(TRUE, TRUE, 2, 2)
  /\ armed' = FALSE /\ state' = "REVERSE_DONE" /\ lpc' = "stop"
  /\ UNCHANGED <<refcount, enabled, tstart, tend, daemon, threads, history>>

ReverseOver ==
  /\ lpc = "rwait" /\ state # "REVERSE_PENDING"
  /\ lpc' = "stop"
  /\ UNCHANGED <<state, refcount, enabled, armed, tstart, tend, timing,
                 daemon, threads, history>>

\* kthread_stop: set the flag, wake the daemon, wait for it to exit.
KthreadStop ==
  /\ lpc = "stop"
  /\ lpc' = "stopping" /\ stop' = TRUE /\ asleep' = FALSE
  /\ UNCHANGED <<state, refcount, enabled, armed, tstart, tend, timing,
                 dpc, ds, polls, threads, history>>

\* The daemon is gone, the module's memory with it; a later insmod starts
\* from fresh globals.
Unloaded ==
  /\ lpc = "stopping" /\ dpc = "exited"
  /\ lpc' = "idle" /\ state' = "PENDING" /\ refcount' = 0
  /\ enabled' = FALSE /\ tstart' = 0 /\ tend' = 0
  /\ dpc' = "none" /\ ds' = "PENDING" /\ stop' = FALSE /\ polls' = 0
  /\ UNCHANGED <<armed, timing, asleep, threads, history>>

----------------------------------------------------------------------------
(* transition_daemon *)

\* The first wake-up: kthread() runs the function unless already stopped.
DStart ==
  /\ dpc = "created" /\ ~asleep
  /\ dpc' = IF stop THEN "exited" ELSE "top"
  /\ UNCHANGED <<module, ds, asleep, stop, polls, threads, history>>

\* while (!kthread_should_stop()) { s = get_state(); ...
DTop ==
  /\ dpc = "top"
  /\ IF stop THEN dpc' = "exited" /\ ds' = ds
             ELSE dpc' = "branch" /\ ds' = state
  /\ UNCHANGED <<module, asleep, stop, polls, threads, history>>

DTerminal ==
  /\ dpc = "branch" /\ ds \in Terminal
  /\ dpc' = "park"
  /\ UNCHANGED <<module, ds, asleep, stop, polls, threads, history>>

\* set_current_state(TASK_INTERRUPTIBLE)
DPark ==
  /\ dpc = "park"
  /\ dpc' = "parked" /\ asleep' = TRUE
  /\ UNCHANGED <<module, ds, stop, polls, threads, history>>

\* schedule() returns once the task state is TASK_RUNNING again.
DWoken ==
  /\ dpc = "parked" /\ ~asleep
  /\ dpc' = "top"
  /\ UNCHANGED <<module, ds, asleep, stop, polls, threads, history>>

\* Mutant: the outcome is announced before the probes are detached.
DSeeZeroAnnounces ==
  /\ dpc = "branch" /\ ds \in Pending /\ refcount = 0
  /\ state' = IF IsReverse THEN "REVERSE_DONE" ELSE "DONE"
  /\ timing' = Report(IsReverse, TRUE, tstart, tend)
  /\ dpc' = "clear"
  /\ UNCHANGED <<lpc, refcount, enabled, armed, tstart, tend,
                 ds, asleep, stop, polls, threads, history>>

\* refcount == 0: read both times and write the report.
DSeeZero ==
  /\ dpc = "branch" /\ ds \in Pending /\ refcount = 0
  /\ timing' = Report(IsReverse, TRUE, tstart, tend)
  /\ dpc' = "clear"
  /\ UNCHANGED <<lpc, state, refcount, enabled, armed, tstart, tend,
                 ds, asleep, stop, polls, threads, history>>

DClearTimes ==
  /\ dpc = "clear"
  /\ tstart' = 0 /\ tend' = 0 /\ dpc' = "disarm"
  /\ UNCHANGED <<lpc, state, refcount, enabled, armed, timing,
                 ds, asleep, stop, polls, threads, history>>

\* xk_detach_aux_kprobes: no handler starts after this; the unregistering
\* then waits for the handlers that are running.
DDisarm ==
  /\ dpc \in {"disarm", "expired"}
  /\ armed' = FALSE
  /\ dpc' = IF dpc = "disarm" THEN "drain_done" ELSE "drain_fail"
  /\ UNCHANGED <<lpc, state, refcount, enabled, tstart, tend, timing,
                 ds, asleep, stop, polls, threads, history>>

\* Mutant: the probes are disarmed without waiting for running handlers.
DDoneHasty ==
  /\ dpc = "drain_done"
  /\ state' = IF IsReverse THEN "REVERSE_DONE" ELSE "DONE"
  /\ polls' = 0 /\ dpc' = "park"
  /\ UNCHANGED <<lpc, refcount, enabled, armed, tstart, tend, timing,
                 ds, asleep, stop, threads, history>>

DDone ==
  /\ dpc = "drain_done" /\ ending = {}
  /\ state' = IF IsReverse THEN "REVERSE_DONE" ELSE "DONE"
  /\ polls' = 0 /\ dpc' = "park"
  /\ UNCHANGED <<lpc, refcount, enabled, armed, tstart, tend, timing,
                 ds, asleep, stop, threads, history>>

\* refcount > 0: sleep for one poll interval (the timer ends the sleep).
DWait ==
  /\ dpc = "branch" /\ ds \in Pending /\ refcount > 0
  /\ dpc' = "poll"
  /\ UNCHANGED <<module, ds, asleep, stop, polls, threads, history>>

\* Mutant: the polls are not counted.
DPollUncounted ==
  /\ dpc = "poll" /\ polls + 1 <= MaxPolls
  /\ dpc' = "top"
  /\ UNCHANGED <<module, ds, asleep, stop, polls, threads, history>>

\* The budget is compared without another look at the refcount.
DPoll ==
  /\ dpc = "poll" /\ polls + 1 <= MaxPolls
  /\ polls' = polls + 1 /\ dpc' = "top"
  /\ UNCHANGED <<module, ds, asleep, stop, threads, history>>

DTimeout ==
  /\ dpc = "poll" /\ polls + 1 > MaxPolls
  /\ polls' = polls + 1
  /\ timing' = Report(IsReverse, FALSE, tstart, 0)
  /\ dpc' = "expired"
  /\ UNCHANGED <<lpc, state, refcount, enabled, armed, tstart, tend,
                 ds, asleep, stop, threads, history>>

DFailed ==
  /\ dpc = "drain_fail" /\ ending = {}
  /\ state' = IF IsReverse THEN "REVERSE_FAILED" ELSE "FAILED"
  /\ polls' = 0 /\ dpc' = "top"
  /\ UNCHANGED <<lpc, refcount, enabled, armed, tstart, tend, timing,
                 ds, asleep, stop, threads, history>>

----------------------------------------------------------------------------
(* Threads and the kprobe handlers that run on them *)

CanMove(t) == t \notin ending \union dead

\* Every step of a thread that changes its stack to fs.
Restack(fs) ==
  /\ frames' = fs
  /\ quiet' = (quiet \/ Occupants(fs) = {})
  /\ UNCHANGED <<aborted, dead, daemon, lpc, state, enabled, armed, tstart, tend, timing>>

CanCall(t) ==
  /\ CanMove(t) /\ Depth(t) < MaxDepth
  /\ Depth(t) > 0 => Top(t).at \in {"body", "tail"}

\* The bound on activations that leave without giving their unit back.
MayLeak == enabled /\ armed => refcount <= MaxLeak

Arrive(t, s) ==
  /\ CanCall(t) /\ (s \in NoUnguard => MayLeak)
  /\ Restack(Push(t, s, "soff"))
  /\ UNCHANGED <<refcount, ending>>

EnterSideways(t, s) ==
  /\ s \in SideEntry /\ CanCall(t)
  /\ Restack(Push(t, s, "body"))
  /\ UNCHANGED <<refcount, ending>>

\* Mutant: entries during the wait are not counted.
GuardUncounted(t) ==
  /\ CanMove(t) /\ Depth(t) > 0 /\ Top(t).at = "soff"
  /\ Restack(MoveTop(t, "body"))
  /\ UNCHANGED <<refcount, ending>>

\* handler_guard, then on into the span.
Guard(t) ==
  /\ CanMove(t) /\ Depth(t) > 0 /\ Top(t).at = "soff"
  /\ Restack(MoveTop(t, "body"))
  /\ LET counts == armed /\ enabled /\ Top(t).span \notin NoGuard IN
       /\ refcount' = IF counts /\ refcount > 0 THEN refcount + 1 ELSE refcount
       /\ ending' = IF counts /\ refcount = 0 THEN ending \union {t} ELSE ending

Move(t, from, to, spans) ==
  /\ CanMove(t) /\ Depth(t) > 0 /\ Top(t).at = from /\ Top(t).span \in spans
  /\ Restack(MoveTop(t, to))
  /\ UNCHANGED <<refcount, ending>>

ReachExit(t)    == Move(t, "body", "eoff", Spans)
CallInTail(t)   == Move(t, "body", "tail", TailCall)
ReturnToTail(t) == Move(t, "tail", "eoff", Spans)
JumpBack(t)     == MayLeak /\ Move(t, "body", "soff", BackEdge)

LeaveEarly(t) ==
  /\ CanMove(t) /\ Depth(t) > 0 /\ Top(t).at = "body" /\ Top(t).span \in EarlyExit
  /\ MayLeak
  /\ Restack(Pop(t))
  /\ UNCHANGED <<refcount, ending>>

\* Mutant: only a thread's outermost return gives a unit back.
UnguardOutermost(t) ==
  /\ CanMove(t) /\ Depth(t) > 0 /\ Top(t).at = "eoff"
  /\ Restack(Pop(t))
  /\ LET counts == armed /\ enabled /\ Depth(t) = 1 IN
       /\ refcount' = IF counts /\ refcount > 0 THEN refcount - 1 ELSE refcount
       /\ ending' = IF counts /\ refcount = 1 THEN ending \union {t} ELSE ending

\* handler_unguard: atomic_dec_if_positive, and a record when it reaches 0.
Unguard(t) ==
  /\ CanMove(t) /\ Depth(t) > 0 /\ Top(t).at = "eoff"
  /\ Restack(Pop(t))
  /\ LET counts == armed /\ enabled /\ Top(t).span \notin NoUnguard IN
       /\ refcount' = IF counts /\ refcount > 0 THEN refcount - 1 ELSE refcount
       /\ ending' = IF counts /\ refcount = 1 THEN ending \union {t} ELSE ending

\* xk_record_end_time: cmpxchg64(&t_end, 0, now), after the atomic operation.
RecordEnd(t) ==
  /\ t \in ending
  /\ ending' = ending \ {t}
  /\ tend' = IF tend = 0 THEN Round ELSE tend
  /\ UNCHANGED <<lpc, state, refcount, enabled, armed, tstart, timing,
                 daemon, frames, dead, history>>

Die(t) ==
  /\ t \in Mortal /\ CanMove(t) /\ Depth(t) = 0
  /\ dead' = dead \union {t}
  /\ UNCHANGED <<module, daemon, frames, ending, history>>

Reap(t) ==
  /\ t \in dead
  /\ dead' = dead \ {t}
  /\ UNCHANGED <<module, daemon, frames, ending, history>>

----------------------------------------------------------------------------
LoaderNext ==
  \/ Insmod \/ InsmodNoSpans \/ ForwardScan \/ WakeForward \/ InstantForward
  \/ Rmmod \/ BeginReverse \/ SkipReverse \/ ReverseScan \/ SetReversePending
  \/ WakeReverse \/ InstantReverse \/ ReverseOver \/ KthreadStop \/ Unloaded

DaemonNext ==
  \/ DStart \/ DTop \/ DTerminal \/ DPark \/ DWoken \/ DSeeZero \/ DClearTimes
  \/ DDisarm \/ DDone \/ DWait \/ DPoll \/ DTimeout \/ DFailed

ThreadNext(t) ==
  \/ \E s \in Spans : Arrive(t, s) \/ EnterSideways(t, s)
  \/ Guard(t) \/ ReachExit(t) \/ CallInTail(t) \/ ReturnToTail(t) \/ JumpBack(t)
  \/ LeaveEarly(t) \/ Unguard(t) \/ RecordEnd(t) \/ Die(t) \/ Reap(t)

Next == LoaderNext \/ DaemonNext \/ \E t \in Threads : ThreadNext(t)

Spec == Init /\ [][Next]_vars

\* The scheduler runs the daemon and an insmod or rmmod that has begun (not
\* the decision to begin one), and a probe handler always finishes.  Threads
\* may stay inside a span for ever: that is what the timeout is for.
Started == LoaderNext /\ lpc \notin {"idle", "loaded"}
Fairness ==
  /\ WF_vars(DaemonNext)
  /\ WF_vars(Started)
  /\ \A t \in Threads : WF_vars(RecordEnd(t))

FairSpec == Spec /\ Fairness

----------------------------------------------------------------------------
(* Properties *)

\* Nothing takes a unit of the count it did not put in: spans have one entry
\* and it is probed, no activation hides behind a return address equal to
\* eoff or below the part of a stack the scan sees, and the scan never meets
\* a thread standing on a probe.
NoStealing ==
  /\ TailCall = {} /\ SideEntry = {} /\ NoGuard = {}
  /\ MaxDepth <= MaxEntries
  /\ ~Preemptible

\* Every activation gives back the unit it put in: control leaves a span only
\* at eoff, does not enter it again from within, and the way out is probed.
NoLeaking == EarlyExit = {} /\ BackEdge = {} /\ NoUnguard = {}

\* No thread exits: every scan reaches the last thread.
NoDeaths == Mortal = {}

\* The state word tells the outcome of the latest scan.
Announced ==
  \/ state = "DONE" /\ lpc \in {"loaded", "exit_wait", "rattached"}
  \/ state = "REVERSE_DONE"

\* A transition announced as done was preceded, since its scan, by a moment
\* at which no thread was inside any safe span.  A scan that met a thread
\* without a stack is left out here: see AnnouncedIsQuiet.
DoneIsQuiet == Announced /\ ~aborted => quiet

\* The same promise for every announcement, the "instant" ones included
\* (the comment in stop_machine_check_stacks: no wait means no thread in SS).
AnnouncedIsQuiet == Announced => quiet

\* While handlers count, the count never drops below the activations that
\* are inside, until it reaches zero, which happens only at a quiet moment.
RefcountCovers ==
  enabled /\ armed =>
    IF refcount = 0 THEN quiet
    ELSE Cardinality(Occupants(frames)) <= refcount

\* The symmetry check_task_in_spans relies on: one unit per activation, given
\* back when it leaves, also for recursion and for entries during the wait.
RefcountExact ==
  enabled /\ armed /\ refcount > 0 =>
    refcount = Cardinality(Occupants(frames))

\* The daemon detaches before it announces: from the scan that enabled the
\* handlers to the daemon's verdict the probes are never taken away.
ArmedUntilDecided ==
  /\ enabled /\ state \in Pending /\ dpc \notin {"drain_done", "drain_fail"} => armed
  /\ lpc \in {"rattached", "rscanned"} =>
       armed /\ dpc \notin {"clear", "disarm", "expired", "drain_done", "drain_fail"}

\* When the module's memory is released no probe, no handler in flight and no
\* daemon can still run its code.
UnloadIsClean == lpc = "idle" => ~armed /\ ending = {} /\ dpc = "none"

\* A report of a finished transition carries the time at which its count
\* reached zero (the smp_rmb comment in transition_daemon)...
EndRecorded == timing.ok => timing.end # 0

\* ...and not the time of an earlier transition.
EndOfThisTransition == timing.ok => timing.end \in {0, timing.start}

\* Once the daemon has been woken for the forward transition, it ends: the
\* count reaches zero or the poll budget is spent, wherever the threads are.
ForwardResolves == (lpc = "loaded" /\ state = "PENDING") ~> (state # "PENDING")

\* "Same protocol" for rmmod: a reverse transition ends as well.
ReverseResolves == (state = "REVERSE_PENDING") ~> (state # "REVERSE_PENDING")

\* In a terminal state the daemon sleeps until kthread_stop(), and no longer.
DaemonStops == (lpc = "stopping") ~> (dpc = "exited")

----------------------------------------------------------------------------
(* The inductive invariants behind the safety properties *)

Draining == dpc \in {"drain_done", "drain_fail"}

\* The daemon is dealing with a transition it has seen pending.
Working ==
  \/ dpc \in {"clear", "disarm", "drain_done", "poll", "expired", "drain_fail"}
  \/ dpc = "branch" /\ ds \in Pending

\* Who may touch what: where insmod or rmmod stands tells the possible states,
\* and the daemon works only while the state is pending.
Control ==
  /\ lpc = "idle" <=> dpc = "none"
  /\ lpc \in {"attached", "scanned", "error"} => dpc = "created" /\ asleep
  /\ lpc \in {"idle", "attached", "scanned", "error"} => state = "PENDING"
  /\ lpc \in {"idle", "error", "attached", "rattached"} => ~enabled /\ refcount = 0
  /\ lpc \in {"attached", "scanned", "rattached", "rscanned"} => armed
  /\ lpc \in {"idle", "error"} => ~armed
  /\ lpc \in {"loaded", "exit_wait"} => state \in {"PENDING", "DONE", "FAILED"}
  /\ lpc \in {"rattached", "rscanned"} => state = "DONE"
  /\ lpc \in {"rwake", "rwait"} =>
       state \in {"REVERSE_PENDING", "REVERSE_DONE", "REVERSE_FAILED"}
  /\ lpc \in {"stop", "stopping"} => state \in {"FAILED", "REVERSE_DONE", "REVERSE_FAILED"}
  /\ stop => lpc = "stopping"
  /\ Working => ds = state /\ state \in Pending
  /\ state \in Pending /\ lpc \notin {"idle", "error", "attached", "scanned"} =>
       enabled /\ (armed \/ Draining)
  /\ state \in Terminal /\ armed => lpc \in {"rattached", "rscanned"}
  /\ Draining => ~armed
  /\ ~armed /\ ending # {} => Draining
  /\ ending # {} => enabled

\* A frame below another one is inside its span, not at one of its ends.
OnlyTopMoves ==
  \A t \in Threads : \A i \in 1..Len(frames[t]) :
    /\ frames[t][i].at # "tail"
    /\ i < Len(frames[t]) => frames[t][i].at = "body"

\* Everything that lets the daemon or an instant transition announce.
Counting ==
  /\ OnlyTopMoves
  /\ RefcountCovers
  /\ dpc \in {"clear", "disarm", "drain_done"} => quiet
  /\ lpc \in {"scanned", "rscanned"} /\ ~enabled /\ ~aborted => quiet
  /\ DoneIsQuiet

\* The module as the abstract transition: a phase begins with its scan.
Phase ==
  CASE lpc \in {"idle", "error", "attached"} -> "IDLE"
    [] lpc = "rscanned" -> "REVERSE_PENDING"
    [] OTHER -> state

Abstract == INSTANCE QuietPoint WITH
  Activations <- Threads \X (1..MaxDepth),
  phase       <- Phase,
  occupants   <- Occupants(frames),
  quiet       <- quiet

\* The module implements QuietPoint when nothing steals and no thread dies.
ImplementsQuietPoint == Abstract!Spec
=============================================================================
