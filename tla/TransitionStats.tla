--------------------------- MODULE TransitionStats ---------------------------
(***************************************************************************)
(* The latency statistics of per-task mode: a cell shared by all threads   *)
(* that the guard handler updates when a thread has passed its check, and  *)
(* `xkernel-tool transition-stats`, which reads it meanwhile.              *)
(*                                                                         *)
(* Handlers run on many processors at once.  Each addition and each swap   *)
(* is atomic; what a handler does from one to the next is not.  The clock  *)
(* is external: a latency is any of Latencies.                             *)
(***************************************************************************)
EXTENDS Naturals, FiniteSetsExt

CONSTANTS
  Threads,
  Latencies,   \* time from a thread's first check to the one it passes
  MaxEpoch     \* bound: how often xk_epoch is bumped (unload does it once)

ASSUME StatsAssumption ==
  IsFiniteSet(Threads) /\ Latencies \subseteq Nat \ {0} /\ MaxEpoch \in Nat

VARIABLES
  epoch,      \* xk_epoch
  storage,    \* task_storage: ended is transition_end # 0
  pc, lat,    \* a handler that is updating the cell, and its latency_ns
  old,        \* its old_min or old_max
  cell,       \* transition_stats_map
  row, shown, \* the report: the field it reads next, and what it has read
  log,        \* history: the latency of every thread and epoch that has passed
  overlap     \* history: two handlers have updated the cell at the same time

handler == <<epoch, storage, pc, lat, old, cell, log, overlap>>
vars    == <<handler, row, shown>>

Zero == [min |-> 0, max |-> 0, total |-> 0, count |-> 0]

Init ==
  /\ epoch = 0 /\ storage = [t \in Threads |-> [done |-> FALSE, ended |-> FALSE, epoch |-> 0]]
  /\ pc = [t \in Threads |-> "out"] /\ lat = [t \in Threads |-> 0] /\ old = [t \in Threads |-> 0]
  /\ cell = Zero /\ row = 0 /\ shown = Zero
  /\ log = {} /\ overlap = FALSE

----------------------------------------------------------------------------
(* The handler *)

\* Mutant: a new epoch does not clear the end of the last transition.
CurrentKeepsEnd(t) == [storage[t] EXCEPT !.done = @ /\ storage[t].epoch = epoch, !.epoch = epoch]

\* What a new epoch leaves of a thread's data.
Current(t) == IF storage[t].epoch = epoch THEN storage[t]
              ELSE [done |-> FALSE, ended |-> FALSE, epoch |-> epoch]

\* Mutant: whoever is safe is counted, also when it has passed before.
GuardCountsAll(t) ==
  /\ pc[t] = "out"
  /\ \E safe \in BOOLEAN, ns \in Latencies :
       LET data   == Current(t)
           passes == ~data.done /\ safe
       IN /\ storage' = [storage EXCEPT ![t] =
               [data EXCEPT !.done = @ \/ safe, !.ended = @ \/ passes]]
          /\ log' = IF passes THEN log \cup {[thread |-> t, epoch |-> epoch, ns |-> ns]} ELSE log
          /\ pc' = IF safe THEN [pc EXCEPT ![t] = "count"] ELSE pc
          /\ lat' = IF safe THEN [lat EXCEPT ![t] = ns] ELSE lat
          /\ overlap' = (overlap \/ (safe /\ \E u \in Threads : pc[u] # "out"))
  /\ UNCHANGED <<epoch, old, cell, row, shown>>

\* A thread meets a guard; ss_guard_handler checks its stack unless it has
\* passed in this epoch.
Guard(t) ==
  /\ pc[t] = "out"
  /\ \E safe \in BOOLEAN, ns \in Latencies :
       LET data   == Current(t)
           passes == ~data.done /\ safe
           counts == passes /\ ~data.ended
       IN /\ storage' = [storage EXCEPT ![t] =
               [data EXCEPT !.done = @ \/ safe, !.ended = @ \/ passes]]
          /\ log' = IF passes THEN log \cup {[thread |-> t, epoch |-> epoch, ns |-> ns]} ELSE log
          /\ pc' = IF counts THEN [pc EXCEPT ![t] = "count"] ELSE pc
          /\ lat' = IF counts THEN [lat EXCEPT ![t] = ns] ELSE lat
          /\ overlap' = (overlap \/ (counts /\ \E u \in Threads : pc[u] # "out"))
  /\ UNCHANGED <<epoch, old, cell, row, shown>>

AddCount(t) ==
  /\ pc[t] = "count" /\ pc' = [pc EXCEPT ![t] = "total"]
  /\ cell' = [cell EXCEPT !.count = @ + 1]
  /\ UNCHANGED <<epoch, storage, lat, old, row, shown, log, overlap>>

AddTotal(t) ==
  /\ pc[t] = "total" /\ pc' = [pc EXCEPT ![t] = "read min"]
  /\ cell' = [cell EXCEPT !.total = @ + lat[t]]
  /\ UNCHANGED <<epoch, storage, lat, old, row, shown, log, overlap>>

\* Mutant: a cell that has not been set is no larger than any latency.
ReadMinUnset(t) ==
  /\ pc[t] = "read min"
  /\ old' = [old EXCEPT ![t] = cell.min]
  /\ pc' = [pc EXCEPT ![t] = IF lat[t] < cell.min THEN "swap min" ELSE "read max"]
  /\ UNCHANGED <<epoch, storage, lat, cell, row, shown, log, overlap>>

ReadMin(t) ==
  /\ pc[t] = "read min"
  /\ old' = [old EXCEPT ![t] = cell.min]
  /\ pc' = [pc EXCEPT ![t] = IF cell.min = 0 \/ lat[t] < cell.min THEN "swap min" ELSE "read max"]
  /\ UNCHANGED <<epoch, storage, lat, cell, row, shown, log, overlap>>

\* Mutant: a store in place of the compare-and-swap.
StoreMin(t) ==
  /\ pc[t] = "swap min" /\ pc' = [pc EXCEPT ![t] = "read max"]
  /\ cell' = [cell EXCEPT !.min = lat[t]]
  /\ UNCHANGED <<epoch, storage, lat, old, row, shown, log, overlap>>

\* __sync_val_compare_and_swap, whose failure nobody notices.
SwapMin(t) ==
  /\ pc[t] = "swap min" /\ pc' = [pc EXCEPT ![t] = "read max"]
  /\ cell' = [cell EXCEPT !.min = IF @ = old[t] THEN lat[t] ELSE @]
  /\ UNCHANGED <<epoch, storage, lat, old, row, shown, log, overlap>>

ReadMax(t) ==
  /\ pc[t] = "read max"
  /\ old' = [old EXCEPT ![t] = cell.max]
  /\ pc' = [pc EXCEPT ![t] = IF lat[t] > cell.max THEN "swap max" ELSE "out"]
  /\ UNCHANGED <<epoch, storage, lat, cell, row, shown, log, overlap>>

SwapMax(t) ==
  /\ pc[t] = "swap max" /\ pc' = [pc EXCEPT ![t] = "out"]
  /\ cell' = [cell EXCEPT !.max = IF @ = old[t] THEN lat[t] ELSE @]
  /\ UNCHANGED <<epoch, storage, lat, old, row, shown, log, overlap>>

\* bump_epoch; the guards stay armed for the grace period after it.
BumpEpoch ==
  /\ epoch < MaxEpoch /\ epoch' = epoch + 1
  /\ UNCHANGED <<storage, pc, lat, old, cell, row, shown, log, overlap>>

----------------------------------------------------------------------------
(* The report *)

\* Mutant: the fields in another order.
CountFirst == <<"count", "min", "max", "total">>

\* The kernel copies the cell word by word.
Layout == <<"min", "max", "total", "count">>

Report ==
  /\ row < 4 /\ row' = row + 1
  /\ shown' = [shown EXCEPT ![Layout[row + 1]] = cell[Layout[row + 1]]]
  /\ UNCHANGED handler

NewReport ==
  /\ row = 4 /\ row' = 0 /\ shown' = Zero
  /\ UNCHANGED handler

Next ==
  \/ \E t \in Threads : \/ Guard(t) \/ AddCount(t) \/ AddTotal(t)
                        \/ ReadMin(t) \/ SwapMin(t) \/ ReadMax(t) \/ SwapMax(t)
  \/ BumpEpoch \/ Report \/ NewReport

Spec == Init /\ [][Next]_vars

----------------------------------------------------------------------------
Steps == {"out", "count", "total", "read min", "swap min", "read max", "swap max"}

\* The types of the variables; the extremes are latencies that have occurred.
TypeOK ==
  LET seen == {0} \cup {e.ns : e \in log}
  IN /\ epoch \in 0..MaxEpoch
     /\ storage \in [Threads -> [done : BOOLEAN, ended : BOOLEAN, epoch : 0..MaxEpoch]]
     /\ pc \in [Threads -> Steps] /\ lat \in [Threads -> seen] /\ old \in [Threads -> seen]
     /\ log \subseteq [thread : Threads, epoch : 0..MaxEpoch, ns : Latencies]
     /\ overlap \in BOOLEAN /\ row \in 0..4
     /\ cell \in [min : seen, max : seen, total : Nat, count : Nat]
     /\ shown \in [min : seen, max : seen, total : Nat, count : Nat]

Pending(steps) == {t \in Threads : pc[t] \in steps}

\* Every thread is counted once in every epoch in which it passed, with its
\* latency, or its handler is about to.
CountedOnce ==
  /\ \A d, e \in log : d.thread = e.thread /\ d.epoch = e.epoch => d = e
  /\ cell.count + Cardinality(Pending({"count"})) = Cardinality(log)
  /\ cell.total + MapThenSumSet(LAMBDA t : lat[t], Pending({"count", "total"}))
       = MapThenSumSet(LAMBDA e : e.ns, log)

\* What the cell says never gets worse, however the handlers run into each other.
ExtremesOnlyImprove ==
  [][(cell.min # 0 => cell'.min <= cell.min) /\ cell.max <= cell'.max]_vars

\* When no two handlers have met, the extremes are exact.
AloneExact ==
  ~overlap /\ Pending(Steps \ {"out"}) = {} /\ log # {} =>
    /\ cell.min = Min({e.ns : e \in log})
    /\ cell.max = Max({e.ns : e \in log})

\* The average a report shows is no larger than the largest latency there was.
AverageInRange ==
  row = 4 => shown.total <= Max({0} \cup {e.ns : e \in log}) * shown.count

\* The comments of the cell (xkernel.bpf.h:45): the minimum and maximum observed.
ExtremesExact ==
  Pending(Steps \ {"out"}) = {} /\ log # {} =>
    /\ cell.min = Min({e.ns : e \in log})
    /\ cell.max = Max({e.ns : e \in log})

----------------------------------------------------------------------------
(* The inductive invariants behind them *)

Seen == {0} \cup {e.ns : e \in log}

\* A thread's entries are of epochs up to its own, and of its own only once
\* it is done; done and ended are set together.
Logged ==
  /\ IsFiniteSet(log)
  /\ \A t \in Threads : storage[t].epoch <= epoch /\ (storage[t].ended => storage[t].done)
  /\ \A e \in log : /\ e.epoch <= storage[e.thread].epoch
                    /\ e.epoch = storage[e.thread].epoch => storage[e.thread].done

\* Until two handlers meet, only the running one's latency can be missing
\* from the extremes, and what it has read is still there when it swaps.
Alone ==
  ~overlap =>
    /\ \A t, u \in Threads : pc[t] # "out" /\ pc[u] # "out" => t = u
    /\ \A t \in Threads :
         /\ pc[t] # "out" => lat[t] \in Seen \ {0}
         /\ pc[t] = "swap min" => old[t] = cell.min
         /\ pc[t] = "swap max" => old[t] = cell.max
    /\ \A x \in Seen \ {0} :
         /\ \/ cell.min # 0 /\ cell.min <= x
            \/ \E t \in Pending({"count", "total", "read min", "swap min"}) : x = lat[t]
         /\ x <= cell.max \/ \E t \in Pending(Steps \ {"out"}) : x = lat[t]

\* The total lags behind the count, in the cell and in what a report has read.
Average ==
  /\ \E k \in Nat : /\ cell.count = k + Cardinality(Pending({"total"}))
                    /\ cell.total <= Max(Seen) * k
  /\ row = 3 => shown.total <= Max(Seen) * cell.count
  /\ row = 4 => shown.total <= Max(Seen) * shown.count
=============================================================================
