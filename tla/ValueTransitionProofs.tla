------------------------ MODULE ValueTransitionProofs ------------------------
(***************************************************************************)
(* What holds of the value a thread sees for any threads, spans, stack     *)
(* depths, modes and failures.                                             *)
(***************************************************************************)
EXTENDS ValueTransition, SpanSearch, TLAPS

Late == {"epoch", "grace", "unloaded"}

\* What the proof needs to know of the state's types.
Shape ==
  /\ pc \in Steps
  /\ frames \in [Threads -> Seq(Frames)]
  /\ storage \in [Threads -> [done : BOOLEAN, epoch : Nat]]

\* Where the loader stands bounds what it has done to the flags.
Control ==
  /\ pc \in {"idle", "mode"} => ~active
  /\ pc \notin {"grace", "unloaded"} => epoch = 0 /\ \A t \in Threads : storage[t].epoch = 0
  /\ epoch \in Nat

HasNew(t) == \E i \in DOMAIN frames[t] : frames[t][i].value = "new"

\* Until the reverse transition, a thread with a frame that works with the new
\* value would be given the new value again.
Kept ==
  pc \notin Late => \A t \in Threads : HasNew(t) => attached /\ TransitionDone(t)

Invariant == Shape /\ Control /\ Kept

----------------------------------------------------------------------------
(* One lemma per actor *)

\* A handler leaves a well-formed storage, and what is done in this epoch done.
LEMMA GuardStep ==
  ASSUME Shape, Control, NEW t \in Threads, Guard(t)
  PROVE  /\ storage' \in [Threads -> [done : BOOLEAN, epoch : Nat]]
         /\ epoch = 0 => \A u \in Threads : storage[u].epoch = 0 =>
              storage'[u].epoch = 0 /\ (storage[u].done => storage'[u].done)
<1>1. CASE storage' = storage BY <1>1 DEF Shape
<1>2. CASE \E answer \in BOOLEAN :
             storage' = [storage EXCEPT ![t] =
               [done |-> (@.done /\ @.epoch = epoch) \/ answer, epoch |-> epoch]]
  <2>1. PICK answer \in BOOLEAN :
          storage' = [storage EXCEPT ![t] =
            [done  |-> (storage[t].done /\ storage[t].epoch = epoch) \/ answer,
             epoch |-> epoch]]
    BY <1>2
  <2>2. epoch \in Nat BY DEF Control
  <2>3. storage[t].done \in BOOLEAN BY DEF Shape
  <2> DEFINE d == (storage[t].done /\ storage[t].epoch = epoch) \/ answer
  <2>4. d \in BOOLEAN BY <2>3
  <2>5. storage[t].done /\ storage[t].epoch = epoch => d OBVIOUS
  <2>6. storage' = [storage EXCEPT ![t] = [done |-> d, epoch |-> epoch]] BY <2>1
  <2> HIDE DEF d
  <2>7. storage' \in [Threads -> [done : BOOLEAN, epoch : Nat]]
    BY <2>2, <2>4, <2>6 DEF Shape
  <2>8. ASSUME epoch = 0, NEW u \in Threads, storage[u].epoch = 0
        PROVE  storage'[u].epoch = 0 /\ (storage[u].done => storage'[u].done)
    <3>1. CASE u = t
      <4>1. storage'[u].epoch = epoch /\ storage'[u].done = d
        BY <2>6, <3>1 DEF Shape
      <4> QED BY <2>5, <2>8, <3>1, <4>1
    <3>2. CASE u # t BY <2>6, <2>8, <3>2 DEF Shape
    <3> QED BY <3>1, <3>2
  <2> QED BY <2>7, <2>8
<1> QED BY <1>1, <1>2 DEF Guard, Check

LEMMA ThreadStep ==
  ASSUME Invariant, NEW t \in Threads, Thread(t)
  PROVE  Invariant'
<1>1. /\ Shape /\ Control /\ Kept BY DEF Invariant
<1>2. CASE Call(t)
  <2>1. frames' = [frames EXCEPT ![t] = Append(@, [span |-> 0, value |-> "none"])]
    BY <1>2 DEF Call
  <2>2. [span |-> 0, value |-> "none"] \in Frames BY DEF Frames, Values
  <2>3. Shape' BY <1>1, <1>2, <2>1, <2>2 DEF Shape, Call, loader
  <2>4. Control' BY <1>1, <1>2 DEF Control, Call, loader, flags
  <2>5. \A u \in Threads : HasNew(u)' => HasNew(u)
    BY <1>1, <2>1 DEF HasNew, Shape
  <2>6. Kept' BY <1>1, <1>2, <2>5 DEF Kept, TransitionDone, Call, loader, flags
  <2> QED BY <2>3, <2>4, <2>6 DEF Invariant
<1>3. ASSUME NEW s \in DOMAIN SafeSpans, Enter(t, s) PROVE Invariant'
  <2>1. frames' = [frames EXCEPT ![t] = Append(@, [span |-> s, value |-> "none"])]
    BY <1>3 DEF Enter
  <2>2. [span |-> s, value |-> "none"] \in Frames
    BY TransitionAssumption DEF Frames, Values
  <2>3. Guard(t) BY <1>3 DEF Enter
  <2>4. Shape' BY <1>1, <1>3, <2>1, <2>2, <2>3, GuardStep DEF Shape, Enter, loader
  <2>5. Control' BY <1>1, <1>3, <2>3, GuardStep DEF Control, Enter, loader, flags
  <2>6. \A u \in Threads : HasNew(u)' => HasNew(u)
    BY <1>1, <2>1 DEF HasNew, Shape
  <2>7. \A u \in Threads : pc \notin Late /\ storage[u].done => storage'[u].done
    BY <1>1, <2>3, GuardStep DEF Control, Late
  <2>8. Kept'
    BY <1>1, <1>3, <2>6, <2>7 DEF Kept, TransitionDone, Enter, loader, flags
  <2> QED BY <2>4, <2>5, <2>8 DEF Invariant
<1>4. CASE Use(t)
  <2> DEFINE n == Len(frames[t])
             v == IF attached /\ TransitionDone(t) THEN "new" ELSE "old"
             open == {i \in 1..n : frames[t][i].span # 0}
             g == [i \in 1..n |-> IF i \in open THEN [frames[t][i] EXCEPT !.value = v]
                                  ELSE frames[t][i]]
  <2>1. frames' = [frames EXCEPT ![t] = g] BY <1>4 DEF Use
  <2>2. n \in Nat /\ \A i \in 1..n : frames[t][i] \in Frames BY <1>1 DEF Shape
  <2>3. \A i \in 1..n : [frames[t][i] EXCEPT !.value = v] \in Frames
    BY <2>2 DEF Frames, Values
  <2>4. g \in Seq(Frames) BY <2>2, <2>3
  <2>5. \A i \in 1..n : g[i].value = "new" => v = "new" \/ frames[t][i].value = "new"
    BY <2>2 DEF Frames
  <2>6. DOMAIN g = 1..n /\ DOMAIN frames[t] = 1..n BY <1>1 DEF Shape
  <2>7. v = "new" => attached /\ TransitionDone(t) OBVIOUS
  <2> HIDE DEF n, v, open, g
  <2>8. Shape' BY <1>1, <1>4, <2>1, <2>4 DEF Shape, Use, loader
  <2>9. Control' BY <1>1, <1>4 DEF Control, Use, loader, flags
  <2>10. \A u \in Threads : HasNew(u)' => HasNew(u) \/ (attached /\ TransitionDone(u))
    <3> TAKE u \in Threads
    <3>1. CASE u = t
      <4>1. frames'[u] = g BY <1>1, <2>1, <3>1 DEF Shape
      <4> QED BY <2>5, <2>6, <2>7, <3>1, <4>1 DEF HasNew
    <3>2. CASE u # t BY <1>1, <2>1, <3>2 DEF Shape, HasNew
    <3> QED BY <3>1, <3>2
  <2>11. Kept'
    BY <1>1, <1>4, <2>10 DEF Kept, TransitionDone, Use, loader, flags
  <2> QED BY <2>8, <2>9, <2>11 DEF Invariant
<1>5. CASE Return(t)
  <2> DEFINE q == SubSeq(frames[t], 1, Len(frames[t]) - 1)
  <2>1. frames' = [frames EXCEPT ![t] = q] BY <1>5 DEF Return
  <2>2. frames[t] \in Seq(Frames) /\ frames[t] # <<>> BY <1>1, <1>5 DEF Shape, Return
  <2>3. q \in Seq(Frames) BY <2>2
  <2>4. \A i \in DOMAIN q : i \in DOMAIN frames[t] /\ q[i] = frames[t][i] BY <2>2
  <2> HIDE DEF q
  <2>5. Shape' BY <1>1, <1>5, <2>1, <2>3 DEF Shape, Return, loader
  <2>6. Control' BY <1>1, <1>5 DEF Control, Return, loader, flags
  <2>7. \A u \in Threads : HasNew(u)' => HasNew(u)
    <3> TAKE u \in Threads
    <3>1. CASE u = t
      <4>1. frames'[u] = q BY <1>1, <2>1, <3>1 DEF Shape
      <4> QED BY <2>4, <3>1, <4>1 DEF HasNew
    <3>2. CASE u # t BY <1>1, <2>1, <3>2 DEF Shape, HasNew
    <3> QED BY <3>1, <3>2
  <2>8. Kept' BY <1>1, <1>5, <2>7 DEF Kept, TransitionDone, Return, loader, flags
  <2> QED BY <2>5, <2>6, <2>8 DEF Invariant
<1> QED BY <1>2, <1>3, <1>4, <1>5 DEF Thread

LEMMA LoadStep ==
  ASSUME Invariant, Load
  PROVE  Invariant'
<1>1. Shape /\ Control /\ Kept BY DEF Invariant
<1>2. storage' = storage /\ frames' = frames
  BY DEF Load, Attach, SetMode, WriteCsLen, WriteCs, WriteSsLen, WriteSs, Announced,
         TimedOut, Activate, Deactivate, BumpEpoch, Unload
<1>3. pc' \in Steps
  BY DEF Load, Attach, SetMode, WriteCsLen, WriteCs, WriteSsLen, WriteSs, Announced,
         TimedOut, Activate, Deactivate, BumpEpoch, Unload, Steps, AfterSpans
<1>4. Shape' BY <1>1, <1>2, <1>3 DEF Shape
<1>5. \A u \in Threads : HasNew(u)' <=> HasNew(u) BY <1>2 DEF HasNew
<1>6. CASE Attach
  <2>1. Control' BY <1>1, <1>2, <1>6 DEF Control, Attach
  <2>2. Kept' BY <1>1, <1>2, <1>5, <1>6 DEF Kept, TransitionDone, Attach, Late
  <2> QED BY <1>4, <2>1, <2>2 DEF Invariant
<1>7. CASE SetMode
  <2>1. Control' BY <1>1, <1>2, <1>7 DEF Control, SetMode
  <2>2. \A u \in Threads : ~HasNew(u)
    BY <1>1, <1>7 DEF Kept, Control, TransitionDone, SetMode, Late
  <2>3. Kept' BY <1>5, <2>2 DEF Kept
  <2> QED BY <1>4, <2>1, <2>3 DEF Invariant
<1>8. CASE WriteCsLen \/ WriteCs \/ WriteSsLen \/ WriteSs \/ Announced \/ TimedOut
  <2>1. UNCHANGED flags /\ pc \notin Late /\ pc' \notin Late
        /\ pc' \notin {"idle", "mode", "grace", "unloaded"}
        /\ pc \notin {"grace", "unloaded"}
    BY <1>8 DEF WriteCsLen, WriteCs, WriteSsLen, WriteSs, Announced, TimedOut,
                AfterSpans, Late, flags
  <2>2. Control' BY <1>1, <1>2, <2>1 DEF Control, flags
  <2>3. Kept' BY <1>1, <1>2, <1>5, <2>1 DEF Kept, TransitionDone, flags
  <2> QED BY <1>4, <2>2, <2>3 DEF Invariant
<1>9. CASE Activate
  <2>1. Control' BY <1>1, <1>2, <1>9 DEF Control, Activate
  <2>2. active => active' BY <1>9 DEF Activate, Update
  <2>3. Kept' BY <1>1, <1>2, <1>5, <1>9, <2>2 DEF Kept, TransitionDone, Activate, Late
  <2> QED BY <1>4, <2>1, <2>3 DEF Invariant
<1>10. CASE Deactivate
  <2>1. Control' BY <1>1, <1>2, <1>10 DEF Control, Deactivate
  <2>2. pc' \in Late BY <1>10 DEF Deactivate, Late
  <2> QED BY <1>4, <2>1, <2>2 DEF Invariant, Kept
<1>11. CASE BumpEpoch
  <2>1. epoch' \in Nat BY <1>1, <1>11 DEF Control, BumpEpoch, Update
  <2>2. pc' = "grace" BY <1>11 DEF BumpEpoch
  <2> QED BY <1>4, <2>1, <2>2 DEF Invariant, Control, Kept, Late
<1>12. CASE Unload
  <2>1. pc' = "unloaded" /\ epoch' = epoch BY <1>12 DEF Unload
  <2> QED BY <1>1, <1>4, <2>1 DEF Invariant, Control, Kept, Late
<1> QED BY <1>6, <1>7, <1>8, <1>9, <1>10, <1>11, <1>12 DEF Load

LEMMA InvariantHolds == Spec => []Invariant
<1>1. Init => Invariant
  <2> SUFFICES ASSUME Init PROVE Invariant OBVIOUS
  <2>1. Shape BY DEF Init, Shape, Steps
  <2>2. Control BY DEF Init, Control
  <2>3. \A t \in Threads : ~HasNew(t) BY DEF Init, HasNew
  <2> QED BY <2>1, <2>2, <2>3 DEF Invariant, Kept
<1>2. Invariant /\ [Next]_vars => Invariant'
  <2> SUFFICES ASSUME Invariant, [Next]_vars PROVE Invariant' OBVIOUS
  <2>1. CASE UNCHANGED vars
    BY <2>1 DEF vars, loader, tables, flags, Invariant, Shape, Control, Kept, HasNew,
                TransitionDone
  <2> QED BY <2>1, LoadStep, ThreadStep DEF Next
<1> QED BY <1>1, <1>2, PTL DEF Spec

----------------------------------------------------------------------------
\* In every mode, and with any update or stack walk failing, a thread that works
\* with the new value is given the old one only once the reverse transition runs.
THEOREM NewIsKeptTheorem == Spec => NewIsKept
<1> DEFINE Step == \A t \in Threads : \A i \in DOMAIN frames[t] \cap DOMAIN frames'[t] :
                     frames[t][i].value = "new" /\ frames'[t][i].value = "old"
                       => pc \in {"epoch", "grace", "unloaded"}
<1>1. Invariant /\ [Next]_vars => Step
  <2> SUFFICES ASSUME Invariant, [Next]_vars, NEW u \in Threads,
                      NEW i \in DOMAIN frames[u] \cap DOMAIN frames'[u],
                      frames[u][i].value = "new", frames'[u][i].value = "old",
                      pc \notin Late
               PROVE  FALSE
    BY DEF Late
  <2>1. frames \in [Threads -> Seq(Frames)] BY DEF Invariant, Shape
  <2>2. attached /\ TransitionDone(u) BY DEF Invariant, Kept, HasNew
  <2>3. frames' # frames OBVIOUS
  <2>4. ~Load /\ ~UNCHANGED vars
    BY <2>3 DEF Load, Attach, SetMode, WriteCsLen, WriteCs, WriteSsLen, WriteSs, vars,
         Announced, TimedOut, Activate, Deactivate, BumpEpoch, Unload
  <2>5. PICK t \in Threads : Thread(t) BY <2>4 DEF Next
  <2>6. CASE Call(t)
    BY <2>1, <2>6 DEF Call
  <2>7. CASE \E s \in DOMAIN SafeSpans : Enter(t, s)
    BY <2>1, <2>7 DEF Enter
  <2>8. CASE Use(t)
    <3> DEFINE n == Len(frames[t])
               v == IF attached /\ TransitionDone(t) THEN "new" ELSE "old"
               open == {j \in 1..n : frames[t][j].span # 0}
               g == [j \in 1..n |-> IF j \in open THEN [frames[t][j] EXCEPT !.value = v]
                                    ELSE frames[t][j]]
    <3>1. frames' = [frames EXCEPT ![t] = g] BY <2>8 DEF Use
    <3>2. CASE u = t
      <4>1. frames'[u] = g BY <2>1, <3>1, <3>2
      <4>2. v = "new" BY <2>2, <3>2
      <4>3. \A j \in 1..n : frames[t][j] \in Frames BY <2>1
      <4>4. i \in 1..n BY <2>1, <3>2
      <4>5. g[i].value = "new" BY <3>2, <4>2, <4>3, <4>4 DEF Frames
      <4> QED BY <4>1, <4>5
    <3>3. CASE u # t
      <4>1. frames'[u] = frames[u] BY <2>1, <3>1, <3>3
      <4> QED BY <4>1
    <3> QED BY <3>2, <3>3
  <2>9. CASE Return(t)
    BY <2>1, <2>9 DEF Return
  <2> QED BY <2>5, <2>6, <2>7, <2>8, <2>9 DEF Thread
<1>2. Invariant /\ [Next]_vars => [Step]_vars BY <1>1
<1> QED BY <1>2, InvariantHolds, PTL DEF Spec, NewIsKept

----------------------------------------------------------------------------
(* Per-task mode keeps its promise to the threads that are not yet through *)
(* their check when the ConstID is activated.                              *)

Partial(n) == [i \in Index |-> IF i < n THEN SafeSpans[i + 1] ELSE Empty[i]]

\* Stacks are walked whole; the table holds every safe span, and searching it
\* finds the call sites inside (SearchExactTheorem).
Fits ==
  /\ MaxDepth <= Visible
  /\ SafeSpans # <<>>
  /\ \A s \in DOMAIN SafeSpans :
       Search(Partial(Len(SafeSpans)), Len(SafeSpans), SafeSpans[s].eoff)

\* Per-task mode in which nothing fails.
PerTask == Mode = 1 /\ faults = {}

After == {"loaded"} \cup Late

\* How far the loader has come with ss_map, xk_mode and xk_active.
Progress ==
  /\ pc \notin {"idle", "mode"} => mode = 1
  /\ active <=> pc = "loaded"
  /\ pc \notin {"idle", "unloaded"} => attached
  /\ pc = "ss" => row \in Nat /\ row < Len(SafeSpans) /\ ss = Partial(row)
  /\ pc \in {"activate"} \cup After => ss = Partial(Len(SafeSpans))
  /\ pc \in {"ss", "activate"} \cup After => ssLen = Len(SafeSpans)
  /\ pc \in {"idle", "mode", "cs_len", "cs", "ss_len"} => ss = Empty
  /\ pc # "wait"

OldOpen(t) == \E i \in DOMAIN frames[t] : frames[t][i].span # 0 /\ frames[t][i].value = "old"

\* A fresh thread that may apply the new value has no span open with the old one.
Clean ==
  /\ pc \notin After => fresh = {} /\ \A t \in Threads : "forward" \notin anomalies[t]
  /\ fresh \subseteq Threads
  /\ \A t \in fresh : "forward" \notin anomalies[t]
                     /\ (active /\ storage[t].done => ~OldOpen(t))

Promise ==
  /\ Progress /\ Clean
  /\ \A t \in Threads : Len(frames[t]) <= MaxDepth
  /\ anomalies \in [Threads -> SUBSET {"forward", "backward", "stale"}]

\* A thread that passes the check while the ConstID is active has no span open.
LEMMA PassedIsClean ==
  ASSUME Fits, PerTask, Invariant, Promise, NEW t \in Threads, Len(frames[t]) < MaxDepth,
         pc = "loaded", StackSafe(t, TRUE)
  PROVE  ~OldOpen(t)
<1>1. frames[t] \in Seq(Frames) /\ ss = Partial(Len(SafeSpans)) /\ ssLen = Len(SafeSpans)
  BY DEF Invariant, Promise, Shape, Progress, After
<1>2. Len(SafeSpans) > 0 BY TransitionAssumption DEF Fits
<1>3. \A f \in Walked(t) : ~Search(Partial(Len(SafeSpans)), Len(SafeSpans), CallSite(f))
  BY <1>1, <1>2 DEF Fits, PerTask, StackSafe
<1>4. \A i \in DOMAIN frames[t] : frames[t][i] \in Walked(t)
  <2> SUFFICES ASSUME NEW i \in DOMAIN frames[t] PROVE frames[t][i] \in Walked(t) OBVIOUS
  <2>1. i \in 1..Len(frames[t]) /\ Len(frames[t]) \in Nat BY <1>1
  <2>2. Len(frames[t]) - i < Visible - 1 BY <2>1, TransitionAssumption DEF Fits
  <2> QED BY <2>1, <2>2 DEF Walked
<1>5. \A i \in DOMAIN frames[t] : frames[t][i].span = 0
  <2> SUFFICES ASSUME NEW i \in DOMAIN frames[t], frames[t][i].span # 0 PROVE FALSE
    OBVIOUS
  <2> DEFINE s == frames[t][i].span
  <2>1. frames[t][i] \in Frames BY <1>1
  <2>2. s \in 1..Len(SafeSpans) BY <2>1, TransitionAssumption DEF Frames
  <2>3. CallSite(frames[t][i]) = SafeSpans[s].eoff BY DEF CallSite
  <2>4. s \in DOMAIN SafeSpans BY <2>2, TransitionAssumption
  <2>5. Search(Partial(Len(SafeSpans)), Len(SafeSpans), SafeSpans[s].eoff)
    BY <2>4 DEF Fits
  <2> QED BY <1>3, <1>4, <2>3, <2>5
<1> QED BY <1>5 DEF OldOpen

LEMMA PromiseThread ==
  ASSUME Fits, PerTask, Invariant, Promise, NEW t \in Threads, Thread(t)
  PROVE  Promise'
<1>1. /\ frames \in [Threads -> Seq(Frames)] /\ Progress /\ Clean
      /\ \A u \in Threads : Len(frames[u]) <= MaxDepth
      /\ anomalies \in [Threads -> SUBSET {"forward", "backward", "stale"}]
      /\ MaxDepth \in Nat
  BY TransitionAssumption DEF Invariant, Shape, Promise
<1>2. UNCHANGED <<loader, tables, flags, quiet, fresh>>
  BY DEF Thread, Call, Enter, Use, Return
<1>3. Progress' BY <1>1, <1>2 DEF Progress, loader, tables, flags
<1>4. ASSUME NEW f \in Frames, f.value = "none", Len(frames[t]) < MaxDepth,
             frames' = [frames EXCEPT ![t] = Append(@, f)]
      PROVE  /\ \A u \in Threads : Len(frames'[u]) <= MaxDepth
             /\ \A u \in Threads : OldOpen(u)' => OldOpen(u)
  <2>1. \A u \in Threads : u # t => frames'[u] = frames[u] BY <1>1, <1>4
  <2>2. frames'[t] = Append(frames[t], f) BY <1>1, <1>4
  <2>3. Len(frames'[t]) <= MaxDepth BY <1>1, <1>4, <2>2
  <2>4. OldOpen(t)' => OldOpen(t) BY <1>1, <1>4, <2>2 DEF OldOpen
  <2> QED BY <1>1, <2>1, <2>3, <2>4 DEF OldOpen
<1>5. CASE Call(t)
  <2>1. [span |-> 0, value |-> "none"] \in Frames BY DEF Frames, Values
  <2>2. /\ Len(frames[t]) < MaxDepth /\ anomalies' = anomalies /\ storage' = storage
        /\ frames' = [frames EXCEPT ![t] = Append(@, [span |-> 0, value |-> "none"])]
    BY <1>5 DEF Call
  <2>3. /\ \A u \in Threads : Len(frames'[u]) <= MaxDepth
        /\ \A u \in Threads : OldOpen(u)' => OldOpen(u)
    BY <1>4, <2>1, <2>2
  <2>4. Clean' BY <1>1, <1>2, <2>2, <2>3 DEF Clean, loader, flags
  <2> QED BY <1>1, <1>3, <2>2, <2>3, <2>4 DEF Promise
<1>6. ASSUME NEW s \in DOMAIN SafeSpans, Enter(t, s) PROVE Promise'
  <2>1. [span |-> s, value |-> "none"] \in Frames
    BY TransitionAssumption DEF Frames, Values
  <2>2. /\ Len(frames[t]) < MaxDepth /\ anomalies' = anomalies /\ Guard(t)
        /\ frames' = [frames EXCEPT ![t] = Append(@, [span |-> s, value |-> "none"])]
    BY <1>6 DEF Enter
  <2>3. /\ \A u \in Threads : Len(frames'[u]) <= MaxDepth
        /\ \A u \in Threads : OldOpen(u)' => OldOpen(u)
    BY <1>4, <2>1, <2>2
  <2>4. ASSUME NEW u \in Threads, pc = "loaded", storage'[u].done
        PROVE  storage[u].done \/ ~OldOpen(u)
    <3>1. CASE storage' = storage BY <2>4, <3>1
    <3>2. CASE \E answer \in BOOLEAN :
                 /\ StackSafe(t, answer)
                 /\ storage' = [storage EXCEPT ![t] =
                      [done |-> (@.done /\ @.epoch = epoch) \/ answer, epoch |-> epoch]]
      <4>1. PICK answer \in BOOLEAN :
              /\ StackSafe(t, answer)
              /\ storage' = [storage EXCEPT ![t] =
                   [done  |-> (storage[t].done /\ storage[t].epoch = epoch) \/ answer,
                    epoch |-> epoch]]
        BY <3>2
      <4>2. CASE u = t
        <5>1. storage'[t].done = ((storage[t].done /\ storage[t].epoch = epoch) \/ answer)
          BY <4>1 DEF Invariant, Shape
        <5>2. answer = TRUE => ~OldOpen(t) BY <2>2, <2>4, <4>1, PassedIsClean
        <5> QED BY <2>4, <4>2, <5>1, <5>2
      <4>3. CASE u # t
        <5>1. storage'[u] = storage[u] BY <4>1, <4>3 DEF Invariant, Shape
        <5> QED BY <2>4, <5>1
      <4> QED BY <4>2, <4>3
    <3> QED BY <2>2, <3>1, <3>2 DEF Guard, Check
  <2>5. active => pc = "loaded" BY <1>1 DEF Progress
  <2>6. \A u \in fresh : active /\ storage'[u].done => ~OldOpen(u)'
    <3> SUFFICES ASSUME NEW u \in fresh, active, storage'[u].done PROVE ~OldOpen(u)'
      OBVIOUS
    <3>1. u \in Threads BY <1>1 DEF Clean
    <3>2. storage[u].done => ~OldOpen(u) BY <1>1 DEF Clean
    <3>3. ~OldOpen(u) BY <2>4, <2>5, <3>1, <3>2
    <3> QED BY <2>3, <3>1, <3>3
  <2>7. Clean' BY <1>1, <1>2, <2>2, <2>6 DEF Clean, loader, flags
  <2> QED BY <1>1, <1>3, <2>2, <2>3, <2>7 DEF Promise
<1>7. CASE Use(t)
  <2> DEFINE n == Len(frames[t])
             v == IF attached /\ TransitionDone(t) THEN "new" ELSE "old"
             open == {i \in 1..n : frames[t][i].span # 0}
             g == [i \in 1..n |-> IF i \in open THEN [frames[t][i] EXCEPT !.value = v]
                                  ELSE frames[t][i]]
             forward == IF v = "new" /\ \E i \in open : frames[t][i].value = "old"
                        THEN {"forward"} ELSE {}
             backward == IF v = "old" /\ \E i \in open : frames[t][i].value = "new"
                         THEN {"backward"} ELSE {}
             stale == IF v = "new" /\ mode = 1 /\ storage[t].epoch # epoch
                      THEN {"stale"} ELSE {}
  <2>1. /\ frames' = [frames EXCEPT ![t] = g]
        /\ anomalies' = [anomalies EXCEPT ![t] = @ \cup forward \cup backward \cup stale]
        /\ storage' = storage
    BY <1>7 DEF Use
  <2>2. n \in Nat /\ DOMAIN g = 1..n /\ DOMAIN frames[t] = 1..n
        /\ \A i \in 1..n : frames[t][i] \in Frames
    BY <1>1
  <2>3. Len(g) = n BY <2>2
  <2>4. \A i \in 1..n : g[i].span # 0 => g[i].value = v
    BY <2>2 DEF Frames
  <2>5. v = "new" <=> attached /\ TransitionDone(t) OBVIOUS
  <2>6. /\ "forward" \in forward => v = "new" /\ OldOpen(t)
        /\ forward \subseteq {"forward"} /\ backward \subseteq {"backward"}
        /\ stale \subseteq {"stale"}
    BY <2>2 DEF OldOpen
  <2> HIDE DEF n, v, open, g, forward, backward, stale
  <2>7. frames'[t] = g /\ \A u \in Threads : u # t => frames'[u] = frames[u]
    BY <1>1, <2>1
  <2>8. \A u \in Threads : Len(frames'[u]) <= MaxDepth
    BY <1>1, <2>3, <2>7 DEF n
  <2>9. anomalies' \in [Threads -> SUBSET {"forward", "backward", "stale"}]
    BY <1>1, <2>1, <2>6
  <2>10. anomalies'[t] = anomalies[t] \cup forward \cup backward \cup stale
         /\ \A u \in Threads : u # t => anomalies'[u] = anomalies[u]
    BY <1>1, <2>1
  <2>11. (mode = 1 /\ (active => pc = "loaded")) \/ ~active
    BY <1>1 DEF Progress
  <2>12. v = "new" => active /\ storage[t].done /\ pc = "loaded"
    BY <2>5, <2>11 DEF TransitionDone
  <2>13. "forward" \in anomalies'[t] => "forward" \in anomalies[t] \/ "forward" \in forward
    BY <2>6, <2>10
  <2>14. t \in fresh => "forward" \notin anomalies'[t]
    BY <1>1, <2>6, <2>12, <2>13 DEF Clean
  <2>15. pc \notin After => "forward" \notin anomalies'[t]
    BY <1>1, <2>6, <2>12, <2>13 DEF Clean, After
  <2>16. t \in fresh /\ active /\ storage[t].done => ~OldOpen(t)'
    <3>1. active /\ storage[t].done => TransitionDone(t) BY DEF TransitionDone
    <3>3. v = "new" => ~OldOpen(t)' BY <2>2, <2>4, <2>7 DEF OldOpen
    <3>4. active => attached BY <1>1 DEF Progress
    <3> QED BY <2>5, <3>1, <3>3, <3>4
  <2>17. Clean'
    BY <1>1, <1>2, <2>1, <2>7, <2>10, <2>14, <2>15, <2>16 DEF Clean, OldOpen, loader, flags
  <2> QED BY <1>3, <2>8, <2>9, <2>17 DEF Promise
<1>8. CASE Return(t)
  <2> DEFINE q == SubSeq(frames[t], 1, Len(frames[t]) - 1)
  <2>1. frames' = [frames EXCEPT ![t] = q] /\ anomalies' = anomalies /\ storage' = storage
    BY <1>8 DEF Return
  <2>2. frames[t] \in Seq(Frames) /\ frames[t] # <<>> BY <1>1, <1>8 DEF Return
  <2>3. /\ Len(q) <= Len(frames[t]) /\ q \in Seq(Frames)
        /\ \A i \in DOMAIN q : i \in DOMAIN frames[t] /\ q[i] = frames[t][i]
    BY <2>2
  <2> HIDE DEF q
  <2>4. frames'[t] = q /\ \A u \in Threads : u # t => frames'[u] = frames[u]
    BY <1>1, <2>1
  <2>5. \A u \in Threads : Len(frames'[u]) <= MaxDepth BY <1>1, <2>2, <2>3, <2>4
  <2>6. \A u \in Threads : OldOpen(u)' => OldOpen(u) BY <2>3, <2>4 DEF OldOpen
  <2>7. Clean' BY <1>1, <1>2, <2>1, <2>6 DEF Clean, loader, flags
  <2> QED BY <1>1, <1>3, <2>1, <2>5, <2>7 DEF Promise
<1> QED BY <1>5, <1>6, <1>7, <1>8 DEF Thread
\* Writing the next entry of ss_map completes one more entry of the table.
LEMMA NextEntry ==
  ASSUME NEW n \in Nat, n < Len(SafeSpans), ss = Partial(n),
         IF n \in Index THEN ss' = [ss EXCEPT ![n] = SafeSpans[n + 1]] ELSE ss' = ss
  PROVE  ss' = Partial(n + 1)
<1>1. \A i \in Index : i \in Nat BY TableAssumption DEF Index
<1>2. CASE n \in Index BY <1>1, <1>2 DEF Partial
<1>3. CASE n \notin Index
  <2>1. \A i \in Index : i < n <=> i < n + 1 BY <1>1, <1>3
  <2> QED BY <1>3, <2>1 DEF Partial
<1> QED BY <1>2, <1>3

LEMMA PromiseLoad ==
  ASSUME Fits, PerTask, Invariant, Promise, Load
  PROVE  Promise'
<1>1. /\ Progress /\ Clean /\ pc \in Steps
      /\ \A u \in Threads : Len(frames[u]) <= MaxDepth
      /\ anomalies \in [Threads -> SUBSET {"forward", "backward", "stale"}]
  BY DEF Invariant, Shape, Promise
<1>2. storage' = storage /\ frames' = frames /\ anomalies' = anomalies
  BY DEF Load, Attach, SetMode, WriteCsLen, WriteCs, WriteSsLen, WriteSs, Announced,
         TimedOut, Activate, Deactivate, BumpEpoch, Unload
<1>3. /\ \A u \in Threads : Len(frames'[u]) <= MaxDepth
      /\ anomalies' \in [Threads -> SUBSET {"forward", "backward", "stale"}]
      /\ \A u \in Threads : OldOpen(u)' <=> OldOpen(u)
  BY <1>1, <1>2 DEF OldOpen
<1>4. Mode = 1 /\ "update" \notin faults /\ SafeSpans # <<>> /\ Len(SafeSpans) \in Nat
      /\ Len(SafeSpans) > 0
  BY TransitionAssumption DEF Fits, PerTask
<1>5. AfterSpans = "activate" BY <1>4 DEF AfterSpans
<1>6. CASE Attach
  <2>1. Progress' BY <1>1, <1>6 DEF Progress, Attach, tables, After, Late
  <2>2. Clean' BY <1>1, <1>2, <1>3, <1>6 DEF Clean, Attach, After, Late
  <2> QED BY <1>3, <2>1, <2>2 DEF Promise
<1>7. CASE SetMode
  <2>1. Progress' BY <1>1, <1>4, <1>7 DEF Progress, SetMode, Update, tables, After, Late
  <2>2. Clean' BY <1>1, <1>2, <1>3, <1>4, <1>7 DEF Clean, SetMode, After, Late
  <2> QED BY <1>3, <2>1, <2>2 DEF Promise
<1>8. CASE WriteCsLen
  <2>1. Progress' BY <1>1, <1>8 DEF Progress, WriteCsLen, flags, After, Late
  <2>2. Clean' BY <1>1, <1>2, <1>3, <1>8 DEF Clean, WriteCsLen, flags, After, Late
  <2> QED BY <1>3, <2>1, <2>2 DEF Promise
<1>9. CASE WriteCs
  <2>1. Progress' BY <1>1, <1>9 DEF Progress, WriteCs, flags, After, Late
  <2>2. Clean' BY <1>1, <1>2, <1>3, <1>9 DEF Clean, WriteCs, flags, After, Late
  <2> QED BY <1>3, <2>1, <2>2 DEF Promise
<1>10. CASE WriteSsLen
  <2>1. pc = "ss_len" /\ pc' = "ss" /\ ssLen' = Len(SafeSpans) /\ row' = 0 /\ ss' = ss
    BY <1>4, <1>10 DEF WriteSsLen, Update
  <2>2. ss = Empty BY <1>1, <2>1 DEF Progress
  <2>3. \A i \in Index : ~(i < 0) BY TableAssumption DEF Index
  <2>4. Partial(0) = Empty BY <2>3 DEF Partial, Empty
  <2>5. Progress'
    BY <1>1, <1>4, <1>10, <2>1, <2>2, <2>4 DEF Progress, WriteSsLen, flags, After, Late
  <2>6. Clean' BY <1>1, <1>2, <1>3, <1>10, <2>1 DEF Clean, WriteSsLen, flags, After, Late
  <2> QED BY <1>3, <2>5, <2>6 DEF Promise
<1>11. CASE WriteSs
  <2>1. pc = "ss" /\ row \in Nat /\ row < Len(SafeSpans) /\ ss = Partial(row)
        /\ ssLen = Len(SafeSpans) /\ row' = row + 1 /\ ssLen' = ssLen
    BY <1>1, <1>11 DEF Progress, WriteSs
  <2>2. IF row \in Index THEN ss' = [ss EXCEPT ![row] = SafeSpans[row + 1]] ELSE ss' = ss
    BY <1>4, <1>11 DEF WriteSs, Update
  <2>3. ss' = Partial(row') BY <2>1, <2>2, NextEntry
  <2>4. \/ row + 1 = Len(SafeSpans) /\ pc' = "activate"
        \/ row + 1 # Len(SafeSpans) /\ pc' = "ss"
    BY <1>5, <1>11 DEF WriteSs
  <2>5. Progress'
    <3>1. mode' = mode /\ active' = active /\ attached' = attached
      BY <1>11 DEF WriteSs, flags
    <3>2. mode = 1 /\ ~active /\ attached BY <1>1, <2>1 DEF Progress
    <3>3. CASE pc' = "activate"
      BY <1>4, <2>1, <2>3, <2>4, <3>1, <3>2, <3>3 DEF Progress, After, Late
    <3>4. CASE pc' = "ss"
      BY <1>4, <2>1, <2>3, <2>4, <3>1, <3>2, <3>4 DEF Progress, After, Late
    <3> QED BY <2>4, <3>3, <3>4
  <2>6. Clean'
    BY <1>1, <1>2, <1>3, <1>11, <2>1, <2>4 DEF Clean, WriteSs, flags, After, Late
  <2> QED BY <1>3, <2>5, <2>6 DEF Promise
<1>12. CASE Announced \/ TimedOut
  BY <1>1, <1>12 DEF Progress, Announced, TimedOut
<1>13. CASE Activate
  <2>1. Progress'
    <3>1. /\ pc = "activate" /\ pc' = "loaded" /\ active' = TRUE /\ mode' = mode
          /\ ss' = ss /\ ssLen' = ssLen /\ attached' = attached
      BY <1>4, <1>13 DEF Activate, Update, tables
    <3>2. attached BY <1>1, <3>1 DEF Progress
    <3> QED BY <1>1, <3>1, <3>2 DEF Progress, After, Late
  <2>2. fresh' = {t \in Threads : ~storage[t].done} BY <1>4, <1>13 DEF Activate, Fresh
  <2>3. pc = "activate" /\ pc' = "loaded" BY <1>13 DEF Activate
  <2>4. \A t \in Threads : "forward" \notin anomalies[t]
    BY <1>1, <2>3 DEF Clean, After, Late
  <2>5. Clean' BY <1>2, <2>2, <2>3, <2>4 DEF Clean, After
  <2> QED BY <1>3, <2>1, <2>5 DEF Promise
<1>14. CASE Deactivate
  <2>1. /\ pc = "loaded" /\ pc' = "epoch" /\ active' = FALSE /\ mode' = mode
        /\ ss' = ss /\ ssLen' = ssLen /\ fresh' = fresh /\ attached' = attached
    BY <1>4, <1>14 DEF Deactivate, Update, tables
  <2>2. Progress' BY <1>1, <2>1 DEF Progress, After, Late
  <2>3. Clean' BY <1>1, <1>2, <2>1 DEF Clean, After, Late
  <2> QED BY <1>3, <2>2, <2>3 DEF Promise
<1>15. CASE BumpEpoch
  <2>1. /\ pc = "epoch" /\ pc' = "grace" /\ active' = active /\ mode' = mode
        /\ ss' = ss /\ ssLen' = ssLen /\ fresh' = fresh /\ attached' = attached
    BY <1>15 DEF BumpEpoch, tables
  <2>2. Progress' BY <1>1, <2>1 DEF Progress, After, Late
  <2>3. Clean' BY <1>1, <1>2, <1>3, <2>1 DEF Clean, After, Late
  <2> QED BY <1>3, <2>2, <2>3 DEF Promise
<1>16. CASE Unload
  <2>1. /\ pc = "grace" /\ pc' = "unloaded" /\ active' = active /\ mode' = mode
        /\ ss' = ss /\ ssLen' = ssLen /\ fresh' = fresh
    BY <1>16 DEF Unload, tables
  <2>2. Progress' BY <1>1, <2>1 DEF Progress, After, Late
  <2>3. Clean' BY <1>1, <1>2, <1>3, <2>1 DEF Clean, After, Late
  <2> QED BY <1>3, <2>2, <2>3 DEF Promise
<1> QED BY <1>6, <1>7, <1>8, <1>9, <1>10, <1>11, <1>12, <1>13, <1>14, <1>15, <1>16 DEF Load

----------------------------------------------------------------------------
(* The other modes: all threads change over at one moment. *)

\* Until the activation there is no new value, and nobody to keep a promise to;
\* from then on a fresh thread has no span open with the old value while the new
\* one is in force.
Early == pc \in {"idle", "mode"} \/ (Mode = 2 /\ pc \notin After)

AtOnce ==
  /\ mode # 1
  /\ Mode = 0 => pc \notin {"wait", "activate"}
  /\ Early => ~active /\ fresh = {} /\ \A t \in Threads : "forward" \notin anomalies[t]
  /\ fresh \subseteq Threads
  /\ \A t \in fresh :
       /\ "forward" \notin anomalies[t]
       /\ active /\ attached => ~OldOpen(t)
  /\ anomalies \in [Threads -> SUBSET {"forward", "backward", "stale"}]

\* An open frame with the old value is an activation of a span.
LEMMA OldIsInside == \A t \in Threads : OldOpen(t) => Inside(t)
BY DEF OldOpen, Inside

LEMMA AtOnceThread ==
  ASSUME Mode \in {0, 2}, Mode' = Mode, Invariant, AtOnce, NEW t \in Threads, Thread(t)
  PROVE  AtOnce'
<1>1. /\ frames \in [Threads -> Seq(Frames)] /\ fresh \subseteq Threads
      /\ anomalies \in [Threads -> SUBSET {"forward", "backward", "stale"}]
  BY DEF Invariant, Shape, AtOnce
<1>2. /\ pc' = pc /\ mode' = mode /\ active' = active /\ attached' = attached
      /\ fresh' = fresh
  BY DEF Thread, Call, Enter, Use, Return, loader, flags
<1>3. ASSUME anomalies' = anomalies, \A u \in Threads : OldOpen(u)' => OldOpen(u)
      PROVE  AtOnce'
  BY <1>1, <1>2, <1>3 DEF AtOnce, Early
<1>4. ASSUME NEW f \in Frames, f.value = "none", frames' = [frames EXCEPT ![t] = Append(@, f)]
      PROVE  \A u \in Threads : OldOpen(u)' => OldOpen(u)
  <2>1. \A u \in Threads : u # t => frames'[u] = frames[u] BY <1>1, <1>4
  <2>2. frames'[t] = Append(frames[t], f) BY <1>1, <1>4
  <2>3. OldOpen(t)' => OldOpen(t) BY <1>1, <1>4, <2>2 DEF OldOpen
  <2> QED BY <2>1, <2>3 DEF OldOpen
<1>5. CASE Call(t)
  <2>1. [span |-> 0, value |-> "none"] \in Frames BY DEF Frames, Values
  <2>2. /\ anomalies' = anomalies
        /\ frames' = [frames EXCEPT ![t] = Append(@, [span |-> 0, value |-> "none"])]
    BY <1>5 DEF Call
  <2> QED BY <1>3, <1>4, <2>1, <2>2
<1>6. ASSUME NEW s \in DOMAIN SafeSpans, Enter(t, s) PROVE AtOnce'
  <2>1. [span |-> s, value |-> "none"] \in Frames
    BY TransitionAssumption DEF Frames, Values
  <2>2. /\ anomalies' = anomalies
        /\ frames' = [frames EXCEPT ![t] = Append(@, [span |-> s, value |-> "none"])]
    BY <1>6 DEF Enter
  <2> QED BY <1>3, <1>4, <2>1, <2>2
<1>7. CASE Use(t)
  <2> DEFINE n == Len(frames[t])
             v == IF attached /\ TransitionDone(t) THEN "new" ELSE "old"
             open == {i \in 1..n : frames[t][i].span # 0}
             g == [i \in 1..n |-> IF i \in open THEN [frames[t][i] EXCEPT !.value = v]
                                  ELSE frames[t][i]]
             forward == IF v = "new" /\ \E i \in open : frames[t][i].value = "old"
                        THEN {"forward"} ELSE {}
             backward == IF v = "old" /\ \E i \in open : frames[t][i].value = "new"
                         THEN {"backward"} ELSE {}
             stale == IF v = "new" /\ mode = 1 /\ storage[t].epoch # epoch
                      THEN {"stale"} ELSE {}
  <2>1. /\ frames' = [frames EXCEPT ![t] = g]
        /\ anomalies' = [anomalies EXCEPT ![t] = @ \cup forward \cup backward \cup stale]
    BY <1>7 DEF Use
  <2>2. n \in Nat /\ DOMAIN g = 1..n /\ DOMAIN frames[t] = 1..n
        /\ \A i \in 1..n : frames[t][i] \in Frames
    BY <1>1
  <2>3. \A i \in 1..n : g[i].span # 0 => g[i].value = v BY <2>2 DEF Frames
  <2>4. v = "new" <=> attached /\ active BY DEF TransitionDone, AtOnce
  <2>5. /\ "forward" \in forward => v = "new" /\ OldOpen(t)
        /\ forward \subseteq {"forward"} /\ backward \subseteq {"backward"}
        /\ stale \subseteq {"stale"}
    BY <2>2 DEF OldOpen
  <2> HIDE DEF n, v, open, g, forward, backward, stale
  <2>6. frames'[t] = g /\ \A u \in Threads : u # t => frames'[u] = frames[u]
    BY <1>1, <2>1
  <2>7. /\ anomalies' \in [Threads -> SUBSET {"forward", "backward", "stale"}]
        /\ anomalies'[t] = anomalies[t] \cup forward \cup backward \cup stale
        /\ \A u \in Threads : u # t => anomalies'[u] = anomalies[u]
    BY <1>1, <2>1, <2>5
  <2>8. "forward" \in anomalies'[t] =>
          "forward" \in anomalies[t] \/ (attached /\ active /\ OldOpen(t))
    BY <2>4, <2>5, <2>7
  <2>9. Early => ~active BY DEF AtOnce
  <2>10. Early => \A u \in Threads : "forward" \notin anomalies'[u]
    BY <2>7, <2>8, <2>9 DEF AtOnce
  <2>11. ASSUME NEW u \in fresh PROVE "forward" \notin anomalies'[u]
    <3>1. "forward" \notin anomalies[u] /\ (active /\ attached => ~OldOpen(u)) BY DEF AtOnce
    <3>2. CASE u = t BY <2>8, <3>1, <3>2
    <3>3. CASE u # t BY <1>1, <2>7, <3>1, <3>3
    <3> QED BY <3>2, <3>3
  <2>12. active /\ attached => ~OldOpen(t)' BY <2>2, <2>3, <2>4, <2>6 DEF OldOpen
  <2>13. ASSUME NEW u \in fresh, active, attached PROVE ~OldOpen(u)'
    <3>1. ~OldOpen(u) BY <2>13 DEF AtOnce
    <3>2. CASE u = t BY <2>12, <2>13, <3>2
    <3>3. CASE u # t BY <1>1, <2>6, <3>1, <3>3 DEF OldOpen
    <3> QED BY <3>2, <3>3
  <2> QED BY <1>2, <2>7, <2>10, <2>11, <2>13 DEF AtOnce, Early
<1>8. CASE Return(t)
  <2> DEFINE q == SubSeq(frames[t], 1, Len(frames[t]) - 1)
  <2>1. frames' = [frames EXCEPT ![t] = q] /\ anomalies' = anomalies BY <1>8 DEF Return
  <2>2. frames[t] \in Seq(Frames) /\ frames[t] # <<>> BY <1>1, <1>8 DEF Return
  <2>3. \A i \in DOMAIN q : i \in DOMAIN frames[t] /\ q[i] = frames[t][i] BY <2>2
  <2> HIDE DEF q
  <2>4. frames'[t] = q /\ \A u \in Threads : u # t => frames'[u] = frames[u]
    BY <1>1, <2>1
  <2> QED BY <1>3, <2>1, <2>3, <2>4 DEF OldOpen
<1> QED BY <1>5, <1>6, <1>7, <1>8 DEF Thread

LEMMA AtOnceLoad ==
  ASSUME Mode \in {0, 2}, Mode' = Mode, Invariant, AtOnce, Load
  PROVE  AtOnce'
<1>1. /\ frames' = frames /\ anomalies' = anomalies
      /\ \A u \in Threads : OldOpen(u)' <=> OldOpen(u)
  BY DEF Load, Attach, SetMode, WriteCsLen, WriteCs, WriteSsLen, WriteSs, Announced,
         TimedOut, Activate, Deactivate, BumpEpoch, Unload, OldOpen
<1>2. \A u \in Threads : ~Inside(u) => ~OldOpen(u) BY OldIsInside
<1>3. CASE Attach
  BY <1>1, <1>3 DEF Attach, AtOnce, Early, After, Late
<1>4. CASE SetMode
  <2>1. /\ pc = "mode" /\ pc' = "cs_len" /\ mode' \in {mode, Mode}
        /\ attached' = attached
    BY <1>4 DEF SetMode, Update
  <2>2. Mode # 0 => active' = active /\ fresh' = fresh BY <1>4 DEF SetMode
  <2>3. Mode = 0 => fresh' = {u \in Threads : ~Inside(u)} BY <1>4 DEF SetMode, Fresh
  <2>4. \A u \in Threads : "forward" \notin anomalies[u] BY <2>1 DEF AtOnce, Early
  <2> QED BY <1>1, <1>2, <2>1, <2>2, <2>3, <2>4 DEF AtOnce, Early, After, Late
<1>5. CASE WriteCsLen \/ WriteCs \/ WriteSsLen \/ WriteSs \/ Announced \/ TimedOut
  <2>1. /\ UNCHANGED flags /\ fresh' = fresh
        /\ pc \in {"cs_len", "cs", "ss_len", "ss", "wait"}
        /\ pc' \in {"cs_len", "cs", "ss_len", "ss", "activate", AfterSpans}
        /\ pc' = "activate" => pc = "wait" \/ AfterSpans = "activate"
    BY <1>5 DEF WriteCsLen, WriteCs, WriteSsLen, WriteSs, Announced, TimedOut
  <2>2. AfterSpans = IF Mode = 0 THEN "loaded" ELSE "wait" BY DEF AfterSpans
  <2>3. Early' => Early BY <2>1, <2>2 DEF Early, After, Late
  <2>4. Mode = 0 => pc' \notin {"wait", "activate"} BY <2>1, <2>2 DEF AtOnce
  <2> QED BY <1>1, <2>1, <2>3, <2>4 DEF AtOnce, flags
<1>6. CASE Activate
  <2>1. /\ pc = "activate" /\ pc' = "loaded" /\ mode' = mode
        /\ fresh' = Fresh
    BY <1>6 DEF Activate
  <2>2. Mode = 2 /\ Early BY <2>1 DEF AtOnce, Early, After, Late
  <2>3. fresh' = {u \in Threads : ~Inside(u)} BY <2>1, <2>2 DEF Fresh
  <2>4. ~Early' BY <2>1, <2>2 DEF Early, After
  <2> QED BY <1>1, <1>2, <2>1, <2>2, <2>3, <2>4 DEF AtOnce
<1>7. CASE Deactivate \/ BumpEpoch \/ Unload
  <2>1. /\ mode' = mode /\ fresh' = fresh /\ pc' \in {"epoch", "grace", "unloaded"}
        /\ active' => active
        /\ attached' => attached
    BY <1>7 DEF Deactivate, BumpEpoch, Unload, Update, AtOnce
  <2>2. ~Early' BY <2>1 DEF Early, After, Late
  <2> QED BY <1>1, <2>1, <2>2 DEF AtOnce
<1> QED BY <1>3, <1>4, <1>5, <1>6, <1>7 DEF Load

\* For any number of threads, spans and frames: a thread that the mode can take
\* over when the ConstID is activated never mixes the values, in per-task mode
\* if nothing fails, in the other modes whatever does.
THEOREM FreshNeverMixesTheorem == ASSUME Fits PROVE Spec => []FreshNeverMixes
<1> DEFINE Kind == /\ Mode \in 0..2
                   /\ PerTask => Promise
                   /\ Mode # 1 => AtOnce
<1>1. Init => Kind
  <2> SUFFICES ASSUME Init PROVE Kind OBVIOUS
  <2>1. Mode \in 0..2 BY TransitionAssumption DEF Init
  <2>2. Progress BY DEF Init, Progress, After, Late
  <2>3. Clean BY DEF Init, Clean
  <2>4. \A t \in Threads : Len(frames[t]) <= MaxDepth BY TransitionAssumption DEF Init
  <2>5. Promise BY <2>2, <2>3, <2>4 DEF Init, Promise
  <2>6. AtOnce BY DEF Init, AtOnce
  <2> QED BY <2>1, <2>5, <2>6
<1>2. Invariant /\ Kind /\ [Next]_vars => Kind'
  <2> SUFFICES ASSUME Invariant, Kind, [Next]_vars PROVE Kind' OBVIOUS
  <2>1. Mode' = Mode /\ faults' = faults BY DEF Next, vars, given
  <2>2. CASE UNCHANGED vars
    BY <2>1, <2>2 DEF vars, loader, tables, flags, PerTask, Promise, Progress, Clean,
                      OldOpen, AtOnce, Early
  <2>3. CASE Load \/ \E t \in Threads : Thread(t)
    <3>1. PerTask' => PerTask BY <2>1 DEF PerTask
    <3>2. PerTask => Promise' BY <2>3, PromiseLoad, PromiseThread
    <3>3. Mode # 1 => AtOnce' BY <2>1, <2>3, AtOnceLoad, AtOnceThread
    <3> QED BY <2>1, <3>1, <3>2, <3>3
  <2> QED BY <2>2, <2>3 DEF Next
<1>3. Kind => FreshNeverMixes
  <2>1. CASE Mode = 1 BY <2>1 DEF Promise, Clean, PerTask, FreshNeverMixes
  <2>2. CASE Mode # 1 BY <2>2 DEF AtOnce, FreshNeverMixes
  <2> QED BY <2>1, <2>2
<1> QED BY <1>1, <1>2, <1>3, InvariantHolds, PTL DEF Spec

----------------------------------------------------------------------------
(* Verdicts of an earlier epoch. *)

\* If no map update is lost, nothing is in force once the reverse transition has
\* begun, so no verdict outlives its epoch.
NothingStale ==
  "update" \notin faults =>
    /\ active => pc \notin Late
    /\ \A t \in Threads : "stale" \notin anomalies[t]

\* The use of a value adds to what is recorded of its thread only.
LEMMA UseStep ==
  ASSUME NEW t \in Threads, Use(t),
         anomalies \in [Threads -> SUBSET {"forward", "backward", "stale"}]
  PROVE  /\ anomalies' \in [Threads -> SUBSET {"forward", "backward", "stale"}]
         /\ \A u \in Threads : "stale" \in anomalies'[u] =>
              \/ "stale" \in anomalies[u]
              \/ u = t /\ TransitionDone(t) /\ mode = 1 /\ storage[t].epoch # epoch
<1>1. PICK more \in SUBSET {"forward", "backward", "stale"} :
        /\ anomalies' = [anomalies EXCEPT ![t] = @ \cup more]
        /\ "stale" \in more => TransitionDone(t) /\ mode = 1 /\ storage[t].epoch # epoch
  <2> DEFINE n == Len(frames[t])
             v == IF attached /\ TransitionDone(t) THEN "new" ELSE "old"
             open == {i \in 1..n : frames[t][i].span # 0}
             forward == IF v = "new" /\ \E i \in open : frames[t][i].value = "old"
                        THEN {"forward"} ELSE {}
             backward == IF v = "old" /\ \E i \in open : frames[t][i].value = "new"
                         THEN {"backward"} ELSE {}
             stale == IF v = "new" /\ mode = 1 /\ storage[t].epoch # epoch
                      THEN {"stale"} ELSE {}
  <2>1. anomalies' = [anomalies EXCEPT ![t] = @ \cup forward \cup backward \cup stale]
    BY DEF Use
  <2>2. v = "new" => TransitionDone(t) OBVIOUS
  <2>3. forward \subseteq {"forward"} /\ backward \subseteq {"backward"} OBVIOUS
  <2>4. "stale" \in stale => TransitionDone(t) /\ mode = 1 /\ storage[t].epoch # epoch
    BY <2>2
  <2>5. stale \subseteq {"stale"} OBVIOUS
  <2> HIDE DEF n, v, open, forward, backward, stale
  <2>6. anomalies' = [anomalies EXCEPT ![t] = @ \cup (forward \cup backward \cup stale)]
    BY <2>1
  <2>7. "stale" \in forward \cup backward \cup stale => "stale" \in stale BY <2>3
  <2>8. forward \cup backward \cup stale \in SUBSET {"forward", "backward", "stale"}
    BY <2>3, <2>5
  <2> QED BY <2>4, <2>6, <2>7, <2>8
<1> QED BY <1>1

\* A thread that passed the check in an earlier epoch gets no new value, in any
\* mode, unless the clearing of xk_active is lost.
THEOREM StaleNeverAppliesTheorem == Spec => []StaleNeverApplies
<1> DEFINE Told == anomalies \in [Threads -> SUBSET {"forward", "backward", "stale"}]
<1>1. Init => Told /\ NothingStale BY DEF Init, NothingStale
<1>2. Invariant /\ Told /\ NothingStale /\ [Next]_vars => (Told /\ NothingStale)'
  <2> SUFFICES ASSUME Invariant, Told, NothingStale, [Next]_vars
               PROVE  (Told /\ NothingStale)'
    OBVIOUS
  <2>1. faults' = faults BY DEF Next, vars, given
  <2>2. CASE UNCHANGED vars BY <2>1, <2>2 DEF vars, loader, flags, NothingStale
  <2>3. ASSUME NEW t \in Threads, Thread(t) PROVE (Told /\ NothingStale)'
    <3>1. pc' = pc /\ active' = active
      BY <2>3 DEF Thread, Call, Enter, Use, Return, loader, flags
    <3>2. CASE anomalies' = anomalies BY <2>1, <3>1, <3>2 DEF NothingStale
    <3>3. CASE Use(t)
      <4>1. Told' BY <3>3, UseStep
      <4>2. ASSUME "update" \notin faults, NEW u \in Threads, "stale" \in anomalies'[u]
            PROVE  FALSE
        <5>1. TransitionDone(t) /\ storage[t].epoch # epoch
          BY <3>3, <4>2, UseStep DEF NothingStale
        <5>2. active /\ pc \notin Late
          BY <4>2, <5>1 DEF TransitionDone, NothingStale
        <5> QED BY <5>1, <5>2 DEF Invariant, Control, Late
      <4> QED BY <2>1, <3>1, <4>1, <4>2 DEF NothingStale
    <3> QED BY <2>3, <3>2, <3>3 DEF Thread, Call, Enter, Return
  <2>4. CASE Load
    <3>1. anomalies' = anomalies
      BY <2>4 DEF Load, Attach, SetMode, WriteCsLen, WriteCs, WriteSsLen, WriteSs,
         Announced, TimedOut, Activate, Deactivate, BumpEpoch, Unload
    <3>2. ASSUME "update" \notin faults PROVE active' => pc' \notin Late
      <4>1. active => pc \notin Late BY <3>2 DEF NothingStale
      <4>2. CASE Attach \/ SetMode \/ Activate
        BY <4>2 DEF Attach, SetMode, Activate, Late
      <4>3. CASE WriteCsLen \/ WriteCs \/ WriteSsLen \/ WriteSs \/ Announced \/ TimedOut
        BY <4>3 DEF WriteCsLen, WriteCs, WriteSsLen, WriteSs, Announced, TimedOut,
                    AfterSpans, Late
      <4>4. CASE Deactivate BY <3>2, <4>4 DEF Deactivate, Update
      <4>5. CASE BumpEpoch \/ Unload BY <4>1, <4>5 DEF BumpEpoch, Unload, Late
      <4> QED BY <2>4, <4>2, <4>3, <4>4, <4>5 DEF Load
    <3> QED BY <2>1, <3>1, <3>2 DEF NothingStale
  <2> QED BY <2>2, <2>3, <2>4 DEF Next
<1>3. NothingStale => StaleNeverApplies BY DEF NothingStale, StaleNeverApplies
<1> QED BY <1>1, <1>2, <1>3, InvariantHolds, PTL DEF Spec

----------------------------------------------------------------------------
(* Types. *)

\* The loader writes the entries of its lists one by one.
Typed ==
  /\ TypeOK
  /\ pc = "cs" => row < Len(CriticalSpans)
  /\ pc = "ss" => row < Len(SafeSpans)

LEMMA Lengths ==
  /\ Len(SafeSpans) \in Nat /\ Len(CriticalSpans) \in Nat /\ MaxDepth \in Nat
  /\ \A i \in 1..Len(SafeSpans) : SafeSpans[i] \in Span
  /\ \A i \in 1..Len(CriticalSpans) : CriticalSpans[i] \in Span
  /\ Len(SafeSpans) = 0 => SafeSpans = <<>>
  /\ Len(CriticalSpans) = 0 => CriticalSpans = <<>>
BY TransitionAssumption

\* What a step of a thread has to leave behind.
LEMMA TypedThread ==
  ASSUME Typed, Invariant, NEW t \in Threads, Thread(t), UNCHANGED given
  PROVE  Typed'
<1>1. /\ frames \in [Threads -> Seq(Frames)]
      /\ storage \in [Threads -> [done : BOOLEAN, epoch : 0..1]]
      /\ anomalies \in [Threads -> SUBSET {"forward", "backward", "stale"}]
      /\ epoch \in 0..1 /\ MaxDepth \in Nat
      /\ \A u \in Threads : Len(frames[u]) <= MaxDepth
  BY Lengths DEF Typed, TypeOK
<1>2. UNCHANGED <<loader, tables, flags, quiet, fresh>>
  BY DEF Thread, Call, Enter, Use, Return
<1>3. SUFFICES /\ storage' \in [Threads -> [done : BOOLEAN, epoch : 0..1]]
               /\ frames' \in [Threads -> Seq(Frames)]
               /\ \A u \in Threads : Len(frames'[u]) <= MaxDepth
               /\ anomalies' \in [Threads -> SUBSET {"forward", "backward", "stale"}]
  BY <1>2 DEF Typed, TypeOK, loader, tables, flags, given
<1>4. ASSUME NEW f \in Seq(Frames), Len(f) <= MaxDepth, frames' = [frames EXCEPT ![t] = f]
      PROVE  /\ frames' \in [Threads -> Seq(Frames)]
             /\ \A u \in Threads : Len(frames'[u]) <= MaxDepth
  BY <1>1, <1>4
<1>5. CASE Call(t)
  <2> DEFINE f == Append(frames[t], [span |-> 0, value |-> "none"])
  <2>1. [span |-> 0, value |-> "none"] \in Frames BY DEF Frames, Values
  <2>2. f \in Seq(Frames) /\ Len(f) <= MaxDepth BY <1>1, <1>5, <2>1 DEF Call
  <2>3. frames' = [frames EXCEPT ![t] = f] BY <1>5 DEF Call
  <2> QED BY <1>1, <1>4, <1>5, <2>2, <2>3 DEF Call
<1>6. ASSUME NEW s \in DOMAIN SafeSpans, Enter(t, s)
      PROVE  /\ storage' \in [Threads -> [done : BOOLEAN, epoch : 0..1]]
             /\ frames' \in [Threads -> Seq(Frames)]
             /\ \A u \in Threads : Len(frames'[u]) <= MaxDepth
             /\ anomalies' \in [Threads -> SUBSET {"forward", "backward", "stale"}]
  <2> DEFINE f == Append(frames[t], [span |-> s, value |-> "none"])
  <2>1. [span |-> s, value |-> "none"] \in Frames
    BY TransitionAssumption DEF Frames, Values
  <2>2. f \in Seq(Frames) /\ Len(f) <= MaxDepth BY <1>1, <1>6, <2>1 DEF Enter
  <2>3. frames' = [frames EXCEPT ![t] = f] BY <1>6 DEF Enter
  <2>4. storage' \in [Threads -> [done : BOOLEAN, epoch : 0..1]]
    <3>1. CASE storage' = storage BY <1>1, <3>1
    <3>2. ASSUME NEW answer \in BOOLEAN,
                 storage' = [storage EXCEPT ![t] =
                   [done  |-> (storage[t].done /\ storage[t].epoch = epoch) \/ answer,
                    epoch |-> epoch]]
          PROVE  storage' \in [Threads -> [done : BOOLEAN, epoch : 0..1]]
      <4>1. ((storage[t].done /\ storage[t].epoch = epoch) \/ answer) \in BOOLEAN
        OBVIOUS
      <4> DEFINE d == (storage[t].done /\ storage[t].epoch = epoch) \/ answer
      <4>2. storage' = [storage EXCEPT ![t] = [done |-> d, epoch |-> epoch]] BY <3>2
      <4>3. d \in BOOLEAN BY <4>1
      <4> HIDE DEF d
      <4> QED BY <1>1, <4>2, <4>3
    <3> QED BY <1>6, <3>1, <3>2 DEF Enter, Guard, Check
  <2> QED BY <1>1, <1>4, <1>6, <2>2, <2>3, <2>4 DEF Enter
<1>7. CASE Use(t)
  <2> DEFINE n == Len(frames[t])
             v == IF attached /\ TransitionDone(t) THEN "new" ELSE "old"
             open == {i \in 1..n : frames[t][i].span # 0}
             g == [i \in 1..n |-> IF i \in open THEN [frames[t][i] EXCEPT !.value = v]
                                  ELSE frames[t][i]]
  <2>1. frames' = [frames EXCEPT ![t] = g] BY <1>7 DEF Use
  <2>2. n \in Nat /\ \A i \in 1..n : frames[t][i] \in Frames BY <1>1
  <2>3. \A i \in 1..n : [frames[t][i] EXCEPT !.value = v] \in Frames
    BY <2>2 DEF Frames, Values
  <2>4. g \in Seq(Frames) /\ Len(g) = n BY <2>2, <2>3
  <2>5. n <= MaxDepth BY <1>1
  <2> HIDE DEF n, v, open, g
  <2> QED BY <1>1, <1>4, <1>7, <2>1, <2>4, <2>5, UseStep DEF Use
<1>8. CASE Return(t)
  <2> DEFINE q == SubSeq(frames[t], 1, Len(frames[t]) - 1)
  <2>1. frames' = [frames EXCEPT ![t] = q] /\ anomalies' = anomalies /\ storage' = storage
    BY <1>8 DEF Return
  <2>2. frames[t] \in Seq(Frames) /\ frames[t] # <<>> BY <1>1, <1>8 DEF Return
  <2>3. q \in Seq(Frames) /\ Len(q) <= Len(frames[t]) BY <2>2
  <2>4. Len(q) <= MaxDepth
    <3>1. Len(frames[t]) <= MaxDepth /\ Len(frames[t]) \in Nat /\ Len(q) \in Nat
      BY <1>1, <2>2, <2>3
    <3> QED BY <1>1, <2>3, <3>1
  <2> HIDE DEF q
  <2> QED BY <1>1, <1>4, <2>1, <2>3, <2>4
<1> QED BY <1>5, <1>6, <1>7, <1>8 DEF Thread

LEMMA TypedLoad ==
  ASSUME Typed, Invariant, Load, UNCHANGED given
  PROVE  Typed'
<1>1. /\ TypeOK /\ pc \in Steps /\ row \in Nat /\ epoch \in 0..1
      /\ row <= Len(SafeSpans) + Len(CriticalSpans)
      /\ pc = "cs" => row < Len(CriticalSpans)
      /\ pc = "ss" => row < Len(SafeSpans)
  BY Lengths DEF Typed, TypeOK
<1>2. storage' = storage /\ frames' = frames /\ anomalies' = anomalies
      /\ Mode' = Mode /\ faults' = faults
  BY DEF Load, Attach, SetMode, WriteCsLen, WriteCs, WriteSsLen, WriteSs, Announced,
         TimedOut, Activate, Deactivate, BumpEpoch, Unload, given
<1>3. Fresh \subseteq Threads BY DEF Fresh
<1>4. AfterSpans \in {"loaded", "activate", "wait"} BY DEF AfterSpans
<1>5. CASE Attach BY <1>1, <1>2, <1>5 DEF Attach, Typed, TypeOK, tables, Steps
<1>6. CASE SetMode
  BY <1>1, <1>2, <1>3, <1>6 DEF SetMode, Update, Typed, TypeOK, tables, Steps
<1>7. CASE WriteCsLen
  <2>1. /\ row' = 0 /\ csLen' \in {0, Len(CriticalSpans)}
        /\ pc' \in {"ss_len", "cs"}
        /\ pc' = "cs" => CriticalSpans # <<>>
    BY <1>1, <1>7 DEF WriteCsLen, Update, TypeOK
  <2>2. pc' = "cs" => 0 < Len(CriticalSpans) BY <2>1, Lengths
  <2> QED BY <1>1, <1>2, <1>7, <2>1, <2>2, Lengths DEF WriteCsLen, Typed, TypeOK, flags, Steps
<1>8. CASE WriteCs
  <2>1. row < Len(CriticalSpans) /\ row + 1 \in 1..Len(CriticalSpans)
    BY <1>1, <1>8, Lengths DEF WriteCs
  <2>2. CriticalSpans[row + 1] \in Span BY <2>1, Lengths
  <2>3. cs' \in [Index -> Span \cup {Empty[0]}]
    BY <1>1, <1>8, <2>2 DEF WriteCs, Update, TypeOK
  <2>4. pc' \in {"ss_len", "cs"} /\ row' = row + 1
        /\ (pc' = "cs" => row' < Len(CriticalSpans))
    BY <1>1, <1>8, <2>1, Lengths DEF WriteCs
  <2>5. row' \in 0..(Len(SafeSpans) + Len(CriticalSpans)) BY <1>1, <2>1, <2>4, Lengths
  <2> QED BY <1>1, <1>2, <1>8, <2>3, <2>4, <2>5 DEF WriteCs, Typed, TypeOK, flags, Steps
<1>9. CASE WriteSsLen
  <2>1. /\ row' = 0 /\ ssLen' \in {0, Len(SafeSpans)}
        /\ pc' \in {"loaded", "activate", "wait", "ss"}
        /\ pc' = "ss" => SafeSpans # <<>>
    BY <1>1, <1>4, <1>9 DEF WriteSsLen, Update, TypeOK
  <2>2. pc' = "ss" => 0 < Len(SafeSpans) BY <2>1, Lengths
  <2> QED BY <1>1, <1>2, <1>9, <2>1, <2>2, Lengths DEF WriteSsLen, Typed, TypeOK, flags, Steps
<1>10. CASE WriteSs
  <2>1. row < Len(SafeSpans) /\ row + 1 \in 1..Len(SafeSpans)
    BY <1>1, <1>10, Lengths DEF WriteSs
  <2>2. SafeSpans[row + 1] \in Span BY <2>1, Lengths
  <2>3. ss' \in [Index -> Span \cup {Empty[0]}]
    BY <1>1, <1>10, <2>2 DEF WriteSs, Update, TypeOK
  <2>4. pc' \in {"loaded", "activate", "wait", "ss"} /\ row' = row + 1
        /\ (pc' = "ss" => row' < Len(SafeSpans))
    BY <1>1, <1>4, <1>10, <2>1, Lengths DEF WriteSs
  <2>5. row' \in 0..(Len(SafeSpans) + Len(CriticalSpans)) BY <1>1, <2>1, <2>4, Lengths
  <2> QED BY <1>1, <1>2, <1>10, <2>3, <2>4, <2>5 DEF WriteSs, Typed, TypeOK, flags, Steps
<1>11. CASE Announced \/ TimedOut
  BY <1>1, <1>2, <1>11 DEF Announced, TimedOut, Typed, TypeOK, tables, flags, Steps
<1>12. CASE Activate
  BY <1>1, <1>2, <1>3, <1>12 DEF Activate, Update, Typed, TypeOK, tables, Steps
<1>13. CASE Deactivate
  BY <1>1, <1>2, <1>13 DEF Deactivate, Update, Typed, TypeOK, tables, Steps
<1>14. CASE BumpEpoch
  <2>1. epoch = 0 BY <1>14 DEF BumpEpoch, Invariant, Control
  <2>2. epoch' \in 0..1 BY <1>14, <2>1 DEF BumpEpoch, Update
  <2> QED BY <1>1, <1>2, <1>14, <2>2 DEF BumpEpoch, Typed, TypeOK, tables, Steps
<1>15. CASE Unload BY <1>1, <1>2, <1>15 DEF Unload, Typed, TypeOK, tables, Steps
<1> QED BY <1>5, <1>6, <1>7, <1>8, <1>9, <1>10, <1>11, <1>12, <1>13, <1>14, <1>15 DEF Load

\* The type invariant, for any threads, spans, table sizes, modes and failures.
THEOREM TypeCorrect == Spec => []TypeOK
<1>1. Init => Typed
  <2> SUFFICES ASSUME Init PROVE Typed OBVIOUS
  <2>1. \A t \in Threads : frames[t] = <<>> /\ Len(frames[t]) <= MaxDepth
    BY Lengths DEF Init
  <2>2. frames \in [Threads -> Seq(Frames)] BY DEF Init
  <2>3. Index # {} /\ 0 \in Index BY TableAssumption DEF Index
  <2>4. Empty \in [Index -> Span \cup {Empty[0]}] BY <2>3 DEF Empty
  <2>5. storage \in [Threads -> [done : BOOLEAN, epoch : 0..1]] BY DEF Init
  <2>6. \A t \in Threads : anomalies[t] \in SUBSET {"forward", "backward", "stale"}
    BY DEF Init
  <2>7. anomalies \in [Threads -> SUBSET {"forward", "backward", "stale"}]
    BY <2>6 DEF Init
  <2>8. /\ pc \in Steps /\ row = 0 /\ mode = 0 /\ active = FALSE /\ epoch = 0
        /\ attached = FALSE /\ csLen = 0 /\ ssLen = 0 /\ quiet = FALSE /\ fresh = {}
        /\ cs = Empty /\ ss = Empty /\ pc = "idle"
        /\ Mode \in Modes /\ faults \subseteq Failures
    BY DEF Init, Steps
  <2>9. 0 \in 0..(Len(SafeSpans) + Len(CriticalSpans)) BY Lengths
  <2>10. /\ cs \in [Index -> Span \cup {Empty[0]}] /\ ss \in [Index -> Span \cup {Empty[0]}]
         /\ row \in 0..(Len(SafeSpans) + Len(CriticalSpans))
         /\ csLen \in {0, Len(CriticalSpans)} /\ ssLen \in {0, Len(SafeSpans)}
    BY <2>4, <2>8, <2>9
  <2>11. active \in BOOLEAN /\ attached \in BOOLEAN /\ quiet \in BOOLEAN BY DEF Init
  <2>12. epoch \in 0..1 BY <2>8
  <2>13. /\ mode \in {0, Mode} /\ active \in BOOLEAN /\ epoch \in 0..1
         /\ attached \in BOOLEAN /\ quiet \in BOOLEAN /\ fresh \subseteq Threads
    BY <2>8, <2>11, <2>12
  <2>14. TypeOK BY <2>1, <2>2, <2>5, <2>7, <2>8, <2>10, <2>13 DEF TypeOK
  <2> QED BY <2>8, <2>14 DEF Typed
<1>2. Invariant /\ Typed /\ [Next]_vars => Typed'
  <2> SUFFICES ASSUME Invariant, Typed, [Next]_vars PROVE Typed' OBVIOUS
  <2>1. CASE UNCHANGED vars
    BY <2>1 DEF vars, given, loader, tables, flags, Typed, TypeOK
  <2> QED BY <2>1, TypedLoad, TypedThread DEF Next
<1>3. Typed => TypeOK BY DEF Typed
<1> QED BY <1>1, <1>2, <1>3, InvariantHolds, PTL DEF Spec

----------------------------------------------------------------------------
(***************************************************************************)
(* The search of a span table (SpanSearch), for tables, lists and addresses *)
(* of any size.                                                            *)
(***************************************************************************)

\* What an exact search takes: the list fits in the table and is flat.
SearchFits == MaxList <= MaxSpans
Exactable == SearchFits /\ ~Nested

\* The part of the state that never changes.
Input ==
  /\ spans \in Seq(Span) /\ Len(spans) <= MaxList /\ addr \in Addresses
  /\ Sorted(spans) /\ (Nested \/ Flat(spans))

----------------------------------------------------------------------------
(* Arithmetic of the indices *)

\* Subtracting one from an index of a __u32 wraps at zero only.
LEMMA Decrement ==
  ASSUME NEW a \in 0..(Wrap - 1)
  PROVE  /\ (a + Wrap - 1) % Wrap \in 0..(Wrap - 1)
         /\ a = 0 => (a + Wrap - 1) % Wrap = Wrap - 1
         /\ a > 0 => (a + Wrap - 1) % Wrap = a - 1
<1>1. Wrap \in Nat \ {0} BY TableAssumption
<1>2. CASE a = 0
  <2>1. (Wrap - 1) % Wrap = Wrap - 1 BY <1>1, SMT
  <2> QED BY <1>1, <1>2, <2>1
<1>3. CASE a > 0
  <2> DEFINE b == a + Wrap - 1
  <2>1. b \in Nat /\ Wrap <= b /\ b < 2 * Wrap /\ b - Wrap = a - 1 BY <1>1, <1>3
  <2> HIDE DEF b
  <2>2. b % Wrap = b - Wrap BY <1>1, <2>1, SMT
  <2>3. b % Wrap = a - 1 BY <2>1, <2>2
  <2> QED BY <1>1, <1>3, <2>3 DEF b
<1> QED BY <1>1, <1>2, <1>3

\* The middle of two indices that are not further apart than the table.
LEMMA Middle ==
  ASSUME NEW b, b.left \in Nat, b.right \in Nat, b.left <= b.right, b.right < MaxSpans
  PROVE  Mid(b) \in Index /\ b.left <= Mid(b) /\ Mid(b) <= b.right
<1> DEFINE n == b.left + b.right
<1>1. n \in Nat /\ n < Wrap /\ Wrap \in Nat \ {0} /\ MaxSpans \in Nat BY TableAssumption
<1>2. 2 * b.left <= n /\ n <= 2 * b.right OBVIOUS
<1> HIDE DEF n
<1>3. n % Wrap = n BY <1>1, SMT
<1>4. n \div 2 \in Nat /\ 2 * (n \div 2) <= n /\ n <= 2 * (n \div 2) + 1 BY <1>1, SMT
<1>5. Mid(b) = n \div 2 BY <1>3 DEF Mid, n
<1> QED BY <1>1, <1>2, <1>4, <1>5 DEF Index

\* With right wrapped and left 0 the lookup of the middle fails.
LEMMA MiddleOfWrapped ==
  ASSUME NEW b, b.left = 0, b.right = Wrap - 1
  PROVE  Mid(b) \notin Index
<1> DEFINE n == Wrap - 1
<1>1. n \in Nat /\ n < Wrap /\ Wrap \in Nat \ {0} /\ MaxSpans \in Nat /\ n >= 2 * MaxSpans
  BY TableAssumption
<1>2. b.left + b.right = n BY <1>1
<1> HIDE DEF n
<1>3. n % Wrap = n BY <1>1, SMT
<1>4. n \div 2 \in Nat /\ n <= 2 * (n \div 2) + 1 /\ 2 * (n \div 2) <= n BY <1>1, SMT
<1>5. Mid(b) = n \div 2 BY <1>2, <1>3 DEF Mid
<1> QED BY <1>1, <1>4, <1>5 DEF Index

----------------------------------------------------------------------------
(* Type correctness *)

LEMMA TableType == Input => \A i \in Index : Table[i].soff \in Addresses /\ Table[i].eoff \in Addresses
<1> SUFFICES ASSUME Input, NEW i \in Index
             PROVE  Table[i].soff \in Addresses /\ Table[i].eoff \in Addresses
  OBVIOUS
<1>1. i \in Nat BY TableAssumption DEF Index
<1>2. CASE i < Len(spans)
  <2>1. spans[i + 1] \in Span BY <1>1, <1>2 DEF Input
  <2> QED BY <1>2, <2>1 DEF Table, Span
<1>3. CASE ~(i < Len(spans))
  BY <1>3, TableAssumption DEF Table, Empty
<1> QED BY <1>2, <1>3

LEMMA SpansType == Input => \A i \in 1..Len(spans) : spans[i].soff \in Nat /\ spans[i].eoff \in Nat
<1> SUFFICES ASSUME Input, NEW i \in 1..Len(spans)
             PROVE  spans[i].soff \in Nat /\ spans[i].eoff \in Nat
  OBVIOUS
<1>1. spans[i] \in Span BY DEF Input
<1>2. spans[i].soff \in Addresses /\ spans[i].eoff \in Addresses BY <1>1 DEF Span
<1> QED BY <1>2, TableAssumption

LEMMA StartType == ASSUME NEW n \in 0..(Wrap - 1) PROVE Start(n) \in Context
BY Decrement, TableAssumption DEF Start, Context

LEMMA InputHolds == SearchSpec => []Input
<1>1. InitSearch => Input
  <2> SUFFICES ASSUME InitSearch PROVE Input OBVIOUS
  <2>1. PICK n \in 0..MaxList : spans \in [1..n -> Span] BY DEF InitSearch
  <2>2. n \in Nat /\ n <= MaxList BY <2>1, ListAssumption
  <2>3. spans \in Seq(Span) /\ Len(spans) = n BY <2>1, <2>2
  <2> QED BY <2>2, <2>3 DEF InitSearch, Input
<1>2. Input /\ [NextSearch]_searchVars => Input'
  BY DEF Input, NextSearch, Iterate, searchVars, Sorted, Flat
<1> QED BY <1>1, <1>2, PTL DEF SearchSpec

\* The type invariant holds of every list, long or short, nested or not.
THEOREM SearchTypeCorrect == SearchSpec => []SearchTypeOK
<1>1. InitSearch /\ Input => SearchTypeOK
  <2> SUFFICES ASSUME InitSearch, Input PROVE SearchTypeOK OBVIOUS
  <2>1. Len(spans) \in 0..(Wrap - 1)
    BY ListAssumption, TableAssumption DEF Input
  <2>2. ctx \in Context BY <2>1, StartType DEF InitSearch
  <2> QED BY <2>2, TableAssumption DEF InitSearch, Input, SearchTypeOK
<1>2. SearchTypeOK /\ Input /\ Input' /\ [NextSearch]_searchVars => SearchTypeOK'
  <2> SUFFICES ASSUME SearchTypeOK, Input, Input', [NextSearch]_searchVars PROVE SearchTypeOK' OBVIOUS
  <2>1. CASE UNCHANGED searchVars BY <2>1 DEF SearchTypeOK, searchVars
  <2>2. CASE Iterate
    <3> DEFINE m == Mid(ctx)
    <3>1. ctx \in Context BY DEF SearchTypeOK
    <3>2. m \in Index => Table[m].eoff \in Addresses BY TableType
    <3>3. m \in Index => m + 1 \in 0..(Wrap - 1) /\ m \in 0..(Wrap - 1)
      BY TableAssumption DEF Index
    <3>4. m \in Index => (m + Wrap - 1) % Wrap \in 0..(Wrap - 1) BY <3>3, Decrement
    <3> HIDE DEF m
    <3>5. ctx' = Callback(ctx, Table, addr) BY <2>2 DEF Iterate
    <3>6. ctx' \in Context
      BY <3>1, <3>2, <3>3, <3>4, <3>5 DEF Callback, Context, m
    <3>7. turn' \in 0..MaxLoop BY <2>2, TableAssumption DEF Iterate, SearchTypeOK
    <3> QED BY <3>6, <3>7 DEF SearchTypeOK, Input
  <2> QED BY <2>1, <2>2 DEF NextSearch
<1> QED BY <1>1, <1>2, InputHolds, PTL DEF SearchSpec

----------------------------------------------------------------------------
(* The loop invariant *)

LEMMA InitLoop == SearchFits /\ InitSearch /\ Input /\ SearchTypeOK => LoopInvariant
<1> SUFFICES ASSUME SearchFits, InitSearch, Input, SearchTypeOK PROVE LoopInvariant OBVIOUS
<1> DEFINE n == Len(spans)
<1>1. n \in Nat /\ n < Wrap /\ Wrap \in Nat /\ n \in 0..(Wrap - 1)
  BY TableAssumption, ListAssumption DEF Input
<1>2. /\ ctx.left = 0 /\ ctx.right = (n + Wrap - 1) % Wrap
      /\ ctx.found = FALSE /\ ctx.stop = FALSE /\ turn = 0
  BY DEF InitSearch, Start
<1>3. /\ n = 0 => ctx.right = Wrap - 1
      /\ n > 0 => ctx.right = n - 1
  BY <1>1, <1>2, Decrement
<1> HIDE DEF n
<1>4. Window BY <1>1, <1>2, <1>3 DEF Window, Wrapped, n
<1>5. Best BY <1>2 DEF Best
<1>6. Halves
  <2>1. \A i \in 0..(n - 1) : ~(i < ctx.left) BY <1>1, <1>2
  <2>2. \A i \in 0..(n - 1) : ~(ctx.right = Wrap - 1 \/ i > ctx.right)
    <3>1. CASE n = 0 BY <3>1
    <3>2. CASE n > 0
      <4>1. n <= MaxSpans /\ 2 * MaxSpans < Wrap /\ MaxSpans \in Nat
        BY TableAssumption, ListAssumption DEF SearchFits, Input, n
      <4> QED BY <1>1, <1>3, <3>2, <4>1
    <3> QED BY <1>1, <3>1, <3>2
  <2> QED BY <2>1, <2>2 DEF Halves, Wrapped, n
<1> QED BY <1>2, <1>4, <1>5, <1>6 DEF LoopInvariant

LEMMA StepLoop == SearchFits /\ LoopInvariant /\ Input /\ SearchTypeOK /\ Iterate => LoopInvariant'
<1> SUFFICES ASSUME SearchFits, LoopInvariant, Input, SearchTypeOK, Iterate PROVE LoopInvariant'
  OBVIOUS
<1> DEFINE n == Len(spans)
           m == Mid(ctx)
<1>1. /\ n \in Nat /\ n <= MaxSpans /\ MaxSpans \in Nat /\ Wrap \in Nat
      /\ 2 * MaxSpans < Wrap
  BY TableAssumption, ListAssumption DEF SearchFits, Input
<1>2. ctx' = Callback(ctx, Table, addr) /\ turn' = turn + 1 /\ ~ctx.stop
      /\ spans' = spans /\ addr' = addr
  BY DEF Iterate
<1>3. /\ ctx \in Context /\ ctx.left \in Nat /\ ctx.right \in Nat
      /\ turn \in Nat /\ addr \in Nat
  BY TableAssumption DEF SearchTypeOK, Context
<1>4. Halves /\ Window /\ Best BY DEF LoopInvariant
<1>5. CASE ctx.right = Wrap - 1 /\ ctx.left = 0
  <2>1. m \notin Index BY <1>5, MiddleOfWrapped
  <2>2. ctx' = [ctx EXCEPT !.stop = TRUE] BY <1>2, <2>1 DEF Callback
  <2>3. /\ ctx'.left = 0 /\ ctx'.right = Wrap - 1 /\ ctx'.stop = TRUE
        /\ ctx'.found = ctx.found
    BY <1>3, <1>5, <2>2 DEF Context
  <2>4. turn <= n BY <1>1, <1>2, <1>3, <1>4, <1>5 DEF Window, Wrapped
  <2>5. Window' BY <1>1, <1>2, <1>3, <2>3, <2>4 DEF Window, Wrapped
  <2>6. Halves' BY <1>2, <1>4, <1>5, <2>3 DEF Halves, Wrapped
  <2>7. Best' BY <1>4, <1>5, <2>3 DEF Best
  <2> QED BY <2>3, <2>5, <2>6, <2>7 DEF LoopInvariant, Wrapped
<1>6. CASE ~(ctx.right = Wrap - 1 /\ ctx.left = 0)
  <2>1. /\ ctx.right < n /\ ctx.left <= ctx.right + 1
        /\ turn + ctx.right - ctx.left < n /\ ctx.right # Wrap - 1
    BY <1>1, <1>2, <1>3, <1>4, <1>6 DEF Window, Wrapped
  <2>2. CASE ctx.left > ctx.right
    <3>1. ctx' = [ctx EXCEPT !.stop = TRUE] BY <1>2, <2>2 DEF Callback
    <3>2. /\ ctx'.left = ctx.left /\ ctx'.right = ctx.right /\ ctx'.stop = TRUE
          /\ ctx'.found = ctx.found /\ ctx'.match = ctx.match /\ ctx'.end = ctx.end
      BY <1>3, <3>1 DEF Context
    <3>3. Window' BY <1>1, <1>2, <1>3, <2>1, <3>2 DEF Window, Wrapped
    <3>4. Halves' BY <1>2, <1>4, <3>2 DEF Halves, Wrapped
    <3>5. Best' BY <1>2, <1>4, <3>2 DEF Best
    <3> QED BY <2>2, <3>2, <3>3, <3>4, <3>5 DEF LoopInvariant, Wrapped
  <2>3. CASE ctx.left <= ctx.right
    <3>1. m \in Index /\ ctx.left <= m /\ m <= ctx.right
      BY <1>1, <1>3, <2>1, <2>3, Middle
    <3>2. m \in Nat /\ m < n BY <1>1, <1>3, <2>1, <3>1 DEF Index
    <3>3. Table[m] = spans[m + 1] BY <3>1, <3>2 DEF Table
    <3>4. /\ spans \in Seq(Span) /\ Sorted(spans) BY DEF Input
    <3>5. \A i \in 0..(n - 1) : spans[i + 1].soff \in Nat
      BY <1>1, SpansType
    <3>6. \A i, j \in 0..(n - 1) : i <= j => spans[i + 1].soff <= spans[j + 1].soff
      <4> SUFFICES ASSUME NEW i \in 0..(n - 1), NEW j \in 0..(n - 1), i <= j
                   PROVE  spans[i + 1].soff <= spans[j + 1].soff
        OBVIOUS
      <4>1. CASE i = j
        <5>1. spans[i + 1].soff \in Nat BY <3>5
        <5> QED BY <4>1, <5>1
      <4>2. CASE i < j
        <5>1. i + 1 \in DOMAIN spans /\ j + 1 \in DOMAIN spans /\ i + 1 < j + 1
          BY <1>1, <3>4, <4>2
        <5>2. \/ spans[i + 1].soff < spans[j + 1].soff
              \/ spans[i + 1].soff = spans[j + 1].soff
          BY <3>4, <5>1 DEF Sorted
        <5> QED BY <3>5, <5>2
      <4> QED BY <1>1, <4>1, <4>2
    <3> HIDE DEF n, m
    <3>7. CASE addr >= spans[m + 1].soff
      <4>1. ctx' = [ctx EXCEPT !.found = TRUE, !.match = m, !.end = spans[m + 1].eoff,
                               !.left = m + 1]
        BY <1>2, <1>3, <2>3, <3>1, <3>3, <3>7 DEF Callback, m
      <4>2. /\ ctx'.left = m + 1 /\ ctx'.right = ctx.right /\ ctx'.stop = FALSE
            /\ ctx'.found = TRUE /\ ctx'.match = m /\ ctx'.end = spans[m + 1].eoff
        BY <1>2, <1>3, <4>1 DEF Context
      <4>3. Window'
        BY <1>1, <1>2, <1>3, <2>1, <2>3, <3>1, <3>2, <4>2, SMTT(30) DEF Window, Wrapped, n
      <4>4. Best' BY <1>2, <3>2, <4>2 DEF Best
      <4>5. \A i \in 0..(n - 1) : i < m + 1 => spans[i + 1].soff <= addr
        <5> TAKE i \in 0..(n - 1)
        <5> HAVE i < m + 1
        <5>1. i <= m /\ m \in 0..(n - 1) BY <1>1, <3>2
        <5>2. spans[i + 1].soff <= spans[m + 1].soff BY <3>6, <5>1
        <5> QED BY <1>3, <3>5, <3>7, <5>1, <5>2
      <4>6. \A i \in 0..(n - 1) : (Wrapped \/ i > ctx.right) => spans[i + 1].soff > addr
        BY <1>4 DEF Halves, n
      <4>7. Halves' BY <1>2, <4>2, <4>5, <4>6 DEF Halves, Wrapped, n
      <4> QED BY <4>2, <4>3, <4>4, <4>7 DEF LoopInvariant
    <3>8. CASE ~(addr >= spans[m + 1].soff)
      <4> DEFINE r == (m + Wrap - 1) % Wrap
      <4>1. ctx' = [ctx EXCEPT !.right = r]
        BY <1>2, <1>3, <2>3, <3>1, <3>3, <3>8 DEF Callback, m
      <4>2. m = 0 => r = Wrap - 1
        BY <1>1, <3>2, Decrement
      <4>3. m > 0 => r = m - 1
        BY <1>1, <3>2, Decrement
      <4> HIDE DEF r
      <4>4. /\ ctx'.left = ctx.left /\ ctx'.right = r /\ ctx'.stop = FALSE
            /\ ctx'.found = ctx.found /\ ctx'.match = ctx.match /\ ctx'.end = ctx.end
        BY <1>2, <1>3, <4>1 DEF Context
      <4>5. Window'
        <5>1. CASE m = 0
          BY <1>1, <1>2, <1>3, <2>1, <3>1, <4>2, <4>4, <5>1 DEF Window, Wrapped, n
        <5>2. CASE m > 0
          <6>1. r = m - 1 /\ r \in Nat BY <3>2, <4>3, <5>2
          <6>2. r < n /\ ctx.left <= r + 1 BY <1>1, <1>3, <3>1, <3>2, <6>1
          <6>3. (turn + 1) + r - ctx.left < n BY <1>1, <1>3, <2>1, <3>1, <3>2, <6>1
          <6> QED BY <1>2, <4>4, <6>2, <6>3 DEF Window, n
        <5> QED BY <3>2, <5>1, <5>2
      <4>6. Best' BY <1>2, <1>4, <4>4 DEF Best
      <4>7. \A i \in 0..(n - 1) : i >= m => spans[i + 1].soff > addr
        <5> TAKE i \in 0..(n - 1)
        <5> HAVE i >= m
        <5>1. m <= i /\ m \in 0..(n - 1) BY <1>1, <3>2
        <5>2. spans[m + 1].soff <= spans[i + 1].soff BY <3>6, <5>1
        <5> QED BY <1>3, <3>5, <3>8, <5>1, <5>2
      <4>8. \A i \in 0..(n - 1) : (r = Wrap - 1 \/ i > r) => i >= m
        <5>1. CASE m = 0 BY <1>1, <5>1
        <5>2. CASE m > 0 BY <1>1, <3>2, <4>3, <5>2
        <5> QED BY <3>2, <5>1, <5>2
      <4>9. \A i \in 0..(n - 1) : i < ctx.left => spans[i + 1].soff <= addr
        BY <1>4 DEF Halves, n
      <4>10. Halves' BY <1>2, <4>4, <4>7, <4>8, <4>9 DEF Halves, Wrapped, n
      <4> QED BY <4>4, <4>5, <4>6, <4>10 DEF LoopInvariant
    <3> QED BY <3>7, <3>8
  <2> QED BY <1>3, <2>2, <2>3
<1> QED BY <1>5, <1>6

\* With a list that fits, every state of the search satisfies the loop invariant.
THEOREM LoopTheorem == ASSUME SearchFits PROVE SearchSpec => []LoopInvariant
<1>1. InitSearch /\ Input /\ SearchTypeOK => LoopInvariant BY InitLoop
<1>2. LoopInvariant /\ Input /\ SearchTypeOK /\ [NextSearch]_searchVars => LoopInvariant'
  <2> SUFFICES ASSUME LoopInvariant, Input, SearchTypeOK, [NextSearch]_searchVars PROVE LoopInvariant'
    OBVIOUS
  <2>1. CASE Iterate BY <2>1, StepLoop
  <2>2. CASE UNCHANGED searchVars
    BY <2>2 DEF searchVars, LoopInvariant, Halves, Window, Best, Wrapped
  <2> QED BY <2>1, <2>2 DEF NextSearch
<1> QED BY <1>1, <1>2, InputHolds, SearchTypeCorrect, PTL DEF SearchSpec

\* bpf_loop's limit never cuts a search short.
THEOREM EndsInTimeTheorem == ASSUME SearchFits PROVE SearchSpec => []EndsInTime
<1>1. LoopInvariant /\ Input /\ SearchTypeOK => EndsInTime
  <2> SUFFICES ASSUME LoopInvariant, Input, SearchTypeOK, turn = MaxLoop, ~ctx.stop PROVE FALSE
    BY DEF EndsInTime
  <2>1. /\ Len(spans) \in Nat /\ Len(spans) <= MaxSpans /\ MaxSpans \in Nat
        /\ MaxLoop \in Nat /\ MaxLoop >= MaxSpans + 2
    BY TableAssumption, ListAssumption DEF SearchFits, Input
  <2>2. ctx.left \in Nat /\ ctx.right \in Nat BY DEF SearchTypeOK, Context
  <2> QED BY <2>1, <2>2 DEF LoopInvariant, Window
<1> QED BY <1>1, LoopTheorem, InputHolds, SearchTypeCorrect, PTL

\* A search that has ended tells whether some span of the list covers the address.
THEOREM SearchExactTheorem == ASSUME Exactable PROVE SearchSpec => []SearchExact
<1>1. SearchFits BY DEF Exactable
<1>2. LoopInvariant /\ Input /\ SearchTypeOK => SearchExact
  <2> SUFFICES ASSUME LoopInvariant, Input, SearchTypeOK, ctx.stop
               PROVE  Hit(ctx, addr) <=> Covered
    BY DEF SearchExact
  <2> DEFINE n == Len(spans)
  <2>1. n \in Nat /\ DOMAIN spans = 1..n /\ spans \in Seq(Span) BY DEF Input
  <2>2. \A i \in 1..n : spans[i].soff \in Nat /\ spans[i].eoff \in Nat
    BY SpansType
  <2>3. ctx.left \in Nat /\ ctx.right \in Nat /\ addr \in Nat
    BY TableAssumption DEF SearchTypeOK, Context
  <2>4. Halves /\ Window /\ Best BY DEF LoopInvariant
  <2>5. CASE Wrapped /\ ctx.left = 0
    <3>1. ~ctx.found BY <2>4, <2>5 DEF Best
    <3>2. \A i \in 1..n : spans[i].soff > addr
      <4> TAKE i \in 1..n
      <4>1. i - 1 \in 0..(n - 1) /\ (i - 1) + 1 = i BY <2>1
      <4>2. \A j \in 0..(n - 1) : spans[j + 1].soff > addr BY <2>4, <2>5 DEF Halves
      <4> QED BY <4>1, <4>2
    <3>3. ~Covered BY <2>1, <2>2, <2>3, <3>2 DEF Covered
    <3> QED BY <3>1, <3>3 DEF Hit
  <2>6. CASE ~(Wrapped /\ ctx.left = 0)
    <3>1. ctx.right < n /\ ctx.left <= ctx.right + 1 /\ ~Wrapped
      <4>1. n <= MaxSpans /\ MaxSpans \in Nat /\ Wrap \in Nat /\ 2 * MaxSpans < Wrap
        BY <1>1, TableAssumption, ListAssumption DEF SearchFits, Input
      <4>2. ctx.right < n /\ ctx.left <= ctx.right + 1 BY <2>4, <2>6 DEF Window
      <4> QED BY <2>1, <2>3, <4>1, <4>2 DEF Wrapped
    <3> DEFINE k == ctx.left
    <3>2. k = ctx.right + 1 /\ k \in 1..n
      BY <2>1, <2>3, <3>1 DEF LoopInvariant
    <3>3. ctx.found /\ ctx.end = spans[k].eoff BY <2>3, <2>4, <3>2 DEF Best
    <3>4. spans[k].soff <= addr
      <4>1. k - 1 \in 0..(n - 1) /\ k - 1 < ctx.left /\ (k - 1) + 1 = k
        BY <2>1, <3>2
      <4>2. \A i \in 0..(n - 1) : i < ctx.left => spans[i + 1].soff <= addr
        BY <2>4 DEF Halves
      <4>3. spans[(k - 1) + 1].soff <= addr BY <4>1, <4>2
      <4> QED BY <4>1, <4>3
    <3>5. Hit(ctx, addr) => Covered
      BY <2>1, <2>2, <2>3, <3>2, <3>3, <3>4 DEF Hit, Covered
    <3>6. Covered => Hit(ctx, addr)
      <4> SUFFICES ASSUME NEW i \in 1..n, spans[i].soff <= addr, addr <= spans[i].eoff
                   PROVE  ctx.end >= addr
        BY <2>1, <3>3 DEF Covered, Hit
      <4>1. i <= k
        <5>1. i - 1 \in 0..(n - 1) /\ (i - 1) + 1 = i BY <2>1
        <5>2. \A j \in 0..(n - 1) : j > ctx.right => spans[j + 1].soff > addr
          BY <2>4 DEF Halves
        <5>3. i - 1 > ctx.right => spans[i].soff > addr BY <5>1, <5>2
        <5>4. ~(i - 1 > ctx.right) BY <2>2, <2>3, <5>3
        <5> QED BY <2>1, <2>3, <3>2, <5>4
      <4>2. spans[i].eoff <= spans[k].eoff
        <5>1. CASE i = k BY <2>2, <5>1
        <5>2. CASE i < k
          <6>1. Flat(spans) BY DEF Input, Exactable
          <6> QED BY <2>1, <3>2, <5>2, <6>1 DEF Flat
        <5> QED BY <2>1, <3>2, <4>1, <5>1, <5>2
      <4> QED BY <2>2, <2>3, <3>2, <3>3, <4>2
    <3> QED BY <3>5, <3>6
  <2> QED BY <2>5, <2>6
<1>3. SearchSpec => []LoopInvariant BY <1>1, LoopTheorem
<1> QED BY <1>2, <1>3, InputHolds, SearchTypeCorrect, PTL
=============================================================================
