----------------------- MODULE GlobalTransitionProofs -----------------------
(***************************************************************************)
(* Theorems about GlobalTransition, for every set of threads and spans and *)
(* every value of the bounds.                                              *)
(***************************************************************************)
EXTENDS GlobalTransition, FiniteSetTheorems, TLAPS

----------------------------------------------------------------------------
(* What the steps of a thread do to its stack and to the occupants.        *)

\* The activations of any kind form a finite set.
LEMMA ActivationsFinite ==
  ASSUME NEW fs, NEW T \in SUBSET Threads, NEW P
  PROVE  /\ IsFiniteSet(ActivationsAt(fs, T, P))
         /\ Cardinality(ActivationsAt(fs, T, P)) \in Nat
  <1>1. IsFiniteSet(Threads \X (1..MaxDepth))
    <2>1. IsFiniteSet(1..MaxDepth)
      BY FS_Interval, ConstantsAssumption
    <2> QED  BY <2>1, FS_Product, ConstantsAssumption
  <1>2. ActivationsAt(fs, T, P) \subseteq Threads \X (1..MaxDepth)
    BY DEF ActivationsAt
  <1> QED  BY <1>1, <1>2, FS_Subset, FS_CardinalityType

LEMMA PushFrames ==
  ASSUME StacksOK(frames), NEW t \in Threads, NEW s \in Spans, NEW at \in {"soff", "body"},
         Len(frames[t]) < MaxDepth
  PROVE  StacksOK(Push(t, s, at))
  <1>1. frames[t] \in Seq(Frame) /\ [span |-> s, at |-> at] \in Frame
    BY DEF StacksOK, Frame
  <1>2. /\ Append(frames[t], [span |-> s, at |-> at]) \in Seq(Frame)
        /\ Len(Append(frames[t], [span |-> s, at |-> at])) = Len(frames[t]) + 1
    BY <1>1
  <1>3. Len(frames[t]) + 1 <= MaxDepth
    BY <1>1, ConstantsAssumption
  <1> QED  BY <1>2, <1>3 DEF StacksOK, Push

LEMMA MoveFrames ==
  ASSUME StacksOK(frames), NEW t \in Threads, NEW at \in {"soff", "body", "tail", "eoff"},
         Depth(t) > 0
  PROVE  StacksOK(MoveTop(t, at))
  <1>1. frames[t] \in Seq(Frame) /\ Depth(t) \in 1..Len(frames[t])
    BY DEF StacksOK, Depth
  <1>2. frames[t][Depth(t)] \in Frame
    BY <1>1
  <1>3. [frames[t][Depth(t)] EXCEPT !.at = at] \in Frame
    BY <1>2 DEF Frame
  <1>4. /\ [frames[t] EXCEPT ![Depth(t)].at = at] \in Seq(Frame)
        /\ Len([frames[t] EXCEPT ![Depth(t)].at = at]) = Len(frames[t])
    BY <1>1, <1>3
  <1> QED  BY <1>4 DEF StacksOK, MoveTop

LEMMA PopFrames ==
  ASSUME StacksOK(frames), NEW t \in Threads, Depth(t) > 0
  PROVE  StacksOK(Pop(t))
  <1>1. frames[t] \in Seq(Frame) /\ Len(frames[t]) \in Nat /\ Len(frames[t]) > 0
    BY DEF StacksOK, Depth
  <1>2. /\ SubSeq(frames[t], 1, Len(frames[t]) - 1) \in Seq(Frame)
        /\ Len(SubSeq(frames[t], 1, Len(frames[t]) - 1)) = Len(frames[t]) - 1
    BY <1>1
  <1> QED  BY <1>1, <1>2, ConstantsAssumption DEF StacksOK, Pop

----------------------------------------------------------------------------
(* Type correctness *)

LEMMA ScanTypes ==
  ASSUME TypeOK, NEW visited \in SUBSET Threads, NEW whole \in BOOLEAN,
         ScanStacks(visited, whole)
  PROVE  refcount' \in Nat /\ enabled' \in BOOLEAN /\ tstart' \in 0..2 /\ aborted' \in BOOLEAN
  <1>1. Cardinality(InSpan(visited)) \in Nat
    <2>1. IsFiniteSet(ActivationsAt(frames, visited, {"soff", "body"}))
      BY ActivationsFinite
    <2>2. InSpan(visited) \subseteq ActivationsAt(frames, visited, {"soff", "body"})
      BY DEF InSpan
    <2> QED  BY <2>1, <2>2, FS_Subset, FS_CardinalityType
  <1>2. Round \in 0..2
    BY DEF Round
  <1> QED  BY <1>1, <1>2 DEF ScanStacks, TypeOK, ScalarsOK

LEMMA ReportTypes ==
  ASSUME NEW rev \in BOOLEAN, NEW ok \in BOOLEAN, NEW from \in 0..2, NEW to \in 0..2
  PROVE  Report(rev, ok, from, to) \in Reports
  BY DEF Report, Reports

\* The variables of the type invariant, one group per actor.
LEMMA LoaderTypes == TypeOK /\ LoaderNext => TypeOK'
  <1> SUFFICES ASSUME TypeOK, LoaderNext PROVE TypeOK'
    OBVIOUS
  <1>0. StacksOK(frames) /\ ScalarsOK
    BY DEF TypeOK
  <1>1. UNCHANGED <<frames, ending, dead>>
    BY DEF LoaderNext, Insmod, InsmodNoSpans, ForwardScan, ReverseScan, Scan, WakeForward,
       InstantForward, Rmmod, BeginReverse, SkipReverse, SetReversePending, WakeReverse,
       InstantReverse, ReverseOver, KthreadStop, Unloaded, threads
  <1>2. ScalarsOK'
    <2> USE <1>0 DEF ScalarsOK, LoaderPC, States, Pending, Terminal, daemon, threads, history
    <2>1. CASE Insmod
      BY <2>1 DEF Insmod, DaemonPC
    <2>2. CASE InsmodNoSpans
      BY <2>2 DEF InsmodNoSpans, DaemonPC
    <2>3. CASE WakeForward
      BY <2>3 DEF WakeForward
    <2>4. CASE Rmmod
      BY <2>4 DEF Rmmod
    <2>5. CASE BeginReverse
      BY <2>5 DEF BeginReverse
    <2>6. CASE SkipReverse
      BY <2>6 DEF SkipReverse
    <2>7. CASE SetReversePending
      BY <2>7 DEF SetReversePending
    <2>8. CASE WakeReverse
      BY <2>8 DEF WakeReverse
    <2>9. CASE ReverseOver
      BY <2>9 DEF ReverseOver
    <2>10. CASE KthreadStop
      BY <2>10 DEF KthreadStop
    <2>11. CASE Unloaded
      <3>1. polls' \in Nat /\ refcount' \in Nat /\ tstart' \in 0..2 /\ tend' \in 0..2
        BY <2>11 DEF Unloaded
      <3> QED  BY <2>11, <3>1 DEF Unloaded, DaemonPC
    <2>12. CASE InstantForward \/ InstantReverse
      <3>0. Report(FALSE, TRUE, 1, 1) \in Reports /\ Report(TRUE, TRUE, 2, 2) \in Reports
        BY DEF Report, Reports
      <3>1. timing' \in Reports
        BY <2>12, <3>0, Zenon DEF InstantForward, InstantReverse
      <3>2. CASE InstantForward
        BY <3>1, <3>2 DEF InstantForward
      <3>3. CASE InstantReverse
        BY <3>1, <3>3 DEF InstantReverse
      <3> QED  BY <2>12, <3>2, <3>3
    <2>13. ASSUME NEW from, NEW to \in {"scanned", "rscanned"}, Scan(from, to)
          PROVE  ScalarsOK'
      <3>1. refcount' \in Nat /\ enabled' \in BOOLEAN /\ tstart' \in 0..2 /\ aborted' \in BOOLEAN
        BY <2>13, ScanTypes DEF Scan
      <3>2. quiet' \in BOOLEAN
        BY <2>13 DEF Scan
      <3> QED  BY <2>13, <3>1, <3>2 DEF Scan
    <2>14. CASE ForwardScan \/ ReverseScan
      BY <2>13, <2>14 DEF ForwardScan, ReverseScan
    <2> QED  BY <2>1, <2>2, <2>3, <2>4, <2>5, <2>6, <2>7, <2>8, <2>9, <2>10, <2>11, <2>12, <2>14 DEF LoaderNext
  <1> QED  BY <1>0, <1>1, <1>2 DEF TypeOK

LEMMA DaemonTypes == TypeOK /\ DaemonNext => TypeOK'
  <1> SUFFICES ASSUME TypeOK, DaemonNext PROVE TypeOK'
    OBVIOUS
  <1>0. StacksOK(frames) /\ ScalarsOK
    BY DEF TypeOK
  <1>1. UNCHANGED <<frames, ending, dead>>
    BY DEF DaemonNext, DStart, DTop, DTerminal, DPark, DWoken, DSeeZero, DClearTimes, DDisarm,
       DDone, DWait, DPoll, DTimeout, DFailed, threads
  <1>2. ScalarsOK'
    <2> USE <1>0 DEF ScalarsOK, DaemonPC, States, Pending, Terminal, module, threads, history
    <2>1. CASE DStart
      BY <2>1 DEF DStart
    <2>2. CASE DTop
      BY <2>2 DEF DTop
    <2>3. CASE DTerminal
      BY <2>3 DEF DTerminal
    <2>4. CASE DPark
      BY <2>4 DEF DPark
    <2>5. CASE DWoken
      BY <2>5 DEF DWoken
    <2>6. CASE DClearTimes
      BY <2>6 DEF DClearTimes
    <2>7. CASE DDisarm
      BY <2>7 DEF DDisarm
    <2>8. CASE DDone
      BY <2>8 DEF DDone
    <2>9. CASE DWait
      BY <2>9 DEF DWait
    <2>10. CASE DPoll
      BY <2>10 DEF DPoll
    <2>11. CASE DFailed
      BY <2>11 DEF DFailed
    <2>12. CASE DSeeZero \/ DTimeout
      <3>1. IsReverse \in BOOLEAN /\ {tstart, tend, 0} \subseteq 0..2
        BY DEF IsReverse
      <3>2. timing' \in Reports
        BY <2>12, <3>1, ReportTypes DEF DSeeZero, DTimeout
      <3>3. CASE DSeeZero
        BY <3>2, <3>3 DEF DSeeZero
      <3>4. CASE DTimeout
        <4>1. polls' \in Nat
          BY <3>4 DEF DTimeout
        <4> QED  BY <3>2, <3>4, <4>1 DEF DTimeout
      <3> QED  BY <2>12, <3>3, <3>4
    <2> QED  BY <2>1, <2>2, <2>3, <2>4, <2>5, <2>6, <2>7, <2>8, <2>9, <2>10, <2>11, <2>12 DEF DaemonNext
  <1> QED  BY <1>0, <1>1, <1>2 DEF TypeOK

\* A thread's step leaves well-formed stacks, whichever step it is.
LEMMA ThreadFrames ==
  ASSUME TypeOK, NEW t \in Threads, ThreadNext(t)
  PROVE  StacksOK(frames')
  <1>0. StacksOK(frames)
    BY DEF TypeOK, StacksOK
  <1>1. ASSUME NEW s \in Spans, Arrive(t, s) \/ EnterSideways(t, s)
        PROVE  StacksOK(frames')
    BY <1>0, <1>1, PushFrames DEF Arrive, EnterSideways, CanCall, Restack, Depth
  <1>2. CASE Guard(t)
    BY <1>0, <1>2, MoveFrames DEF Guard, Restack
  <1>3. CASE ReachExit(t) \/ CallInTail(t) \/ ReturnToTail(t) \/ JumpBack(t)
    BY <1>0, <1>3, MoveFrames
       DEF ReachExit, CallInTail, ReturnToTail, JumpBack, Move, Restack
  <1>4. CASE LeaveEarly(t) \/ Unguard(t)
    BY <1>0, <1>4, PopFrames DEF LeaveEarly, Unguard, Restack
  <1>5. CASE RecordEnd(t) \/ Die(t) \/ Reap(t)
    BY <1>0, <1>5 DEF RecordEnd, Die, Reap
  <1> QED  BY <1>1, <1>2, <1>3, <1>4, <1>5 DEF ThreadNext

LEMMA ThreadTypes == ASSUME TypeOK, NEW t \in Threads, ThreadNext(t) PROVE TypeOK'
  <1>1. StacksOK(frames')
    BY ThreadFrames
  <1>2. ScalarsOK' /\ ending' \subseteq Threads /\ dead' \subseteq Threads
    <2> USE DEF TypeOK, ScalarsOK, Restack, module, daemon, history
    <2>1. ASSUME NEW s \in Spans, Arrive(t, s) \/ EnterSideways(t, s)
          PROVE  ScalarsOK' /\ ending' \subseteq Threads /\ dead' \subseteq Threads
      BY <2>1 DEF Arrive, EnterSideways
    <2>2. CASE Guard(t)
      BY <2>2 DEF Guard
    <2>3. CASE Unguard(t)
      BY <2>3 DEF Unguard
    <2>4. ASSUME NEW from, NEW to, NEW spans, Move(t, from, to, spans)
          PROVE  ScalarsOK' /\ ending' \subseteq Threads /\ dead' \subseteq Threads
      BY <2>4 DEF Move
    <2>5. CASE LeaveEarly(t)
      BY <2>5 DEF LeaveEarly
    <2>6. CASE RecordEnd(t)
      BY <2>6 DEF RecordEnd, Round
    <2>7. CASE Die(t) \/ Reap(t)
      BY <2>7 DEF Die, Reap
    <2> QED  BY <2>1, <2>2, <2>3, <2>4, <2>5, <2>6, <2>7
             DEF ThreadNext, ReachExit, CallInTail, ReturnToTail, JumpBack
  <1> QED  BY <1>1, <1>2 DEF TypeOK

LEMMA TypeStep == TypeOK /\ [Next]_vars => TypeOK'
  <1> SUFFICES ASSUME TypeOK, [Next]_vars PROVE TypeOK'
    OBVIOUS
  <1>1. CASE UNCHANGED vars
    BY <1>1 DEF vars, module, daemon, threads, history, TypeOK, ScalarsOK, StacksOK
  <1> QED  BY <1>1, LoaderTypes, DaemonTypes, ThreadTypes DEF Next

\* Every variable of the module keeps its type, in particular the refcount
\* is never negative and no stack outgrows the bound.
THEOREM TypeCorrect == Spec => []TypeOK
  <1>1. Init => TypeOK
    <2> SUFFICES ASSUME Init PROVE TypeOK
      OBVIOUS
    <2>1. StacksOK(frames)
      BY ConstantsAssumption DEF Init, StacksOK
    <2>2. timing \in Reports
      BY DEF Init, NoReport, Reports
    <2>3. ScalarsOK
      <3>1. refcount \in Nat /\ polls \in Nat /\ tstart \in 0..2 /\ tend \in 0..2
        BY DEF Init
      <3>2. {enabled, armed, asleep, stop, quiet, aborted} \subseteq BOOLEAN
        BY DEF Init
      <3> QED  BY <2>2, <3>1, <3>2 DEF Init, ScalarsOK, LoaderPC, DaemonPC, States, Pending
    <2> QED  BY <2>1, <2>3 DEF Init, TypeOK
  <1> QED  BY <1>1, TypeStep, PTL DEF Spec

----------------------------------------------------------------------------
(* Control: who may touch what *)

LEMMA LoaderControl == TypeOK /\ Control /\ LoaderNext => Control'
  <1> SUFFICES ASSUME TypeOK, Control, LoaderNext PROVE Control'
    OBVIOUS
  <1> USE DEF TypeOK, ScalarsOK, LoaderPC, Control, Working, Draining, States, Pending, Terminal,
              daemon, threads, history
  <1>1. CASE Insmod
    <2>1. ending = {} /\ ~stop /\ ~Working
      BY <1>1 DEF Insmod
    <2> QED  BY <1>1, <2>1 DEF Insmod
  <1>2. CASE InsmodNoSpans
    BY <1>2 DEF InsmodNoSpans
  <1>3. CASE WakeForward
    BY <1>3 DEF WakeForward
  <1>4. CASE InstantForward
    BY <1>4 DEF InstantForward
  <1>5. CASE Rmmod
    BY <1>5 DEF Rmmod
  <1>6. CASE BeginReverse
    BY <1>6 DEF BeginReverse
  <1>7. CASE SkipReverse
    BY <1>7 DEF SkipReverse
  <1>8. CASE SetReversePending
    BY <1>8 DEF SetReversePending
  <1>9. CASE WakeReverse
    BY <1>9 DEF WakeReverse
  <1>10. CASE InstantReverse
    BY <1>10 DEF InstantReverse
  <1>11. CASE ReverseOver
    BY <1>11 DEF ReverseOver
  <1>12. CASE KthreadStop
    BY <1>12 DEF KthreadStop
  <1>13. CASE Unloaded
    BY <1>13 DEF Unloaded
  <1>14. ASSUME ForwardScan \/ ReverseScan
         PROVE  Control'
    BY <1>14 DEF ForwardScan, ReverseScan, Scan, ScanStacks
  <1> QED  BY <1>1, <1>2, <1>3, <1>4, <1>5, <1>6, <1>7, <1>8, <1>9, <1>10, <1>11, <1>12, <1>13, <1>14 DEF LoaderNext

LEMMA DaemonControl == TypeOK /\ Control /\ DaemonNext => Control'
  <1> SUFFICES ASSUME TypeOK, Control, DaemonNext PROVE Control'
    OBVIOUS
  <1> USE DEF TypeOK, ScalarsOK, DaemonPC, Control, Working, Draining, States, Pending, Terminal,
              module, threads, history, IsReverse
  <1>1. CASE DStart
    BY <1>1 DEF DStart
  <1>2. CASE DTop
    BY <1>2 DEF DTop
  <1>3. CASE DTerminal
    BY <1>3 DEF DTerminal
  <1>4. CASE DPark
    BY <1>4 DEF DPark
  <1>5. CASE DWoken
    BY <1>5 DEF DWoken
  <1>6. CASE DSeeZero
    BY <1>6 DEF DSeeZero
  <1>7. CASE DClearTimes
    BY <1>7 DEF DClearTimes
  <1>8. CASE DDisarm
    BY <1>8 DEF DDisarm
  <1>9. CASE DDone
    BY <1>9 DEF DDone
  <1>10. CASE DWait
    BY <1>10 DEF DWait
  <1>11. CASE DPoll
    BY <1>11 DEF DPoll
  <1>12. CASE DTimeout
    BY <1>12 DEF DTimeout
  <1>13. CASE DFailed
    BY <1>13 DEF DFailed
  <1> QED  BY <1>1, <1>2, <1>3, <1>4, <1>5, <1>6, <1>7, <1>8, <1>9, <1>10, <1>11, <1>12, <1>13 DEF DaemonNext

\* What a thread's step can do to the variables Control is about.
ThreadEffect ==
  /\ UNCHANGED <<lpc, dpc, ds, asleep, stop, state, enabled, armed>>
  /\ refcount = 0 => refcount' = 0
  /\ ending' \subseteq ending \/ (armed /\ enabled)

LEMMA ThreadControl == ASSUME TypeOK, Control, NEW t \in Threads, ThreadNext(t) PROVE Control'
  <1>1. ThreadEffect
    <2> USE DEF Restack, daemon, module
    <2>1. ASSUME NEW s \in Spans, Arrive(t, s) \/ EnterSideways(t, s)  PROVE ThreadEffect
      BY <2>1 DEF Arrive, EnterSideways, ThreadEffect
    <2>2. CASE Guard(t)
      BY <2>2 DEF Guard, ThreadEffect
    <2>3. CASE Unguard(t)
      BY <2>3 DEF Unguard, ThreadEffect
    <2>4. ASSUME NEW from, NEW to, NEW spans, Move(t, from, to, spans)  PROVE ThreadEffect
      BY <2>4 DEF Move, ThreadEffect
    <2>5. CASE LeaveEarly(t)
      BY <2>5 DEF LeaveEarly, ThreadEffect
    <2>6. CASE RecordEnd(t) \/ Die(t) \/ Reap(t)
      BY <2>6 DEF RecordEnd, Die, Reap, ThreadEffect
    <2> QED  BY <2>1, <2>2, <2>3, <2>4, <2>5, <2>6
             DEF ThreadNext, ReachExit, CallInTail, ReturnToTail, JumpBack
  <1> QED  BY <1>1 DEF ThreadEffect, Control, Working, Draining

\* Control is inductive with the type invariant, whatever the spans look like.
THEOREM ControlInvariant == Spec => []Control
  <1>1. Init => Control
    BY DEF Init, Control, Working, Draining, Pending, Terminal
  <1>2. TypeOK /\ Control /\ [Next]_vars => Control'
    <2> SUFFICES ASSUME TypeOK, Control, [Next]_vars PROVE Control'
      OBVIOUS
    <2>1. CASE UNCHANGED vars
      BY <2>1 DEF vars, module, daemon, threads, Control, Working, Draining
    <2> QED  BY <2>1, LoaderControl, DaemonControl, ThreadControl DEF Next
  <1> QED  BY <1>1, <1>2, TypeCorrect, PTL DEF Spec

----------------------------------------------------------------------------
(* Counting: how each step of a thread changes the occupants *)

Past == {"body", "tail", "eoff"}

LEMMA OccupantDef ==
  ASSUME NEW fs, NEW a
  PROVE  a \in Occupants(fs) <=>
           /\ a \in Threads \X (1..MaxDepth)
           /\ a[2] <= Len(fs[a[1]])
           /\ fs[a[1]][a[2]].at \in Past
  BY DEF Occupants, ActivationsAt, Past

\* Only the stack of t differs, and it differs as the three conditions say.
LEMMA SameBelow ==
  ASSUME NEW fs, NEW gs, NEW t \in Threads, NEW d \in 1..MaxDepth,
         \A u \in Threads \ {t} : gs[u] = fs[u],
         \A i \in (1..MaxDepth) \ {d} :
           (i <= Len(gs[t]) /\ gs[t][i].at \in Past) <=> (i <= Len(fs[t]) /\ fs[t][i].at \in Past)
  PROVE  /\ Occupants(gs) \ {<<t, d>>} = Occupants(fs) \ {<<t, d>>}
         /\ <<t, d>> \in Occupants(gs) <=> (d <= Len(gs[t]) /\ gs[t][d].at \in Past)
  <1>1. ASSUME NEW a \in Threads \X (1..MaxDepth), a # <<t, d>>
        PROVE  a \in Occupants(gs) <=> a \in Occupants(fs)
    <2>1. a = <<a[1], a[2]>> /\ a[1] \in Threads /\ a[2] \in 1..MaxDepth
      BY <1>1
    <2>2. CASE a[1] = t
      BY <2>1, <2>2, <1>1, OccupantDef
    <2>3. CASE a[1] # t
      BY <2>1, <2>3, OccupantDef
    <2> QED  BY <2>2, <2>3
  <1>2. Occupants(gs) \subseteq Threads \X (1..MaxDepth)
        /\ Occupants(fs) \subseteq Threads \X (1..MaxDepth)
    BY DEF Occupants, ActivationsAt
  <1>3. Occupants(gs) \ {<<t, d>>} = Occupants(fs) \ {<<t, d>>}
    BY <1>1, <1>2
  <1>4. <<t, d>>[1] = t /\ <<t, d>>[2] = d /\ <<t, d>> \in Threads \X (1..MaxDepth)
    OBVIOUS
  <1> QED  BY <1>3, <1>4, OccupantDef

LEMMA PushOccupants ==
  ASSUME StacksOK(frames), NEW t \in Threads, NEW s \in Spans, Len(frames[t]) < MaxDepth
  PROVE  Occupants(Push(t, s, "soff")) = Occupants(frames)
  <1> DEFINE fs == Push(t, s, "soff")
             d  == Len(frames[t]) + 1
             f  == [span |-> s, at |-> "soff"]
  <1>0. f \in Frame
    BY DEF Frame
  <1>1. frames[t] \in Seq(Frame) /\ Len(frames[t]) \in Nat
    BY DEF StacksOK
  <1>2. d \in 1..MaxDepth
    BY <1>1, ConstantsAssumption
  <1>3. fs[t] = Append(frames[t], f) /\ \A u \in Threads \ {t} : fs[u] = frames[u]
    BY DEF Push, StacksOK
  <1>4. Len(fs[t]) = d /\ fs[t][d] = f /\ \A i \in 1..Len(frames[t]) : fs[t][i] = frames[t][i]
    BY <1>0, <1>1, <1>3
  <1>5. \A i \in (1..MaxDepth) \ {d} :
          (i <= Len(fs[t]) /\ fs[t][i].at \in Past) <=>
          (i <= Len(frames[t]) /\ frames[t][i].at \in Past)
    BY <1>1, <1>2, <1>4
  <1>6. <<t, d>> \notin Occupants(frames)
    BY <1>1, OccupantDef
  <1>7. fs[t][d].at \notin Past /\ \A u \in Threads \ {t} : fs[u] = frames[u]
    BY <1>3, <1>4 DEF Past
  <1>8. /\ Occupants(fs) \ {<<t, d>>} = Occupants(frames) \ {<<t, d>>}
        /\ <<t, d>> \in Occupants(fs) <=> (d <= Len(fs[t]) /\ fs[t][d].at \in Past)
    <2> HIDE DEF fs, d
    <2> QED  BY <1>2, <1>5, <1>7, SameBelow
  <1>9. <<t, d>> \notin Occupants(fs)
    BY <1>7, <1>8
  <1>10. Occupants(fs) = Occupants(frames)
    <2>1. \A A, B, x : A \ {x} = B \ {x} /\ x \notin A /\ x \notin B => A = B
      OBVIOUS
    <2>2. Occupants(fs) \ {<<t, d>>} = Occupants(frames) \ {<<t, d>>}
      BY <1>8
    <2> HIDE DEF fs, d
    <2> QED  BY <2>1, <2>2, <1>6, <1>9
  <1> QED  BY <1>10

LEMMA MoveOccupants ==
  ASSUME StacksOK(frames), NEW t \in Threads, Depth(t) > 0,
         NEW at \in {"soff", "body", "tail", "eoff"}
  PROVE  /\ Occupants(MoveTop(t, at)) \ {<<t, Depth(t)>>} = Occupants(frames) \ {<<t, Depth(t)>>}
         /\ <<t, Depth(t)>> \in Occupants(MoveTop(t, at)) <=> at \in Past
         /\ <<t, Depth(t)>> \in Occupants(frames) <=> Top(t).at \in Past
  <1> DEFINE fs == MoveTop(t, at)
             d  == Depth(t)
  <1>1. frames[t] \in Seq(Frame) /\ Len(frames[t]) \in Nat /\ Len(frames[t]) <= MaxDepth
    BY DEF StacksOK
  <1>2. d \in 1..MaxDepth /\ d = Len(frames[t])
    BY <1>1, ConstantsAssumption DEF Depth
  <1>3. fs[t] = [frames[t] EXCEPT ![d].at = at] /\ \A u \in Threads \ {t} : fs[u] = frames[u]
    BY DEF MoveTop, StacksOK
  <1>4. frames[t][d] \in Frame
    BY <1>1, <1>2
  <1>5. Len(fs[t]) = d /\ fs[t][d].at = at /\ \A i \in 1..(d - 1) : fs[t][i] = frames[t][i]
    BY <1>1, <1>2, <1>3, <1>4 DEF Frame
  <1>6. \A i \in (1..MaxDepth) \ {d} :
          (i <= Len(fs[t]) /\ fs[t][i].at \in Past) <=>
          (i <= Len(frames[t]) /\ frames[t][i].at \in Past)
    BY <1>2, <1>5
  <1>7. /\ Occupants(fs) \ {<<t, d>>} = Occupants(frames) \ {<<t, d>>}
        /\ <<t, d>> \in Occupants(fs) <=> (d <= Len(fs[t]) /\ fs[t][d].at \in Past)
    <2>1. \A u \in Threads \ {t} : fs[u] = frames[u]
      BY <1>3
    <2>2. d \in 1..MaxDepth
      BY <1>2
    <2> HIDE DEF fs, d
    <2> QED  BY <2>1, <2>2, <1>6, SameBelow
  <1>8. <<t, d>> \in Occupants(frames) <=> Top(t).at \in Past
    BY <1>2, OccupantDef DEF Top
  <1> QED  BY <1>2, <1>5, <1>7, <1>8

LEMMA PopOccupants ==
  ASSUME StacksOK(frames), NEW t \in Threads, Depth(t) > 0
  PROVE  /\ Occupants(Pop(t)) = Occupants(frames) \ {<<t, Depth(t)>>}
         /\ <<t, Depth(t)>> \in Occupants(frames) <=> Top(t).at \in Past
  <1> DEFINE fs == Pop(t)
             d  == Depth(t)
  <1>1. frames[t] \in Seq(Frame) /\ Len(frames[t]) \in Nat /\ Len(frames[t]) <= MaxDepth
    BY DEF StacksOK
  <1>2. d \in 1..MaxDepth /\ d = Len(frames[t])
    BY <1>1, ConstantsAssumption DEF Depth
  <1>3. fs[t] = SubSeq(frames[t], 1, d - 1) /\ \A u \in Threads \ {t} : fs[u] = frames[u]
    BY DEF Pop, StacksOK, Depth
  <1>4. Len(fs[t]) = d - 1 /\ \A i \in 1..(d - 1) : fs[t][i] = frames[t][i]
    BY <1>1, <1>2, <1>3
  <1>5. \A i \in (1..MaxDepth) \ {d} :
          (i <= Len(fs[t]) /\ fs[t][i].at \in Past) <=>
          (i <= Len(frames[t]) /\ frames[t][i].at \in Past)
    BY <1>2, <1>4
  <1>6. ~(d <= Len(fs[t]))
    BY <1>2, <1>4
  <1>7. /\ Occupants(fs) \ {<<t, d>>} = Occupants(frames) \ {<<t, d>>}
        /\ <<t, d>> \notin Occupants(fs)
    <2>1. d \in 1..MaxDepth /\ \A u \in Threads \ {t} : fs[u] = frames[u]
      BY <1>2, <1>3
    <2> HIDE DEF fs, d
    <2> QED  BY <2>1, <1>5, <1>6, SameBelow
  <1>8. <<t, d>> \in Occupants(frames) <=> Top(t).at \in Past
    BY <1>2, OccupantDef DEF Top
  <1> QED  BY <1>7, <1>8

LEMMA OccupantsFinite == IsFiniteSet(Occupants(frames))
  BY ActivationsFinite, ConstantsAssumption DEF Occupants

----------------------------------------------------------------------------
(* Counting: the shape of the stacks *)

LEMMA PushShape ==
  ASSUME StacksOK(frames), OnlyTopMoves, NEW t \in Threads, NEW s \in Spans,
         Depth(t) > 0 => Top(t).at = "body", frames' = Push(t, s, "soff")
  PROVE  OnlyTopMoves'
  <1> DEFINE d == Len(frames[t])
             f == [span |-> s, at |-> "soff"]
  <1>0. f \in Frame
    BY DEF Frame
  <1>1. frames[t] \in Seq(Frame) /\ d \in Nat
    BY DEF StacksOK
  <1>2. frames'[t] = Append(frames[t], f) /\ \A u \in Threads \ {t} : frames'[u] = frames[u]
    BY DEF Push, StacksOK
  <1>3. /\ Len(frames'[t]) = d + 1 /\ frames'[t][d + 1] = f
        /\ \A i \in 1..d : frames'[t][i] = frames[t][i]
    BY <1>0, <1>1, <1>2
  <1>4. \A i \in 1..d : frames[t][i].at # "tail" /\ frames[t][i].at = "body"
    BY <1>1 DEF OnlyTopMoves, Top, Depth
  <1>5. ASSUME NEW i \in 1..Len(frames'[t])
        PROVE  frames'[t][i].at # "tail" /\ (i < Len(frames'[t]) => frames'[t][i].at = "body")
    BY <1>1, <1>3, <1>4
  <1> QED  BY <1>2, <1>5 DEF OnlyTopMoves

LEMMA MoveShape ==
  ASSUME StacksOK(frames), OnlyTopMoves, NEW t \in Threads, Depth(t) > 0,
         NEW at \in {"soff", "body", "eoff"}, frames' = MoveTop(t, at)
  PROVE  OnlyTopMoves'
  <1> DEFINE d == Depth(t)
  <1>1. frames[t] \in Seq(Frame) /\ d \in Nat /\ d = Len(frames[t])
    BY DEF StacksOK, Depth
  <1>2. frames'[t] = [frames[t] EXCEPT ![d].at = at]
        /\ \A u \in Threads \ {t} : frames'[u] = frames[u]
    BY DEF MoveTop, StacksOK
  <1>3. frames[t][d] \in Frame
    BY <1>1
  <1>4. Len(frames'[t]) = d /\ frames'[t][d].at = at /\ \A i \in 1..(d - 1) : frames'[t][i] = frames[t][i]
    BY <1>1, <1>2, <1>3 DEF Frame
  <1>5. \A i \in 1..(d - 1) : frames[t][i].at = "body"
    BY <1>1 DEF OnlyTopMoves
  <1>6. ASSUME NEW i \in 1..Len(frames'[t])
        PROVE  frames'[t][i].at # "tail" /\ (i < Len(frames'[t]) => frames'[t][i].at = "body")
    BY <1>1, <1>4, <1>5
  <1>7. \A u \in Threads \ {t} : frames'[u] = frames[u]
    BY <1>2
  <1> QED  BY <1>6, <1>7 DEF OnlyTopMoves

LEMMA PopShape ==
  ASSUME StacksOK(frames), OnlyTopMoves, NEW t \in Threads, Depth(t) > 0, frames' = Pop(t)
  PROVE  OnlyTopMoves'
  <1> DEFINE d == Depth(t)
  <1>1. frames[t] \in Seq(Frame) /\ d \in Nat /\ d = Len(frames[t])
    BY DEF StacksOK, Depth
  <1>2. frames'[t] = SubSeq(frames[t], 1, d - 1)
        /\ \A u \in Threads \ {t} : frames'[u] = frames[u]
    BY DEF Pop, StacksOK, Depth
  <1>3. Len(frames'[t]) = d - 1 /\ \A i \in 1..(d - 1) : frames'[t][i] = frames[t][i]
    BY <1>1, <1>2
  <1>4. \A i \in 1..(d - 1) : frames[t][i].at # "tail" /\ frames[t][i].at = "body"
    BY <1>1 DEF OnlyTopMoves
  <1>5. ASSUME NEW i \in 1..Len(frames'[t])
        PROVE  frames'[t][i].at # "tail" /\ (i < Len(frames'[t]) => frames'[t][i].at = "body")
    BY <1>1, <1>3, <1>4
  <1> QED  BY <1>2, <1>5, ZenonT(60) DEF OnlyTopMoves

----------------------------------------------------------------------------
(* Counting: the handlers and the threads they run on *)

\* What the rest of Counting needs to know of a thread's step.
Harmless ==
  /\ UNCHANGED <<lpc, dpc, state, enabled, armed, aborted>>
  /\ quiet => quiet'
  /\ OnlyTopMoves'
  /\ RefcountCovers'

LEMMA HarmlessKeepsCounting ==
  ASSUME Counting, Harmless
  PROVE  Counting'
  BY DEF Counting, Harmless, DoneIsQuiet, Announced

\* A step that leaves the count alone and adds no occupant.
LEMMA NoMoreOccupants ==
  ASSUME TypeOK, Counting, NEW fs, frames' = fs, quiet' = (quiet \/ Occupants(fs) = {}),
         Occupants(fs) \subseteq Occupants(frames),
         UNCHANGED <<refcount, enabled, armed>>
  PROVE  RefcountCovers'
  <1>1. Cardinality(Occupants(fs)) <= Cardinality(Occupants(frames))
        /\ Cardinality(Occupants(fs)) \in Nat /\ Cardinality(Occupants(frames)) \in Nat
    BY OccupantsFinite, FS_Subset, FS_CardinalityType
  <1>2. Occupants(frames)' = Occupants(fs)
    BY DEF Occupants, ActivationsAt
  <1> QED  BY <1>1, <1>2 DEF TypeOK, ScalarsOK, Counting, RefcountCovers

LEMMA GuardCounts ==
  ASSUME NoStealing, TypeOK, Counting, NEW t \in Threads, Guard(t)
  PROVE  RefcountCovers'
  <1> DEFINE x == <<t, Depth(t)>>
             fs == MoveTop(t, "body")
  <1>1. frames' = fs /\ Depth(t) > 0 /\ Top(t).at = "soff"
        /\ quiet' = (quiet \/ Occupants(fs) = {}) /\ UNCHANGED <<enabled, armed>>
    BY DEF Guard, Restack
  <1>2. /\ Occupants(fs) \ {x} = Occupants(frames) \ {x}
        /\ x \in Occupants(fs) /\ x \notin Occupants(frames)
    BY <1>1, MoveOccupants DEF TypeOK, Past
  <1>3. Occupants(fs) = Occupants(frames) \union {x}
    <2> HIDE DEF x, fs
    <2> QED  BY <1>2
  <1>4. Cardinality(Occupants(fs)) = Cardinality(Occupants(frames)) + 1
    BY <1>2, <1>3, OccupantsFinite, FS_AddElement
  <1>5. Occupants(frames)' = Occupants(fs)
    BY <1>1 DEF Occupants, ActivationsAt
  <1>6. Cardinality(Occupants(frames)) \in Nat /\ refcount \in Nat
    BY OccupantsFinite, FS_CardinalityType DEF TypeOK, ScalarsOK
  <1>7. enabled /\ armed => refcount' = IF refcount > 0 THEN refcount + 1 ELSE refcount
    BY DEF Guard, NoStealing
  <1>8. (quiet => quiet') /\ UNCHANGED <<enabled, armed>>
    BY <1>1
  <1>9. enabled /\ armed => IF refcount = 0 THEN quiet ELSE Cardinality(Occupants(frames)) <= refcount
    BY DEF Counting, RefcountCovers
  <1>10. CASE refcount = 0
    BY <1>7, <1>8, <1>9, <1>10 DEF RefcountCovers
  <1>11. CASE refcount # 0
    <2> HIDE DEF fs
    <2>1. enabled /\ armed => refcount' = refcount + 1 /\ Cardinality(Occupants(frames)) <= refcount
      BY <1>6, <1>7, <1>9, <1>11
    <2>2. enabled /\ armed => refcount' # 0 /\ Cardinality(Occupants(frames)') <= refcount'
      BY <2>1, <1>4, <1>5, <1>6
    <2> QED  BY <2>2, <1>8 DEF RefcountCovers
  <1> QED  BY <1>10, <1>11

LEMMA UnguardCounts ==
  ASSUME TypeOK, Counting, NEW t \in Threads, Unguard(t)
  PROVE  RefcountCovers'
  <1> DEFINE x == <<t, Depth(t)>>
             fs == Pop(t)
  <1>1. frames' = fs /\ Depth(t) > 0 /\ Top(t).at = "eoff"
        /\ quiet' = (quiet \/ Occupants(fs) = {}) /\ UNCHANGED <<enabled, armed>>
    BY DEF Unguard, Restack
  <1>2. Occupants(fs) = Occupants(frames) \ {x} /\ x \in Occupants(frames)
    BY <1>1, PopOccupants DEF TypeOK, Past
  <1>3. Cardinality(Occupants(fs)) = Cardinality(Occupants(frames)) - 1
        /\ IsFiniteSet(Occupants(fs))
    BY <1>2, OccupantsFinite, FS_RemoveElement
  <1>4. Occupants(frames)' = Occupants(fs)
    BY <1>1 DEF Occupants, ActivationsAt
  <1>5. /\ Cardinality(Occupants(frames)) \in Nat /\ refcount \in Nat
        /\ Cardinality(Occupants(fs)) \in Nat
        /\ Cardinality(Occupants(fs)) = 0 => Occupants(fs) = {}
    BY <1>3, OccupantsFinite, FS_CardinalityType, FS_EmptySet DEF TypeOK, ScalarsOK
  <1>6. enabled /\ armed => refcount' \in {refcount, IF refcount > 0 THEN refcount - 1 ELSE refcount}
    BY DEF Unguard
  <1>7. /\ quiet => quiet'
        /\ Occupants(fs) = {} => quiet'
        /\ UNCHANGED <<enabled, armed>>
    BY <1>1
  <1>8. enabled /\ armed => IF refcount = 0 THEN quiet ELSE Cardinality(Occupants(frames)) <= refcount
    BY DEF Counting, RefcountCovers
  <1>9. CASE refcount = 0
    BY <1>6, <1>7, <1>8, <1>9 DEF RefcountCovers
  <1>10. CASE refcount # 0
    <2> HIDE DEF fs
    <2>1. enabled /\ armed =>
            refcount' \in {refcount, refcount - 1} /\ Cardinality(Occupants(frames)) <= refcount
      BY <1>5, <1>6, <1>8, <1>10
    <2>2. enabled /\ armed => Cardinality(Occupants(frames)') <= refcount'
      BY <2>1, <1>3, <1>4, <1>5
    <2>3. enabled /\ armed /\ refcount' = 0 => Occupants(fs) = {}
      BY <2>2, <1>4, <1>5
    <2> QED  BY <2>2, <2>3, <1>7 DEF RefcountCovers
  <1> QED  BY <1>9, <1>10

LEMMA ArriveHarmless ==
  ASSUME TypeOK, Counting, NEW t \in Threads, NEW s \in Spans, Arrive(t, s)
  PROVE  Harmless
  <1>1. /\ frames' = Push(t, s, "soff") /\ Depth(t) < MaxDepth
        /\ quiet' = (quiet \/ Occupants(Push(t, s, "soff")) = {})
        /\ UNCHANGED <<lpc, dpc, state, refcount, enabled, armed, aborted>>
    BY DEF Arrive, Restack, daemon, CanCall
  <1>2. Depth(t) > 0 => Top(t).at = "body"
    <2>1. Depth(t) > 0 => Top(t).at \in {"body", "tail"}
      BY DEF Arrive, CanCall
    <2>2. Depth(t) > 0 => Top(t).at # "tail"
      BY DEF Counting, OnlyTopMoves, Top, Depth, TypeOK, StacksOK
    <2> QED  BY <2>1, <2>2
  <1>3. OnlyTopMoves'
    BY <1>1, <1>2, PushShape DEF TypeOK, Counting
  <1>4. Occupants(Push(t, s, "soff")) = Occupants(frames)
    BY <1>1, PushOccupants DEF TypeOK, Depth
  <1> QED  BY <1>1, <1>3, <1>4, NoMoreOccupants DEF Harmless

\* Any move of the innermost activation that enters no span.
LEMMA MoveHarmless ==
  ASSUME TypeOK, Counting, NEW t \in Threads, NEW from, NEW to, NEW spans,
         Move(t, from, to, spans), to \in {"soff", "eoff"}, from = "body"
  PROVE  Harmless
  <1> DEFINE fs == MoveTop(t, to)
             x  == <<t, Depth(t)>>
  <1>1. /\ frames' = fs /\ Depth(t) > 0 /\ Top(t).at = "body"
        /\ quiet' = (quiet \/ Occupants(fs) = {})
        /\ UNCHANGED <<lpc, dpc, state, refcount, enabled, armed, aborted>>
    BY DEF Move, Restack, daemon
  <1>2. OnlyTopMoves'
    BY <1>1, MoveShape DEF TypeOK, Counting
  <1>3. Occupants(fs) \ {x} = Occupants(frames) \ {x} /\ x \in Occupants(frames)
    BY <1>1, MoveOccupants DEF TypeOK, Past
  <1>4. Occupants(fs) \subseteq Occupants(frames)
    <2> HIDE DEF fs, x
    <2> QED  BY <1>3
  <1> HIDE DEF fs
  <1> QED  BY <1>1, <1>2, <1>4, NoMoreOccupants DEF Harmless

LEMMA ThreadHarmless ==
  ASSUME NoStealing, TypeOK, Counting, NEW t \in Threads, ThreadNext(t)
  PROVE  Harmless
  <1>1. ASSUME NEW s \in Spans, Arrive(t, s)  PROVE Harmless
    BY <1>1, ArriveHarmless
  <1>2. ASSUME NEW s \in Spans, EnterSideways(t, s)  PROVE Harmless
    BY <1>2 DEF EnterSideways, NoStealing
  <1>3. CASE Guard(t)
    <2>1. OnlyTopMoves'
      BY <1>3, MoveShape DEF Guard, Restack, TypeOK, Counting
    <2>2. quiet => quiet'
      BY <1>3 DEF Guard, Restack
    <2> QED  BY <1>3, <2>1, <2>2, GuardCounts DEF Harmless, Guard, Restack, daemon
  <1>4. CASE ReachExit(t) \/ JumpBack(t)
    BY <1>4, MoveHarmless DEF ReachExit, JumpBack
  <1>5. CASE CallInTail(t)
    BY <1>5 DEF CallInTail, Move, NoStealing
  <1>6. CASE ReturnToTail(t)
    BY <1>6 DEF ReturnToTail, Move, Counting, OnlyTopMoves, Top, Depth, TypeOK, StacksOK
  <1>7. CASE LeaveEarly(t)
    <2>1. /\ frames' = Pop(t) /\ Depth(t) > 0 /\ quiet' = (quiet \/ Occupants(Pop(t)) = {})
          /\ UNCHANGED <<lpc, dpc, state, refcount, enabled, armed, aborted>>
      BY <1>7 DEF LeaveEarly, Restack, daemon
    <2>2. OnlyTopMoves'
      BY <2>1, PopShape DEF TypeOK, Counting
    <2>3. Occupants(Pop(t)) \subseteq Occupants(frames)
      BY <2>1, PopOccupants DEF TypeOK
    <2> QED  BY <2>1, <2>2, <2>3, NoMoreOccupants DEF Harmless
  <1>8. CASE Unguard(t)
    <2>1. OnlyTopMoves'
      BY <1>8, PopShape DEF Unguard, Restack, TypeOK, Counting
    <2>2. quiet => quiet'
      BY <1>8 DEF Unguard, Restack
    <2> QED  BY <1>8, <2>1, <2>2, UnguardCounts DEF Harmless, Unguard, Restack, daemon
  <1>9. CASE RecordEnd(t) \/ Die(t) \/ Reap(t)
    <2>1. UNCHANGED <<lpc, dpc, state, refcount, enabled, armed, frames, quiet, aborted>>
      BY <1>9 DEF RecordEnd, Die, Reap, daemon, module, history
    <2>2. Occupants(frames)' = Occupants(frames)
      BY <2>1 DEF Occupants, ActivationsAt
    <2> QED  BY <2>1, <2>2 DEF Harmless, Counting, OnlyTopMoves, RefcountCovers
  <1> QED  BY <1>1, <1>2, <1>3, <1>4, <1>5, <1>6, <1>7, <1>8, <1>9 DEF ThreadNext

----------------------------------------------------------------------------
(* Counting: insmod, rmmod and the daemon *)

\* Without preemption the scan finds every activation, and finds it inside.
LEMMA ScanFindsAll ==
  ASSUME NoStealing, TypeOK, Counting, CPUsYield
  PROVE  InSpan(Threads) = Occupants(frames)
  <1>1. \A t \in Threads : ~AtProbe(t)
    BY DEF CPUsYield, NoStealing
  <1>2. ASSUME NEW t \in Threads, NEW i \in 1..MaxDepth, i <= Len(frames[t])
        PROVE  frames[t][i].at = "body"
    <2>1. Len(frames[t]) \in Nat /\ frames[t] \in Seq(Frame)
      BY DEF TypeOK, StacksOK
    <2>2. i \in 1..Len(frames[t])
      BY <1>2, <2>1
    <2>3. frames[t][i] \in Frame
      BY <2>1, <2>2
    <2>4. frames[t][i].at \in {"soff", "body", "tail", "eoff"}
      BY <2>3 DEF Frame
    <2>5. CASE i < Len(frames[t])
      BY <2>2, <2>5 DEF Counting, OnlyTopMoves
    <2>6. CASE i = Len(frames[t])
      BY <1>1, <2>2, <2>4, <2>6 DEF Counting, OnlyTopMoves, AtProbe, Depth, Top
    <2> QED  BY <1>2, <2>1, <2>5, <2>6
  <1>3. ASSUME NEW a \in Threads \X (1..MaxDepth)
        PROVE  a \in InSpan(Threads) <=> a \in Occupants(frames)
    <2>1. a[1] \in Threads /\ a[2] \in 1..MaxDepth
      OBVIOUS
    <2>2. Len(frames[a[1]]) - a[2] < MaxEntries
      <3>1. Len(frames[a[1]]) \in Nat /\ Len(frames[a[1]]) <= MaxDepth
        BY <2>1 DEF TypeOK, StacksOK
      <3> QED  BY <2>1, <3>1, ConstantsAssumption DEF NoStealing
    <2> QED  BY <2>1, <2>2, <1>2 DEF InSpan, Occupants, ActivationsAt
  <1>4. /\ InSpan(Threads) \subseteq Threads \X (1..MaxDepth)
        /\ Occupants(frames) \subseteq Threads \X (1..MaxDepth)
    BY DEF InSpan, Occupants, ActivationsAt
  <1> QED  BY <1>3, <1>4

\* So a scan that reaches the last thread sets the count right.
LEMMA ScanCountsAll ==
  ASSUME NoStealing, TypeOK, Control, Counting, NEW from, NEW to, Scan(from, to),
         from \in {"attached", "rattached"}, dead = {}
  PROVE  /\ refcount' = Cardinality(Occupants(frames)') /\ refcount' \in Nat
         /\ quiet' = (Occupants(frames)' = {})
         /\ enabled' = (Occupants(frames)' # {})
         /\ ~aborted'
  <1>1. refcount = 0 /\ ~enabled
    BY DEF Scan, Control
  <1>2. ScanStacks(Threads, TRUE) /\ UNCHANGED frames /\ quiet' = (Occupants(frames) = {})
    BY DEF Scan, threads
  <1>3. InSpan(Threads) = Occupants(frames)
    BY ScanFindsAll DEF Scan
  <1>4. refcount' = Cardinality(Occupants(frames)) /\ refcount' \in Nat
    BY <1>1, <1>2, <1>3, OccupantsFinite, FS_CardinalityType DEF ScanStacks
  <1>5. Occupants(frames)' = Occupants(frames)
    BY <1>2 DEF Occupants, ActivationsAt
  <1>6. enabled' = (Occupants(frames) # {}) /\ ~aborted'
    BY <1>1, <1>2, <1>3 DEF ScanStacks
  <1> QED  BY <1>2, <1>4, <1>5, <1>6

LEMMA ScanCounts ==
  ASSUME NoStealing, TypeOK, Control, Counting, NEW from, NEW to, Scan(from, to),
         from \in {"attached", "rattached"}
  PROVE  /\ RefcountCovers'
         /\ ~enabled' /\ ~aborted' => quiet'
  <1>1. CASE dead # {}
    <2>1. ~enabled
      BY DEF Scan, Control
    <2> QED  BY <1>1, <2>1 DEF Scan, ScanStacks, RefcountCovers, TypeOK, ScalarsOK
  <1>2. CASE dead = {}
    <2>1. /\ refcount' = Cardinality(Occupants(frames)') /\ refcount' \in Nat
          /\ quiet' = (Occupants(frames)' = {}) /\ enabled' = (Occupants(frames)' # {})
      BY <1>2, ScanCountsAll
    <2>2. UNCHANGED frames
      BY DEF Scan, threads
    <2>3. Occupants(frames)' = Occupants(frames)
      BY <2>2 DEF Occupants, ActivationsAt
    <2>4. refcount' = 0 => quiet'
      BY <2>1, <2>3, OccupantsFinite, FS_EmptySet
    <2>5. RefcountCovers'
      BY <2>1, <2>4 DEF RefcountCovers
    <2>6. ~enabled' => quiet'
      BY <2>1, Zenon
    <2> QED  BY <2>5, <2>6
  <1> QED  BY <1>1, <1>2

LEMMA ScanKeepsCounting ==
  ASSUME NoStealing, TypeOK, Control, Counting, ForwardScan \/ ReverseScan
  PROVE  Counting'
  <1>1. RefcountCovers' /\ (~enabled' /\ ~aborted' => quiet')
    BY ScanCounts DEF ForwardScan, ReverseScan
  <1>2. dpc' = dpc /\ dpc \in {"created", "parked"}
    BY DEF ForwardScan, ReverseScan, Scan, CPUsYield, NoStealing, daemon
  <1>3. OnlyTopMoves'
    BY DEF ForwardScan, ReverseScan, Scan, threads, Counting, OnlyTopMoves
  <1>4. ~Announced'
    BY DEF ForwardScan, ReverseScan, Scan, Announced, Control
  <1> QED  BY <1>1, <1>2, <1>3, <1>4 DEF Counting, DoneIsQuiet

\* A step that leaves the count, the stacks and the history alone.
Calm == UNCHANGED <<refcount, frames, quiet, aborted>>

LEMMA CalmCovers ==
  ASSUME Counting, Calm,
         \/ ~enabled' \/ ~armed'
         \/ UNCHANGED enabled /\ UNCHANGED armed
  PROVE  OnlyTopMoves' /\ RefcountCovers'
  <1>1. Occupants(frames)' = Occupants(frames)
    BY DEF Calm, Occupants, ActivationsAt
  <1>2. OnlyTopMoves'
    BY DEF Calm, Counting, OnlyTopMoves
  <1> QED  BY <1>1, <1>2 DEF Calm, Counting, RefcountCovers

LEMMA LoaderCounting ==
  ASSUME NoStealing, TypeOK, Control, Counting, LoaderNext
  PROVE  Counting'
  <1> USE DEF daemon, threads, history
  <1>1. CASE Insmod \/ InsmodNoSpans \/ Unloaded \/ BeginReverse
    <2>1. ~enabled' \/ ~armed'
      BY <1>1 DEF Insmod, InsmodNoSpans, Unloaded, BeginReverse, Control
    <2>4. OnlyTopMoves'
      BY <1>1 DEF Insmod, InsmodNoSpans, Unloaded, BeginReverse, Counting, OnlyTopMoves
    <2>2. dpc' \in {"none", "created", dpc} /\ UNCHANGED <<quiet, aborted>>
      BY <1>1 DEF Insmod, InsmodNoSpans, Unloaded, BeginReverse
    <2>3. lpc' \notin {"scanned", "rscanned"} /\ (Announced' => Announced)
      BY <1>1 DEF Insmod, InsmodNoSpans, Unloaded, BeginReverse, Announced, Control
    <2> QED  BY <2>1, <2>2, <2>3, <2>4 DEF Counting, DoneIsQuiet, RefcountCovers
  <1>2. CASE ForwardScan \/ ReverseScan
    BY <1>2, ScanKeepsCounting
  <1>3. CASE WakeForward \/ Rmmod \/ SkipReverse \/ WakeReverse \/ ReverseOver \/ KthreadStop
    <2>1. Calm /\ UNCHANGED <<enabled, armed, dpc, state>>
      BY <1>3 DEF WakeForward, Rmmod, SkipReverse, WakeReverse, ReverseOver, KthreadStop, Calm
    <2>2. lpc' \notin {"scanned", "rscanned"} /\ (Announced' => Announced)
      BY <1>3 DEF WakeForward, Rmmod, SkipReverse, WakeReverse, ReverseOver, KthreadStop,
                  Announced, Control
    <2> QED  BY <2>1, <2>2, CalmCovers DEF Calm, Counting, DoneIsQuiet
  <1>4. CASE InstantForward \/ InstantReverse
    <2>1. Calm /\ ~armed' /\ UNCHANGED dpc /\ lpc' \notin {"scanned", "rscanned"}
      BY <1>4 DEF InstantForward, InstantReverse, Calm
    <2>2. ~aborted => quiet
      BY <1>4 DEF InstantForward, InstantReverse, Counting
    <2> QED  BY <2>1, <2>2, CalmCovers DEF Calm, Counting, DoneIsQuiet
  <1>5. CASE SetReversePending
    <2>1. Calm /\ UNCHANGED <<enabled, armed, dpc>> /\ lpc' = "rwake"
          /\ ~Announced'
      BY <1>5 DEF SetReversePending, Calm, Announced
    <2> QED  BY <2>1, CalmCovers DEF Calm, Counting, DoneIsQuiet
  <1> QED  BY <1>1, <1>2, <1>3, <1>4, <1>5 DEF LoaderNext

LEMMA DaemonCounting ==
  ASSUME TypeOK, Control, Counting, DaemonNext
  PROVE  Counting'
  <1> USE DEF threads, history
  <1>1. Calm /\ UNCHANGED <<lpc, enabled>> /\ (armed' = armed \/ ~armed')
    BY DEF DaemonNext, DStart, DTop, DTerminal, DPark, DWoken, DSeeZero, DClearTimes, DDisarm,
           DDone, DWait, DPoll, DTimeout, DFailed, module, Calm
  <1>2. OnlyTopMoves' /\ RefcountCovers'
    BY <1>1, CalmCovers
  <1>3. CASE DSeeZero
    <2>1. enabled /\ armed /\ refcount = 0 /\ UNCHANGED state
      BY <1>3 DEF DSeeZero, Control, Working, Draining
    <2>2. quiet
      BY <2>1 DEF Counting, RefcountCovers
    <2> QED  BY <1>1, <1>2, <2>1, <2>2 DEF Calm, Counting, DoneIsQuiet, Announced
  <1>4. CASE DDone \/ DClearTimes \/ DDisarm
    <2>1. dpc \in {"clear", "disarm", "drain_done"} \/ (dpc = "expired" /\ dpc' = "drain_fail")
      BY <1>4 DEF DDone, DClearTimes, DDisarm
    <2>2. dpc' = "drain_fail" => UNCHANGED state
      BY <1>4 DEF DDone, DClearTimes, DDisarm
    <2> QED  BY <1>1, <1>2, <2>1, <2>2 DEF Calm, Counting, DoneIsQuiet, Announced
  <1>5. CASE DFailed
    <2>1. ~Announced' /\ dpc' = "top"
      BY <1>5 DEF DFailed, Announced, IsReverse
    <2> QED  BY <1>1, <1>2, <2>1 DEF Calm, Counting, DoneIsQuiet
  <1>6. CASE DStart \/ DTop \/ DTerminal \/ DPark \/ DWoken \/ DWait \/ DPoll \/ DTimeout
    <2>1. dpc' \notin {"clear", "disarm", "drain_done"} /\ UNCHANGED state
      BY <1>6 DEF DStart, DTop, DTerminal, DPark, DWoken, DWait, DPoll, DTimeout, module
    <2> QED  BY <1>1, <1>2, <2>1 DEF Calm, Counting, DoneIsQuiet, Announced
  <1> QED  BY <1>3, <1>4, <1>5, <1>6 DEF DaemonNext

\* Given the conditions of NoStealing, Counting holds of every behaviour.
THEOREM CountingInvariant == ASSUME NoStealing PROVE Spec => []Counting
  <1>1. Init => Counting
    <2> SUFFICES ASSUME Init PROVE Counting
      OBVIOUS
    <2>1. OnlyTopMoves
      BY DEF Init, OnlyTopMoves
    <2> QED  BY <2>1 DEF Init, Counting, RefcountCovers, DoneIsQuiet, Announced
  <1>2. TypeOK /\ Control /\ Counting /\ [Next]_vars => Counting'
    <2> SUFFICES ASSUME TypeOK, Control, Counting, [Next]_vars PROVE Counting'
      OBVIOUS
    <2>1. CASE UNCHANGED vars
      <3>1. Calm /\ UNCHANGED <<lpc, dpc, state, enabled, armed>>
        BY <2>1 DEF vars, module, daemon, threads, history, Calm
      <3> QED  BY <3>1, CalmCovers DEF Calm, Counting, DoneIsQuiet, Announced
    <2>2. CASE \E t \in Threads : ThreadNext(t)
      BY <2>2, ThreadHarmless, HarmlessKeepsCounting
    <2> QED  BY <2>1, <2>2, LoaderCounting, DaemonCounting DEF Next
  <1> QED  BY <1>1, <1>2, TypeCorrect, ControlInvariant, PTL DEF Spec

\* A transition announced as done passed through a moment at which no thread
\* was inside a safe span, for any number of threads, spans and activations.
THEOREM DoneIsQuietTheorem == ASSUME NoStealing PROVE Spec => []DoneIsQuiet
  <1>1. Counting => DoneIsQuiet
    BY DEF Counting
  <1> QED  BY <1>1, CountingInvariant, PTL

\* The count never falls short of the activations that are inside.
THEOREM RefcountCoversTheorem == ASSUME NoStealing PROVE Spec => []RefcountCovers
  <1>1. Counting => RefcountCovers
    BY DEF Counting
  <1> QED  BY <1>1, CountingInvariant, PTL

\* The probes stay from the scan to the daemon's verdict, whatever the spans
\* look like, with or without preemption.
THEOREM ArmedUntilDecidedTheorem == Spec => []ArmedUntilDecided
  <1>1. Control => ArmedUntilDecided
    BY DEF Control, ArmedUntilDecided, Working, Draining, Pending, Terminal
  <1> QED  BY <1>1, ControlInvariant, PTL

\* The module's memory is released only when nothing can run its code.
THEOREM UnloadIsCleanTheorem == Spec => []UnloadIsClean
  <1>1. Control => UnloadIsClean
    BY DEF Control, UnloadIsClean, Draining
  <1> QED  BY <1>1, ControlInvariant, PTL

----------------------------------------------------------------------------
(* The count is exact when every unit is given back *)

\* A step that leaves the count and the number of occupants alone.
LEMMA SameCountExact ==
  ASSUME RefcountExact, UNCHANGED refcount,
         Cardinality(Occupants(frames)') = Cardinality(Occupants(frames)),
         enabled' /\ armed' => enabled /\ armed
  PROVE  RefcountExact'
  BY DEF RefcountExact

LEMMA MoveExact ==
  ASSUME TypeOK, RefcountExact, NEW t \in Threads, NEW spans, Move(t, "body", "eoff", spans)
  PROVE  RefcountExact'
  <1> DEFINE x  == <<t, Depth(t)>>
             fs == MoveTop(t, "eoff")
  <1>1. frames' = fs /\ Depth(t) > 0 /\ Top(t).at = "body" /\ UNCHANGED <<refcount, enabled, armed>>
    BY DEF Move, Restack
  <1>2. Occupants(fs) \ {x} = Occupants(frames) \ {x} /\ x \in Occupants(fs) /\ x \in Occupants(frames)
    BY <1>1, MoveOccupants DEF TypeOK, Past
  <1>3. Occupants(fs) = Occupants(frames)
    <2> HIDE DEF x, fs
    <2> QED  BY <1>2
  <1>4. Occupants(frames)' = Occupants(fs)
    BY <1>1 DEF Occupants, ActivationsAt
  <1> QED  BY <1>1, <1>3, <1>4, SameCountExact

LEMMA ThreadExact ==
  ASSUME NoStealing, NoLeaking, TypeOK, Counting, RefcountExact,
         NEW t \in Threads, ThreadNext(t)
  PROVE  RefcountExact'
  <1>1. ASSUME NEW s \in Spans, Arrive(t, s)
        PROVE  RefcountExact'
    <2>1. /\ frames' = Push(t, s, "soff") /\ Len(frames[t]) < MaxDepth
          /\ UNCHANGED <<refcount, enabled, armed>>
      BY <1>1 DEF Arrive, Restack, CanCall, Depth
    <2>2. Occupants(frames)' = Occupants(Push(t, s, "soff"))
      BY <2>1 DEF Occupants, ActivationsAt
    <2> QED  BY <2>1, <2>2, PushOccupants, SameCountExact DEF TypeOK
  <1>2. ASSUME NEW s \in Spans, EnterSideways(t, s)  PROVE RefcountExact'
    BY <1>2 DEF EnterSideways, NoStealing
  <1>3. CASE Guard(t)
    <2> DEFINE x  == <<t, Depth(t)>>
               fs == MoveTop(t, "body")
    <2>1. /\ frames' = fs /\ Depth(t) > 0 /\ Top(t).at = "soff" /\ UNCHANGED <<enabled, armed>>
          /\ enabled /\ armed => refcount' = IF refcount > 0 THEN refcount + 1 ELSE refcount
      BY <1>3 DEF Guard, Restack, NoStealing
    <2>2. /\ Occupants(fs) \ {x} = Occupants(frames) \ {x}
          /\ x \in Occupants(fs) /\ x \notin Occupants(frames)
      BY <2>1, MoveOccupants DEF TypeOK, Past
    <2>3. Occupants(fs) = Occupants(frames) \union {x}
      <3> HIDE DEF x, fs
      <3> QED  BY <2>2
    <2>4. Cardinality(Occupants(fs)) = Cardinality(Occupants(frames)) + 1
      BY <2>2, <2>3, OccupantsFinite, FS_AddElement
    <2>5. Occupants(frames)' = Occupants(fs)
      BY <2>1 DEF Occupants, ActivationsAt
    <2>6. Cardinality(Occupants(frames)) \in Nat /\ refcount \in Nat
      BY OccupantsFinite, FS_CardinalityType DEF TypeOK, ScalarsOK
    <2> HIDE DEF fs
    <2> QED  BY <2>1, <2>4, <2>5, <2>6 DEF RefcountExact
  <1>4. CASE ReachExit(t)
    BY <1>4, MoveExact DEF ReachExit
  <1>5. CASE CallInTail(t) \/ ReturnToTail(t)
    BY <1>5 DEF CallInTail, ReturnToTail, Move, NoStealing, Counting, OnlyTopMoves, Top, Depth,
                TypeOK, StacksOK
  <1>6. CASE JumpBack(t) \/ LeaveEarly(t)
    BY <1>6 DEF JumpBack, LeaveEarly, Move, NoLeaking
  <1>7. CASE Unguard(t)
    <2> DEFINE x  == <<t, Depth(t)>>
               fs == Pop(t)
    <2>1. /\ frames' = fs /\ Depth(t) > 0 /\ Top(t).at = "eoff" /\ UNCHANGED <<enabled, armed>>
          /\ enabled /\ armed => refcount' = IF refcount > 0 THEN refcount - 1 ELSE refcount
      BY <1>7 DEF Unguard, Restack, NoLeaking
    <2>2. Occupants(fs) = Occupants(frames) \ {x} /\ x \in Occupants(frames)
      BY <2>1, PopOccupants DEF TypeOK, Past
    <2>3. Cardinality(Occupants(fs)) = Cardinality(Occupants(frames)) - 1
      BY <2>2, OccupantsFinite, FS_RemoveElement
    <2>4. Occupants(frames)' = Occupants(fs)
      BY <2>1 DEF Occupants, ActivationsAt
    <2>5. Cardinality(Occupants(frames)) \in Nat /\ refcount \in Nat
      BY OccupantsFinite, FS_CardinalityType DEF TypeOK, ScalarsOK
    <2> HIDE DEF fs
    <2> QED  BY <2>1, <2>3, <2>4, <2>5 DEF RefcountExact
  <1>8. CASE RecordEnd(t) \/ Die(t) \/ Reap(t)
    <2>1. UNCHANGED <<refcount, enabled, armed, frames>>
      BY <1>8 DEF RecordEnd, Die, Reap, module
    <2>2. Occupants(frames)' = Occupants(frames)
      BY <2>1 DEF Occupants, ActivationsAt
    <2> QED  BY <2>1, <2>2, SameCountExact
  <1> QED  BY <1>1, <1>2, <1>3, <1>4, <1>5, <1>6, <1>7, <1>8 DEF ThreadNext

LEMMA LoaderExact ==
  ASSUME NoStealing, TypeOK, Control, Counting, RefcountExact, LoaderNext
  PROVE  RefcountExact'
  <1> USE DEF daemon, threads, history
  <1>1. CASE Insmod \/ InsmodNoSpans \/ Unloaded \/ BeginReverse
    BY <1>1 DEF Insmod, InsmodNoSpans, Unloaded, BeginReverse, Control, RefcountExact
  <1>2. CASE InstantForward \/ InstantReverse
    BY <1>2 DEF InstantForward, InstantReverse, RefcountExact
  <1>3. CASE ForwardScan \/ ReverseScan
    <2>1. ASSUME NEW from, NEW to, Scan(from, to), from \in {"attached", "rattached"}
          PROVE  RefcountExact'
      <3>1. CASE dead = {}
        BY <2>1, <3>1, ScanCountsAll DEF RefcountExact
      <3>2. CASE dead # {}
        BY <2>1, <3>2 DEF Scan, ScanStacks, Control, RefcountExact, TypeOK, ScalarsOK
      <3> QED  BY <3>1, <3>2
    <2> QED  BY <1>3, <2>1 DEF ForwardScan, ReverseScan
  <1>4. CASE \/ WakeForward \/ Rmmod \/ SkipReverse \/ SetReversePending \/ WakeReverse
             \/ ReverseOver \/ KthreadStop
    <2>1. UNCHANGED <<refcount, enabled, armed, frames>>
      BY <1>4 DEF WakeForward, Rmmod, SkipReverse, SetReversePending, WakeReverse, ReverseOver,
                  KthreadStop
    <2>2. Occupants(frames)' = Occupants(frames)
      BY <2>1 DEF Occupants, ActivationsAt
    <2> QED  BY <2>1, <2>2, SameCountExact
  <1> QED  BY <1>1, <1>2, <1>3, <1>4 DEF LoaderNext

LEMMA DaemonExact ==
  ASSUME TypeOK, RefcountExact, DaemonNext
  PROVE  RefcountExact'
  <1>1. UNCHANGED <<refcount, enabled, frames>> /\ (armed' = armed \/ ~armed')
    BY DEF DaemonNext, DStart, DTop, DTerminal, DPark, DWoken, DSeeZero, DClearTimes, DDisarm,
           DDone, DWait, DPoll, DTimeout, DFailed, module, threads
  <1>2. Occupants(frames)' = Occupants(frames)
    BY <1>1 DEF Occupants, ActivationsAt
  <1> QED  BY <1>1, <1>2, SameCountExact

\* One unit per activation, given back when it leaves: while the handlers
\* count, the count is the number of activations inside, for any number of
\* threads and spans, any depth of recursion, and threads that exit.
THEOREM RefcountExactTheorem == ASSUME NoStealing, NoLeaking PROVE Spec => []RefcountExact
  <1>1. Init => RefcountExact
    BY DEF Init, RefcountExact
  <1>2. TypeOK /\ Control /\ Counting /\ RefcountExact /\ [Next]_vars => RefcountExact'
    <2> SUFFICES ASSUME TypeOK, Control, Counting, RefcountExact, [Next]_vars
                 PROVE  RefcountExact'
      OBVIOUS
    <2>1. CASE UNCHANGED vars
      <3>1. UNCHANGED <<refcount, enabled, armed, frames>>
        BY <2>1 DEF vars, module, threads
      <3>2. Occupants(frames)' = Occupants(frames)
        BY <3>1 DEF Occupants, ActivationsAt
      <3> QED  BY <3>1, <3>2, SameCountExact
    <2>2. CASE \E t \in Threads : ThreadNext(t)
      BY <2>2, ThreadExact
    <2> QED  BY <2>1, <2>2, LoaderExact, DaemonExact DEF Next
  <1> QED  BY <1>1, <1>2, TypeCorrect, ControlInvariant, CountingInvariant, PTL DEF Spec

----------------------------------------------------------------------------
(* Every announcement, and the abstract transition *)

\* Without deaths no scan gives up.
Whole == dead = {} /\ ~aborted

LEMMA WholeInvariant == ASSUME NoDeaths PROVE Spec => []Whole
  <1>1. Init => Whole
    BY DEF Init, Whole
  <1>2. TypeOK /\ Whole /\ [Next]_vars => Whole'
    <2> SUFFICES ASSUME TypeOK, Whole, [Next]_vars PROVE Whole'
      OBVIOUS
    <2> USE DEF Whole, daemon, threads, history, module
    <2>1. CASE ForwardScan \/ ReverseScan
      <3>1. dead' = dead /\ ScanStacks(Threads, TRUE)
        BY <2>1 DEF ForwardScan, ReverseScan, Scan
      <3> QED  BY <3>1 DEF ScanStacks
    <2>2. CASE LoaderNext /\ ~(ForwardScan \/ ReverseScan)
      <3>1. UNCHANGED <<dead, aborted>>
        BY <2>2 DEF LoaderNext, Insmod, InsmodNoSpans, WakeForward, InstantForward, Rmmod,
             BeginReverse, SkipReverse, SetReversePending, WakeReverse, InstantReverse,
             ReverseOver, KthreadStop, Unloaded
      <3> QED  BY <3>1
    <2>3. CASE DaemonNext
      <3>1. UNCHANGED <<dead, aborted>>
        BY <2>3 DEF DaemonNext, DStart, DTop, DTerminal, DPark, DWoken, DSeeZero, DClearTimes,
             DDisarm, DDone, DWait, DPoll, DTimeout, DFailed
      <3> QED  BY <3>1
    <2>4. ASSUME NEW t \in Threads, ThreadNext(t)  PROVE Whole'
      <3>1. CASE Die(t) \/ Reap(t)
        BY <3>1 DEF Die, Reap, NoDeaths
      <3>2. CASE RecordEnd(t)
        BY <3>2 DEF RecordEnd
      <3>3. ASSUME NEW fs, Restack(fs)  PROVE Whole'
        BY <3>3 DEF Restack
      <3> QED  BY <2>4, <3>1, <3>2, <3>3
               DEF ThreadNext, Arrive, EnterSideways, Guard, ReachExit, CallInTail, ReturnToTail,
                   JumpBack, Move, LeaveEarly, Unguard
    <2>5. CASE UNCHANGED vars
      BY <2>5 DEF vars
    <2> QED  BY <2>1, <2>2, <2>3, <2>4, <2>5 DEF Next
  <1> QED  BY <1>1, <1>2, TypeCorrect, PTL DEF Spec

\* Without deaths every announcement is of a quiet moment, the instant ones
\* included.
THEOREM AnnouncedIsQuietTheorem == ASSUME NoStealing, NoDeaths PROVE Spec => []AnnouncedIsQuiet
  <1>1. Counting /\ Whole => AnnouncedIsQuiet
    BY DEF Counting, Whole, DoneIsQuiet, AnnouncedIsQuiet
  <1> QED  BY <1>1, CountingInvariant, WholeInvariant, PTL

LEMMA SameSeen ==
  ASSUME UNCHANGED <<frames, quiet>>, Phase' = Phase
  PROVE  UNCHANGED Abstract!vars
  <1>1. Occupants(frames)' = Occupants(frames)
    BY DEF Occupants, ActivationsAt
  <1> QED  BY <1>1 DEF Abstract!vars

LEMMA LoaderRefines ==
  ASSUME NoStealing, TypeOK, Control, Counting, Whole, LoaderNext
  PROVE  [Abstract!Next]_(Abstract!vars)
  <1> USE DEF daemon, threads, history
  <1>1. CASE \/ Insmod \/ InsmodNoSpans \/ WakeForward \/ Rmmod \/ BeginReverse \/ SkipReverse
             \/ SetReversePending \/ WakeReverse \/ ReverseOver \/ KthreadStop
    <2>1. UNCHANGED <<frames, quiet>>
      BY <1>1 DEF Insmod, InsmodNoSpans, WakeForward, Rmmod, BeginReverse, SkipReverse,
                  SetReversePending, WakeReverse, ReverseOver, KthreadStop
    <2>2. Phase' = Phase
      BY <1>1 DEF Insmod, InsmodNoSpans, WakeForward, Rmmod, BeginReverse, SkipReverse,
                  SetReversePending, WakeReverse, ReverseOver, KthreadStop, Phase, Control
    <2> QED  BY <2>1, <2>2, SameSeen
  <1>2. CASE ForwardScan \/ ReverseScan
    <2>1. UNCHANGED frames /\ quiet' = (Occupants(frames) = {})
      BY <1>2 DEF ForwardScan, ReverseScan, Scan
    <2>2. Occupants(frames)' = Occupants(frames)
      BY <2>1 DEF Occupants, ActivationsAt
    <2>3. CASE ForwardScan
      <3>1. Phase = "IDLE" /\ Phase' = "PENDING"
        BY <2>3 DEF ForwardScan, Scan, Phase, Control
      <3> QED  BY <2>1, <2>2, <3>1 DEF Abstract!Next, Abstract!Begin
    <2>4. CASE ReverseScan
      <3>1. Phase = "DONE" /\ Phase' = "REVERSE_PENDING"
        BY <2>4 DEF ReverseScan, Scan, Phase, Control
      <3> QED  BY <2>1, <2>2, <3>1 DEF Abstract!Next, Abstract!Begin
    <2> QED  BY <1>2, <2>3, <2>4
  <1>3. CASE InstantForward \/ InstantReverse
    <2>1. quiet /\ UNCHANGED <<frames, quiet>>
      BY <1>3 DEF InstantForward, InstantReverse, Counting, Whole
    <2>2. Occupants(frames)' = Occupants(frames)
      BY <2>1 DEF Occupants, ActivationsAt
    <2>3. \/ Phase = "PENDING" /\ Phase' = "DONE"
          \/ Phase = "REVERSE_PENDING" /\ Phase' = "REVERSE_DONE"
      BY <1>3 DEF InstantForward, InstantReverse, Phase, Control
    <2> QED  BY <2>1, <2>2, <2>3 DEF Abstract!Next, Abstract!Finish
  <1>4. CASE Unloaded
    <2>1. UNCHANGED <<frames, quiet>>
      BY <1>4 DEF Unloaded
    <2>2. Occupants(frames)' = Occupants(frames)
      BY <2>1 DEF Occupants, ActivationsAt
    <2>3. Phase \in {"FAILED", "REVERSE_DONE", "REVERSE_FAILED"} /\ Phase' = "IDLE"
      BY <1>4 DEF Unloaded, Phase, Control
    <2> QED  BY <2>1, <2>2, <2>3 DEF Abstract!Next, Abstract!Unload
  <1> QED  BY <1>1, <1>2, <1>3, <1>4 DEF LoaderNext

LEMMA DaemonRefines ==
  ASSUME TypeOK, Control, Counting, DaemonNext
  PROVE  [Abstract!Next]_(Abstract!vars)
  <1>1. UNCHANGED <<lpc, frames, quiet>>
    BY DEF DaemonNext, DStart, DTop, DTerminal, DPark, DWoken, DSeeZero, DClearTimes, DDisarm,
           DDone, DWait, DPoll, DTimeout, DFailed, module, threads, history
  <1>2. Occupants(frames)' = Occupants(frames)
    BY <1>1 DEF Occupants, ActivationsAt
  <1>3. CASE UNCHANGED state
    BY <1>1, <1>3, SameSeen DEF Phase
  <1>4. CASE DDone \/ DFailed
    <2>1. state \in Pending /\ ds = state
      BY <1>4 DEF DDone, DFailed, Control, Working
    <2>2. lpc \notin {"idle", "error", "attached", "rscanned"}
      BY <1>4, <2>1 DEF DDone, DFailed, Control, Pending
    <2>3. Phase = state /\ Phase' = state'
      BY <1>1, <2>2 DEF Phase
    <2>4. CASE DDone
      <3>1. quiet
        BY <2>4 DEF DDone, Counting
      <3>2. \/ Phase = "PENDING" /\ Phase' = "DONE"
            \/ Phase = "REVERSE_PENDING" /\ Phase' = "REVERSE_DONE"
        BY <2>1, <2>3, <2>4 DEF DDone, Pending, IsReverse
      <3> QED  BY <1>1, <1>2, <3>1, <3>2 DEF Abstract!Next, Abstract!Finish
    <2>5. CASE DFailed
      <3>1. \/ Phase = "PENDING" /\ Phase' = "FAILED"
            \/ Phase = "REVERSE_PENDING" /\ Phase' = "REVERSE_FAILED"
        BY <2>1, <2>3, <2>5 DEF DFailed, Pending, IsReverse
      <3> QED  BY <1>1, <1>2, <3>1 DEF Abstract!Next, Abstract!Fail
    <2> QED  BY <1>4, <2>4, <2>5
  <1>5. UNCHANGED state \/ DDone \/ DFailed
    BY DEF DaemonNext, DStart, DTop, DTerminal, DPark, DWoken, DSeeZero, DClearTimes, DDisarm,
           DWait, DPoll, DTimeout, module
  <1> QED  BY <1>3, <1>4, <1>5

LEMMA ThreadRefines ==
  ASSUME NEW t \in Threads, ThreadNext(t)
  PROVE  [Abstract!Next]_(Abstract!vars)
  <1>1. ASSUME NEW fs, Restack(fs)
        PROVE  Abstract!Move
    <2>1. Occupants(frames)' = Occupants(fs) /\ quiet' = (quiet \/ Occupants(fs) = {})
      BY <1>1 DEF Restack, Occupants, ActivationsAt
    <2>2. Occupants(fs) \in SUBSET (Threads \X (1..MaxDepth))
      BY DEF Occupants, ActivationsAt
    <2>3. Phase' = Phase
      BY <1>1 DEF Restack, Phase
    <2> QED  BY <2>1, <2>2, <2>3 DEF Abstract!Move
  <1>2. CASE RecordEnd(t) \/ Die(t) \/ Reap(t)
    <2>1. UNCHANGED <<lpc, state, frames, quiet>>
      BY <1>2 DEF RecordEnd, Die, Reap, module, history
    <2> QED  BY <2>1, SameSeen DEF Phase
  <1>3. RecordEnd(t) \/ Die(t) \/ Reap(t) \/ \E fs : Restack(fs)
    BY DEF ThreadNext, Arrive, EnterSideways, Guard, ReachExit, CallInTail, ReturnToTail,
           JumpBack, Move, LeaveEarly, Unguard
  <1> QED  BY <1>1, <1>2, <1>3 DEF Abstract!Next

\* The module implements the abstract transition: every step of insmod, rmmod,
\* the daemon, a handler or a thread is a step of QuietPoint or a stutter.
THEOREM ImplementsQuietPointTheorem ==
  ASSUME NoStealing, NoDeaths
  PROVE  Spec => ImplementsQuietPoint
  <1>1. Init => Abstract!Init
    <2> SUFFICES ASSUME Init PROVE Abstract!Init
      OBVIOUS
    <2>1. Occupants(frames) = {}
      BY ConstantsAssumption DEF Init, Occupants, ActivationsAt
    <2>2. Phase = "IDLE" /\ quiet = FALSE
      BY DEF Init, Phase
    <2> QED  BY <2>1, <2>2 DEF Abstract!Init
  <1>2. TypeOK /\ Control /\ Counting /\ Whole /\ [Next]_vars => [Abstract!Next]_(Abstract!vars)
    <2> SUFFICES ASSUME TypeOK, Control, Counting, Whole, [Next]_vars
                 PROVE  [Abstract!Next]_(Abstract!vars)
      OBVIOUS
    <2>1. CASE UNCHANGED vars
      <3>1. UNCHANGED <<frames, quiet, lpc, state>>
        BY <2>1 DEF vars, threads, history, module
      <3> QED  BY <3>1, SameSeen DEF Phase
    <2> QED  BY <2>1, LoaderRefines, DaemonRefines, ThreadRefines DEF Next
  <1> QED  BY <1>1, <1>2, TypeCorrect, ControlInvariant, CountingInvariant, WholeInvariant, PTL
           DEF Spec, ImplementsQuietPoint, Abstract!Spec
=============================================================================
