------------------------ MODULE TransitionStatsProofs ------------------------
(***************************************************************************)
(* What holds of the statistics cell for any threads, latencies and epochs.*)
(***************************************************************************)
EXTENDS TransitionStats, FiniteSetTheorems, WellFoundedInduction, TLAPS

\* Everything that is a latency or an extreme is a latency that has occurred.
Shape ==
  /\ epoch \in 0..MaxEpoch
  /\ storage \in [Threads -> [done : BOOLEAN, ended : BOOLEAN, epoch : 0..MaxEpoch]]
  /\ pc \in [Threads -> Steps] /\ lat \in [Threads -> Seen] /\ old \in [Threads -> Seen]
  /\ log \subseteq [thread : Threads, epoch : 0..MaxEpoch, ns : Latencies]
  /\ overlap \in BOOLEAN /\ row \in 0..4
  /\ cell \in [min : Seen, max : Seen, total : Nat, count : Nat]
  /\ shown \in [min : Seen, max : Seen, total : Nat, count : Nat]

\* A handler that is about to swap has found a value to better.
Better ==
  \A t \in Threads :
    /\ pc[t] = "swap min" => old[t] = 0 \/ lat[t] < old[t]
    /\ pc[t] = "swap max" => lat[t] > old[t]

Thread(t) == \/ Guard(t) \/ AddCount(t) \/ AddTotal(t)
             \/ ReadMin(t) \/ SwapMin(t) \/ ReadMax(t) \/ SwapMax(t)

LEMMA SeenIsNat == ASSUME Shape PROVE Seen \subseteq Nat
<1>1. ASSUME NEW e \in log PROVE e.ns \in Nat
  BY StatsAssumption DEF Shape
<1> QED BY <1>1 DEF Seen

\* A guard leaves everything well formed, and nobody about to swap.
LEMMA GuardStep ==
  ASSUME Shape, Better, NEW t \in Threads, Guard(t)
  PROVE  Shape' /\ Better'
<1>1. PICK safe \in BOOLEAN, ns \in Latencies :
        LET data   == Current(t)
            passes == ~data.done /\ safe
            counts == passes /\ ~data.ended
        IN /\ storage' = [storage EXCEPT ![t] =
                [data EXCEPT !.done = @ \/ safe, !.ended = @ \/ passes]]
           /\ log' = IF passes THEN log \cup {[thread |-> t, epoch |-> epoch, ns |-> ns]}
                     ELSE log
           /\ pc' = IF counts THEN [pc EXCEPT ![t] = "count"] ELSE pc
           /\ lat' = IF counts THEN [lat EXCEPT ![t] = ns] ELSE lat
           /\ overlap' = (overlap \/ (counts /\ \E u \in Threads : pc[u] # "out"))
  BY DEF Guard
<1> DEFINE data   == Current(t)
           passes == ~data.done /\ safe
           counts == passes /\ ~data.ended
           more   == [data EXCEPT !.done = @ \/ safe, !.ended = @ \/ passes]
<1>2. data \in [done : BOOLEAN, ended : BOOLEAN, epoch : 0..MaxEpoch]
  BY DEF Shape, Current
<1>3. passes \in BOOLEAN /\ (counts => passes) OBVIOUS
<1>4. storage' = [storage EXCEPT ![t] = more] BY <1>1
<1>5. more \in [done : BOOLEAN, ended : BOOLEAN, epoch : 0..MaxEpoch]
  <2>1. (data.done \/ safe) \in BOOLEAN /\ (data.ended \/ passes) \in BOOLEAN OBVIOUS
  <2> HIDE DEF data, passes
  <2> QED BY <1>2, <2>1
<1>6. /\ log' = IF passes THEN log \cup {[thread |-> t, epoch |-> epoch, ns |-> ns]} ELSE log
      /\ pc' = IF counts THEN [pc EXCEPT ![t] = "count"] ELSE pc
      /\ lat' = IF counts THEN [lat EXCEPT ![t] = ns] ELSE lat
      /\ overlap' \in BOOLEAN
  BY <1>1 DEF Shape
<1>7. UNCHANGED <<epoch, old, cell, row, shown>> BY DEF Guard
<1> HIDE DEF data, passes, counts, more
<1>8. /\ log \subseteq log'
      /\ log' \subseteq [thread : Threads, epoch : 0..MaxEpoch, ns : Latencies]
      /\ counts => [thread |-> t, epoch |-> epoch, ns |-> ns] \in log'
  BY <1>3, <1>6 DEF Shape
<1>9. Seen \subseteq Seen' BY <1>8 DEF Seen
<1>10. counts => ns \in Seen'
  <2>1. [thread |-> t, epoch |-> epoch, ns |-> ns].ns = ns OBVIOUS
  <2> QED BY <1>8, <2>1 DEF Seen
<1>11. /\ pc' \in [Threads -> Steps]
       /\ \A u \in Threads : pc'[u] = pc[u] \/ pc'[u] = "count"
  BY <1>6 DEF Shape, Steps
<1>12. lat' \in [Threads -> Seen'] BY <1>6, <1>9, <1>10 DEF Shape
<1>13. \A u \in Threads : pc'[u] # "count" => lat'[u] = lat[u]
  <2>1. ~counts => lat' = lat BY <1>6
  <2>2. counts => pc'[t] = "count" BY <1>6 DEF Shape
  <2>3. \A u \in Threads : u # t => lat'[u] = lat[u] BY <1>6 DEF Shape
  <2> QED BY <2>1, <2>2, <2>3
<1>14. Shape'
  <2>1. storage' \in [Threads -> [done : BOOLEAN, ended : BOOLEAN, epoch : 0..MaxEpoch]]
    BY <1>4, <1>5 DEF Shape
  <2>2. /\ cell' \in [min : Seen', max : Seen', total : Nat, count : Nat]
        /\ shown' \in [min : Seen', max : Seen', total : Nat, count : Nat]
        /\ old' \in [Threads -> Seen']
    BY <1>7, <1>9 DEF Shape
  <2> QED BY <1>6, <1>7, <1>8, <1>11, <1>12, <2>1, <2>2 DEF Shape
<1>15. Better' BY <1>7, <1>11, <1>13 DEF Better
<1> QED BY <1>14, <1>15

LEMMA ThreadStep ==
  ASSUME Shape, Better, NEW t \in Threads, Thread(t)
  PROVE  Shape' /\ Better'
<1>1. CASE Guard(t) BY <1>1, GuardStep
<1>2. CASE ~Guard(t)
  <2>1. log' = log /\ UNCHANGED <<epoch, storage, lat, row, shown, overlap>>
    BY <1>2 DEF Thread, AddCount, AddTotal, ReadMin, SwapMin, ReadMax, SwapMax
  <2>2. Seen' = Seen BY <2>1 DEF Seen
  <2>3. Seen \subseteq Nat BY SeenIsNat
  <2>4. lat[t] \in Seen /\ lat[t] \in Nat /\ cell.min \in Seen /\ cell.max \in Seen
        /\ cell.total \in Nat /\ cell.count \in Nat
    BY <2>3 DEF Shape
  <2>5. CASE AddCount(t)
    <3>1. cell' = [cell EXCEPT !.count = cell'.count] /\ cell'.count \in Nat
      BY <2>4, <2>5 DEF AddCount, Shape
    <3>2. cell' \in [min : Seen, max : Seen, total : Nat, count : Nat] BY <3>1 DEF Shape
    <3>3. /\ pc' \in [Threads -> Steps] /\ old' = old
          /\ \A u \in Threads : pc'[u] # pc[u] => pc'[u] = "total"
      BY <2>5 DEF AddCount, Shape, Steps
    <3>4. Better' BY <2>1, <3>3 DEF Better
    <3> QED BY <2>1, <2>2, <3>2, <3>3, <3>4 DEF Shape
  <2>6. CASE AddTotal(t)
    <3>1. cell' = [cell EXCEPT !.total = cell'.total] /\ cell'.total \in Nat
      <4>1. cell' = [cell EXCEPT !.total = cell.total + lat[t]] BY <2>6 DEF AddTotal
      <4>2. cell.total + lat[t] \in Nat BY <2>4
      <4>3. cell'.total = cell.total + lat[t] BY <4>1 DEF Shape
      <4> QED BY <4>1, <4>2, <4>3
    <3>2. cell' \in [min : Seen, max : Seen, total : Nat, count : Nat] BY <3>1 DEF Shape
    <3>3. /\ pc' \in [Threads -> Steps] /\ old' = old
          /\ \A u \in Threads : pc'[u] # pc[u] => pc'[u] = "read min"
      BY <2>6 DEF AddTotal, Shape, Steps
    <3>4. Better' BY <2>1, <3>3 DEF Better
    <3> QED BY <2>1, <2>2, <3>2, <3>3, <3>4 DEF Shape
  <2>7. CASE ReadMin(t)
    BY <2>1, <2>2, <2>4, <2>7 DEF ReadMin, Shape, Better, Steps
  <2>8. CASE SwapMin(t)
    <3>1. cell' \in [min : Seen, max : Seen, total : Nat, count : Nat]
      BY <2>4, <2>8 DEF SwapMin, Shape
    <3>2. /\ pc' \in [Threads -> Steps] /\ old' = old
          /\ \A u \in Threads : pc'[u] # pc[u] => pc'[u] = "read max"
      BY <2>8 DEF SwapMin, Shape, Steps
    <3>3. Better' BY <2>1, <3>2 DEF Better
    <3> QED BY <2>1, <2>2, <3>1, <3>2, <3>3 DEF Shape
  <2>9. CASE ReadMax(t)
    BY <2>1, <2>2, <2>4, <2>9 DEF ReadMax, Shape, Better, Steps
  <2>10. CASE SwapMax(t)
    <3>1. cell' \in [min : Seen, max : Seen, total : Nat, count : Nat]
      BY <2>4, <2>10 DEF SwapMax, Shape
    <3>2. /\ pc' \in [Threads -> Steps] /\ old' = old
          /\ \A u \in Threads : pc'[u] # pc[u] => pc'[u] = "out"
      BY <2>10 DEF SwapMax, Shape, Steps
    <3>3. Better' BY <2>1, <3>2 DEF Better
    <3> QED BY <2>1, <2>2, <3>1, <3>2, <3>3 DEF Shape
  <2> QED BY <1>2, <2>5, <2>6, <2>7, <2>8, <2>9, <2>10 DEF Thread
<1> QED BY <1>1, <1>2

LEMMA OtherStep ==
  ASSUME Shape, Better, BumpEpoch \/ Report \/ NewReport
  PROVE  Shape' /\ Better'
<1>1. UNCHANGED <<storage, pc, lat, old, cell, log, overlap>> BY DEF BumpEpoch, Report, NewReport, handler
<1>2. Seen' = Seen /\ 0 \in Seen BY <1>1 DEF Seen
<1>3. Better' BY <1>1 DEF Better
<1>4. CASE BumpEpoch
  <2>1. epoch' \in 0..MaxEpoch BY <1>4, StatsAssumption DEF BumpEpoch, Shape
  <2> QED BY <1>1, <1>2, <1>3, <1>4, <2>1 DEF BumpEpoch, Shape
<1>5. CASE Report
  <2>1. row \in 0..3 /\ row' \in 0..4 BY <1>5 DEF Report, Shape
  <2>2. shown' \in [min : Seen, max : Seen, total : Nat, count : Nat]
    BY <1>5, <2>1 DEF Report, Layout, Shape
  <2> QED BY <1>1, <1>2, <1>3, <1>5, <2>1, <2>2 DEF Report, handler, Shape
<1>6. CASE NewReport
  <2>1. shown' \in [min : Seen, max : Seen, total : Nat, count : Nat]
    BY <1>2, <1>6 DEF NewReport, Zero
  <2>2. row' \in 0..4 BY <1>6 DEF NewReport
  <2> QED BY <1>1, <1>2, <1>3, <1>6, <2>1, <2>2 DEF NewReport, handler, Shape
<1> QED BY <1>4, <1>5, <1>6

LEMMA ShapeHolds == Spec => [](Shape /\ Better)
<1>1. Init => Shape /\ Better
  <2> SUFFICES ASSUME Init PROVE Shape /\ Better OBVIOUS
  <2>1. 0 \in Seen /\ 0 \in 0..MaxEpoch BY StatsAssumption DEF Seen
  <2>2. overlap \in BOOLEAN BY DEF Init
  <2>3. storage \in [Threads -> [done : BOOLEAN, ended : BOOLEAN, epoch : 0..MaxEpoch]]
    BY <2>1 DEF Init
  <2> QED BY <2>1, <2>2, <2>3 DEF Init, Shape, Better, Zero, Steps
<1>2. Shape /\ Better /\ [Next]_vars => (Shape /\ Better)'
  <2> SUFFICES ASSUME Shape, Better, [Next]_vars PROVE (Shape /\ Better)' OBVIOUS
  <2>1. CASE UNCHANGED vars BY <2>1 DEF vars, handler, Shape, Better, Seen
  <2> QED BY <2>1, ThreadStep, OtherStep DEF Next, Thread
<1> QED BY <1>1, <1>2, PTL DEF Spec

\* The types, and that an extreme is always a latency that occurred, for any
\* number of handlers at once and reports in between.
THEOREM TypeCorrect == Spec => []TypeOK
<1>1. Shape => TypeOK BY DEF Shape, TypeOK, Seen
<1> QED BY <1>1, ShapeHolds, PTL

\* The minimum never rises and the maximum never falls: a handler that has read
\* an old value can lose its own latency, but never undo a better one.
THEOREM ExtremesOnlyImproveTheorem == Spec => ExtremesOnlyImprove
<1> DEFINE Improve == (cell.min # 0 => cell'.min <= cell.min) /\ cell.max <= cell'.max
<1>1. Shape /\ Better /\ [Next]_vars => [Improve]_vars
  <2> SUFFICES ASSUME Shape, Better, Next PROVE Improve OBVIOUS
  <2>1. cell.min \in Nat /\ cell.max \in Nat BY SeenIsNat DEF Shape
  <2>2. CASE cell' = cell BY <2>1, <2>2
  <2>3. ASSUME NEW t \in Threads, Thread(t) PROVE Improve
    <3>1. lat[t] \in Nat /\ old[t] \in Nat BY SeenIsNat DEF Shape
    <3>2. CASE AddCount(t) \/ AddTotal(t)
      <4>1. cell'.min = cell.min /\ cell'.max = cell.max
        BY <3>2 DEF AddCount, AddTotal, Shape
      <4> QED BY <2>1, <4>1
    <3>3. CASE SwapMin(t)
      <4>1. cell'.max = cell.max /\ (cell'.min = cell.min \/ (cell.min = old[t] /\ cell'.min = lat[t]))
        BY <3>3 DEF SwapMin, Shape
      <4>2. old[t] = 0 \/ lat[t] < old[t] BY <3>3 DEF SwapMin, Better
      <4> QED BY <2>1, <3>1, <4>1, <4>2
    <3>4. CASE SwapMax(t)
      <4>1. cell'.min = cell.min /\ (cell'.max = cell.max \/ (cell.max = old[t] /\ cell'.max = lat[t]))
        BY <3>4 DEF SwapMax, Shape
      <4>2. lat[t] > old[t] BY <3>4 DEF SwapMax, Better
      <4> QED BY <2>1, <3>1, <4>1, <4>2
    <3> QED BY <2>2, <2>3, <3>2, <3>3, <3>4 DEF Thread, Guard, ReadMin, ReadMax
  <2> QED BY <2>2, <2>3 DEF Next, Thread, BumpEpoch, Report, NewReport, handler
<1> QED BY <1>1, ShapeHolds, PTL DEF Spec, ExtremesOnlyImprove

----------------------------------------------------------------------------
(* Sums over finite sets *)

LessThan == {p \in Nat \X Nat : p[1] < p[2]}

LEMMA Induction ==
  ASSUME NEW T \in SUBSET Nat, 0 \in T, \A n \in T : n + 1 \in T
  PROVE  T = Nat
<1> SUFFICES ASSUME T # Nat PROVE FALSE OBVIOUS
<1> DEFINE U == Nat \ T
<1>1. U # {} /\ U \subseteq Nat OBVIOUS
<1>2. IsWellFoundedOn(LessThan, Nat) BY NatLessThanWellFounded DEF OpToRel, LessThan
<1> HIDE DEF U
<1>3. PICK n \in U : \A m \in U : <<m, n>> \notin LessThan BY <1>1, <1>2, WFMin
<1> USE DEF U
<1>4. n # 0 /\ n - 1 \in Nat OBVIOUS
<1>5. <<n - 1, n>> \in LessThan BY <1>4 DEF LessThan
<1> QED BY <1>3, <1>4, <1>5

\* The smallest of some subsets of a finite set.
LEMMA Smallest ==
  ASSUME NEW S, IsFiniteSet(S), NEW B \in SUBSET SUBSET S, B # {}
  PROVE  \E s \in B : \A r \in SUBSET s : r # s => r \notin B
<1>1. B \subseteq FiniteSubsetsOf(S) BY FS_Subset DEF FiniteSubsetsOf
<1>2. PICK s \in B : \A r \in B : <<r, s>> \notin StrictSubsetOrdering(S)
  BY <1>1, FS_StrictSubsetOrderingWellFounded, WFMin
<1>3. ASSUME NEW r \in SUBSET s, r # s, r \in B PROVE FALSE
  BY <1>2, <1>3 DEF StrictSubsetOrdering
<1> QED BY <1>3

Pick(s) == CHOOSE x \in s : TRUE

\* The recursion by which MapThenSumSet is defined.
Step(v, g, s) == IF s = {} THEN 0 ELSE v[Pick(s)] + g[s \ {Pick(s)}]
IsSum(g, v, S) == g = [s \in SUBSET S |-> Step(v, g, s)]

LEMMA SumExists ==
  ASSUME NEW S, IsFiniteSet(S), NEW v
  PROVE  \E g : IsSum(g, v, S)
<1> DEFINE Upto(g, n) == \A s \in SUBSET S : Cardinality(s) <= n => g[s] = Step(v, g, s)
           T == {n \in Nat : \E g : Upto(g, n)}
<1>1. \A s \in SUBSET S : IsFiniteSet(s) /\ Cardinality(s) \in Nat /\ (Cardinality(s) = 0 => s = {})
  BY FS_Subset, FS_CardinalityType, FS_EmptySet
<1>2. 0 \in T
  <2>1. Upto([s \in SUBSET S |-> 0], 0) BY <1>1 DEF Step
  <2> QED BY <2>1
<1>3. ASSUME NEW n \in T PROVE n + 1 \in T
  <2>1. PICK g : Upto(g, n) OBVIOUS
  <2> DEFINE h == [s \in SUBSET S |-> Step(v, g, s)]
  <2>2. \A s \in SUBSET S : Cardinality(s) <= n => h[s] = g[s] BY <2>1
  <2>3. ASSUME NEW s \in SUBSET S, Cardinality(s) <= n + 1
        PROVE  h[s] = Step(v, h, s)
    <3>1. CASE s = {} BY <3>1 DEF Step
    <3>2. CASE s # {}
      <4> DEFINE r == s \ {Pick(s)}
      <4>1. Pick(s) \in s BY <3>2 DEF Pick
      <4>2. r \in SUBSET S /\ Cardinality(r) <= n
        BY <4>1, <2>3, <1>1, FS_RemoveElement
      <4>3. h[r] = g[r] BY <2>2, <4>2
      <4>4. h[s] = Step(v, g, s) OBVIOUS
      <4> HIDE DEF h
      <4> QED BY <3>2, <4>3, <4>4 DEF Step
    <3> QED BY <3>1, <3>2
  <2>4. Upto(h, n + 1) BY <2>3
  <2> HIDE DEF h, Upto
  <2> QED BY <2>4
<1>4. T = Nat
  <2> HIDE DEF T
  <2>1. T \in SUBSET Nat BY DEF T
  <2> QED BY <1>2, <1>3, <2>1, Induction
<1>5. PICK g : Upto(g, Cardinality(S)) BY <1>1, <1>4
<1>6. \A s \in SUBSET S : g[s] = Step(v, g, s) BY <1>5, FS_Subset
<1> DEFINE h == [s \in SUBSET S |-> g[s]]
<1>7. ASSUME NEW s \in SUBSET S PROVE h[s] = Step(v, h, s)
  <2>1. CASE s = {} BY <2>1, <1>6 DEF Step
  <2>2. CASE s # {}
    <3>1. s \ {Pick(s)} \in SUBSET S OBVIOUS
    <3>2. h[s \ {Pick(s)}] = g[s \ {Pick(s)}] BY <3>1
    <3>3. h[s] = g[s] OBVIOUS
    <3> HIDE DEF h
    <3> QED BY <2>2, <1>6, <3>2, <3>3 DEF Step
  <2> QED BY <2>1, <2>2
<1>8. IsSum(h, v, S)
  <2> DEFINE k == [s \in SUBSET S |-> Step(v, h, s)]
  <2>1. \A s \in SUBSET S : h[s] = k[s] BY <1>7
  <2>2. h = k BY <2>1
  <2> QED BY <2>2 DEF IsSum
<1> HIDE DEF h
<1> QED BY <1>8

\* Such a sum does not depend on the order of the elements.
LEMMA SumRemove ==
  ASSUME NEW S, IsFiniteSet(S), NEW v, \A x \in S : v[x] \in Nat, NEW g, IsSum(g, v, S)
  PROVE  \A s \in SUBSET S : g[s] \in Nat /\ \A x \in s : g[s] = v[x] + g[s \ {x}]
<1> DEFINE Good(s) == g[s] \in Nat /\ \A x \in s : g[s] = v[x] + g[s \ {x}]
           B == {s \in SUBSET S : ~Good(s)}
<1>0. \A s \in SUBSET S : g[s] = Step(v, g, s)
  <2> DEFINE k == [s \in SUBSET S |-> Step(v, g, s)]
  <2>1. \A s \in SUBSET S : k[s] = Step(v, g, s) OBVIOUS
  <2>2. g = k BY DEF IsSum
  <2> HIDE DEF k
  <2>3. \A s \in SUBSET S : g[s] = k[s] BY <2>2
  <2> QED BY <2>1, <2>3
<1>1. SUFFICES ASSUME B # {} PROVE FALSE OBVIOUS
<1>2. PICK s \in B : \A r \in SUBSET s : r # s => r \notin B
  <2> HIDE DEF B
  <2>1. B \in SUBSET SUBSET S BY DEF B
  <2> QED BY <1>1, <2>1, Smallest
<1>3. s \in SUBSET S /\ \A r \in SUBSET s : r # s => Good(r) BY <1>2
<1> HIDE DEF Good
<1>4. Good(s)
  <2>1. CASE s = {}
    <3>1. g[s] = 0 BY <1>0, <1>3, <2>1 DEF Step
    <3>2. \A x \in s : g[s] = v[x] + g[s \ {x}] BY <2>1
    <3> QED BY <3>1, <3>2 DEF Good
  <2>2. CASE s # {}
    <3> DEFINE c == Pick(s)
               r == s \ {c}
    <3>1. c \in s /\ c \in S BY <2>2, <1>3 DEF Pick
    <3>2. g[s] = v[c] + g[r] BY <1>0, <1>3, <2>2 DEF Step
    <3> HIDE DEF c
    <3>3. Good(r)
      <4>1. r \in SUBSET s /\ r # s BY <3>1
      <4> HIDE DEF r
      <4> QED BY <4>1, <1>3
    <3>4. g[r] \in Nat /\ v[c] \in Nat
      <4>1. v[c] \in Nat BY <3>1
      <4> HIDE DEF r
      <4> QED BY <4>1, <3>3 DEF Good
    <3>5. ASSUME NEW x \in s, x # c PROVE g[s] = v[x] + g[s \ {x}]
      <4>1. g[r] = v[x] + g[r \ {x}] BY <3>3, <3>5 DEF Good
      <4>2. Good(s \ {x}) BY <1>3
      <4>3. g[s \ {x}] = v[c] + g[(s \ {x}) \ {c}] BY <4>2, <3>1, <3>5 DEF Good
      <4>4. (s \ {x}) \ {c} = r \ {x} OBVIOUS
      <4>5. r \ {x} \in SUBSET s /\ r \ {x} # s BY <3>1
      <4>6. g[r \ {x}] \in Nat BY <4>5, <1>3 DEF Good
      <4>7. v[x] \in Nat BY <1>3
      <4> HIDE DEF r
      <4>8. g[s] = v[c] + (v[x] + g[r \ {x}]) BY <3>2, <4>1
      <4>9. g[s \ {x}] = v[c] + g[r \ {x}] BY <4>3, <4>4
      <4>10. v[c] + (v[x] + g[r \ {x}]) = v[x] + (v[c] + g[r \ {x}]) BY <3>4, <4>6, <4>7
      <4> QED BY <4>8, <4>9, <4>10, Zenon
    <3>6. g[s] \in Nat BY <3>2, <3>4
    <3>7. \A x \in s : g[s] = v[x] + g[s \ {x}] BY <3>2, <3>5
    <3> QED BY <3>6, <3>7 DEF Good
  <2> QED BY <2>1, <2>2
<1> QED BY <1>2, <1>4

\* Two such sums of values that agree on s agree as well.
LEMMA SumSame ==
  ASSUME NEW S, IsFiniteSet(S), NEW v, NEW w, NEW g, NEW h, IsSum(g, v, S), IsSum(h, w, S),
         \A x \in S : v[x] = w[x] /\ v[x] \in Nat
  PROVE  \A s \in SUBSET S : g[s] = h[s]
<1> DEFINE B == {s \in SUBSET S : g[s] # h[s]}
<1>1. SUFFICES ASSUME B # {} PROVE FALSE OBVIOUS
<1>2. PICK s \in B : \A r \in SUBSET s : r # s => r \notin B
  <2>1. B \in SUBSET SUBSET S OBVIOUS
  <2> HIDE DEF B
  <2> QED BY <1>1, <2>1, Smallest
<1>3. s \in SUBSET S /\ g[s] # h[s] OBVIOUS
<1>4. ASSUME NEW x \in s PROVE FALSE
  <2>1. s \ {x} \in SUBSET S /\ s \ {x} # s OBVIOUS
  <2>2. g[s \ {x}] = h[s \ {x}] BY <1>2, <2>1
  <2>3. v[x] = w[x] BY <1>3
  <2>4. \A y \in S : w[y] \in Nat OBVIOUS
  <2>5. g[s] = v[x] + g[s \ {x}] /\ h[s] = w[x] + h[s \ {x}] BY <1>3, <2>4, SumRemove
  <2> QED BY <1>3, <2>2, <2>3, <2>5
<1>5. s = {} => g[s] = 0 /\ h[s] = 0
  <2>1. {} \in SUBSET S OBVIOUS
  <2>2. \A u, k : IsSum(k, u, S) => k[{}] = 0 BY <2>1 DEF IsSum, Step
  <2> QED BY <2>2
<1> QED BY <1>3, <1>4, <1>5

Sum(v, S) == MapThenSumSet(LAMBDA x : v[x], S)

LEMMA SumIs ==
  ASSUME NEW S, IsFiniteSet(S), NEW v
  PROVE  \E g : IsSum(g, v, S) /\ Sum(v, S) = g[S]
<1> DEFINE k == CHOOSE g : g = [s \in SUBSET S |-> Step(v, g, s)]
<1>1. Sum(v, S) = k[S] BY DEF Sum, MapThenSumSet, MapThenFoldSet, Step, Pick
<1>2. \E g : g = [s \in SUBSET S |-> Step(v, g, s)] BY SumExists DEF IsSum
<1>3. IsSum(k, v, S) BY <1>2 DEF IsSum
<1> HIDE DEF k
<1> QED BY <1>1, <1>3

\* The same sum, written over the records themselves.
LEMMA SumNs ==
  ASSUME NEW S, IsFiniteSet(S)
  PROVE  MapThenSumSet(LAMBDA e : e.ns, S) = Sum([e \in S |-> e.ns], S)
<1> DEFINE v == [e \in S |-> e.ns]
           Other(g, s) == IF s = {} THEN 0 ELSE Pick(s).ns + g[s \ {Pick(s)}]
<1>1. MapThenSumSet(LAMBDA e : e.ns, S) = (CHOOSE g : g = [s \in SUBSET S |-> Other(g, s)])[S]
  BY DEF MapThenSumSet, MapThenFoldSet, Pick
<1>2. Sum(v, S) = (CHOOSE g : g = [s \in SUBSET S |-> Step(v, g, s)])[S]
  BY DEF Sum, MapThenSumSet, MapThenFoldSet, Step, Pick
<1>3. ASSUME NEW g PROVE [s \in SUBSET S |-> Other(g, s)] = [s \in SUBSET S |-> Step(v, g, s)]
  <2>1. ASSUME NEW s \in SUBSET S PROVE Other(g, s) = Step(v, g, s)
    <3>1. s # {} => Pick(s) \in S BY DEF Pick
    <3> QED BY <3>1 DEF Step
  <2> QED BY <2>1
<1>4. (CHOOSE g : g = [s \in SUBSET S |-> Other(g, s)])
      = (CHOOSE g : g = [s \in SUBSET S |-> Step(v, g, s)])
  <2> HIDE DEF v, Other
  <2>1. \A g : g = [s \in SUBSET S |-> Other(g, s)] <=> g = [s \in SUBSET S |-> Step(v, g, s)]
    BY <1>3
  <2> QED BY <2>1, Zenon
<1> QED BY <1>1, <1>2, <1>4

LEMMA SumEmpty == ASSUME NEW v PROVE Sum(v, {}) = 0
<1>1. PICK g : IsSum(g, v, {}) /\ Sum(v, {}) = g[{}] BY SumIs, FS_EmptySet
<1>2. {} \in SUBSET {} OBVIOUS
<1>3. g[{}] = 0 BY <1>1, <1>2 DEF IsSum, Step
<1> QED BY <1>1, <1>3

\* The sum over a set with one element more.
LEMMA SumAdd ==
  ASSUME NEW S, IsFiniteSet(S), NEW x, x \notin S, NEW v, NEW w,
         \A y \in S : w[y] = v[y] /\ v[y] \in Nat, w[x] \in Nat
  PROVE  Sum(w, S \cup {x}) = w[x] + Sum(v, S) /\ Sum(v, S) \in Nat
<1> DEFINE U == S \cup {x}
<1>1. IsFiniteSet(U) BY FS_AddElement
<1>2. PICK g : IsSum(g, v, S) /\ Sum(v, S) = g[S] BY SumIs
<1>3. PICK h : IsSum(h, w, U) /\ Sum(w, U) = h[U] BY <1>1, SumIs
<1>4. U \in SUBSET U /\ x \in U /\ U \ {x} = S /\ S \in SUBSET U /\ \A y \in U : w[y] \in Nat OBVIOUS
<1>5. h[U] = w[x] + h[S] BY <1>1, <1>3, <1>4, SumRemove
<1> DEFINE k == [s \in SUBSET S |-> h[s]]
<1>6. IsSum(k, w, S)
  <2>1. ASSUME NEW s \in SUBSET S PROVE h[s] = Step(w, k, s)
    <3>1. s \in SUBSET U /\ s \ {Pick(s)} \in SUBSET S OBVIOUS
    <3>2. h[s] = Step(w, h, s)
      <4> DEFINE f == [r \in SUBSET U |-> Step(w, h, r)]
      <4>1. f[s] = Step(w, h, s) BY <3>1
      <4>2. h = f BY <1>3 DEF IsSum
      <4> HIDE DEF f
      <4>3. h[s] = f[s] BY <4>2
      <4> QED BY <4>1, <4>3
    <3>3. k[s \ {Pick(s)}] = h[s \ {Pick(s)}] BY <3>1
    <3> HIDE DEF k
    <3> QED BY <3>2, <3>3 DEF Step
  <2> DEFINE f == [s \in SUBSET S |-> Step(w, k, s)]
  <2>2. \A s \in SUBSET S : k[s] = f[s] BY <2>1
  <2>3. k = f BY <2>2
  <2> QED BY <2>3 DEF IsSum
<1>7. k[S] = h[S] OBVIOUS
<1> HIDE DEF k, U
<1>8. \A s \in SUBSET S : g[s] = k[s] BY <1>2, <1>6, SumSame
<1>9. g[S] = h[S] BY <1>7, <1>8
<1>10. g[S] \in Nat BY <1>2, SumRemove
<1> QED BY <1>2, <1>3, <1>5, <1>9, <1>10 DEF U

----------------------------------------------------------------------------
(* The log: one entry for each thread and epoch *)

\* A guard either leaves log and handlers alone, or its thread passes.
Passes(t, ns) ==
  /\ log' = log \cup {[thread |-> t, epoch |-> epoch, ns |-> ns]}
  /\ \A e \in log : e.thread = t => e.epoch # epoch
  /\ pc[t] = "out" /\ pc' = [pc EXCEPT ![t] = "count"] /\ lat' = [lat EXCEPT ![t] = ns]
  /\ overlap' = (overlap \/ \E u \in Threads : pc[u] # "out")

LEMMA GuardEffect ==
  ASSUME Shape, Logged, NEW t \in Threads, Guard(t)
  PROVE  /\ Logged'
         /\ \/ UNCHANGED <<log, pc, lat, overlap>>
            \/ \E ns \in Latencies : Passes(t, ns)
<1>1. PICK safe \in BOOLEAN, ns \in Latencies :
        LET data   == Current(t)
            passes == ~data.done /\ safe
            counts == passes /\ ~data.ended
        IN /\ storage' = [storage EXCEPT ![t] =
                [data EXCEPT !.done = @ \/ safe, !.ended = @ \/ passes]]
           /\ log' = IF passes THEN log \cup {[thread |-> t, epoch |-> epoch, ns |-> ns]}
                     ELSE log
           /\ pc' = IF counts THEN [pc EXCEPT ![t] = "count"] ELSE pc
           /\ lat' = IF counts THEN [lat EXCEPT ![t] = ns] ELSE lat
           /\ overlap' = (overlap \/ (counts /\ \E u \in Threads : pc[u] # "out"))
  BY DEF Guard
<1> DEFINE data   == Current(t)
           passes == ~data.done /\ safe
           counts == passes /\ ~data.ended
           more   == [data EXCEPT !.done = @ \/ safe, !.ended = @ \/ passes]
           e0     == [thread |-> t, epoch |-> epoch, ns |-> ns]
<1>2. data \in [done : BOOLEAN, ended : BOOLEAN, epoch : 0..MaxEpoch]
  BY DEF Shape, Current
<1>3. /\ data.epoch = epoch /\ (data.ended => data.done)
      /\ data.done => storage[t].epoch = epoch /\ storage[t].done
      /\ storage[t].epoch = epoch => data.done = storage[t].done
  BY DEF Current, Logged, Shape
<1>4. passes = counts BY <1>3
<1>5. /\ storage' = [storage EXCEPT ![t] = more] /\ UNCHANGED <<epoch, old, cell, row, shown>>
      /\ log' = IF passes THEN log \cup {e0} ELSE log
      /\ pc' = IF passes THEN [pc EXCEPT ![t] = "count"] ELSE pc
      /\ lat' = IF passes THEN [lat EXCEPT ![t] = ns] ELSE lat
  BY <1>1, <1>4 DEF Guard
<1>6. overlap' = (overlap \/ (passes /\ \E u \in Threads : pc[u] # "out"))
  BY <1>1, <1>4
<1>7. /\ more.done = (data.done \/ safe) /\ more.ended = (data.ended \/ passes)
      /\ more.epoch = epoch
  <2> HIDE DEF data, passes
  <2> QED BY <1>2, <1>3
<1>8. (more.ended => more.done) /\ (data.done => more.done) /\ (passes => more.done)
  BY <1>3, <1>7
<1>9. e0.thread = t /\ e0.epoch = epoch /\ e0.ns = ns OBVIOUS
<1>10. pc[t] = "out" BY DEF Guard
<1>11. passes => ~data.done OBVIOUS
<1>12. storage[t].epoch \in Int /\ epoch \in Int /\ storage[t].epoch <= epoch
       /\ \A e \in log : e.thread \in Threads /\ e.epoch \in Int
  BY StatsAssumption DEF Shape, Logged
<1> HIDE DEF data, passes, counts, more, e0
<1>13. passes => \A e \in log : e.thread = t => e.epoch # epoch
  BY <1>3, <1>11, <1>12 DEF Logged
<1>14. storage'[t] = more /\ \A u \in Threads : u # t => storage'[u] = storage[u]
  BY <1>5 DEF Shape
<1>15. Logged'
  <2>1. IsFiniteSet(log') BY <1>5, FS_AddElement DEF Logged
  <2>2. ASSUME NEW u \in Threads
        PROVE  storage'[u].epoch <= epoch' /\ (storage'[u].ended => storage'[u].done)
    BY <1>5, <1>7, <1>8, <1>12, <1>14 DEF Logged
  <2>3. ASSUME NEW e \in log
        PROVE  /\ e.epoch <= storage'[e.thread].epoch
               /\ e.epoch = storage'[e.thread].epoch => storage'[e.thread].done
    <3>1. /\ e.epoch <= storage[e.thread].epoch
          /\ e.epoch = storage[e.thread].epoch => storage[e.thread].done
      BY DEF Logged
    <3>2. CASE e.thread # t BY <1>12, <1>14, <3>1, <3>2
    <3>3. CASE e.thread = t
      <4>1. e.epoch <= epoch BY <1>12, <3>1, <3>3
      <4>2. e.epoch = epoch => more.done BY <1>3, <1>8, <1>12, <3>1, <3>3
      <4> QED BY <1>7, <1>14, <3>3, <4>1, <4>2
    <3> QED BY <3>2, <3>3
  <2>4. passes => /\ e0.epoch <= storage'[e0.thread].epoch
                  /\ storage'[e0.thread].done
    BY <1>7, <1>8, <1>9, <1>12, <1>14
  <2>5. \A e \in log' : e \in log \/ (passes /\ e = e0) BY <1>5
  <2> QED BY <2>1, <2>2, <2>3, <2>4, <2>5 DEF Logged
<1>16. CASE passes
  <2>1. log' = log \cup {[thread |-> t, epoch |-> epoch, ns |-> ns]} BY <1>5, <1>16 DEF e0
  <2>2. overlap' = (overlap \/ \E u \in Threads : pc[u] # "out") BY <1>6, <1>16
  <2> QED BY <1>5, <1>10, <1>13, <1>15, <1>16, <2>1, <2>2 DEF Passes
<1>17. CASE ~passes
  <2>1. UNCHANGED <<log, pc, lat>> BY <1>5, <1>17
  <2>2. overlap' = overlap BY <1>6, <1>17 DEF Shape
  <2> QED BY <1>15, <2>1, <2>2
<1> QED BY <1>16, <1>17

LEMMA LoggedHolds == Spec => []Logged
<1>1. Init => Logged BY FS_EmptySet DEF Init, Logged
<1>2. Shape /\ Logged /\ [Next]_vars => Logged'
  <2> SUFFICES ASSUME Shape, Logged, [Next]_vars PROVE Logged' OBVIOUS
  <2>1. ASSUME NEW t \in Threads, Guard(t) PROVE Logged' BY <2>1, GuardEffect
  <2>2. ASSUME UNCHANGED <<log, storage>>, epoch' \in {epoch, epoch + 1} PROVE Logged'
    <3>1. \A t \in Threads : storage[t].epoch \in Int BY StatsAssumption DEF Shape
    <3>2. epoch \in Int BY StatsAssumption DEF Shape
    <3> QED BY <2>2, <3>1, <3>2 DEF Logged
  <2>3. \/ \E t \in Threads : Guard(t)
        \/ UNCHANGED <<log, storage>> /\ epoch' \in {epoch, epoch + 1}
    BY DEF Next, AddCount, AddTotal, ReadMin, SwapMin, ReadMax, SwapMax, BumpEpoch, Report,
           NewReport, handler, vars
  <2> QED BY <2>1, <2>2, <2>3
<1> QED BY <1>1, <1>2, ShapeHolds, PTL DEF Spec

----------------------------------------------------------------------------
(* The cell counts every entry of the log once *)

Entries == [e \in log |-> e.ns]

\* Pending, for any value of the control points.
At(p, P) == {t \in Threads : p[t] \in P}

\* CountedOnce, with its sums as sums of functions.
Counted ==
  /\ \A d, e \in log : d.thread = e.thread /\ d.epoch = e.epoch => d = e
  /\ cell.count + Cardinality(At(pc, {"count"})) = Cardinality(log)
  /\ cell.total + Sum(lat, At(pc, {"count", "total"})) = Sum(Entries, log)

LEMMA CountedIsCountedOnce == ASSUME Logged PROVE Counted <=> CountedOnce
<1>1. MapThenSumSet(LAMBDA e : e.ns, log) = Sum(Entries, log)
  BY SumNs DEF Logged, Entries
<1>2. MapThenSumSet(LAMBDA t : lat[t], Pending({"count", "total"}))
        = Sum(lat, At(pc, {"count", "total"}))
  BY DEF Sum, Pending, At
<1>3. Pending({"count"}) = At(pc, {"count"}) BY DEF Pending, At
<1> QED BY <1>1, <1>2, <1>3 DEF Counted, CountedOnce

LEMMA PendingFinite ==
  ASSUME NEW p, NEW P
  PROVE  IsFiniteSet(At(p, P)) /\ Cardinality(At(p, P)) \in Nat
<1>1. At(p, P) \in SUBSET Threads BY DEF At
<1> QED BY <1>1, FS_Subset, FS_CardinalityType, StatsAssumption

LEMMA PassCounted ==
  ASSUME Shape, Logged, Logged', Counted, NEW t \in Threads, NEW ns \in Latencies,
         Passes(t, ns), UNCHANGED cell
  PROVE  Counted'
<1> DEFINE e0 == [thread |-> t, epoch |-> epoch, ns |-> ns]
           C  == At(pc, {"count"})
           P  == At(pc, {"count", "total"})
<1>1. e0 \notin log /\ log' = log \cup {e0} BY DEF Passes
<1>2. /\ pc' = [pc EXCEPT ![t] = "count"] /\ pc[t] = "out"
      /\ lat' = [lat EXCEPT ![t] = ns]
  BY DEF Passes
<1>3. /\ At(pc', {"count"}) = C \cup {t} /\ t \notin C
      /\ At(pc', {"count", "total"}) = P \cup {t} /\ t \notin P
  BY <1>2 DEF At, Shape, Steps
<1>4. IsFiniteSet(C) /\ IsFiniteSet(P) /\ P \subseteq Threads
      /\ Cardinality(C) \in Nat /\ cell.count \in Nat /\ cell.total \in Nat
  <2>1. IsFiniteSet(C) /\ IsFiniteSet(P) /\ Cardinality(C) \in Nat BY PendingFinite
  <2>2. P \subseteq Threads BY DEF At
  <2>3. cell.count \in Nat /\ cell.total \in Nat BY DEF Shape
  <2> QED BY <2>1, <2>2, <2>3
<1>5. Cardinality(log') = Cardinality(log) + 1 /\ Cardinality(C \cup {t}) = Cardinality(C) + 1
      /\ Cardinality(log) \in Nat
  BY <1>1, <1>3, <1>4, FS_AddElement, FS_CardinalityType DEF Logged
<1>6. Sum(lat', P \cup {t}) = ns + Sum(lat, P) /\ Sum(lat, P) \in Nat
  <2>1. \A u \in P : lat'[u] = lat[u] /\ lat[u] \in Nat
    BY <1>2, <1>3, <1>4, SeenIsNat DEF Shape
  <2>2. lat'[t] = ns /\ ns \in Nat BY <1>2, StatsAssumption DEF Shape
  <2> HIDE DEF P
  <2> QED BY <1>3, <1>4, <2>1, <2>2, SumAdd
<1>7. Sum(Entries', log') = ns + Sum(Entries, log) /\ Sum(Entries, log) \in Nat
  <2>1. \A e \in log : Entries'[e] = Entries[e] /\ Entries[e] \in Nat
    BY <1>1, StatsAssumption DEF Entries, Shape
  <2>2. Entries'[e0] = ns /\ ns \in Nat
    <3>1. e0 \in log' /\ e0.ns = ns BY <1>1
    <3> HIDE DEF e0
    <3> QED BY <3>1, StatsAssumption DEF Entries
  <2> HIDE DEF e0
  <2> QED BY <1>1, <2>1, <2>2, SumAdd DEF Logged
<1>8. \A d, e \in log' : d.thread = e.thread /\ d.epoch = e.epoch => d = e
  <2>1. e0.thread = t /\ e0.epoch = epoch OBVIOUS
  <2>2. \A e \in log : e.thread = t => e.epoch # epoch BY DEF Passes
  <2> HIDE DEF e0
  <2> QED BY <1>1, <2>1, <2>2 DEF Counted
<1>9. cell.count + Cardinality(C) = Cardinality(log) /\ cell.total + Sum(lat, P) = Sum(Entries, log)
  BY DEF Counted
<1> HIDE DEF C, P, e0
<1>10. cell'.count + Cardinality(At(pc', {"count"})) = Cardinality(log')
  <2>1. Cardinality(At(pc', {"count"})) = Cardinality(C) + 1 BY <1>3, <1>5, Zenon
  <2> QED BY <2>1, <1>4, <1>5, <1>9
<1>11. ns \in Nat BY StatsAssumption
<1>12. cell'.total + Sum(lat', At(pc', {"count", "total"})) = Sum(Entries', log')
  <2>1. Sum(lat', At(pc', {"count", "total"})) = ns + Sum(lat, P) BY <1>3, <1>6, Zenon
  <2>2. cell'.total = cell.total OBVIOUS
  <2> QED BY <2>1, <2>2, <1>4, <1>6, <1>7, <1>9, <1>11
<1> QED BY <1>8, <1>10, <1>12 DEF Counted

LEMMA ThreadCounted ==
  ASSUME Shape, Logged, Counted, NEW t \in Threads, Thread(t)
  PROVE  Counted'
<1>1. CASE Guard(t)
  <2>1. Logged' BY <1>1, GuardEffect
  <2>2. UNCHANGED cell BY <1>1 DEF Guard
  <2>3. CASE UNCHANGED <<log, pc, lat, overlap>>
    BY <2>2, <2>3 DEF Counted, Entries
  <2> QED BY <1>1, <2>1, <2>2, <2>3, GuardEffect, PassCounted
<1>2. CASE AddCount(t)
  <2>1. /\ pc[t] = "count" /\ pc' = [pc EXCEPT ![t] = "total"] /\ UNCHANGED <<lat, log>>
        /\ cell'.count = cell.count + 1 /\ cell'.total = cell.total
    BY <1>2 DEF AddCount, Shape
  <2>2. /\ At(pc', {"count"}) = At(pc, {"count"}) \ {t} /\ t \in At(pc, {"count"})
        /\ At(pc', {"count", "total"}) = At(pc, {"count", "total"})
    BY <2>1 DEF At, Shape, Steps
  <2>3. /\ Cardinality(At(pc, {"count"}) \ {t}) = Cardinality(At(pc, {"count"})) - 1
        /\ Cardinality(At(pc, {"count"})) \in Nat /\ cell.count \in Nat
    BY <2>2, PendingFinite, FS_RemoveElement DEF Shape
  <2>4. Entries' = Entries BY <2>1 DEF Entries
  <2>5. cell'.count + Cardinality(At(pc', {"count"})) = Cardinality(log')
    <3>1. Cardinality(At(pc', {"count"})) = Cardinality(At(pc, {"count"})) - 1 BY <2>2, <2>3, Zenon
    <3>2. cell.count + Cardinality(At(pc, {"count"})) = Cardinality(log) BY DEF Counted
    <3> QED BY <2>1, <2>3, <3>1, <3>2
  <2> QED BY <2>1, <2>2, <2>4, <2>5 DEF Counted
<1>3. CASE AddTotal(t)
  <2> DEFINE P == At(pc, {"count", "total"})
  <2>1. /\ pc[t] = "total" /\ pc' = [pc EXCEPT ![t] = "read min"] /\ UNCHANGED <<lat, log>>
        /\ cell'.count = cell.count /\ cell'.total = cell.total + lat[t]
    BY <1>3 DEF AddTotal, Shape
  <2>2. /\ At(pc', {"count", "total"}) = P \ {t} /\ t \in P
        /\ At(pc', {"count"}) = At(pc, {"count"})
    BY <2>1 DEF At, Shape, Steps
  <2>3. IsFiniteSet(P \ {t}) /\ \A u \in P : lat[u] \in Nat
    <3>1. IsFiniteSet(P \ {t}) BY PendingFinite, FS_RemoveElement
    <3>2. \A u \in P : lat[u] \in Nat BY SeenIsNat DEF Shape, At
    <3> QED BY <3>1, <3>2
  <2>4. Sum(lat, P) = lat[t] + Sum(lat, P \ {t}) /\ Sum(lat, P \ {t}) \in Nat
    <3> DEFINE Q == P \ {t}
    <3> HIDE DEF P
    <3>1. Q \cup {t} = P /\ t \notin Q BY <2>2
    <3>2. IsFiniteSet(Q) /\ lat[t] \in Nat /\ \A u \in Q : lat[u] = lat[u] /\ lat[u] \in Nat
      BY <2>2, <2>3
    <3> HIDE DEF Q
    <3>3. Sum(lat, Q \cup {t}) = lat[t] + Sum(lat, Q) /\ Sum(lat, Q) \in Nat
      BY <3>1, <3>2, SumAdd
    <3>4. Sum(lat, P) = lat[t] + Sum(lat, Q) /\ Sum(lat, Q) \in Nat BY <3>1, <3>3, Zenon
    <3> QED BY <3>4 DEF Q
  <2>5. Entries' = Entries BY <2>1 DEF Entries
  <2>6. cell.total \in Nat /\ lat[t] \in Nat BY <2>2, <2>3 DEF Shape
  <2>7. cell.total + Sum(lat, P) = Sum(Entries, log) BY DEF Counted
  <2> HIDE DEF P
  <2>8. cell'.total + Sum(lat', At(pc', {"count", "total"})) = Sum(Entries', log')
    <3>1. Sum(lat', At(pc', {"count", "total"})) = Sum(lat, P \ {t}) BY <2>1, <2>2, Zenon
    <3>2. Sum(Entries', log') = Sum(Entries, log) BY <2>1, <2>5, Zenon
    <3>3. (cell.total + lat[t]) + Sum(lat, P \ {t}) = Sum(Entries, log) BY <2>4, <2>6, <2>7
    <3>4. cell'.total = cell.total + lat[t] BY <2>1
    <3> QED BY <3>1, <3>2, <3>3, <3>4, Zenon
  <2> QED BY <2>1, <2>2, <2>8 DEF Counted
<1>4. CASE ReadMin(t) \/ SwapMin(t) \/ ReadMax(t) \/ SwapMax(t)
  <2>1. /\ UNCHANGED <<lat, log>> /\ cell'.count = cell.count /\ cell'.total = cell.total
    BY <1>4 DEF ReadMin, SwapMin, ReadMax, SwapMax, Shape
  <2>2. \E to \in Steps \ {"count", "total"} : pc' = [pc EXCEPT ![t] = to]
    BY <1>4 DEF ReadMin, SwapMin, ReadMax, SwapMax, Steps
  <2>3. pc[t] \notin {"count", "total"}
    BY <1>4 DEF ReadMin, SwapMin, ReadMax, SwapMax
  <2>4. /\ At(pc', {"count"}) = At(pc, {"count"})
        /\ At(pc', {"count", "total"}) = At(pc, {"count", "total"})
    BY <2>2, <2>3 DEF At, Shape, Steps
  <2>5. Entries' = Entries BY <2>1 DEF Entries
  <2> QED BY <2>1, <2>4, <2>5 DEF Counted
<1> QED BY <1>1, <1>2, <1>3, <1>4 DEF Thread

\* Every thread that passed is counted once in every epoch, and the total is
\* the sum of the latencies, whichever handlers are between two additions.
THEOREM CountedOnceTheorem == Spec => []CountedOnce
<1>1. Init => Counted
  <2> SUFFICES ASSUME Init PROVE Counted OBVIOUS
  <2>1. log = {} /\ At(pc, {"count"}) = {} /\ At(pc, {"count", "total"}) = {}
    BY DEF Init, At
  <2>2. cell.count = 0 /\ cell.total = 0 BY DEF Init, Zero
  <2>3. \A v : Sum(v, {}) = 0 BY SumEmpty
  <2> QED BY <2>1, <2>2, <2>3, FS_EmptySet DEF Counted
<1>2. Shape /\ Logged /\ Counted /\ [Next]_vars => Counted'
  <2> SUFFICES ASSUME Shape, Logged, Counted, [Next]_vars PROVE Counted' OBVIOUS
  <2>1. CASE UNCHANGED <<pc, lat, log, cell>>
    BY <2>1 DEF Counted, Entries
  <2>2. UNCHANGED <<pc, lat, log, cell>> \/ \E t \in Threads : Thread(t)
    BY DEF Next, Thread, BumpEpoch, Report, NewReport, handler, vars
  <2> QED BY <2>1, <2>2, ThreadCounted
<1>3. Logged /\ Counted => CountedOnce BY CountedIsCountedOnce
<1> QED BY <1>1, <1>2, <1>3, ShapeHolds, LoggedHolds, PTL DEF Spec

----------------------------------------------------------------------------
(* The extremes, while handlers do not meet *)

\* What the steps after the guard do to the cell and to a handler.
LEMMA PassSeen ==
  ASSUME Shape, NEW t \in Threads, NEW ns \in Latencies, Passes(t, ns)
  PROVE  Seen' = Seen \cup {ns} /\ ns \in Nat \ {0}
<1> DEFINE e0 == [thread |-> t, epoch |-> epoch, ns |-> ns]
<1>1. e0.ns = ns OBVIOUS
<1>2. log' = log \cup {e0} BY DEF Passes
<1> HIDE DEF e0
<1>3. \A x : x \in Seen' <=> x \in Seen \cup {ns} BY <1>1, <1>2 DEF Seen
<1> QED BY <1>3, StatsAssumption

LEMMA PassAlone ==
  ASSUME Shape, Shape', Alone, NEW t \in Threads, NEW ns \in Latencies, Passes(t, ns),
         UNCHANGED <<cell, old>>
  PROVE  Alone'
<1> SUFFICES ASSUME ~overlap' PROVE Alone' BY DEF Alone
<1>1. ~overlap /\ \A u \in Threads : pc[u] = "out" BY DEF Passes
<1>2. Seen' = Seen \cup {ns} /\ ns # 0 BY PassSeen
<1>3. /\ pc'[t] = "count" /\ lat'[t] = ns
      /\ \A u \in Threads : u # t => pc'[u] = "out"
  BY <1>1 DEF Passes, Shape
<1>4. ASSUME NEW x \in Seen \ {0} PROVE cell.min # 0 /\ cell.min <= x /\ x <= cell.max
  <2>1. \A P : "out" \notin P => Pending(P) = {} BY <1>1 DEF Pending
  <2>2. Pending({"count", "total", "read min", "swap min"}) = {} /\ Pending(Steps \ {"out"}) = {}
    BY <2>1
  <2> QED BY <1>1, <2>2 DEF Alone
<1>5. t \in Pending({"count", "total", "read min", "swap min"})' /\ t \in Pending(Steps \ {"out"})'
  BY <1>3 DEF Pending, Steps
<1>6. ASSUME NEW x \in Seen' \ {0}
      PROVE  /\ \/ cell'.min # 0 /\ cell'.min <= x
                \/ \E u \in Pending({"count", "total", "read min", "swap min"})' : x = lat'[u]
             /\ x <= cell'.max \/ \E u \in Pending(Steps \ {"out"})' : x = lat'[u]
  <2>1. CASE x = ns BY <1>3, <1>5, <2>1
  <2>2. CASE x # ns BY <1>2, <1>4, <2>2
  <2> QED BY <2>1, <2>2
<1>7. \A u, w \in Threads : pc'[u] # "out" /\ pc'[w] # "out" => u = w BY <1>3
<1>8. \A u \in Threads :
        /\ pc'[u] # "out" => lat'[u] \in Seen' \ {0}
        /\ pc'[u] = "swap min" => old'[u] = cell'.min
        /\ pc'[u] = "swap max" => old'[u] = cell'.max
  BY <1>2, <1>3
<1> QED BY <1>6, <1>7, <1>8 DEF Alone

\* What a step of the handler from t's control point to the next needs of the
\* cell for Alone to be kept.
LEMMA StepAlone ==
  ASSUME Shape, Shape', Alone, ~overlap, NEW t \in Threads, pc[t] # "out",
         UNCHANGED <<lat, log, overlap>>, NEW to \in Steps, pc' = [pc EXCEPT ![t] = to],
         cell'.min = cell.min \/ cell'.min = lat[t],
         to = "swap min" => old'[t] = cell'.min,
         to = "swap max" => old'[t] = cell'.max,
         \A x \in Seen \ {0} :
           \/ cell'.min # 0 /\ cell'.min <= x
           \/ x = lat[t] /\ to \in {"count", "total", "read min", "swap min"},
         \A x \in Seen \ {0} : x <= cell'.max \/ (x = lat[t] /\ to # "out")
  PROVE  Alone'
<1>1. Seen' = Seen BY DEF Seen
<1>2. pc'[t] = to /\ \A u \in Threads : u # t => pc'[u] = "out" BY DEF Alone, Shape
<1>3. \A u, w \in Threads : pc'[u] # "out" /\ pc'[w] # "out" => u = w BY <1>2
<1>4. lat[t] \in Seen \ {0} BY DEF Alone
<1>5. \A u \in Threads :
        /\ pc'[u] # "out" => lat'[u] \in Seen' \ {0}
        /\ pc'[u] = "swap min" => old'[u] = cell'.min
        /\ pc'[u] = "swap max" => old'[u] = cell'.max
  BY <1>1, <1>2, <1>4
<1>6. /\ to \in {"count", "total", "read min", "swap min"} =>
           t \in Pending({"count", "total", "read min", "swap min"})'
      /\ to # "out" => t \in Pending(Steps \ {"out"})'
  BY <1>2 DEF Pending
<1>7. ASSUME NEW x \in Seen' \ {0}
      PROVE  /\ \/ cell'.min # 0 /\ cell'.min <= x
                \/ \E u \in Pending({"count", "total", "read min", "swap min"})' : x = lat'[u]
             /\ x <= cell'.max \/ \E u \in Pending(Steps \ {"out"})' : x = lat'[u]
  BY <1>1, <1>6
<1> QED BY <1>3, <1>5, <1>7 DEF Alone

LEMMA SameAlone ==
  ASSUME Shape, Shape', Alone, UNCHANGED <<pc, lat, old, log, cell, overlap>>
  PROVE  Alone'
<1>1. Seen' = Seen BY DEF Seen
<1> SUFFICES ASSUME ~overlap' PROVE Alone' BY DEF Alone
<1>2. ~overlap BY DEF Shape
<1>3. ASSUME NEW x \in Seen' \ {0}
      PROVE  /\ \/ cell'.min # 0 /\ cell'.min <= x
                \/ \E u \in Pending({"count", "total", "read min", "swap min"})' : x = lat'[u]
             /\ x <= cell'.max \/ \E u \in Pending(Steps \ {"out"})' : x = lat'[u]
  <2>1. /\ \/ cell.min # 0 /\ cell.min <= x
           \/ \E u \in Pending({"count", "total", "read min", "swap min"}) : x = lat[u]
        /\ x <= cell.max \/ \E u \in Pending(Steps \ {"out"}) : x = lat[u]
    BY <1>1, <1>2 DEF Alone
  <2>2. \A u : /\ u \in Pending({"count", "total", "read min", "swap min"})
                   => u \in Pending({"count", "total", "read min", "swap min"})'
               /\ u \in Pending(Steps \ {"out"}) => u \in Pending(Steps \ {"out"})'
    BY DEF Pending
  <2>3. lat' = lat /\ cell' = cell OBVIOUS
  <2> QED BY <2>1, <2>2, <2>3
<1>4. /\ \A t, u \in Threads : pc'[t] # "out" /\ pc'[u] # "out" => t = u
      /\ \A t \in Threads :
           /\ pc'[t] # "out" => lat'[t] \in Seen' \ {0}
           /\ pc'[t] = "swap min" => old'[t] = cell'.min
           /\ pc'[t] = "swap max" => old'[t] = cell'.max
  BY <1>1, <1>2 DEF Alone
<1> QED BY <1>3, <1>4 DEF Alone

LEMMA ThreadAlone ==
  ASSUME Shape, Better, Logged, Alone, NEW t \in Threads, Thread(t)
  PROVE  Alone'
<1>0. Shape' BY ThreadStep
<1>1. CASE Guard(t)
  <2>1. UNCHANGED <<cell, old>> BY <1>1 DEF Guard
  <2>2. CASE UNCHANGED <<log, pc, lat, overlap>> BY <1>0, <2>1, <2>2, SameAlone
  <2> QED BY <1>0, <1>1, <2>1, <2>2, GuardEffect, PassAlone
<1>2. CASE ~Guard(t)
  <2>1. UNCHANGED <<lat, log, overlap>> /\ pc[t] # "out"
    BY <1>2 DEF Thread, AddCount, AddTotal, ReadMin, SwapMin, ReadMax, SwapMax
  <2>2. CASE overlap BY <2>1, <2>2 DEF Alone
  <2>3. CASE ~overlap
    <3>1. /\ lat[t] \in Seen \ {0}
          /\ pc[t] = "swap min" => old[t] = cell.min
          /\ pc[t] = "swap max" => old[t] = cell.max
          /\ \A u \in Threads : pc[u] # "out" => u = t
      BY <2>1, <2>3 DEF Alone
    <3>2. Seen \subseteq Nat /\ cell.min \in Nat /\ cell.max \in Nat BY SeenIsNat DEF Shape
    <3>3. ASSUME NEW x \in Seen \ {0}
          PROVE  /\ \/ cell.min # 0 /\ cell.min <= x
                    \/ x = lat[t] /\ pc[t] \in {"count", "total", "read min", "swap min"}
                 /\ x <= cell.max \/ x = lat[t]
      <4>1. \A u \in Pending({"count", "total", "read min", "swap min"}) :
              u = t /\ pc[t] \in {"count", "total", "read min", "swap min"}
        BY <3>1 DEF Pending
      <4>2. \A u \in Pending(Steps \ {"out"}) : u = t BY <3>1 DEF Pending
      <4> QED BY <2>3, <4>1, <4>2 DEF Alone
    <3>4. CASE AddCount(t) \/ AddTotal(t)
      <4>1. cell'.min = cell.min /\ cell'.max = cell.max
        BY <3>4 DEF AddCount, AddTotal, Shape
      <4>2. PICK to \in {"total", "read min"} : pc' = [pc EXCEPT ![t] = to]
        BY <3>4 DEF AddCount, AddTotal
      <4> QED BY <1>0, <2>1, <2>3, <3>3, <4>1, <4>2, StepAlone DEF Steps
    <3>5. CASE ReadMin(t)
      <4>1. UNCHANGED cell /\ old'[t] = cell.min BY <3>5 DEF ReadMin, Shape
      <4>2. CASE cell.min = 0 \/ lat[t] < cell.min
        <5>1. pc' = [pc EXCEPT ![t] = "swap min"] BY <3>5, <4>2 DEF ReadMin
        <5> QED BY <1>0, <2>1, <2>3, <3>3, <4>1, <5>1, StepAlone DEF Steps
      <4>3. CASE ~(cell.min = 0 \/ lat[t] < cell.min)
        <5>1. pc' = [pc EXCEPT ![t] = "read max"] BY <3>5, <4>3 DEF ReadMin
        <5>2. cell.min # 0 /\ cell.min <= lat[t]
          <6>1. lat[t] \in Nat BY <3>1, <3>2
          <6> QED BY <3>2, <4>3, <6>1
        <5>3. \A x \in Seen \ {0} : cell'.min # 0 /\ cell'.min <= x BY <3>3, <4>1, <5>2
        <5> QED BY <1>0, <2>1, <2>3, <3>3, <4>1, <5>1, <5>3, StepAlone DEF Steps
      <4> QED BY <4>2, <4>3
    <3>6. CASE SwapMin(t)
      <4>1. cell'.min = lat[t] /\ cell'.max = cell.max /\ pc' = [pc EXCEPT ![t] = "read max"]
        BY <3>1, <3>6 DEF SwapMin, Shape
      <4>2. cell.min = 0 \/ lat[t] < cell.min BY <3>1, <3>6 DEF SwapMin, Better
      <4>3. \A x \in Seen \ {0} : cell'.min # 0 /\ cell'.min <= x
        <5> SUFFICES ASSUME NEW x \in Seen \ {0} PROVE lat[t] # 0 /\ lat[t] <= x BY <4>1
        <5>1. x \in Nat /\ lat[t] \in Nat \ {0} BY <3>1, <3>2
        <5>2. (cell.min # 0 /\ cell.min <= x) \/ x = lat[t] BY <3>3
        <5> QED BY <3>2, <4>2, <5>1, <5>2
      <4> QED BY <1>0, <2>1, <2>3, <3>3, <4>1, <4>3, StepAlone DEF Steps
    <3>7. CASE ReadMax(t)
      <4>1. UNCHANGED cell /\ old'[t] = cell.max /\ pc[t] = "read max" BY <3>7 DEF ReadMax, Shape
      <4>2. \A x \in Seen \ {0} : cell'.min # 0 /\ cell'.min <= x BY <3>3, <4>1
      <4>3. CASE lat[t] > cell.max
        <5>1. pc' = [pc EXCEPT ![t] = "swap max"] BY <3>7, <4>3 DEF ReadMax
        <5> QED BY <1>0, <2>1, <2>3, <3>3, <4>1, <4>2, <5>1, StepAlone DEF Steps
      <4>4. CASE ~(lat[t] > cell.max)
        <5>1. pc' = [pc EXCEPT ![t] = "out"] BY <3>7, <4>4 DEF ReadMax
        <5>2. \A x \in Seen \ {0} : x <= cell'.max
          <6> SUFFICES ASSUME NEW x \in Seen \ {0} PROVE x <= cell.max BY <4>1
          <6>1. x \in Nat /\ lat[t] \in Nat BY <3>1, <3>2
          <6>2. x <= cell.max \/ x = lat[t] BY <3>3
          <6> QED BY <3>2, <4>4, <6>1, <6>2
        <5>3. "out" \in Steps /\ UNCHANGED <<lat, log, overlap>> /\ cell'.min = cell.min
          BY <2>1, <4>1 DEF Steps
        <5>4. \A x \in Seen \ {0} : x <= cell'.max \/ (x = lat[t] /\ "out" # "out") BY <5>2
        <5> QED BY <1>0, <2>1, <2>3, <4>2, <5>1, <5>3, <5>4, StepAlone
      <4> QED BY <4>3, <4>4
    <3>8. CASE SwapMax(t)
      <4>1. /\ cell'.max = lat[t] /\ cell'.min = cell.min /\ pc' = [pc EXCEPT ![t] = "out"]
            /\ pc[t] = "swap max"
        BY <3>1, <3>8 DEF SwapMax, Shape
      <4>2. lat[t] > cell.max BY <3>1, <3>8 DEF SwapMax, Better
      <4>3. \A x \in Seen \ {0} : x <= cell'.max
        <5> SUFFICES ASSUME NEW x \in Seen \ {0} PROVE x <= lat[t] BY <4>1
        <5>1. x \in Nat /\ lat[t] \in Nat BY <3>1, <3>2
        <5>2. x <= cell.max \/ x = lat[t] BY <3>3
        <5> QED BY <3>2, <4>2, <5>1, <5>2
      <4>4. \A x \in Seen \ {0} : cell'.min # 0 /\ cell'.min <= x BY <3>3, <4>1
      <4>5. "out" \in Steps BY DEF Steps
      <4>6. \A x \in Seen \ {0} : x <= cell'.max \/ (x = lat[t] /\ "out" # "out") BY <4>3
      <4> QED BY <1>0, <2>1, <2>3, <4>1, <4>4, <4>5, <4>6, StepAlone
    <3> QED BY <1>2, <3>4, <3>5, <3>6, <3>7, <3>8 DEF Thread
  <2> QED BY <2>2, <2>3
<1> QED BY <1>1, <1>2

\* While no two handlers have run at the same time, the extremes are those of
\* the latencies, once the last handler is out.
THEOREM AloneExactTheorem == Spec => []AloneExact
<1>1. Init => Alone
  BY DEF Init, Alone, Seen
<1>2. Shape /\ Shape' /\ Better /\ Logged /\ Alone /\ [Next]_vars => Alone'
  <2> SUFFICES ASSUME Shape, Shape', Better, Logged, Alone, [Next]_vars PROVE Alone' OBVIOUS
  <2>1. CASE UNCHANGED <<pc, lat, old, log, cell, overlap>> BY <2>1, SameAlone
  <2>2. UNCHANGED <<pc, lat, old, log, cell, overlap>> \/ \E t \in Threads : Thread(t)
    BY DEF Next, Thread, BumpEpoch, Report, NewReport, handler, vars
  <2> QED BY <2>1, <2>2, ThreadAlone
<1>3. Shape /\ Alone => AloneExact
  <2> SUFFICES ASSUME Shape, Alone, ~overlap, Pending(Steps \ {"out"}) = {}, log # {}
               PROVE  /\ cell.min = Min({e.ns : e \in log})
                      /\ cell.max = Max({e.ns : e \in log})
    BY DEF AloneExact
  <2> DEFINE N == {e.ns : e \in log}
  <2>1. N = Seen \ {0} /\ N # {} /\ N \subseteq Nat
    <3>1. \A e \in log : e.ns \in Nat \ {0} BY StatsAssumption DEF Shape
    <3> QED BY <3>1 DEF Seen
  <2>2. \A x \in N : cell.min # 0 /\ cell.min <= x /\ x <= cell.max
    <3>1. Pending({"count", "total", "read min", "swap min"}) \subseteq Pending(Steps \ {"out"})
      BY DEF Pending, Steps
    <3> HIDE DEF N
    <3> QED BY <2>1, <3>1 DEF Alone
  <2>3. cell.min \in N /\ cell.max \in N
    <3>1. cell.min \in Seen /\ cell.max \in Seen BY DEF Shape
    <3>2. PICK x \in N : TRUE BY <2>1
    <3> HIDE DEF N
    <3>3. x \in Nat /\ x # 0 /\ x <= cell.max /\ cell.min # 0 BY <2>1, <2>2, <3>2
    <3>4. cell.max # 0 BY <3>3
    <3> QED BY <2>1, <3>1, <3>3, <3>4
  <2> HIDE DEF N
  <2>4. ASSUME NEW m \in N, \A y \in N : m <= y PROVE m = cell.min
    <3>1. m <= cell.min /\ cell.min <= m /\ m \in Nat /\ cell.min \in Nat
      BY <2>1, <2>2, <2>3, <2>4
    <3> QED BY <3>1
  <2>5. ASSUME NEW m \in N, \A y \in N : m >= y PROVE m = cell.max
    <3>1. m >= cell.max /\ cell.max >= m /\ m \in Nat /\ cell.max \in Nat
      BY <2>1, <2>2, <2>3, <2>5
    <3> QED BY <3>1
  <2>6. Min(N) \in N /\ \A y \in N : Min(N) <= y BY <2>2, <2>3 DEF Min
  <2>7. Max(N) \in N /\ \A y \in N : Max(N) >= y
    <3>1. \A y \in N : cell.max >= y BY <2>1, <2>2, <2>3
    <3> QED BY <2>3, <3>1 DEF Max
  <2>8. cell.min = Min(N) /\ cell.max = Max(N) BY <2>4, <2>5, <2>6, <2>7
  <2> QED BY <2>8 DEF N
<1> QED BY <1>1, <1>2, <1>3, ShapeHolds, LoggedHolds, PTL DEF Spec

----------------------------------------------------------------------------
(* The average *)

\* There is a largest latency, whatever the set of Latencies.
Highest == \E m \in Seen : \A x \in Seen : x <= m

LEMMA MaxIs ==
  ASSUME NEW S, S \subseteq Nat, \E m \in S : \A x \in S : x <= m
  PROVE  Max(S) \in S /\ Max(S) \in Nat /\ \A x \in S : x <= Max(S)
<1>1. PICK m \in S : \A x \in S : x <= m OBVIOUS
<1>2. \A x \in S : m >= x BY <1>1
<1>3. Max(S) \in S /\ \A x \in S : Max(S) >= x BY <1>2 DEF Max
<1> QED BY <1>3

LEMMA TimesMonotone ==
  ASSUME NEW a \in Nat, NEW b \in Nat, NEW k \in Nat, a <= b
  PROVE  a * k <= b * k /\ a * k \in Nat /\ b * k \in Nat
<1>1. PICK d \in Nat : b = a + d
  <2>1. b - a \in Nat /\ b = a + (b - a) OBVIOUS
  <2> QED BY <2>1
<1>2. a * k \in Nat /\ d * k \in Nat OBVIOUS
<1>3. b * k = a * k + d * k BY <1>1
<1> QED BY <1>2, <1>3

LEMMA TimesGrows ==
  ASSUME NEW a \in Nat, NEW k \in Nat, NEW n \in Nat
  PROVE  a * k <= a * (k + n) /\ a * (k + n) \in Nat /\ a * (k + 1) = a * k + a
<1>1. a * k \in Nat /\ a * n \in Nat OBVIOUS
<1>2. a * (k + n) = a * k + a * n OBVIOUS
<1>3. a * (k + 1) = a * k + a OBVIOUS
<1> QED BY <1>1, <1>2, <1>3

\* A larger bound on the latencies, and a larger count, bound the same total.
LEMMA Looser ==
  ASSUME NEW total \in Nat, NEW m \in Nat, NEW M \in Nat, NEW k \in Nat, NEW n \in Nat,
         total <= m * k, m <= M
  PROVE  total <= M * k /\ total <= M * (k + n)
<1>1. m * k <= M * k /\ m * k \in Nat /\ M * k \in Nat BY TimesMonotone
<1>2. M * k <= M * (k + n) /\ M * (k + n) \in Nat BY TimesGrows
<1> DEFINE a == m * k
           b == M * k
           c == M * (k + n)
<1> HIDE DEF a, b, c
<1>3. total <= b BY <1>1 DEF a, b
<1>4. b <= c /\ b \in Nat /\ c \in Nat BY <1>1, <1>2 DEF b, c
<1>5. total <= c BY <1>3, <1>4
<1> QED BY <1>3, <1>5 DEF b, c

LEMMA SeenGrows ==
  ASSUME Shape, Logged, [Next]_vars
  PROVE  Seen \subseteq Seen' /\ (Highest => Highest')
<1>1. CASE UNCHANGED log
  <2>1. Seen' = Seen BY <1>1 DEF Seen
  <2> QED BY <2>1 DEF Highest
<1>2. CASE \E t \in Threads : \E ns \in Latencies : Passes(t, ns)
  <2>1. PICK t \in Threads, ns \in Latencies : Passes(t, ns) BY <1>2
  <2>2. Seen' = Seen \cup {ns} /\ ns \in Nat BY <2>1, PassSeen
  <2>3. ASSUME Highest PROVE Highest'
    <3>1. PICK m \in Seen : \A x \in Seen : x <= m BY <2>3 DEF Highest
    <3>2. m \in Nat /\ Seen \subseteq Nat BY SeenIsNat
    <3>3. CASE ns <= m
      <4>1. \A x \in Seen' : x <= m BY <2>2, <3>1, <3>3
      <4> QED BY <2>2, <3>1, <4>1 DEF Highest
    <3>4. CASE m <= ns
      <4>1. ASSUME NEW x \in Seen' PROVE x <= ns
        <5>1. CASE x = ns BY <2>2, <5>1
        <5>2. CASE x \in Seen
          <6>1. x <= m /\ x \in Nat BY <3>1, <3>2, <5>2
          <6> QED BY <2>2, <3>2, <3>4, <6>1
        <5> QED BY <2>2, <5>1, <5>2
      <4> QED BY <2>2, <4>1 DEF Highest
    <3> QED BY <2>2, <3>2, <3>3, <3>4
  <2> QED BY <2>2, <2>3
<1>3. UNCHANGED log \/ \E t \in Threads : Guard(t)
  BY DEF Next, AddCount, AddTotal, ReadMin, SwapMin, ReadMax, SwapMax, BumpEpoch, Report,
         NewReport, handler, vars
<1> QED BY <1>1, <1>2, <1>3, GuardEffect

\* The first part of Average, for a cell and a number of handlers between the
\* count and the total.
Lags(M, c, n) == \E k \in Nat : c.count = k + n /\ c.total <= M * k

\* Average, with the bound named.
Averages(M) ==
  /\ Lags(M, cell, Cardinality(At(pc, {"total"})))
  /\ row = 3 => shown.total <= M * cell.count
  /\ row = 4 => shown.total <= M * shown.count

LEMMA AveragesIsAverage == Averages(Max(Seen)) <=> Average
<1>1. Pending({"total"}) = At(pc, {"total"}) BY DEF Pending, At
<1> QED BY <1>1 DEF Averages, Average, Lags

LEMMA LagsLooser ==
  ASSUME NEW c, c.total \in Nat, NEW n \in Nat, NEW m \in Nat, NEW M \in Nat, m <= M, Lags(m, c, n)
  PROVE  Lags(M, c, n) /\ c.total <= M * c.count
<1>1. PICK k \in Nat : c.count = k + n /\ c.total <= m * k BY DEF Lags
<1>2. c.total <= M * k /\ c.total <= M * (k + n) BY <1>1, Looser
<1> QED BY <1>1, <1>2 DEF Lags

LEMMA ReportAverages ==
  ASSUME Shape, NEW M \in Nat, Averages(M), Report
  PROVE  Averages(M)'
<1>1. /\ row \in 0..3 /\ row' = row + 1 /\ UNCHANGED <<pc, cell>>
      /\ shown' = [shown EXCEPT ![Layout[row + 1]] = cell[Layout[row + 1]]]
  BY DEF Report, handler, Shape
<1>2. cell.total \in Nat /\ Cardinality(At(pc, {"total"})) \in Nat
  BY PendingFinite DEF Shape
<1>3. cell.total <= M * cell.count BY <1>2, LagsLooser DEF Averages
<1>4. row' = 3 => shown'.total <= M * cell.count
  <2> SUFFICES ASSUME row' = 3 PROVE shown'.total = cell.total BY <1>3
  <2>1. row = 2 BY <1>1
  <2>2. Layout[row + 1] = "total" BY <2>1 DEF Layout
  <2> QED BY <1>1, <2>2 DEF Shape
<1>5. row' = 4 => shown'.total <= M * shown'.count
  <2> SUFFICES ASSUME row' = 4 PROVE shown'.total = shown.total /\ shown'.count = cell.count
    <3>1. row = 3 => shown.total <= M * cell.count BY DEF Averages
    <3>2. row' = 4 => row = 3 BY <1>1
    <3> QED BY <3>1, <3>2
  <2>1. row = 3 BY <1>1
  <2>2. Layout[row + 1] = "count" BY <2>1 DEF Layout
  <2> QED BY <1>1, <2>2 DEF Shape
<1>6. Lags(M, cell', Cardinality(At(pc', {"total"}))) BY <1>1 DEF Averages
<1> QED BY <1>1, <1>4, <1>5, <1>6 DEF Averages

\* Each step keeps the bound, with the largest latency seen after the step.
LEMMA ThreadAverages ==
  ASSUME Shape, Shape', Logged, NEW m \in Nat, NEW M \in Nat, m <= M, Averages(m),
         NEW t \in Threads, Thread(t), lat[t] <= M
  PROVE  Averages(M)'
<1>1. /\ UNCHANGED <<row, shown>>
      /\ cell.total \in Nat /\ cell.count \in Nat /\ shown.total \in Nat /\ shown.count \in Nat
      /\ lat[t] \in Nat
  BY SeenIsNat DEF Shape, Thread, Guard, AddCount, AddTotal, ReadMin, SwapMin, ReadMax, SwapMax
<1> DEFINE n == Cardinality(At(pc, {"total"}))
<1>2. n \in Nat BY PendingFinite
<1>3. PICK k \in Nat : cell.count = k + n /\ cell.total <= m * k BY DEF Averages, Lags
<1>4. /\ cell.total <= M * k
      /\ row = 3 => shown.total <= M * cell.count /\ shown.total <= M * (cell.count + 1)
      /\ row = 4 => shown.total <= M * shown.count
  <2>1. cell.total <= M * k BY <1>1, <1>3, Looser
  <2>2. ASSUME row = 3
        PROVE  shown.total <= M * cell.count /\ shown.total <= M * (cell.count + 1)
    <3>1. shown.total <= m * cell.count BY <2>2 DEF Averages
    <3> QED BY <1>1, <3>1, Looser
  <2>3. ASSUME row = 4 PROVE shown.total <= M * shown.count
    <3>1. shown.total <= m * shown.count BY <2>3 DEF Averages
    <3> QED BY <1>1, <3>1, Looser
  <2> QED BY <2>1, <2>2, <2>3
<1> HIDE DEF n
<1>5. CASE AddCount(t)
  <2>1. /\ pc[t] = "count" /\ pc' = [pc EXCEPT ![t] = "total"]
        /\ cell'.count = cell.count + 1 /\ cell'.total = cell.total
    BY <1>5 DEF AddCount, Shape
  <2>2. At(pc', {"total"}) = At(pc, {"total"}) \cup {t} /\ t \notin At(pc, {"total"})
    <3>1. pc'[t] = "total" /\ \A u \in Threads : u # t => pc'[u] = pc[u] BY <2>1 DEF Shape
    <3> QED BY <2>1, <3>1 DEF At
  <2>3. Cardinality(At(pc', {"total"})) = n + 1
    BY <2>2, PendingFinite, FS_AddElement DEF n
  <2>4. cell'.count = k + (n + 1) /\ cell'.total <= M * k BY <1>2, <1>3, <1>4, <2>1
  <2>5. Lags(M, cell', Cardinality(At(pc', {"total"}))) BY <2>3, <2>4 DEF Lags
  <2> QED BY <1>1, <1>4, <2>1, <2>5 DEF Averages
<1>6. CASE AddTotal(t)
  <2>1. /\ pc[t] = "total" /\ pc' = [pc EXCEPT ![t] = "read min"]
        /\ cell'.count = cell.count /\ cell'.total = cell.total + lat[t]
    BY <1>6 DEF AddTotal, Shape
  <2>2. At(pc', {"total"}) = At(pc, {"total"}) \ {t} /\ t \in At(pc, {"total"})
    BY <2>1 DEF At, Shape, Steps
  <2>3. Cardinality(At(pc', {"total"})) = n - 1 BY <2>2, PendingFinite, FS_RemoveElement DEF n
  <2>4. n - 1 \in Nat BY <2>3, PendingFinite
  <2>5. cell'.count = (k + 1) + (n - 1)
    <3>1. k + n = (k + 1) + (n - 1) BY <1>2
    <3>2. cell'.count = k + n BY <1>3, <2>1
    <3> QED BY <3>1, <3>2
  <2>6. cell'.total <= M * (k + 1)
    <3> DEFINE p == M * k
    <3>1. M * (k + 1) = p + M /\ p \in Nat BY TimesGrows
    <3>2. cell.total <= p BY <1>4
    <3> HIDE DEF p
    <3>3. cell'.total = cell.total + lat[t] /\ p \in Nat BY <2>1, <3>1
    <3>4. cell.total + lat[t] <= p + M BY <1>1, <3>2, <3>3
    <3>5. cell'.total <= p + M BY <3>3, <3>4
    <3> QED BY <3>1, <3>5, Zenon
  <2>7. Lags(M, cell', n - 1) BY <2>5, <2>6 DEF Lags
  <2>8. Lags(M, cell', Cardinality(At(pc', {"total"}))) BY <2>3, <2>7, Zenon
  <2> QED BY <1>1, <1>4, <2>1, <2>8 DEF Averages
<1>7. CASE Guard(t) \/ ReadMin(t) \/ SwapMin(t) \/ ReadMax(t) \/ SwapMax(t)
  <2>1. cell'.count = cell.count /\ cell'.total = cell.total
    BY <1>7 DEF Guard, ReadMin, SwapMin, ReadMax, SwapMax, Shape
  <2>2. At(pc', {"total"}) = At(pc, {"total"})
    <3>1. pc' = pc \/ \E to \in Steps \ {"total"} : pc[t] # "total" /\ pc' = [pc EXCEPT ![t] = to]
      <4>1. CASE Guard(t)
        <5>1. pc[t] = "out" BY <4>1 DEF Guard
        <5> QED BY <4>1, <5>1, GuardEffect DEF Passes, Steps
      <4>2. CASE ~Guard(t) BY <1>7, <4>2 DEF ReadMin, SwapMin, ReadMax, SwapMax, Steps
      <4> QED BY <4>1, <4>2
    <3> QED BY <3>1 DEF At, Shape
  <2>3. Lags(M, cell', n) BY <1>3, <1>4, <2>1 DEF Lags
  <2>4. Lags(M, cell', Cardinality(At(pc', {"total"}))) BY <2>2, <2>3, Zenon DEF n
  <2> QED BY <1>1, <1>4, <2>1, <2>4 DEF Averages
<1> QED BY <1>5, <1>6, <1>7 DEF Thread

\* The average that a report computes from the total and the count it has
\* read, with handlers between any two of its reads, is no larger than the
\* largest latency.
THEOREM AverageInRangeTheorem == Spec => []AverageInRange
<1>1. Init => Highest /\ Average
  <2> SUFFICES ASSUME Init PROVE Highest /\ Average OBVIOUS
  <2>1. Seen = {0} BY DEF Init, Seen
  <2>2. Highest BY <2>1 DEF Highest
  <2>3. Max(Seen) = 0 BY <2>1 DEF Max
  <2>4. Pending({"total"}) = {} /\ Cardinality({}) = 0 BY FS_EmptySet DEF Init, Pending
  <2>5. cell.count = 0 /\ cell.total = 0 /\ row = 0 BY DEF Init, Zero
  <2>6. 0 = 0 + 0 /\ 0 <= 0 * 0 /\ 0 \in Nat OBVIOUS
  <2>7. \E k \in Nat : cell.count = k + Cardinality(Pending({"total"}))
                       /\ cell.total <= Max(Seen) * k
    BY <2>3, <2>4, <2>5, <2>6
  <2> QED BY <2>2, <2>5, <2>7 DEF Average
<1>2. /\ Shape /\ Shape' /\ Better /\ Logged /\ Highest /\ Average /\ [Next]_vars
      => Highest' /\ Average'
  <2> SUFFICES ASSUME Shape, Shape', Better, Logged, Highest, Average, [Next]_vars
               PROVE  Highest' /\ Average'
    OBVIOUS
  <2>1. Highest' /\ Seen \subseteq Seen' BY SeenGrows
  <2>0. PICK m, M : m = Max(Seen) /\ M = Max(Seen') OBVIOUS
  <2>2. m \in Nat /\ M \in Nat /\ m <= M /\ \A t \in Threads : lat[t] <= M
    <3>1. Seen \subseteq Nat BY SeenIsNat
    <3>2. Seen' \subseteq Nat
      <4>1. ASSUME NEW e \in log' PROVE e.ns \in Nat BY StatsAssumption DEF Shape
      <4> QED BY <4>1 DEF Seen
    <3>3. m \in Seen /\ m \in Nat BY <2>0, <3>1, MaxIs DEF Highest
    <3>4. M \in Nat /\ \A x \in Seen' : x <= M BY <2>0, <2>1, <3>2, MaxIs DEF Highest
    <3> QED BY <2>1, <3>3, <3>4 DEF Shape
  <2>3. Averages(m) BY <2>0, AveragesIsAverage
  <2>4. Averages(M)'
    <3>1. CASE \E t \in Threads : Thread(t) BY <2>2, <2>3, <3>1, ThreadAverages
    <3>2. CASE UNCHANGED <<pc, cell>> /\ (UNCHANGED <<row, shown>> \/ row' = 0)
      <4>1. /\ cell.total \in Nat /\ cell.count \in Nat
            /\ shown.total \in Nat /\ shown.count \in Nat
        BY DEF Shape
      <4>2. Lags(M, cell, Cardinality(At(pc, {"total"})))
        BY <2>2, <2>3, <4>1, PendingFinite, LagsLooser DEF Averages
      <4>3. row = 3 => shown.total <= M * cell.count
        <5>1. row = 3 => shown.total <= m * cell.count BY <2>3 DEF Averages
        <5> QED BY <2>2, <4>1, <5>1, Looser
      <4>4. row = 4 => shown.total <= M * shown.count
        <5>1. row = 4 => shown.total <= m * shown.count BY <2>3 DEF Averages
        <5> QED BY <2>2, <4>1, <5>1, Looser
      <4> QED BY <3>2, <4>2, <4>3, <4>4 DEF Averages
    <3>3. CASE Report
      <4>1. UNCHANGED log BY <3>3 DEF Report, handler
      <4>2. M = m BY <2>0, <4>1 DEF Seen
      <4> QED BY <2>2, <2>3, <3>3, <4>2, ReportAverages
    <3> QED BY <3>1, <3>2, <3>3 DEF Next, Thread, BumpEpoch, NewReport, handler, vars
  <2>5. Average'
    <3>1. Pending({"total"})' = At(pc', {"total"}) BY DEF Pending, At
    <3> QED BY <2>0, <2>4, <3>1 DEF Average, Averages, Lags
  <2> QED BY <2>1, <2>5
<1>3. Average => AverageInRange BY DEF Average, AverageInRange, Seen
<1> QED BY <1>1, <1>2, <1>3, ShapeHolds, LoggedHolds, PTL DEF Spec
=============================================================================
