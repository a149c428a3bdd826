---------------------------- MODULE CodeGenProofs ----------------------------
(***************************************************************************)
(* What holds of the blocks that are found, the probes that are planned    *)
(* and the places they are moved to, for any functions, samples, machines  *)
(* and values.                                                             *)
(***************************************************************************)
EXTENDS ImageDiff, FiniteSetTheorems, WellFoundedInduction, TLAPS

----------------------------------------------------------------------------
(* Numbers *)

LessThan == {p \in Nat \X Nat : p[1] < p[2]}

LEMMA Smallest ==
  ASSUME NEW S \in SUBSET Nat, S # {}
  PROVE  \E k \in S : \A j \in S : k <= j
<1>1. IsWellFoundedOn(LessThan, Nat) BY NatLessThanWellFounded DEF OpToRel, LessThan
<1>2. PICK k \in S : \A j \in S : <<j, k>> \notin LessThan BY <1>1, WFMin
<1>3. ASSUME NEW j \in S, j < k PROVE FALSE
  <2>1. j \in Nat /\ k \in Nat OBVIOUS
  <2>2. <<j, k>> \in LessThan BY <1>3, <2>1 DEF LessThan
  <2> QED BY <1>2, <2>2
<1>4. \A j \in S : j \in Nat /\ k \in Nat OBVIOUS
<1> QED BY <1>3, <1>4

LEMMA Induction ==
  ASSUME NEW T \in SUBSET Nat, 0 \in T, \A n \in T : n + 1 \in T
  PROVE  T = Nat
<1> SUFFICES ASSUME T # Nat PROVE FALSE OBVIOUS
<1>1. PICK n \in Nat \ T : \A m \in Nat \ T : n <= m
  <2> DEFINE U == Nat \ T
  <2>1. U \in SUBSET Nat /\ U # {} OBVIOUS
  <2> HIDE DEF U
  <2>2. \E n \in U : \A m \in U : n <= m BY <2>1, Smallest
  <2> QED BY <2>2 DEF U
<1>2. n # 0 /\ n - 1 \in Nat OBVIOUS
<1>3. n - 1 \in T BY <1>1, <1>2
<1> QED BY <1>2, <1>3

LEMMA MinIs ==
  ASSUME NEW S \in SUBSET Nat, S # {}
  PROVE  Min(S) \in S /\ Min(S) \in Nat /\ \A j \in S : Min(S) <= j
<1>1. \E k \in S : \A j \in S : k <= j BY Smallest
<1> QED BY <1>1 DEF Min

LEMMA MaxIs ==
  ASSUME NEW n \in Nat, NEW S \in SUBSET (0..n), S # {}
  PROVE  Max(S) \in S /\ Max(S) \in 0..n /\ \A j \in S : j <= Max(S)
<1> DEFINE R == {n - k : k \in S}
<1>1. R \in SUBSET Nat /\ R # {} OBVIOUS
<1>2. PICK r \in R : \A j \in R : r <= j
  <2> HIDE DEF R
  <2> QED BY <1>1, Smallest
<1>3. PICK k \in S : r = n - k OBVIOUS
<1>4. \A j \in S : k >= j
  <2> TAKE j \in S
  <2>1. n - j \in R OBVIOUS
  <2>2. n - k <= n - j BY <1>2, <1>3, <2>1
  <2>3. j \in 0..n /\ k \in 0..n OBVIOUS
  <2> HIDE DEF R
  <2> QED BY <2>2, <2>3
<1>5. Max(S) \in S /\ \A j \in S : Max(S) >= j BY <1>4 DEF Max
<1> HIDE DEF R
<1> QED BY <1>5

\* Quotient and remainder are unique.
LEMMA Quotient ==
  ASSUME NEW q \in Nat, NEW n \in Nat \ {0}, NEW r \in 0..(n - 1)
  PROVE  (q * n + r) \div n = q
<1> DEFINE a == q * n + r
           d == a \div n
           m == a % n
<1>1. a \in Nat OBVIOUS
<1>2. d \in Int /\ m \in 0..(n - 1) /\ a = n * d + m
  <2> HIDE DEF a
  <2> QED BY <1>1, SMT
<1>3. CASE d >= q + 1
  <2>1. n * d >= n * (q + 1) BY <1>2, <1>3, SMT
  <2>2. n * (q + 1) = q * n + n BY SMT
  <2> QED BY <1>2, <2>1, <2>2
<1>4. CASE d <= q - 1
  <2>1. n * d <= n * (q - 1) BY <1>2, <1>4, SMT
  <2>2. n * (q - 1) = q * n - n BY SMT
  <2> QED BY <1>2, <2>1, <2>2
<1>5. CASE d = q BY <1>5
<1> QED BY <1>2, <1>3, <1>4, <1>5

----------------------------------------------------------------------------
(* Counting *)

Below(S, n) == {j \in S : j < n}

LEMMA BelowGrows ==
  ASSUME NEW S \in SUBSET Nat, IsFiniteSet(S), NEW k \in S, NEW l \in Nat, k < l
  PROVE  /\ Cardinality(Below(S, k)) \in Nat /\ Cardinality(Below(S, l)) \in Nat
         /\ Cardinality(Below(S, k)) < Cardinality(Below(S, l))
         /\ Cardinality(Below(S, l)) <= Cardinality(S)
<1>1. Below(S, l) \in SUBSET S /\ Below(S, k) \in SUBSET S BY DEF Below
<1>2. IsFiniteSet(Below(S, l)) /\ IsFiniteSet(Below(S, k)) BY <1>1, FS_Subset
<1>3. Below(S, k) \cup {k} \in SUBSET Below(S, l)
  <2>1. \A j \in S : j \in Nat /\ (j < k => j < l) OBVIOUS
  <2> QED BY <2>1 DEF Below
<1>4. k \notin Below(S, k) BY DEF Below
<1>5. Cardinality(Below(S, k) \cup {k}) = Cardinality(Below(S, k)) + 1
  BY <1>2, <1>4, FS_AddElement
<1>6. Cardinality(Below(S, k) \cup {k}) <= Cardinality(Below(S, l)) BY <1>2, <1>3, FS_Subset
<1>7. Cardinality(Below(S, k)) \in Nat /\ Cardinality(Below(S, l)) \in Nat
  BY <1>2, FS_CardinalityType
<1>8. Cardinality(Below(S, l)) <= Cardinality(S) BY <1>1, FS_Subset
<1> QED BY <1>5, <1>6, <1>7, <1>8

\* Every number below the size of S is the rank of a member of S.
LEMMA RankExists ==
  ASSUME NEW S \in SUBSET Nat, IsFiniteSet(S), NEW n \in Nat, n < Cardinality(S)
  PROVE  \E k \in S : Cardinality(Below(S, k)) = n
<1> DEFINE T == {m \in Nat : m < Cardinality(S) => \E k \in S : Cardinality(Below(S, k)) = m}
<1>0. Cardinality(S) \in Nat BY FS_CardinalityType
<1>1. 0 \in T
  <2> SUFFICES ASSUME 0 < Cardinality(S) PROVE \E k \in S : Cardinality(Below(S, k)) = 0
    OBVIOUS
  <2>1. S # {} BY FS_EmptySet
  <2>2. PICK k \in S : \A j \in S : k <= j BY <2>1, Smallest
  <2>3. \A j \in S : ~(j < k) BY <2>2
  <2>4. Below(S, k) = {} BY <2>3 DEF Below
  <2> QED BY <2>4, FS_EmptySet
<1>2. ASSUME NEW m \in T PROVE m + 1 \in T
  <2> SUFFICES ASSUME m + 1 < Cardinality(S)
               PROVE  \E k \in S : Cardinality(Below(S, k)) = m + 1
    OBVIOUS
  <2>1. PICK k \in S : Cardinality(Below(S, k)) = m BY <1>0
  <2> DEFINE A == {j \in S : k < j}
             B == Below(S, k) \cup {k}
  <2>2. Below(S, k) \in SUBSET S /\ k \notin Below(S, k) BY DEF Below
  <2>3. IsFiniteSet(Below(S, k)) BY <2>2, FS_Subset
  <2>4. Cardinality(B) = m + 1 BY <2>1, <2>2, <2>3, FS_AddElement
  <2>5. A # {}
    <3> SUFFICES ASSUME A = {} PROVE FALSE OBVIOUS
    <3>0. \A j \in S : j \in Nat /\ k \in Nat /\ ~(k < j) OBVIOUS
    <3>1. \A j \in S : j < k \/ j = k BY <3>0
    <3>2. B = S BY <3>1 DEF Below
    <3> QED BY <1>0, <2>4, <3>2
  <2>6. PICK l \in A : \A j \in A : l <= j BY <2>5, Smallest
  <2>7. Below(S, l) = B
    <3>1. l \in Nat /\ k \in Nat /\ k < l OBVIOUS
    <3>2. ASSUME NEW j \in S PROVE j < l <=> (j < k \/ j = k)
      <4>1. j \in Nat OBVIOUS
      <4>2. k < j => l <= j BY <2>6
      <4> HIDE DEF A, B
      <4> QED BY <3>1, <4>1, <4>2
    <3> QED BY <3>2 DEF Below
  <2> QED BY <2>4, <2>7
<1>3. T = Nat
  <2> HIDE DEF T
  <2>1. T \in SUBSET Nat BY DEF T
  <2> QED BY <1>1, <1>2, <2>1, Induction
<1> QED BY <1>3

\* Nth finds the one member that has n smaller ones.
LEMMA NthIs ==
  ASSUME NEW S \in SUBSET Nat, IsFiniteSet(S), NEW n \in Nat, n < Cardinality(S)
  PROVE  Nth(S, n) \in S /\ Cardinality(Below(S, Nth(S, n))) = n
<1>1. \E k \in S : Cardinality({j \in S : j < k}) = n BY RankExists DEF Below
<1> QED BY <1>1 DEF Nth, Below

\* A member that has at least n smaller ones is not before the n-th.
LEMMA NthFirst ==
  ASSUME NEW S \in SUBSET Nat, IsFiniteSet(S), NEW k \in S,
         NEW n \in Nat, n <= Cardinality(Below(S, k))
  PROVE  /\ n < Cardinality(S) /\ Nth(S, n) \in S /\ Nth(S, n) <= k
         /\ Cardinality(Below(S, k)) = n => Nth(S, n) = k
<1>1. k \in Nat /\ k < k + 1 OBVIOUS
<1>2. Cardinality(Below(S, k)) \in Nat /\ Cardinality(Below(S, k)) < Cardinality(S)
  <2>1. /\ Cardinality(Below(S, k)) \in Nat /\ Cardinality(Below(S, k + 1)) \in Nat
        /\ Cardinality(Below(S, k)) < Cardinality(Below(S, k + 1))
        /\ Cardinality(Below(S, k + 1)) <= Cardinality(S)
    BY <1>1, BelowGrows
  <2>2. Cardinality(S) \in Nat BY FS_CardinalityType
  <2> QED BY <2>1, <2>2
<1>3. Cardinality(S) \in Nat BY FS_CardinalityType
<1>4. n < Cardinality(S) BY <1>2, <1>3
<1> DEFINE m == Nth(S, n)
<1>5. m \in S /\ Cardinality(Below(S, m)) = n BY <1>4, NthIs
<1> HIDE DEF m
<1>6. m \in Nat BY <1>5
<1>7. ~(k < m)
  <2> SUFFICES ASSUME k < m PROVE FALSE OBVIOUS
  <2>1. Cardinality(Below(S, k)) < Cardinality(Below(S, m)) BY <1>6, BelowGrows
  <2> QED BY <1>2, <1>5, <2>1
<1>8. m < k => Cardinality(Below(S, m)) < Cardinality(Below(S, k)) BY <1>5, BelowGrows
<1> QED BY <1>2, <1>4, <1>5, <1>6, <1>7, <1>8 DEF m

\* Members in the order of their ranks
LEMMA NthOrder ==
  ASSUME NEW S \in SUBSET Nat, IsFiniteSet(S), NEW n \in Nat, NEW m \in Nat,
         m < n, n < Cardinality(S)
  PROVE  Nth(S, m) < Nth(S, n)
<1>1. Cardinality(S) \in Nat /\ m < Cardinality(S) BY FS_CardinalityType
<1>2. Nth(S, n) \in S /\ Cardinality(Below(S, Nth(S, n))) = n BY NthIs
<1>3. Nth(S, m) \in S /\ Cardinality(Below(S, Nth(S, m))) = m BY <1>1, NthIs
<1> DEFINE k == Nth(S, n)
<1>4. k \in S /\ m <= Cardinality(Below(S, k)) BY <1>2
<1> HIDE DEF k
<1>5. Nth(S, m) <= k BY <1>4, NthFirst
<1>6. Nth(S, m) # k BY <1>2, <1>3 DEF k
<1>7. k \in Nat /\ Nth(S, m) \in Nat BY <1>3, <1>4
<1> QED BY <1>5, <1>6, <1>7 DEF k

----------------------------------------------------------------------------
(* DiffBlocks: lines and blocks *)

Lists(f) == DOMAIN f = 1..Len(f) /\ Len(f) \in Nat

LEMMA SequenceLists == ASSUME NEW S, NEW f \in Seq(S) PROVE Lists(f)
BY DEF Lists

LEMMA KeptChanged ==
  ASSUME NEW f, NEW u, NEW v, Lists(f)
  PROVE  /\ Kept(f, u, v) \subseteq Changed(f, u, v) /\ Changed(f, u, v) \subseteq 1..Len(f)
         /\ Kept(f, u, v) \subseteq 1..Len(f)
BY DEF Kept, Filtered, Changed, Lists

\* The first line of the hunk that line k is in
HunkStart(f, u, v, k) == Min({j \in 1..k : j..k \subseteq Changed(f, u, v)})
Earlier(f, u, v, k) == {j \in Kept(f, u, v) : HunkStart(f, u, v, k) <= j /\ j < k}

LEMMA HunkStartIs ==
  ASSUME NEW f, NEW u, NEW v, Lists(f), NEW k \in Changed(f, u, v)
  PROVE  LET s == HunkStart(f, u, v, k)
         IN /\ s \in 1..k /\ s..k \subseteq Changed(f, u, v)
            /\ \A j \in 1..k : j..k \subseteq Changed(f, u, v) => s <= j
<1> DEFINE S == {j \in 1..k : j..k \subseteq Changed(f, u, v)}
<1>1. k \in Nat /\ k >= 1 BY KeptChanged DEF Lists
<1>2. k \in S
  <2>1. k..k = {k} BY <1>1
  <2> QED BY <1>1, <2>1
<1>3. S \in SUBSET Nat /\ S # {} BY <1>1, <1>2
<1> HIDE DEF S
<1>4. Min(S) \in S /\ \A j \in S : Min(S) <= j BY <1>3, MinIs
<1>5. HunkStart(f, u, v, k) = Min(S) BY DEF HunkStart, S
<1> QED BY <1>4, <1>5 DEF S

\* A line number lies between the start of its hunk and the line itself.
LEMMA LineNumberIs ==
  ASSUME NEW f, NEW u, NEW v, Lists(f), NEW k \in Changed(f, u, v)
  PROVE  LET s == HunkStart(f, u, v, k)
             n == Cardinality(Earlier(f, u, v, k))
         IN /\ n \in Nat /\ IsFiniteSet(Earlier(f, u, v, k))
            /\ LineNumber(f, u, v, k) = s + n /\ LineNumber(f, u, v, k) \in s..k
<1> DEFINE s == HunkStart(f, u, v, k)
           E == Earlier(f, u, v, k)
<1>1. k \in Nat /\ s \in 1..k BY KeptChanged, HunkStartIs DEF Lists
<1> HIDE DEF s
<1>2. E \in SUBSET (s..(k - 1))
  <2>1. \A j \in Kept(f, u, v) : j \in Nat BY KeptChanged DEF Lists
  <2>2. \A j \in E : j \in Nat /\ s <= j /\ j < k BY <2>1 DEF Earlier, s
  <2> HIDE DEF E
  <2> QED BY <1>1, <2>2
<1>3. IsFiniteSet(s..(k - 1)) /\ Cardinality(s..(k - 1)) = k - s
  <2>1. s \in Int /\ k - 1 \in Int BY <1>1
  <2>2. Cardinality(s..(k - 1)) = IF s > k - 1 THEN 0 ELSE (k - 1) - s + 1
    BY <2>1, FS_Interval
  <2>3. IsFiniteSet(s..(k - 1)) BY <2>1, FS_Interval
  <2> QED BY <1>1, <2>2, <2>3
<1> HIDE DEF E
<1>4. IsFiniteSet(E) /\ Cardinality(E) <= k - s
  <2>1. IsFiniteSet(E) /\ Cardinality(E) <= Cardinality(s..(k - 1)) BY <1>2, <1>3, FS_Subset
  <2> QED BY <1>3, <2>1
<1>5. Cardinality(E) \in Nat BY <1>4, FS_CardinalityType
<1>6. LineNumber(f, u, v, k) = s + Cardinality(E)
  BY DEF LineNumber, Earlier, HunkStart, s, E
<1> QED BY <1>1, <1>4, <1>5, <1>6 DEF s, E

\* Later lines have greater numbers.
LEMMA LineNumberGrows ==
  ASSUME NEW f, NEW u, NEW v, Lists(f),
         NEW j \in Kept(f, u, v), NEW k \in Kept(f, u, v), j < k
  PROVE  LineNumber(f, u, v, j) < LineNumber(f, u, v, k)
<1> DEFINE s(i) == HunkStart(f, u, v, i)
           E(i) == Earlier(f, u, v, i)
           C == Changed(f, u, v)
<1>0. j \in C /\ k \in C /\ j \in Nat /\ k \in Nat /\ j >= 1 /\ k >= 1
  BY KeptChanged DEF Lists
<1>1. /\ s(j) \in 1..j /\ s(j)..j \subseteq C
      /\ \A i \in 1..j : i..j \subseteq C => s(j) <= i
  BY <1>0, HunkStartIs
<1>2. /\ s(k) \in 1..k /\ s(k)..k \subseteq C
      /\ \A i \in 1..k : i..k \subseteq C => s(k) <= i
  BY <1>0, HunkStartIs
<1>3. /\ IsFiniteSet(E(j)) /\ Cardinality(E(j)) \in Nat
      /\ LineNumber(f, u, v, j) = s(j) + Cardinality(E(j)) /\ LineNumber(f, u, v, j) \in s(j)..j
  BY <1>0, LineNumberIs
<1>4. /\ IsFiniteSet(E(k)) /\ Cardinality(E(k)) \in Nat
      /\ LineNumber(f, u, v, k) = s(k) + Cardinality(E(k)) /\ LineNumber(f, u, v, k) \in s(k)..k
  BY <1>0, LineNumberIs
<1>5. E(j) = {i \in Kept(f, u, v) : s(j) <= i /\ i < j}
  BY DEF Earlier
<1>6. E(k) = {i \in Kept(f, u, v) : s(k) <= i /\ i < k}
  BY DEF Earlier
<1> HIDE DEF s, E, C
<1>7. CASE s(k) > j BY <1>0, <1>1, <1>2, <1>3, <1>4, <1>7
<1>8. CASE s(k) <= j
  <2>1. s(k)..j \subseteq C BY <1>0, <1>2, <1>8
  <2>2. s(j) <= s(k) BY <1>0, <1>1, <1>2, <1>8, <2>1
  <2>3. s(j)..k \subseteq C
    <3>1. \A i \in s(j)..k : i \in s(j)..j \/ i \in s(k)..k BY <1>0, <1>1, <1>2, <1>8
    <3> QED BY <1>1, <1>2, <3>1
  <2>4. s(k) <= s(j) BY <1>0, <1>1, <1>2, <2>3
  <2>5. s(k) = s(j) BY <1>1, <1>2, <2>2, <2>4
  <2>6. E(j) \cup {j} \in SUBSET E(k)
    <3>1. \A i \in Kept(f, u, v) : i \in Nat BY KeptChanged DEF Lists
    <3>2. s(j) \in Nat BY <1>1
    <3>3. \A i \in Nat : s(j) <= i /\ i < j => s(j) <= i /\ i < k BY <1>0, <3>2
    <3>4. E(j) \subseteq E(k) BY <1>5, <1>6, <2>5, <3>1, <3>3
    <3>5. j \in E(k) BY <1>6, <1>8
    <3> QED BY <3>4, <3>5
  <2>7. j \notin E(j) BY <1>0, <1>5
  <2>8. Cardinality(E(j) \cup {j}) = Cardinality(E(j)) + 1 BY <1>3, <2>7, FS_AddElement
  <2>9. Cardinality(E(j) \cup {j}) <= Cardinality(E(k)) BY <1>4, <2>6, FS_Subset
  <2> QED BY <1>1, <1>2, <1>3, <1>4, <2>5, <2>8, <2>9
<1> QED BY <1>0, <1>2, <1>7, <1>8

EndsOf(f) == {k \in DOMAIN f : f[k].op \in Terminators}

\* A block lies behind the terminators before its line, and ends with one or with
\* the function.
LEMMA BlockOfIs ==
  ASSUME NEW f, Lists(f), NEW line \in 1..Len(f)
  PROVE  LET b == BlockOf(f, line)
         IN /\ b = <<b[1], b[2]>> /\ b[1] \in 1..Len(f) /\ b[2] \in b[1]..Len(f) /\ b[1] <= line + 1
            /\ b[2] = Len(f) \/ b[2] \in EndsOf(f)
            /\ \A e \in EndsOf(f) : e < line => e < b[1]
            /\ line \notin EndsOf(f) => line \in b[1]..b[2]
<1> DEFINE n == Len(f)
           A == {0} \cup {k \in EndsOf(f) : k <= line}
           first == Max(A) + 1
           start == IF first > n THEN line ELSE first
           Z == {n} \cup {k \in EndsOf(f) : k >= start}
<1>1. n \in Nat /\ EndsOf(f) \subseteq 1..n /\ line \in 1..n BY DEF Lists, EndsOf
<1>2. A \in SUBSET (0..n) /\ A # {} BY <1>1
<1>3. Max(A) \in A /\ Max(A) \in 0..n /\ \A j \in A : j <= Max(A) BY <1>1, <1>2, MaxIs
<1>4. BlockOf(f, line) = <<start, Min(Z)>> BY DEF BlockOf, EndsOf
<1>5. Max(A) <= line /\ (Max(A) = 0 \/ Max(A) \in EndsOf(f)) BY <1>1, <1>3
<1>6. \A e \in EndsOf(f) : e <= line => e < first
  <2> TAKE e \in EndsOf(f)
  <2> HAVE e <= line
  <2>1. e \in A OBVIOUS
  <2>2. e <= Max(A) BY <1>3, <2>1
  <2>3. e \in Nat BY <1>1
  <2> HIDE DEF A
  <2> QED BY <1>3, <2>2, <2>3
<1> HIDE DEF A
<1>7. first \in 1..(n + 1) /\ first <= line + 1 BY <1>1, <1>3, <1>5
<1>8. first > n => Max(A) = line /\ line = n BY <1>1, <1>3, <1>5
<1> HIDE DEF first
<1>9. start \in 1..n /\ start <= line + 1 BY <1>1, <1>7
<1>10. \A e \in EndsOf(f) : e < line => e < start BY <1>1, <1>6, <1>7, <1>9
<1>11. line \notin EndsOf(f) => start <= line
  <2>1. line \notin EndsOf(f) => Max(A) # line BY <1>1, <1>5
  <2>2. line \notin EndsOf(f) => Max(A) < line BY <1>1, <1>3, <1>5, <2>1
  <2> QED BY <1>1, <1>3, <2>2 DEF first
<1> HIDE DEF start
<1>12. Z \in SUBSET Nat /\ Z # {} BY <1>1
<1>13. Min(Z) \in Z /\ Min(Z) <= n BY <1>1, <1>12, MinIs
<1>14. Min(Z) \in start..n /\ (Min(Z) = n \/ Min(Z) \in EndsOf(f)) BY <1>1, <1>9, <1>13
<1>15. line \notin EndsOf(f) => line <= Min(Z)
  <2> SUFFICES ASSUME line \notin EndsOf(f), Min(Z) < line PROVE FALSE BY <1>1, <1>14
  <2>1. Min(Z) \in EndsOf(f) BY <1>1, <1>14
  <2>2. Min(Z) < start BY <1>10, <2>1
  <2> QED BY <1>9, <1>14, <2>2
<1> HIDE DEF Z
<1> QED BY <1>1, <1>4, <1>9, <1>10, <1>11, <1>14, <1>15

\* The recursion by which ChangedBlocks is defined
Grow(g, f, u, v, k) ==
  IF k = 0 THEN <<>>
  ELSE IF /\ k \in Kept(f, u, v)
          /\ \A n \in DOMAIN g[k - 1] : LineNumber(f, u, v, k) \notin g[k - 1][n][1]..g[k - 1][n][2]
       THEN Append(g[k - 1], BlockOf(f, LineNumber(f, u, v, k))) ELSE g[k - 1]
Grows(g, f, u, v) == g = [k \in 0..Len(f) |-> Grow(g, f, u, v, k)]

LEMMA GrowsExists ==
  ASSUME NEW f, NEW u, NEW v, Lists(f)
  PROVE  \E g : Grows(g, f, u, v)
<1> DEFINE Good(g, n) == \A k \in 0..Len(f) : k <= n => g[k] = Grow(g, f, u, v, k)
           T == {n \in Nat : \E g : Good(g, n)}
<1>0. Len(f) \in Nat BY DEF Lists
<1>1. 0 \in T
  <2> DEFINE g == [k \in 0..Len(f) |-> <<>>]
  <2>1. g[0] = <<>> BY <1>0
  <2> HIDE DEF g
  <2>2. Good(g, 0)
    <3>1. \A k \in 0..Len(f) : k <= 0 => k = 0 OBVIOUS
    <3> QED BY <2>1, <3>1 DEF Grow
  <2> QED BY <2>2
<1>2. ASSUME NEW n \in T PROVE n + 1 \in T
  <2>1. PICK g : Good(g, n) OBVIOUS
  <2> DEFINE h == [k \in 0..Len(f) |-> Grow(g, f, u, v, k)]
  <2>2. \A k \in 0..Len(f) : k <= n => h[k] = g[k] BY <2>1
  <2>3. ASSUME NEW k \in 0..Len(f), k <= n + 1 PROVE h[k] = Grow(h, f, u, v, k)
    <3>1. h[k] = Grow(g, f, u, v, k) OBVIOUS
    <3>2. CASE k = 0 BY <3>1, <3>2 DEF Grow
    <3>3. CASE k # 0
      <4>1. k - 1 \in 0..Len(f) /\ k - 1 <= n BY <2>3, <3>3
      <4>2. h[k - 1] = g[k - 1] BY <2>2, <4>1
      <4> HIDE DEF h
      <4> QED BY <3>1, <3>3, <4>2 DEF Grow
    <3> QED BY <3>2, <3>3
  <2>4. Good(h, n + 1) BY <2>3
  <2> HIDE DEF h, Good
  <2> QED BY <2>4
<1>3. T = Nat
  <2> HIDE DEF T
  <2>1. T \in SUBSET Nat BY DEF T
  <2> QED BY <1>1, <1>2, <2>1, Induction
<1>4. PICK g : Good(g, Len(f)) BY <1>0, <1>3
<1> DEFINE h == [k \in 0..Len(f) |-> g[k]]
<1>5. ASSUME NEW k \in 0..Len(f) PROVE h[k] = Grow(h, f, u, v, k)
  <2>1. h[k] = Grow(g, f, u, v, k) BY <1>4
  <2>2. CASE k = 0 BY <2>1, <2>2 DEF Grow
  <2>3. CASE k # 0
    <3>1. k - 1 \in 0..Len(f) BY <2>3
    <3>2. h[k - 1] = g[k - 1] BY <3>1
    <3> HIDE DEF h
    <3> QED BY <2>1, <2>3, <3>2 DEF Grow
  <2> QED BY <2>2, <2>3
<1>6. Grows(h, f, u, v)
  <2> DEFINE r == [k \in 0..Len(f) |-> Grow(h, f, u, v, k)]
  <2>1. \A k \in 0..Len(f) : h[k] = r[k] BY <1>5
  <2>2. h = r BY <2>1
  <2> QED BY <2>2 DEF Grows
<1> HIDE DEF h
<1> QED BY <1>6

LEMMA ChangedBlocksIs ==
  ASSUME NEW f, NEW u, NEW v, Lists(f)
  PROVE  \E g : Grows(g, f, u, v) /\ ChangedBlocks(f, u, v) = g[Len(f)]
<1> DEFINE g == CHOOSE g : Grows(g, f, u, v)
<1>1. Grows(g, f, u, v) BY GrowsExists
<1>2. ChangedBlocks(f, u, v) = g[Len(f)] BY DEF ChangedBlocks, Grows, Grow
<1> QED BY <1>1, <1>2

\* Blocks of a function, in its order
Block(f) == {b \in (1..Len(f)) \X (1..Len(f)) : b[1] <= b[2]}
InOrder(bs) == \A m, n \in DOMAIN bs : m < n => bs[m][2] < bs[n][1]

\* What is known of the blocks of the lines up to k
Growing(bs, f, u, v, k) ==
  /\ bs \in Seq(Block(f)) /\ InOrder(bs)
  /\ \A n \in DOMAIN bs :
       /\ bs[n][2] = Len(f) \/ bs[n][2] \in EndsOf(f)
       /\ \E j \in Kept(f, u, v) : j <= k /\ bs[n][1] <= LineNumber(f, u, v, j) + 1

LEMMA GrowingStep ==
  ASSUME NEW f, NEW u, NEW v, Lists(f), NEW bs, NEW k \in Nat, k + 1 \in Kept(f, u, v),
         Growing(bs, f, u, v, k),
         \A n \in DOMAIN bs : LineNumber(f, u, v, k + 1) \notin bs[n][1]..bs[n][2]
  PROVE  Growing(Append(bs, BlockOf(f, LineNumber(f, u, v, k + 1))), f, u, v, k + 1)
<1> DEFINE line == LineNumber(f, u, v, k + 1)
           b == BlockOf(f, line)
           new == Append(bs, b)
<1>1. Len(f) \in Nat /\ k + 1 \in 1..Len(f) /\ k + 1 \in Changed(f, u, v)
  BY KeptChanged DEF Lists
<1>2. line \in 1..Len(f)
  <2>1. line \in HunkStart(f, u, v, k + 1)..(k + 1) BY <1>1, LineNumberIs
  <2>2. HunkStart(f, u, v, k + 1) \in 1..(k + 1) BY <1>1, HunkStartIs
  <2> HIDE DEF line
  <2> QED BY <1>1, <2>1, <2>2
<1> HIDE DEF line
<1>3. /\ b = <<b[1], b[2]>> /\ b[1] \in 1..Len(f) /\ b[2] \in b[1]..Len(f) /\ b[1] <= line + 1
      /\ b[2] = Len(f) \/ b[2] \in EndsOf(f)
      /\ \A e \in EndsOf(f) : e < line => e < b[1]
  BY <1>2, BlockOfIs
<1> HIDE DEF b
<1>4. b \in Block(f) BY <1>1, <1>3 DEF Block
<1>5. bs \in Seq(Block(f)) /\ Len(bs) \in Nat /\ DOMAIN bs = 1..Len(bs) BY DEF Growing
<1>6. ASSUME NEW n \in DOMAIN bs
      PROVE  bs[n][1] \in 1..Len(f) /\ bs[n][2] \in bs[n][1]..Len(f) /\ bs[n][2] < b[1]
  <2>1. bs[n] \in Block(f) BY <1>5
  <2>2. bs[n][1] \in 1..Len(f) /\ bs[n][2] \in bs[n][1]..Len(f) BY <1>1, <2>1 DEF Block
  <2>3. PICK j \in Kept(f, u, v) : j <= k /\ bs[n][1] <= LineNumber(f, u, v, j) + 1
    BY DEF Growing
  <2>4. j \in Nat /\ j < k + 1 BY <2>3, KeptChanged DEF Lists
  <2>5. LineNumber(f, u, v, j) < line BY <2>4, LineNumberGrows DEF line
  <2>6. LineNumber(f, u, v, j) \in Nat
    <3>1. j \in Changed(f, u, v) BY KeptChanged
    <3>2. LineNumber(f, u, v, j) \in HunkStart(f, u, v, j)..j BY <3>1, LineNumberIs
    <3>3. HunkStart(f, u, v, j) \in 1..j BY <3>1, HunkStartIs
    <3> QED BY <2>4, <3>2, <3>3
  <2>7. bs[n][1] <= line BY <1>2, <2>2, <2>3, <2>5, <2>6
  <2>8. line \notin bs[n][1]..bs[n][2] BY DEF line
  <2>9. bs[n][2] < line BY <1>2, <2>2, <2>7, <2>8
  <2>10. bs[n][2] \in EndsOf(f) BY <1>2, <2>2, <2>9 DEF Growing
  <2> QED BY <1>3, <2>2, <2>9, <2>10
<1>7. /\ new \in Seq(Block(f)) /\ Len(new) = Len(bs) + 1 /\ DOMAIN new = 1..(Len(bs) + 1)
      /\ new[Len(bs) + 1] = b /\ \A n \in 1..Len(bs) : new[n] = bs[n]
  BY <1>4, <1>5
<1> HIDE DEF new
<1>8. InOrder(new)
  <2> SUFFICES ASSUME NEW m \in DOMAIN new, NEW n \in DOMAIN new, m < n
               PROVE  new[m][2] < new[n][1]
    BY DEF InOrder
  <2>1. CASE n = Len(bs) + 1
    <3>1. m \in 1..Len(bs) BY <1>5, <1>7, <2>1
    <3> QED BY <1>5, <1>6, <1>7, <2>1, <3>1
  <2>2. CASE n # Len(bs) + 1
    <3>1. m \in 1..Len(bs) /\ n \in 1..Len(bs) BY <1>5, <1>7, <2>2
    <3>2. bs[m][2] < bs[n][1] BY <1>5, <3>1 DEF Growing, InOrder
    <3> QED BY <1>7, <3>1, <3>2
  <2> QED BY <2>1, <2>2
<1>9. ASSUME NEW n \in DOMAIN new
      PROVE  /\ new[n][2] = Len(f) \/ new[n][2] \in EndsOf(f)
             /\ \E j \in Kept(f, u, v) : j <= k + 1 /\ new[n][1] <= LineNumber(f, u, v, j) + 1
  <2>1. CASE n = Len(bs) + 1
    <3>1. k + 1 <= k + 1 /\ new[n][1] <= LineNumber(f, u, v, k + 1) + 1
      BY <1>3, <1>7, <2>1 DEF line
    <3> QED BY <1>3, <1>7, <2>1, <3>1
  <2>2. CASE n # Len(bs) + 1
    <3>1. n \in DOMAIN bs /\ new[n] = bs[n] BY <1>5, <1>7, <2>2
    <3>2. PICK j \in Kept(f, u, v) : j <= k /\ bs[n][1] <= LineNumber(f, u, v, j) + 1
      BY <3>1 DEF Growing
    <3>3. j <= k + 1 BY <3>2, KeptChanged DEF Lists
    <3>4. bs[n][2] = Len(f) \/ bs[n][2] \in EndsOf(f) BY <3>1 DEF Growing
    <3> QED BY <3>1, <3>2, <3>3, <3>4
  <2> QED BY <2>1, <2>2
<1>10. Growing(new, f, u, v, k + 1) BY <1>7, <1>8, <1>9 DEF Growing
<1> QED BY <1>10 DEF new, b, line

LEMMA GrowingAll ==
  ASSUME NEW f, NEW u, NEW v, Lists(f), NEW g, Grows(g, f, u, v), NEW k \in 0..Len(f)
  PROVE  Growing(g[k], f, u, v, k)
<1> DEFINE T == {n \in Nat : n <= Len(f) => Growing(g[n], f, u, v, n)}
<1>0. Len(f) \in Nat BY DEF Lists
<1>1. \A n \in 0..Len(f) : g[n] = Grow(g, f, u, v, n) BY DEF Grows
<1>2. 0 \in T
  <2>1. g[0] = <<>> BY <1>0, <1>1 DEF Grow
  <2>2. Growing(<<>>, f, u, v, 0) BY DEF Growing, InOrder
  <2> QED BY <2>1, <2>2
<1>3. ASSUME NEW n \in T PROVE n + 1 \in T
  <2> SUFFICES ASSUME n + 1 <= Len(f) PROVE Growing(g[n + 1], f, u, v, n + 1) OBVIOUS
  <2>0. n \in Nat /\ n <= Len(f) BY <1>0
  <2>1. Growing(g[n], f, u, v, n) BY <2>0
  <2>2. g[n + 1] = Grow(g, f, u, v, n + 1) /\ (n + 1) - 1 = n /\ n + 1 # 0 BY <1>0, <1>1, <2>0
  <2> DEFINE added == /\ n + 1 \in Kept(f, u, v)
                      /\ \A m \in DOMAIN g[n] :
                           LineNumber(f, u, v, n + 1) \notin g[n][m][1]..g[n][m][2]
  <2>3. CASE added
    <3>1. g[n + 1] = Append(g[n], BlockOf(f, LineNumber(f, u, v, n + 1)))
      BY <2>2, <2>3 DEF Grow
    <3> QED BY <2>0, <2>1, <2>3, <3>1, GrowingStep
  <2>4. CASE ~added
    <3>1. g[n + 1] = g[n] BY <2>2, <2>4 DEF Grow
    <3>2. \A j \in Kept(f, u, v) : j <= n => j <= n + 1
      BY <2>0, KeptChanged DEF Lists
    <3> QED BY <2>1, <3>1, <3>2 DEF Growing
  <2> QED BY <2>3, <2>4
<1>4. T = Nat
  <2> HIDE DEF T
  <2>1. T \in SUBSET Nat BY DEF T
  <2> QED BY <1>2, <1>3, <2>1, Induction
<1> QED BY <1>0, <1>4

\* The blocks that are found lie in the function, one behind the other.
LEMMA BlocksInOrder ==
  ASSUME NEW f, NEW u, NEW v, Lists(f)
  PROVE  ChangedBlocks(f, u, v) \in Seq(Block(f)) /\ InOrder(ChangedBlocks(f, u, v))
<1>1. PICK g : Grows(g, f, u, v) /\ ChangedBlocks(f, u, v) = g[Len(f)] BY ChangedBlocksIs
<1>2. Len(f) \in 0..Len(f) BY DEF Lists
<1>3. Growing(g[Len(f)], f, u, v, Len(f)) BY <1>1, <1>2, GrowingAll
<1> QED BY <1>1, <1>3 DEF Growing

----------------------------------------------------------------------------
(* SymExec: the states of a block and the step that carries the constant *)

\* The recursion by which SymStates is defined
StateStep(g, block, V, k) == SymStep(IF k = 1 THEN EmptyState ELSE g[k - 1], block[k], V)
IsStates(g, block, V) == g = [k \in DOMAIN block |-> StateStep(g, block, V, k)]

LEMMA StatesExist ==
  ASSUME NEW block, NEW V, Lists(block)
  PROVE  \E g : IsStates(g, block, V)
<1> DEFINE Good(g, n) == \A k \in DOMAIN block : k <= n => g[k] = StateStep(g, block, V, k)
           T == {n \in Nat : \E g : Good(g, n)}
<1>0. Len(block) \in Nat /\ DOMAIN block = 1..Len(block) BY DEF Lists
<1>1. 0 \in T
  <2>1. Good(<<>>, 0) BY <1>0
  <2> QED BY <2>1
<1>2. ASSUME NEW n \in T PROVE n + 1 \in T
  <2>1. PICK g : Good(g, n) OBVIOUS
  <2> DEFINE h == [k \in DOMAIN block |-> StateStep(g, block, V, k)]
  <2>2. \A k \in DOMAIN block : k <= n => h[k] = g[k] BY <2>1
  <2>3. ASSUME NEW k \in DOMAIN block, k <= n + 1 PROVE h[k] = StateStep(h, block, V, k)
    <3>1. h[k] = StateStep(g, block, V, k) OBVIOUS
    <3>2. CASE k = 1 BY <3>1, <3>2 DEF StateStep
    <3>3. CASE k # 1
      <4>1. k - 1 \in DOMAIN block /\ k - 1 <= n BY <1>0, <2>3, <3>3
      <4>2. h[k - 1] = g[k - 1] BY <2>2, <4>1
      <4> HIDE DEF h
      <4> QED BY <3>1, <3>3, <4>2 DEF StateStep
    <3> QED BY <3>2, <3>3
  <2>4. Good(h, n + 1) BY <2>3
  <2> HIDE DEF h, Good
  <2> QED BY <2>4
<1>3. T = Nat
  <2> HIDE DEF T
  <2>1. T \in SUBSET Nat BY DEF T
  <2> QED BY <1>1, <1>2, <2>1, Induction
<1>4. PICK g : Good(g, Len(block)) BY <1>0, <1>3
<1> DEFINE h == [k \in DOMAIN block |-> g[k]]
<1>5. ASSUME NEW k \in DOMAIN block PROVE h[k] = StateStep(h, block, V, k)
  <2>1. h[k] = StateStep(g, block, V, k) BY <1>0, <1>4
  <2>2. CASE k = 1 BY <2>1, <2>2 DEF StateStep
  <2>3. CASE k # 1
    <3>1. k - 1 \in DOMAIN block BY <1>0, <2>3
    <3>2. h[k - 1] = g[k - 1] BY <3>1
    <3> HIDE DEF h
    <3> QED BY <2>1, <2>3, <3>2 DEF StateStep
  <2> QED BY <2>2, <2>3
<1>6. IsStates(h, block, V)
  <2> DEFINE r == [k \in DOMAIN block |-> StateStep(h, block, V, k)]
  <2>1. \A k \in DOMAIN block : h[k] = r[k] BY <1>5
  <2>2. h = r BY <2>1
  <2> QED BY <2>2 DEF IsStates
<1> HIDE DEF h
<1> QED BY <1>6

\* There is one state for each instruction.
LEMMA StatesLength ==
  ASSUME NEW block, NEW V, Lists(block)
  PROVE  Len(SymStates(block, V)) = Len(block)
<1> DEFINE g == CHOOSE g : IsStates(g, block, V)
           S == {g[k] : k \in 1..Len(block)}
<1>1. IsStates(g, block, V) BY StatesExist
<1>2. SymStates(block, V) = g BY DEF SymStates, IsStates, StateStep
<1>3. Len(block) \in Nat /\ DOMAIN block = 1..Len(block) BY DEF Lists
<1> HIDE DEF g
<1>4. DOMAIN g = 1..Len(block) /\ g = [k \in 1..Len(block) |-> g[k]] BY <1>1, <1>3 DEF IsStates
<1>5. g \in [1..Len(block) -> S] BY <1>4
<1> HIDE DEF S
<1>6. Len(g) = Len(block) BY <1>3, <1>5
<1> QED BY <1>2, <1>6

KeySet == Regs \cup {"FLAGS", "mem"}

\* The first pair is a step of the states and one of their keys.
LEMMA FindIVIs ==
  ASSUME NEW states, \A v \in 1..3 : Len(states[v]) \in Nat
  PROVE  LET hit == FindIV(states)
         IN /\ Steps(states) \in Nat /\ \A v \in 1..3 : Steps(states) <= Len(states[v])
            /\ hit.step \in 0..Steps(states) /\ (hit.step > 0 => hit.key \in KeySet)
<1> DEFINE S == {Len(states[v]) : v \in 1..3}
           n == Steps(states)
           L == Len(KeyOrder)
           pairs == {Pair(step, key) : step \in 1..n, key \in DOMAIN KeyOrder}
           stepOf(p) == ((p - 1) \div L) + 1
           keyOf(p) == KeyOrder[((p - 1) % L) + 1]
           hits == {p \in pairs : IsIV([v \in 1..3 |-> states[v][stepOf(p)][keyOf(p)]])}
<1>1. S \in SUBSET Nat /\ S # {}
  <2>1. Len(states[1]) \in S OBVIOUS
  <2>2. \A x \in S : x \in Nat OBVIOUS
  <2> HIDE DEF S
  <2> QED BY <2>1, <2>2
<1>2. n = Min(S) BY DEF Steps
<1> HIDE DEF S, n
<1>3. n \in S /\ n \in Nat /\ \A j \in S : n <= j BY <1>1, <1>2, MinIs
<1>4. \A v \in 1..3 : n <= Len(states[v]) BY <1>3 DEF S
<1>5. /\ L \in Nat \ {0} /\ DOMAIN KeyOrder = 1..L
      /\ \A k \in 1..L : KeyOrder[k] \in KeySet
  <2>1. KeyOrder \in Seq(KeySet) BY SymAssumption DEF KeySet
  <2>2. L \in Nat /\ DOMAIN KeyOrder = 1..L /\ \A k \in 1..L : KeyOrder[k] \in KeySet BY <2>1
  <2>3. "mem" \in {KeyOrder[k] : k \in DOMAIN KeyOrder} BY SymAssumption
  <2>4. L # 0 BY <2>2, <2>3
  <2> QED BY <2>2, <2>4
<1>6. FindIV(states) = IF hits = {} THEN [step |-> 0, key |-> "-"]
                       ELSE [step |-> stepOf(Min(hits)), key |-> keyOf(Min(hits))]
  BY DEF FindIV, n
<1>7. CASE hits = {}
  <2> HIDE DEF hits
  <2>1. FindIV(states).step = 0 BY <1>6, <1>7
  <2> QED BY <1>3, <1>4, <2>1 DEF n
<1>8. CASE hits # {}
  <2>1. \A p \in pairs : p \in Nat
    <3> SUFFICES ASSUME NEW step \in 1..n, NEW key \in 1..L PROVE Pair(step, key) \in Nat
      BY <1>5
    <3>1. step - 1 \in Nat /\ key \in Nat BY <1>3, <1>5
    <3>2. (step - 1) * L \in Nat BY <1>5, <3>1
    <3> QED BY <3>1, <3>2 DEF Pair
  <2>2. hits \in SUBSET Nat BY <2>1
  <2> DEFINE p == Min(hits)
  <2> HIDE DEF hits
  <2>3. p \in hits BY <1>8, <2>2, MinIs
  <2> USE DEF hits
  <2>10. p \in pairs
    <3> HIDE DEF pairs, p
    <3> QED BY <2>3
  <2>4. PICK step \in 1..n, key \in 1..L : p = Pair(step, key)
    <3> HIDE DEF p
    <3> QED BY <1>5, <2>10
  <2> HIDE DEF p, hits
  <2>5. p - 1 = (step - 1) * L + (key - 1) /\ step - 1 \in Nat /\ key - 1 \in 0..(L - 1)
    <3>1. step - 1 \in Nat /\ key - 1 \in 0..(L - 1) BY <1>3, <1>5
    <3>2. (step - 1) * L \in Nat BY <1>5, <3>1
    <3> QED BY <2>4, <3>1, <3>2 DEF Pair
  <2>6. (p - 1) \div L = step - 1 BY <1>5, <2>5, Quotient, ZenonT(60)
  <2>7. stepOf(p) = step BY <1>3, <2>6
  <2>8. keyOf(p) \in KeySet
    <3>1. p - 1 \in Nat
      <4>1. (step - 1) * L \in Nat BY <1>5, <2>5
      <4> QED BY <1>5, <2>5, <4>1
    <3> DEFINE q == p - 1
    <3> HIDE DEF q
    <3>2. q % L \in 0..(L - 1) BY <1>5, <3>1 DEF q
    <3>3. (q % L) + 1 \in 1..L BY <1>5, <3>2
    <3> QED BY <1>5, <3>3 DEF q
  <2> HIDE DEF stepOf, keyOf
  <2>9. FindIV(states).step = step /\ FindIV(states).key = keyOf(p)
    BY <1>6, <1>8, <2>7 DEF p
  <2> QED BY <1>3, <1>4, <2>8, <2>9 DEF n
<1> HIDE DEF hits
<1> QED BY <1>7, <1>8

----------------------------------------------------------------------------
(* Plans *)

PlanTypes == {"memory_store", "cmp_immediate", "simple", "saved", "inferred"}

Fields(p) == {"type", "seed", "end", "save", "before", "sites", "reg"} \subseteq DOMAIN p

\* A chain in a block of n instructions
Chained(p, n) ==
  Fields(p) /\ p.type \in PlanTypes /\ p.end \in 1..n /\ p.seed \in 1..p.end /\ p.save \in {0, p.seed}

\* A plan between the instructions a and b
GoodAt(p, a, b) ==
  /\ Fields(p) /\ p.type \in PlanTypes
  /\ p.end \in a..b /\ p.seed \in a..p.end /\ p.save \in {0, p.seed}
  /\ p.before \in a..b /\ p.before + 1 \in p.sites /\ p.sites \subseteq (p.before + 1)..b

LEMMA AtSitesIs ==
  ASSUME NEW n \in Nat, NEW p, Chained(p, n), NEW sites \in SUBSET (2..n),
         AtSites(p, sites).type # "none"
  PROVE  GoodAt(AtSites(p, sites), 1, n)
<1> DEFINE q == AtSites(p, sites)
<1>1. sites # {} BY DEF AtSites, NoProbe
<1>2. sites \in SUBSET Nat OBVIOUS
<1>3. Min(sites) \in sites /\ \A j \in sites : Min(sites) <= j BY <1>1, <1>2, MinIs
<1>4. q = [p EXCEPT !.sites = sites, !.before = Min(sites) - 1] BY <1>1 DEF AtSites
<1> HIDE DEF q
<1>5. /\ Fields(q) /\ q.type = p.type /\ q.end = p.end /\ q.seed = p.seed /\ q.save = p.save
      /\ q.sites = sites /\ q.before = Min(sites) - 1
  BY <1>4 DEF Chained, Fields
<1>6. q.before \in 1..n /\ q.before + 1 = Min(sites)
  <2>1. Min(sites) \in 2..n BY <1>3
  <2> QED BY <1>5, <2>1
<1>7. q.sites \subseteq (q.before + 1)..n BY <1>3, <1>5, <1>6
<1> QED BY <1>3, <1>5, <1>6, <1>7 DEF Chained, GoodAt, q

LEMMA FallbackIs ==
  ASSUME NEW blk, Lists(blk), NEW marks \in SUBSET (1..Len(blk))
  PROVE  Fallback(blk, marks) \in SUBSET (2..Len(blk))
<1>1. CASE marks = {} BY <1>1 DEF Fallback
<1>2. CASE marks # {}
  <2> DEFINE from == Min(marks)
  <2>1. Len(blk) \in Nat /\ marks \in SUBSET Nat BY DEF Lists
  <2>2. from \in 1..Len(blk) BY <1>2, <2>1, MinIs
  <2>3. Fallback(blk, marks) \subseteq (from + 1)..Len(blk) BY DEF Fallback
  <2> HIDE DEF from
  <2> QED BY <2>1, <2>2, <2>3
<1> QED BY <1>1, <1>2

LEMMA WindowIs ==
  ASSUME NEW blk, Lists(blk), NEW first \in 2..(Len(blk) + 1), NEW r
  PROVE  Window(blk, first, r) \in SUBSET (2..Len(blk))
<1> DEFINE readers == {j \in first..Len(blk) : Reads(blk[j], r)}
<1>1. Len(blk) \in Nat BY DEF Lists
<1>2. readers \in SUBSET Nat /\ readers \subseteq first..Len(blk) BY <1>1
<1>3. Window(blk, first, r) = first..(IF readers = {} THEN Len(blk) ELSE Min(readers))
  BY DEF Window
<1> HIDE DEF readers
<1>4. CASE readers = {} BY <1>1, <1>3, <1>4
<1>5. CASE readers # {}
  <2>1. Min(readers) \in readers BY <1>2, <1>5, MinIs
  <2>2. Min(readers) \in first..Len(blk) BY <1>2, <2>1
  <2> QED BY <1>1, <1>3, <1>5, <2>2
<1> QED BY <1>4, <1>5

LEMMA WindowSitesIs ==
  ASSUME NEW blk, Lists(blk), NEW p, Chained(p, Len(blk)), NEW marks \in SUBSET (1..Len(blk)),
         WindowSites(p, blk, marks).type # "none"
  PROVE  GoodAt(WindowSites(p, blk, marks), 1, Len(blk))
<1> DEFINE window == Window(blk, p.end + 1, p.reg)
           sites == IF window = {} THEN Fallback(blk, marks) ELSE window
<1>1. Len(blk) \in Nat /\ p.end + 1 \in 2..(Len(blk) + 1) BY DEF Lists, Chained
<1>2. window \in SUBSET (2..Len(blk)) BY <1>1, WindowIs
<1>3. Fallback(blk, marks) \in SUBSET (2..Len(blk)) BY FallbackIs
<1>4. WindowSites(p, blk, marks) = AtSites(p, sites) BY DEF WindowSites
<1> HIDE DEF window
<1>5. sites \in SUBSET (2..Len(blk)) BY <1>2, <1>3
<1> HIDE DEF sites
<1> QED BY <1>1, <1>4, <1>5, AtSitesIs

LEMMA NextSiteIs ==
  ASSUME NEW blk, Lists(blk), NEW p, Chained(p, Len(blk)), NextSite(p, blk).type # "none"
  PROVE  GoodAt(NextSite(p, blk), 1, Len(blk))
<1> DEFINE sites == {p.seed + 1} \cap DOMAIN blk
<1>1. Len(blk) \in Nat /\ sites \in SUBSET (2..Len(blk)) BY DEF Lists, Chained
<1>2. NextSite(p, blk) = AtSites(p, sites) BY DEF NextSite
<1> HIDE DEF sites
<1> QED BY <1>1, <1>2, AtSitesIs

LEMMA EffectiveEndIs ==
  ASSUME NEW states, Steps(states) \in Nat, NEW seed \in 1..Steps(states), NEW r
  PROVE  EffectiveEnd(states, seed, r) \in seed..Steps(states)
<1> DEFINE n == Steps(states)
           S == {e \in seed..n : \A j \in (seed + 1)..e :
                   /\ \E v \in 2..3 : states[v][j][r] # states[1][j][r]
                   /\ states[1][j][r] # states[1][j - 1][r]}
<1>1. n \in Nat /\ seed \in 1..n OBVIOUS
<1>2. EffectiveEnd(states, seed, r) = Max(S) BY DEF EffectiveEnd
<1> HIDE DEF n
<1>3. S \subseteq seed..n /\ S \in SUBSET (0..n) BY <1>1
<1>4. seed \in S
  <2>1. (seed + 1)..seed = {} /\ seed \in seed..n BY <1>1
  <2> QED BY <2>1
<1> HIDE DEF S
<1>5. Max(S) \in S BY <1>1, <1>3, <1>4, MaxIs
<1> QED BY <1>2, <1>3, <1>5 DEF n

\* The plan for a block keeps to the block.
LEMMA PlanOfIs ==
  ASSUME NEW blks, \A v \in 1..3 : Lists(blks[v]), NEW marks \in SUBSET (1..Len(blks[1])),
         PlanOf(blks, marks).type # "none"
  PROVE  GoodAt(PlanOf(blks, marks), 1, Len(blks[1]))
<1> DEFINE states == [v \in 1..3 |-> SymStates(blks[v], Samples[v])]
           hit == FindIV(states)
           s == hit.step
           blk == blks[1]
           n == Len(blk)
           base == [NoProbe EXCEPT !.w = blk[s].w, !.seed = s, !.end = s,
                      !.iv = VaryingConstant([v \in 1..3 |-> states[v][s][hit.key]])]
           end == EffectiveEnd(states, s, hit.key)
           plan == PlanOf(blks, marks)
<1>1. n \in Nat /\ Lists(blk) BY DEF Lists
<1>2. \A v \in 1..3 : Len(states[v]) \in Nat /\ Len(states[v]) = Len(blks[v])
  BY StatesLength DEF Lists
<1>3. plan = CASE s = 0 -> NoProbe
               [] s > 0 /\ hit.key = "mem" -> StorePlan(base, blk)
               [] s > 0 /\ hit.key = "FLAGS" -> ComparePlan(base, blk)
               [] s > 0 /\ hit.key \in Regs ->
                    IF blk[s].op \in Irreversible THEN ChainPlan(base, blk, marks, states, hit.key)
                    ELSE SimplePlan(base, blk, marks, hit.key)
  BY DEF PlanOf
<1> HIDE DEF states
<1>4. /\ Steps(states) \in Nat /\ Steps(states) <= n /\ s \in 0..Steps(states)
      /\ s > 0 => hit.key \in KeySet
  BY <1>2, FindIVIs
<1> HIDE DEF hit, s, n, plan
<1>5. s > 0 => s \in 1..n /\ s \in 1..Steps(states) BY <1>1, <1>4
<1>6. /\ DOMAIN base = DOMAIN NoProbe /\ base.seed = s /\ base.end = s /\ base.save = 0
  BY DEF NoProbe
<1> HIDE DEF base
<1>7. Fields(base) BY <1>6 DEF Fields, NoProbe
<1>8. CASE s > 0 /\ hit.key = "mem" /\ plan = StorePlan(base, blk)
  <2> DEFINE p == [base EXCEPT !.type = "memory_store"]
  <2>1. Chained(p, n) BY <1>5, <1>6, <1>7, <1>8 DEF Chained, Fields, PlanTypes
  <2>2. plan = NextSite(p, blk) BY <1>8 DEF StorePlan
  <2> HIDE DEF p
  <2> QED BY <1>1, <2>1, <2>2, NextSiteIs DEF plan, n
<1>9. CASE s > 0 /\ hit.key = "FLAGS" /\ plan = ComparePlan(base, blk)
  <2> DEFINE p == [base EXCEPT !.type = "cmp_immediate", !.reg = blk[base.seed].dst.r]
  <2>1. Chained(p, n) BY <1>5, <1>6, <1>7, <1>9 DEF Chained, Fields, PlanTypes
  <2>2. plan = NextSite(p, blk) BY <1>9 DEF ComparePlan
  <2> HIDE DEF p
  <2> QED BY <1>1, <2>1, <2>2, NextSiteIs DEF plan, n
<1>10. CASE s > 0 /\ plan = SimplePlan(base, blk, marks, hit.key)
  <2> DEFINE p == [base EXCEPT !.type = "simple", !.reg = hit.key]
  <2>1. Chained(p, n) BY <1>5, <1>6, <1>7, <1>10 DEF Chained, Fields, PlanTypes
  <2>2. plan = WindowSites(p, blk, marks) BY <1>10 DEF SimplePlan
  <2> HIDE DEF p
  <2> QED BY <1>1, <2>1, <2>2, WindowSitesIs DEF plan, n
<1>11. CASE s > 0 /\ plan = ChainPlan(base, blk, marks, states, hit.key)
  <2> DEFINE expr == Compound(states, s, end, hit.key)
             inferred == SbbSelf(blk, s)
             p == [base EXCEPT !.type = IF inferred THEN "inferred" ELSE "saved",
                               !.save = IF inferred THEN 0 ELSE s,
                               !.reg = hit.key, !.end = end, !.expr = expr]
  <2>1. end \in s..Steps(states) BY <1>4, <1>5, <1>11, EffectiveEndIs
  <2>2. plan = IF expr = <<>> THEN NoProbe ELSE WindowSites(p, blk, marks)
    BY <1>6, <1>11 DEF ChainPlan
  <2> HIDE DEF expr, inferred, end
  <2>3. /\ DOMAIN p = DOMAIN base /\ p.type \in PlanTypes /\ p.save \in {0, s} /\ p.end = end
        /\ p.seed = s
    BY <1>6, <1>7 DEF Fields, PlanTypes
  <2> HIDE DEF p
  <2>4. end \in 1..n /\ s \in 1..end BY <1>1, <1>4, <1>5, <1>11, <2>1
  <2>5. Chained(p, n) BY <1>7, <2>3, <2>4 DEF Chained, Fields
  <2>6. plan = WindowSites(p, blk, marks) BY <2>2 DEF NoProbe, plan
  <2> QED BY <1>1, <2>5, <2>6, WindowSitesIs DEF plan, n
<1>12. s # 0 BY <1>3 DEF NoProbe, plan
<1>13. s > 0 BY <1>4, <1>12
<1>14. hit.key = "mem" \/ hit.key = "FLAGS" \/ hit.key \in Regs BY <1>4, <1>13 DEF KeySet
<1>15. \/ hit.key = "mem" /\ plan = StorePlan(base, blk)
       \/ hit.key = "FLAGS" /\ plan = ComparePlan(base, blk)
       \/ plan = SimplePlan(base, blk, marks, hit.key)
       \/ plan = ChainPlan(base, blk, marks, states, hit.key)
  BY <1>3, <1>12, <1>13, <1>14
<1> QED BY <1>8, <1>9, <1>10, <1>11, <1>13, <1>15 DEF plan, n

LEMMA PlacedIs ==
  ASSUME NEW a \in Nat \ {0}, NEW b \in Nat, a <= b, NEW p, GoodAt(p, 1, b - a + 1)
  PROVE  GoodAt(Placed(p, a), a, b)
<1> DEFINE q == Placed(p, a)
           shifted == {x + a - 1 : x \in p.sites}
<1>1. p.type # "none" BY DEF GoodAt, PlanTypes
<1>2. q = [p EXCEPT !.seed = @ + a - 1, !.end = @ + a - 1, !.before = @ + a - 1,
                    !.save = IF @ = 0 THEN 0 ELSE @ + a - 1, !.sites = shifted]
  BY <1>1 DEF Placed
<1> HIDE DEF q, shifted
<1>3. /\ Fields(q) /\ q.type = p.type /\ q.seed = p.seed + a - 1 /\ q.end = p.end + a - 1
      /\ q.before = p.before + a - 1 /\ q.save = (IF p.save = 0 THEN 0 ELSE p.save + a - 1)
      /\ q.sites = shifted
  BY <1>2 DEF GoodAt, Fields
<1>4. /\ p.end \in 1..(b - a + 1) /\ p.seed \in 1..p.end /\ p.save \in {0, p.seed}
      /\ p.before \in 1..(b - a + 1)
      /\ p.before + 1 \in p.sites /\ p.sites \subseteq (p.before + 1)..(b - a + 1)
  BY DEF GoodAt
<1>5. q.end \in a..b /\ q.seed \in a..q.end /\ q.save \in {0, q.seed} /\ q.before \in a..b
  BY <1>3, <1>4
<1>6. q.before + 1 \in q.sites
  <2>1. q.before + 1 = (p.before + 1) + a - 1 BY <1>3, <1>4
  <2> QED BY <1>3, <1>4, <2>1 DEF shifted
<1>7. q.sites \subseteq (q.before + 1)..b
  <2>1. ASSUME NEW x \in p.sites PROVE x + a - 1 \in (q.before + 1)..b
    <3>1. x \in (p.before + 1)..(b - a + 1) BY <1>4
    <3> QED BY <1>3, <1>4, <3>1
  <2> QED BY <1>3, <2>1 DEF shifted
<1> QED BY <1>3, <1>5, <1>6, <1>7 DEF GoodAt, q

\* The blocks of the three builds lie in the function, in its order.
BlocksFine ==
  func \in Seq(Instruction) /\ \A v \in 1..3 : found[v] \in Seq(Block(func)) /\ InOrder(found[v])

LEMMA BlockIs ==
  ASSUME BlocksFine, NEW v \in 1..3, NEW n \in DOMAIN found[v]
  PROVE  LET b == found[v][n]
         IN /\ b[1] \in 1..Len(func) /\ b[2] \in b[1]..Len(func) /\ Len(func) \in Nat
            /\ Lists(BasicBlock(v, n)) /\ Len(BasicBlock(v, n)) = b[2] - b[1] + 1
<1> DEFINE b == found[v][n]
<1>1. func \in Seq(Instruction) /\ Len(func) \in Nat BY DEF BlocksFine
<1>2. b \in Block(func) BY DEF BlocksFine
<1>3. b[1] \in 1..Len(func) /\ b[2] \in b[1]..Len(func) BY <1>1, <1>2 DEF Block
<1>4. BasicBlock(v, n) = SubSeq(func, b[1], b[2]) BY DEF BasicBlock
<1> HIDE DEF b
<1>5. /\ SubSeq(func, b[1], b[2]) \in Seq(Instruction)
      /\ Len(SubSeq(func, b[1], b[2])) = b[2] - b[1] + 1
  BY <1>1, <1>3
<1> QED BY <1>1, <1>3, <1>4, <1>5 DEF Lists, b

\* The plan for a block of the function keeps to the block.
LEMMA PlanForIs ==
  ASSUME BlocksFine, NEW n, \A v \in 1..3 : n \in DOMAIN found[v], PlanFor(n).type # "none"
  PROVE  GoodAt(PlanFor(n), found[1][n][1], found[1][n][2])
<1> DEFINE b == found[1][n]
           blks == [v \in 1..3 |-> BasicBlock(v, n)]
           marks == {k - b[1] + 1 : k \in Marked(b)}
           p == PlanOf(blks, marks)
<1>1. /\ b[1] \in 1..Len(func) /\ b[2] \in b[1]..Len(func) /\ Len(func) \in Nat
      /\ Len(blks[1]) = b[2] - b[1] + 1
  BY BlockIs
<1>2. \A v \in 1..3 : Lists(blks[v]) BY BlockIs
<1>3. Marked(b) \subseteq b[1]..b[2] BY DEF Marked
<1>4. PlanFor(n) = Placed(p, b[1]) BY DEF PlanFor
<1> HIDE DEF b, blks
<1>5. marks \in SUBSET (1..Len(blks[1]))
  <2>1. ASSUME NEW k \in Marked(b) PROVE k - b[1] + 1 \in 1..Len(blks[1])
    <3>1. k \in b[1]..b[2] BY <1>3
    <3> QED BY <1>1, <3>1
  <2> QED BY <2>1
<1> HIDE DEF marks
<1>6. p.type # "none" BY <1>4 DEF Placed
<1>7. GoodAt(p, 1, Len(blks[1])) BY <1>2, <1>5, <1>6, PlanOfIs
<1> HIDE DEF p
<1>8. b[1] \in Nat \ {0} /\ b[2] \in Nat /\ b[1] <= b[2] BY <1>1
<1>9. GoodAt(p, 1, b[2] - b[1] + 1) BY <1>1, <1>7
<1> QED BY <1>4, <1>8, <1>9, PlacedIs DEF b

\* Plans for blocks of the function, one behind the other
Sound(ps) ==
  /\ Lists(ps)
  /\ \A i \in DOMAIN ps : \E b \in Block(func) \cap Range(found[1]) : GoodAt(ps[i], b[1], b[2])
  /\ \A i, j \in DOMAIN ps : i < j =>
       \A x \in ps[i].sites \cup {ps[i].before} : x < ps[j].before

LEMMA PlansSound == ASSUME BlocksFine PROVE Sound(Plans)
<1> DEFINE S == {Len(found[v]) : v \in 1..3}
           numbers == {n \in 1..Min(S) : PlanFor(n).type # "none"}
           N == Cardinality(numbers)
<1>1. Plans = [i \in 1..N |-> PlanFor(Nth(numbers, i - 1))] BY DEF Plans
<1>2. Min(S) \in Nat /\ \A v \in 1..3 : Min(S) <= Len(found[v]) /\ Len(found[v]) \in Nat
  <2>1. \A v \in 1..3 : Len(found[v]) \in Nat BY DEF BlocksFine
  <2>2. S \in SUBSET Nat /\ S # {}
    <3>1. Len(found[1]) \in S OBVIOUS
    <3>2. \A x \in S : x \in Nat BY <2>1
    <3> HIDE DEF S
    <3> QED BY <3>1, <3>2
  <2>3. \A v \in 1..3 : Len(found[v]) \in S OBVIOUS
  <2> HIDE DEF S
  <2>4. Min(S) \in Nat /\ \A j \in S : Min(S) <= j BY <2>2, MinIs
  <2> QED BY <2>1, <2>3, <2>4
<1> HIDE DEF S
<1>3. numbers \in SUBSET (1..Min(S)) OBVIOUS
<1>4. IsFiniteSet(1..Min(S)) BY <1>2, FS_Interval
<1>5. IsFiniteSet(numbers) /\ numbers \in SUBSET Nat BY <1>2, <1>3, <1>4, FS_Subset
<1>6. \A n \in numbers : PlanFor(n).type # "none" /\ \A v \in 1..3 : n \in DOMAIN found[v]
  <2> SUFFICES ASSUME NEW n \in numbers, NEW v \in 1..3 PROVE n \in DOMAIN found[v] OBVIOUS
  <2>1. n \in 1..Len(found[v]) BY <1>2
  <2>2. found[v] \in Seq(Block(func)) BY DEF BlocksFine
  <2> QED BY <2>1, <2>2
<1>7. N \in Nat BY <1>5, FS_CardinalityType
<1> HIDE DEF numbers, N
<1> DEFINE at_(i) == Nth(numbers, i - 1)
<1>8. ASSUME NEW i \in 1..N PROVE at_(i) \in numbers
  <2>1. i - 1 \in Nat /\ i - 1 < N BY <1>7
  <2> QED BY <1>5, <2>1, NthIs DEF N
<1>9. ASSUME NEW i \in 1..N, NEW j \in 1..N, i < j PROVE at_(i) < at_(j)
  <2>1. i - 1 \in Nat /\ j - 1 \in Nat /\ i - 1 < j - 1 /\ j - 1 < N BY <1>7, <1>9
  <2> QED BY <1>5, <2>1, NthOrder DEF N
<1>10. ASSUME NEW i \in 1..N
       PROVE  /\ GoodAt(Plans[i], found[1][at_(i)][1], found[1][at_(i)][2])
              /\ found[1][at_(i)] \in Block(func) \cap Range(found[1])
  <2>1. at_(i) \in numbers BY <1>8
  <2>2. Plans[i] = PlanFor(at_(i)) BY <1>1
  <2> HIDE DEF at_
  <2>3. GoodAt(PlanFor(at_(i)), found[1][at_(i)][1], found[1][at_(i)][2])
    BY <1>6, <2>1, PlanForIs
  <2>4. at_(i) \in DOMAIN found[1] /\ found[1] \in Seq(Block(func)) BY <1>6, <2>1 DEF BlocksFine
  <2>5. found[1][at_(i)] \in Block(func) /\ found[1][at_(i)] \in Range(found[1])
    BY <2>4 DEF Range
  <2> QED BY <2>2, <2>3, <2>5
<1>11. DOMAIN Plans = 1..N /\ Len(Plans) = N
  <2> DEFINE R == {Plans[i] : i \in 1..N}
  <2>1. Plans \in [1..N -> R] BY <1>1
  <2> HIDE DEF R
  <2> QED BY <1>7, <2>1
<1>12. ASSUME NEW i \in 1..N, NEW j \in 1..N, i < j,
              NEW x \in Plans[i].sites \cup {Plans[i].before}
       PROVE  x < Plans[j].before
  <2> DEFINE b == found[1][at_(i)]
             c == found[1][at_(j)]
  <2>1. b[2] < c[1]
    <3>1. at_(i) < at_(j) BY <1>9, <1>12
    <3>2. at_(i) \in DOMAIN found[1] /\ at_(j) \in DOMAIN found[1] BY <1>6, <1>8
    <3> HIDE DEF at_
    <3> QED BY <3>1, <3>2 DEF BlocksFine, InOrder
  <2>2. GoodAt(Plans[i], b[1], b[2]) /\ GoodAt(Plans[j], c[1], c[2]) BY <1>10
  <2>3. b \in Block(func) /\ c \in Block(func) BY <1>10
  <2> HIDE DEF b, c
  <2>4. /\ b[1] \in Nat /\ b[2] \in Nat /\ c[1] \in Nat /\ c[2] \in Nat
    BY <2>3 DEF Block
  <2>5. /\ Plans[i].before \in b[1]..b[2] /\ Plans[i].sites \subseteq (Plans[i].before + 1)..b[2]
        /\ Plans[j].before \in c[1]..c[2]
    BY <2>2 DEF GoodAt
  <2>6. x \in b[1]..b[2]
    <3>1. CASE x = Plans[i].before BY <2>5, <3>1
    <3>2. CASE x \in Plans[i].sites
      <4>1. x \in (Plans[i].before + 1)..b[2] BY <2>5, <3>2
      <4> QED BY <2>4, <2>5, <4>1
    <3> QED BY <3>1, <3>2
  <2> QED BY <2>1, <2>4, <2>5, <2>6
<1>13. ASSUME NEW i \in DOMAIN Plans
       PROVE  \E b \in Block(func) \cap Range(found[1]) : GoodAt(Plans[i], b[1], b[2])
  BY <1>10, <1>11
<1> HIDE DEF at_
<1> QED BY <1>7, <1>11, <1>12, <1>13 DEF Sound, Lists

----------------------------------------------------------------------------
(* Translation to the running kernel *)

\* OwnBytes of the first place, for plans that have not been stored yet
Own(ps, i) ==
  \A k \in 1..(ps[i].before - 1) : Bytes(func[k]) = Bytes(func[ps[i].before]) =>
    \E j \in 1..(i - 1) : ps[j].before = k

\* An instruction that is looked up among those with its bytes, n before it left
\* out, is found at its place or before it.
LEMMA FindIs ==
  ASSUME Lists(func), NEW k \in DOMAIN func, NEW n \in Nat,
         n <= Cardinality({j \in DOMAIN func : Bytes(func[j]) = Bytes(func[k]) /\ j < k})
  PROVE  LET m == Find(Bytes(func[k]), n)
         IN /\ m \in 1..k
            /\ n = Cardinality({j \in DOMAIN func : Bytes(func[j]) = Bytes(func[k]) /\ j < k}) => m = k
<1> DEFINE hits == {j \in DOMAIN func : Bytes(func[j]) = Bytes(func[k])}
<1>1. Len(func) \in Nat /\ DOMAIN func = 1..Len(func) BY DEF Lists
<1>2. Find(Bytes(func[k]), n) = Nth(hits, n) BY DEF Find, Listing
<1>3. Below(hits, k) = {j \in DOMAIN func : Bytes(func[j]) = Bytes(func[k]) /\ j < k} BY DEF Below
<1>4. hits \in SUBSET (1..Len(func)) /\ k \in hits BY <1>1
<1> HIDE DEF hits
<1>5. IsFiniteSet(1..Len(func)) BY <1>1, FS_Interval
<1>6. IsFiniteSet(hits) /\ hits \in SUBSET Nat BY <1>1, <1>4, <1>5, FS_Subset
<1>7. n <= Cardinality(Below(hits, k)) BY <1>3
<1>8. /\ Nth(hits, n) \in hits /\ Nth(hits, n) <= k
      /\ Cardinality(Below(hits, k)) = n => Nth(hits, n) = k
  BY <1>4, <1>6, <1>7, NthFirst
<1>9. Nth(hits, n) \in 1..k BY <1>1, <1>4, <1>8
<1> QED BY <1>2, <1>3, <1>8, <1>9

\* The earlier plans of an instruction's bytes are at most the earlier
\* instructions of these bytes, and all of them when the plan owns its bytes.
LEMMA EarlierPlans ==
  ASSUME Lists(func), NEW ps, Sound(ps), NEW i \in DOMAIN ps
  PROVE  LET same == {j \in 1..(i - 1) : Bytes(func[ps[j].before]) = Bytes(func[ps[i].before])}
             hits == {k \in DOMAIN func : Bytes(func[k]) = Bytes(func[ps[i].before])
                                             /\ k < ps[i].before}
         IN /\ Cardinality(same) \in Nat /\ Cardinality(same) <= Cardinality(hits)
            /\ Own(ps, i) => Cardinality(same) = Cardinality(hits)
<1> DEFINE same == {j \in 1..(i - 1) : Bytes(func[ps[j].before]) = Bytes(func[ps[i].before])}
           hits == {k \in DOMAIN func : Bytes(func[k]) = Bytes(func[ps[i].before])
                                             /\ k < ps[i].before}
           F == [j \in same |-> ps[j].before]
<1>1. /\ Len(func) \in Nat /\ DOMAIN func = 1..Len(func)
      /\ Len(ps) \in Nat /\ DOMAIN ps = 1..Len(ps)
  BY DEF Lists, Sound
<1>2. ASSUME NEW j \in DOMAIN ps PROVE ps[j].before \in 1..Len(func)
  <2>1. PICK b \in Block(func) : GoodAt(ps[j], b[1], b[2]) BY DEF Sound
  <2> QED BY <1>1, <2>1 DEF Block, GoodAt
<1>3. \A j \in same : j \in DOMAIN ps /\ j < i BY <1>1
<1>4. \A j \in same : F[j] \in hits
  <2> TAKE j \in same
  <2>1. ps[j].before < ps[i].before BY <1>3 DEF Sound
  <2> QED BY <1>1, <1>2, <1>3, <2>1
<1>5. \A j, k \in same : F[j] = F[k] => j = k
  <2> SUFFICES ASSUME NEW j \in same, NEW k \in same, ps[j].before = ps[k].before, j # k
               PROVE  FALSE
    OBVIOUS
  <2>1. j \in DOMAIN ps /\ k \in DOMAIN ps /\ j \in Nat /\ k \in Nat BY <1>1, <1>3
  <2>2. j < k => ps[j].before < ps[k].before BY <2>1 DEF Sound
  <2>3. k < j => ps[k].before < ps[j].before BY <2>1 DEF Sound
  <2>4. ps[j].before \in Nat /\ ps[k].before \in Nat BY <1>1, <1>2, <2>1
  <2> QED BY <2>1, <2>2, <2>3, <2>4
<1>6. IsFiniteSet(hits)
  <2>1. IsFiniteSet(1..Len(func)) BY <1>1, FS_Interval
  <2>2. hits \in SUBSET (1..Len(func)) BY <1>1
  <2> HIDE DEF hits
  <2> QED BY <2>1, <2>2, FS_Subset
<1>7. F \in [same -> hits] BY <1>4
<1>8. F \in Injection(same, hits) BY <1>5, <1>7 DEF Injection, IsInjective
<1>9. Own(ps, i) => F \in Surjection(same, hits)
  <2> SUFFICES ASSUME Own(ps, i), NEW k \in hits PROVE \E j \in same : F[j] = k
    BY <1>7 DEF Surjection
  <2>1. ps[i].before \in 1..Len(func) BY <1>2
  <2>2. k \in 1..(ps[i].before - 1) BY <1>1, <2>1
  <2>3. PICK j \in 1..(i - 1) : ps[j].before = k BY <2>2 DEF Own
  <2> QED BY <2>3
<1> HIDE DEF F, same, hits
<1>10. /\ IsFiniteSet(same) /\ Cardinality(same) <= Cardinality(hits)
       /\ Cardinality(same) = Cardinality(hits) <=> F \in Surjection(same, hits)
  BY <1>6, <1>8, FS_Injection
<1>11. Cardinality(same) \in Nat BY <1>10, FS_CardinalityType
<1> QED BY <1>9, <1>10, <1>11 DEF same, hits

\* A translated plan
Moved(q, p, n) ==
  /\ Fields(q) /\ q.type = p.type /\ q.seed = p.seed /\ q.end = p.end /\ q.before = p.before
  /\ q.save \in 0..n /\ q.sites # {} /\ q.sites \subseteq 1..n

\* Translation keeps the plans, puts their sites into the function, and adds none
\* where the bytes are the plan's own.
LEMMA TranslatedIs ==
  ASSUME Lists(func), NEW ps, Sound(ps), NEW shifted \in BOOLEAN
  PROVE  LET qs == Translated(ps, shifted)
         IN /\ DOMAIN qs = DOMAIN ps /\ Lists(qs)
            /\ \A i \in DOMAIN ps :
                 /\ Moved(qs[i], ps[i], Len(func))
                 /\ Own(ps, i) => qs[i].sites \subseteq ps[i].sites
<1> DEFINE qs == Translated(ps, shifted)
<1>1. /\ Len(func) \in Nat /\ DOMAIN func = 1..Len(func)
      /\ Len(ps) \in Nat /\ DOMAIN ps = 1..Len(ps)
  BY DEF Lists, Sound
<1>2. DOMAIN qs = DOMAIN ps BY DEF Translated
<1>3. Lists(qs)
  <2> DEFINE R == {qs[i] : i \in 1..Len(ps)}
  <2>1. qs \in [1..Len(ps) -> R] BY <1>1 DEF Translated
  <2> HIDE DEF R, qs
  <2> QED BY <1>1, <2>1 DEF Lists
<1>4. ASSUME NEW i \in DOMAIN ps
      PROVE  Moved(qs[i], ps[i], Len(func)) /\ (Own(ps, i) => qs[i].sites \subseteq ps[i].sites)
  <2> DEFINE p == ps[i]
             same == {j \in 1..(i - 1) : Bytes(func[ps[j].before]) = Bytes(func[p.before])}
             m == Find(Bytes(func[p.before]), Cardinality(same))
             kept == IF m = p.before /\ ~shifted THEN p.sites ELSE {m + 1}
             save == IF p.save = 0 THEN 0 ELSE Find(Bytes(func[p.save]), 0)
  <2>1. PICK b \in Block(func) : GoodAt(p, b[1], b[2]) BY DEF Sound
  <2>2. /\ b[1] \in 1..Len(func) /\ b[2] \in b[1]..Len(func)
        /\ p.end \in b[1]..b[2] /\ p.seed \in b[1]..p.end /\ p.save \in {0, p.seed}
        /\ p.before \in b[1]..b[2] /\ p.before + 1 \in p.sites
        /\ p.sites \subseteq (p.before + 1)..b[2] /\ Fields(p)
    BY <1>1, <2>1 DEF Block, GoodAt
  <2>3. /\ Cardinality(same) \in Nat
        /\ Cardinality(same) <= Cardinality({k \in DOMAIN func :
              Bytes(func[k]) = Bytes(func[p.before]) /\ k < p.before})
        /\ Own(ps, i) => Cardinality(same) = Cardinality({k \in DOMAIN func :
              Bytes(func[k]) = Bytes(func[p.before]) /\ k < p.before})
    BY EarlierPlans
  <2>4. qs[i] = [p EXCEPT !.sites = kept, !.save = save] BY DEF Translated
  <2> HIDE DEF p, qs, same
  <2>5. p.before \in DOMAIN func BY <1>1, <2>2
  <2>6. m \in 1..p.before /\ (Own(ps, i) => m = p.before) BY <2>3, <2>5, FindIs
  <2> HIDE DEF m
  <2>7. save \in 0..Len(func)
    <3>1. CASE p.save = 0 BY <1>1, <3>1
    <3>2. CASE p.save # 0
      <4> DEFINE earlier == {j \in DOMAIN func : Bytes(func[j]) = Bytes(func[p.save]) /\ j < p.save}
      <4>1. p.save \in DOMAIN func BY <1>1, <2>2, <3>2
      <4>2. 0 <= Cardinality(earlier)
        <5>1. IsFiniteSet(1..Len(func)) BY <1>1, FS_Interval
        <5>2. earlier \in SUBSET (1..Len(func)) BY <1>1
        <5> HIDE DEF earlier
        <5>3. IsFiniteSet(earlier) BY <5>1, <5>2, FS_Subset
        <5>4. Cardinality(earlier) \in Nat BY <5>3, FS_CardinalityType
        <5> QED BY <5>4
      <4>3. Find(Bytes(func[p.save]), 0) \in 1..p.save BY <4>1, <4>2, FindIs
      <4> QED BY <1>1, <3>2, <4>1, <4>3
    <3> QED BY <3>1, <3>2
  <2>8. /\ Fields(qs[i]) /\ qs[i].type = p.type /\ qs[i].seed = p.seed /\ qs[i].end = p.end
        /\ qs[i].before = p.before /\ qs[i].save = save /\ qs[i].sites = kept
    BY <2>2, <2>4 DEF Fields
  <2>9. p.before + 1 \in 1..Len(func)
    <3>1. p.before + 1 \in (p.before + 1)..b[2] BY <2>2
    <3> QED BY <1>1, <2>2, <3>1
  <2>10. kept # {} /\ kept \subseteq 1..Len(func)
    <3>1. p.sites \subseteq 1..Len(func) BY <1>1, <2>2
    <3>2. m + 1 \in 1..Len(func) BY <1>1, <2>2, <2>6, <2>9
    <3> QED BY <2>2, <3>1, <3>2
  <2>11. Own(ps, i) => kept \subseteq p.sites BY <2>2, <2>6
  <2> HIDE DEF kept, save
  <2> QED BY <2>7, <2>8, <2>10, <2>11 DEF Moved, p
<1> QED BY <1>2, <1>3, <1>4

----------------------------------------------------------------------------
(* The inductive invariant *)

Phases == {"source", "diffed", "generated", "bare", "refused", "tuning", "attached", "ran"}

\* The blocks that diff.py finds in the three builds
Pieces ==
  <<OriginalBlocks(func, Samples[2]), RecompiledBlocks(func, Samples[2]),
    RecompiledBlocks(func, Samples[3])>>

Diffed ==
  /\ phase \in Phases /\ func \in Functions
  /\ phase = "source" => found = [v \in 1..3 |-> <<>>]
  /\ phase # "source" => found = Pieces
  /\ phase \in {"source", "diffed"} => plans = <<>>
  /\ phase \in {"generated", "tuning"} => plans # <<>>

\* A plan lies in the function; where its bytes are its own, all its sites come
\* before the instruction that a later plan follows.
Planned ==
  /\ Lists(plans) /\ span \subseteq DOMAIN func
  /\ \A i \in DOMAIN plans :
       /\ plans[i].type \in PlanTypes
       /\ plans[i].end \in 1..Len(func) /\ plans[i].seed \in 1..plans[i].end
       /\ plans[i].save \in 0..Len(func)
       /\ plans[i].before \in 1..(Len(func) - 1)
       /\ plans[i].sites # {} /\ plans[i].sites \subseteq 1..Len(func)
       /\ OwnBytes(i) => \A x \in plans[i].sites :
            /\ plans[i].before < x
            /\ \A j \in DOMAIN plans : i < j => x < plans[j].before

\* The offsets in the two files and in the loop
Offsets ==
  /\ stub \in Seq(1..Len(func)) /\ at \in Seq(1..Len(func))
  /\ Len(stub) = Len(plans) /\ Len(at) = Len(plans)
  /\ phase # "tuning" => trial = NoTrial
  /\ phase = "tuning" =>
       /\ trial.probe \in 1..(Len(plans) + 1)
       /\ trial.read \in Seq(1..Len(func)) /\ Len(trial.read) = Len(plans)
       /\ trial.selected \in Seq(Nat)
       /\ trial.probe \in DOMAIN plans =>
            /\ trial.cand \in 1..Cardinality(plans[trial.probe].sites)
            /\ trial.file \in 1..Len(func)
       /\ DOMAIN trial = DOMAIN NoTrial

\* With places told apart, every offset is a site of its probe, and the loop's
\* memory agrees with the file.
OwnOffsets ==
  OwnPlaces =>
    /\ \A i \in DOMAIN plans : {stub[i], at[i]} \subseteq plans[i].sites
    /\ phase = "tuning" =>
         /\ \A i \in DOMAIN plans : trial.read[i] \in plans[i].sites
         /\ Len(trial.selected) = trial.probe - 1
         /\ InPlace

Invariant == Diffed /\ Planned /\ Offsets /\ OwnOffsets

LEMMA FunctionIs ==
  ASSUME func \in Functions
  PROVE  func \in Seq(Instruction) /\ Lists(func) /\ Len(func) \in Nat /\ DOMAIN func = 1..Len(func)
BY FunctionAssumption DEF Lists

LEMMA FineBlocks == ASSUME func \in Functions, found = Pieces PROVE BlocksFine
<1>1. func \in Seq(Instruction) /\ Lists(func) BY FunctionIs
<1>2. \A v \in 1..3 : \E u, w : found[v] = ChangedBlocks(func, u, w)
  <2>1. \A v \in 1..3 : v = 1 \/ v = 2 \/ v = 3 OBVIOUS
  <2> QED BY <2>1 DEF Pieces, OriginalBlocks, RecompiledBlocks
<1>3. ASSUME NEW v \in 1..3 PROVE found[v] \in Seq(Block(func)) /\ InOrder(found[v])
  <2>1. PICK u, w : found[v] = ChangedBlocks(func, u, w) BY <1>2
  <2> QED BY <1>1, <2>1, BlocksInOrder
<1> QED BY <1>1, <1>3 DEF BlocksFine

LEMMA InitInvariant == Init => Invariant
<1> SUFFICES ASSUME Init PROVE Invariant OBVIOUS
<1>1. Lists(plans) /\ Len(plans) = 0 /\ DOMAIN plans = {} /\ plans = <<>> BY DEF Init, Lists
<1>2. Diffed BY DEF Init, Diffed, Phases
<1>3. Planned BY <1>1 DEF Init, Planned
<1>4. Offsets BY <1>1 DEF Init, Offsets
<1>5. OwnOffsets BY <1>1 DEF Init, OwnOffsets
<1> QED BY <1>2, <1>3, <1>4, <1>5 DEF Invariant

LEMMA DiffStep == Invariant /\ Diff => Invariant'
<1> SUFFICES ASSUME Invariant, Diff PROVE Invariant' OBVIOUS
<1>1. /\ phase = "source" /\ phase' = "diffed" /\ func' = func /\ found' = Pieces
      /\ plans = <<>> /\ plans' = plans /\ span' = span /\ stub' = stub /\ at' = at /\ trial' = trial
      /\ func \in Functions
  BY DEF Diff, Invariant, Diffed, Pieces
<1>2. Diffed' BY <1>1 DEF Diffed, Phases, Pieces
<1>3. DOMAIN plans = {} /\ DOMAIN plans' = {} BY <1>1
<1>4. Planned' BY <1>1, <1>3 DEF Invariant, Planned, Lists
<1>5. Offsets' BY <1>1 DEF Invariant, Offsets
<1>6. OwnOffsets' BY <1>1, <1>3 DEF OwnOffsets
<1> QED BY <1>2, <1>4, <1>5, <1>6 DEF Invariant

\* The plans that Generate stores: as planned, or translated
LEMMA GeneratedPlans ==
  ASSUME Lists(func), BlocksFine, NEW shifted \in BOOLEAN, NEW source,
         plans' = (IF source = "none" THEN Plans ELSE Translated(Plans, shifted)), func' = func
  PROVE  /\ Lists(plans') /\ DOMAIN plans' = DOMAIN Plans
         /\ \A i \in DOMAIN Plans :
              /\ Moved(plans'[i], Plans[i], Len(func))
              /\ OwnBytes(i)' => plans'[i].sites \subseteq Plans[i].sites
<1>1. Sound(Plans) BY PlansSound
<1>2. Len(func) \in Nat BY DEF Lists
<1>3. ASSUME NEW i \in DOMAIN Plans PROVE Moved(Plans[i], Plans[i], Len(func))
  <2>1. PICK b \in Block(func) : GoodAt(Plans[i], b[1], b[2]) BY <1>1 DEF Sound
  <2>2. b[1] \in 1..Len(func) /\ b[2] \in b[1]..Len(func) BY <1>2, <2>1, SMTT(30) DEF Block
  <2> QED BY <1>2, <2>1, <2>2, SMTT(30) DEF GoodAt, Moved
<1>4. CASE source = "none" BY <1>1, <1>3, <1>4 DEF Sound
<1>5. CASE source # "none"
  <2>1. plans' = Translated(Plans, shifted) BY <1>5
  <2>2. /\ DOMAIN plans' = DOMAIN Plans /\ Lists(plans')
        /\ \A i \in DOMAIN Plans :
             /\ Moved(plans'[i], Plans[i], Len(func))
             /\ Own(Plans, i) => plans'[i].sites \subseteq Plans[i].sites
    BY <1>1, <2>1, TranslatedIs
  <2>3. ASSUME NEW i \in DOMAIN Plans, OwnBytes(i)' PROVE Own(Plans, i)
    <3>1. DOMAIN Plans = 1..Len(Plans) /\ Len(Plans) \in Nat BY <1>1 DEF Sound, Lists
    <3>2. \A j \in DOMAIN Plans : plans'[j].before = Plans[j].before BY <2>2 DEF Moved
    <3>3. ASSUME NEW k \in 1..(Plans[i].before - 1), Bytes(func[k]) = Bytes(func[Plans[i].before])
          PROVE  \E j \in 1..(i - 1) : Plans[j].before = k
      <4>1. PICK j \in 1..(i - 1) : plans'[j].before = k BY <2>3, <3>2, <3>3 DEF OwnBytes
      <4>2. j \in DOMAIN Plans BY <3>1
      <4> QED BY <3>2, <4>1, <4>2
    <3> QED BY <3>3 DEF Own
  <2> QED BY <2>2, <2>3
<1> QED BY <1>4, <1>5

LEMMA SafeSpanIs ==
  ASSUME Lists(func), BlocksFine, plans' # <<>> => \E b \in Block(func) \cap Range(found[1]) :
           plans'[1].seed \in b[1]..b[2],
         NEW shifted, NEW source
  PROVE  SafeSpan(plans', shifted, source) \subseteq DOMAIN func
<1>1. Len(func) \in Nat /\ DOMAIN func = 1..Len(func) BY DEF Lists
<1>2. CASE source = "kcore"
  <2>1. SafeSpan(plans', shifted, source) = 1..(Len(func) - 1) BY <1>2 DEF SafeSpan, KernelSpan
  <2> QED BY <1>1, <2>1
<1>3. CASE source # "kcore" /\ (shifted \/ plans' = <<>>)
  <2>1. SafeSpan(plans', shifted, source) = {} BY <1>3 DEF SafeSpan
  <2> QED BY <2>1
<1>4. CASE source # "kcore" /\ ~(shifted \/ plans' = <<>>)
  <2> DEFINE b == CHOOSE b \in Range(found[1]) : plans'[1].seed \in b[1]..b[2]
  <2>1. SafeSpan(plans', shifted, source) = CriticalSpan(b) BY <1>4 DEF SafeSpan
  <2>2. b \in Range(found[1]) BY <1>4
  <2> HIDE DEF b
  <2>3. b \in Block(func) BY <2>2 DEF BlocksFine, Range
  <2>4. b[1] \in 1..Len(func) /\ b[2] \in b[1]..Len(func) BY <1>1, <2>3 DEF Block
  <2> DEFINE marked == Marked(b)
  <2>5. marked \subseteq b[1]..b[2] BY DEF Marked
  <2>6. CriticalSpan(b) = IF marked = {} THEN b[1]..(b[2] - 1) ELSE Min(marked)..Max(marked)
    BY DEF CriticalSpan
  <2> HIDE DEF marked
  <2>7. CASE marked = {} BY <1>1, <2>1, <2>4, <2>6, <2>7
  <2>8. CASE marked # {}
    <3>1. marked \in SUBSET Nat /\ marked \in SUBSET (0..Len(func)) BY <1>1, <2>4, <2>5
    <3>2. Min(marked) \in marked BY <2>8, <3>1, MinIs
    <3>3. Max(marked) \in marked BY <1>1, <2>8, <3>1, MaxIs
    <3>4. Min(marked) \in b[1]..b[2] /\ Max(marked) \in b[1]..b[2] BY <2>5, <3>2, <3>3
    <3> QED BY <1>1, <2>1, <2>4, <2>6, <2>8, <3>4
  <2> QED BY <2>7, <2>8
<1> QED BY <1>2, <1>3, <1>4

LEMMA GenerateStep == Invariant /\ Generate => Invariant'
<1> SUFFICES ASSUME Invariant, Generate PROVE Invariant' OBVIOUS
<1>1. /\ phase = "diffed" /\ func' = func /\ found' = found /\ trial' = trial
      /\ stub' = Stub(plans') /\ at' = stub' /\ func \in Functions /\ found = Pieces /\ trial = NoTrial
      /\ phase' \in {"generated", "refused"} /\ (phase' = "generated" => plans' # <<>>)
  BY DEF Generate, Invariant, Diffed, Offsets
<1>2. PICK shifted \in BOOLEAN, source \in Disassemblies :
        /\ plans' = (IF source = "none" THEN Plans ELSE Translated(Plans, shifted))
        /\ span' = SafeSpan(plans', shifted, source)
  BY DEF Generate
<1>3. Lists(func) /\ Len(func) \in Nat /\ DOMAIN func = 1..Len(func) BY <1>1, FunctionIs
<1>4. BlocksFine BY <1>1, FineBlocks
<1>5. /\ Lists(plans') /\ DOMAIN plans' = DOMAIN Plans
      /\ \A i \in DOMAIN Plans :
           /\ Moved(plans'[i], Plans[i], Len(func))
           /\ OwnBytes(i)' => plans'[i].sites \subseteq Plans[i].sites
  BY <1>1, <1>2, <1>3, <1>4, GeneratedPlans
<1>6. Sound(Plans) BY <1>4, PlansSound
<1>7. ASSUME NEW i \in DOMAIN Plans
      PROVE  \E b \in Block(func) \cap Range(found[1]) :
               /\ GoodAt(Plans[i], b[1], b[2]) /\ b[1] \in 1..Len(func) /\ b[2] \in b[1]..Len(func)
  <2>1. PICK b \in Block(func) \cap Range(found[1]) : GoodAt(Plans[i], b[1], b[2])
    BY <1>6 DEF Sound
  <2>2. b[1] \in 1..Len(func) /\ b[2] \in b[1]..Len(func) BY <1>3, <2>1 DEF Block
  <2> QED BY <2>1, <2>2
<1>8. span' \subseteq DOMAIN func
  <2>1. ASSUME plans' # <<>>
        PROVE  \E b \in Block(func) \cap Range(found[1]) : plans'[1].seed \in b[1]..b[2]
    <3>1. 1 \in DOMAIN plans'
      <4>1. Len(plans') \in Nat /\ DOMAIN plans' = 1..Len(plans') BY <1>5 DEF Lists
      <4>2. Len(plans') # 0
        <5> SUFFICES ASSUME Len(plans') = 0 PROVE FALSE OBVIOUS
        <5>1. DOMAIN plans' = {} BY <4>1
        <5>2. plans' = [i \in DOMAIN plans' |-> plans'[i]]
          BY <1>2, <5>1 DEF Plans, Translated
        <5>3. plans' = <<>> BY <5>1, <5>2
        <5> QED BY <2>1, <5>3
      <4> QED BY <4>1, <4>2
    <3>2. PICK b \in Block(func) \cap Range(found[1]) :
            /\ GoodAt(Plans[1], b[1], b[2]) /\ b[1] \in 1..Len(func) /\ b[2] \in b[1]..Len(func)
      BY <1>5, <1>7, <3>1
    <3>3. plans'[1].seed = Plans[1].seed BY <1>5, <3>1 DEF Moved
    <3>4. Plans[1].seed \in b[1]..b[2] BY <1>3, <3>2 DEF GoodAt
    <3> QED BY <3>2, <3>3, <3>4
  <2>2. SafeSpan(plans', shifted, source) \subseteq DOMAIN func BY <1>3, <1>4, <2>1, SafeSpanIs
  <2> QED BY <1>2, <2>2
<1>9. ASSUME NEW i \in DOMAIN plans'
      PROVE  /\ plans'[i].type \in PlanTypes
             /\ plans'[i].end \in 1..Len(func) /\ plans'[i].seed \in 1..plans'[i].end
             /\ plans'[i].save \in 0..Len(func)
             /\ plans'[i].before \in 1..(Len(func) - 1)
             /\ plans'[i].sites # {} /\ plans'[i].sites \subseteq 1..Len(func)
             /\ OwnBytes(i)' => \A x \in plans'[i].sites :
                  /\ plans'[i].before < x
                  /\ \A j \in DOMAIN plans' : i < j => x < plans'[j].before
  <2>1. PICK b \in Block(func) \cap Range(found[1]) :
          /\ GoodAt(Plans[i], b[1], b[2]) /\ b[1] \in 1..Len(func) /\ b[2] \in b[1]..Len(func)
    BY <1>5, <1>7
  <2>2. /\ Moved(plans'[i], Plans[i], Len(func))
        /\ OwnBytes(i)' => plans'[i].sites \subseteq Plans[i].sites
    BY <1>5
  <2>3. /\ Plans[i].type \in PlanTypes /\ Plans[i].end \in b[1]..b[2]
        /\ Plans[i].seed \in b[1]..Plans[i].end
        /\ Plans[i].before \in b[1]..b[2] /\ Plans[i].before + 1 \in Plans[i].sites
        /\ Plans[i].sites \subseteq (Plans[i].before + 1)..b[2]
    BY <2>1 DEF GoodAt
  <2>4. Plans[i].end \in 1..Len(func) /\ Plans[i].seed \in 1..Plans[i].end BY <1>3, <2>1, <2>3
  <2>5. Plans[i].before \in 1..(Len(func) - 1)
    <3>1. Plans[i].before + 1 \in (Plans[i].before + 1)..b[2] BY <2>3
    <3> QED BY <1>3, <2>1, <2>3, <3>1
  <2>6. ASSUME OwnBytes(i)', NEW x \in plans'[i].sites
        PROVE  /\ plans'[i].before < x
               /\ \A j \in DOMAIN plans' : i < j => x < plans'[j].before
    <3>1. x \in Plans[i].sites BY <2>2, <2>6
    <3>2. x \in (Plans[i].before + 1)..b[2] BY <2>3, <3>1
    <3>3. plans'[i].before < x BY <2>2, <2>5, <3>2 DEF Moved
    <3>4. \A j \in DOMAIN plans' : i < j => x < Plans[j].before /\ Plans[j].before = plans'[j].before
      BY <1>5, <1>6, <3>1 DEF Sound, Moved
    <3> QED BY <3>3, <3>4
  <2> QED BY <2>2, <2>3, <2>4, <2>5, <2>6 DEF Moved
<1>10. Planned' BY <1>1, <1>3, <1>5, <1>8, <1>9 DEF Planned
<1>11. /\ stub' \in Seq(1..Len(func)) /\ Len(stub') = Len(plans')
       /\ \A i \in DOMAIN plans' : stub'[i] \in plans'[i].sites
  <2>1. Len(plans') \in Nat /\ DOMAIN plans' = 1..Len(plans') BY <1>5 DEF Lists
  <2>2. stub' = [i \in 1..Len(plans') |-> Min(plans'[i].sites)] BY <1>1, <2>1 DEF Stub
  <2>3. ASSUME NEW i \in 1..Len(plans')
        PROVE  Min(plans'[i].sites) \in plans'[i].sites /\ Min(plans'[i].sites) \in 1..Len(func)
    <3> DEFINE sites == plans'[i].sites
    <3>1. sites # {} /\ sites \subseteq 1..Len(func) BY <1>9, <2>1
    <3> HIDE DEF sites
    <3>2. sites \in SUBSET Nat BY <3>1
    <3>3. Min(sites) \in sites BY <3>1, <3>2, MinIs
    <3> QED BY <3>1, <3>3 DEF sites
  <2>4. stub' \in [1..Len(plans') -> 1..Len(func)] BY <2>2, <2>3
  <2> QED BY <2>1, <2>2, <2>3, <2>4
<1>12. Offsets' BY <1>1, <1>11 DEF Offsets
<1>13. OwnOffsets'
  <2>1. phase' # "tuning" BY <1>1
  <2> QED BY <1>1, <1>11, <2>1 DEF OwnOffsets
<1>14. Diffed' BY <1>1 DEF Diffed, Phases, Pieces
<1> QED BY <1>10, <1>12, <1>13, <1>14 DEF Invariant

\* What keeps the function and the plans keeps what is known of them.
LEMMA PlansStay ==
  ASSUME Invariant, func' = func, plans' = plans, span' = span
  PROVE  Planned' /\ (OwnPlaces' <=> OwnPlaces)
<1>1. \A i : OwnBytes(i)' <=> OwnBytes(i) BY DEF OwnBytes
<1>2. OwnPlaces' <=> OwnPlaces BY <1>1 DEF OwnPlaces
<1>3. Planned' BY <1>1 DEF Invariant, Planned
<1> QED BY <1>2, <1>3

LEMMA AttachStep == Invariant /\ Attach => Invariant'
<1> SUFFICES ASSUME Invariant, Attach PROVE Invariant' OBVIOUS
<1>1. /\ phase \in {"generated", "bare"} /\ phase' = "attached" /\ at' = stub /\ stub' = stub
      /\ func' = func /\ found' = found /\ plans' = plans /\ span' = span /\ trial' = trial
  BY DEF Attach
<1>2. Planned' /\ (OwnPlaces' <=> OwnPlaces) BY <1>1, PlansStay
<1>3. Diffed' BY <1>1 DEF Invariant, Diffed, Phases, Pieces
<1>4. Offsets' BY <1>1 DEF Invariant, Offsets
<1>5. OwnOffsets' BY <1>1, <1>2 DEF Invariant, OwnOffsets
<1> QED BY <1>2, <1>3, <1>4, <1>5 DEF Invariant

LEMMA GenStep == Invariant /\ Gen => Invariant'
<1> SUFFICES ASSUME Invariant, Gen PROVE Invariant' OBVIOUS
<1>1. /\ phase \in {"generated", "attached"} /\ phase' = "bare" /\ stub' = Stub(plans) /\ at' = at
      /\ func' = func /\ found' = found /\ plans' = plans /\ span' = span /\ trial' = trial
  BY DEF Gen
<1>2. Planned' /\ (OwnPlaces' <=> OwnPlaces) BY <1>1, PlansStay
<1>3. Diffed' BY <1>1 DEF Invariant, Diffed, Phases, Pieces
<1>4. /\ stub' \in Seq(1..Len(func)) /\ Len(stub') = Len(plans)
      /\ \A i \in DOMAIN plans : stub'[i] \in plans[i].sites
  <2>1. Len(plans) \in Nat /\ DOMAIN plans = 1..Len(plans) BY DEF Invariant, Planned, Lists
  <2>2. stub' = [i \in 1..Len(plans) |-> Min(plans[i].sites)] BY <1>1, <2>1 DEF Stub
  <2>3. ASSUME NEW i \in 1..Len(plans)
        PROVE  Min(plans[i].sites) \in plans[i].sites /\ Min(plans[i].sites) \in 1..Len(func)
    <3> DEFINE sites == plans[i].sites
    <3>1. sites # {} /\ sites \subseteq 1..Len(func) BY <2>1 DEF Invariant, Planned
    <3> HIDE DEF sites
    <3>2. sites \in SUBSET Nat BY <3>1
    <3>3. Min(sites) \in sites BY <3>1, <3>2, MinIs
    <3> QED BY <3>1, <3>3 DEF sites
  <2>4. stub' \in [1..Len(plans) -> 1..Len(func)] BY <2>2, <2>3
  <2> QED BY <2>1, <2>2, <2>3, <2>4
<1>5. Offsets' BY <1>1, <1>4 DEF Invariant, Offsets
<1>6. OwnOffsets' BY <1>1, <1>2, <1>4 DEF Invariant, OwnOffsets
<1> QED BY <1>2, <1>3, <1>5, <1>6 DEF Invariant

LEMMA RunStep ==
  ASSUME NEW V, NEW e, NEW from, NEW m, Invariant, Run(V, e, from, m)
  PROVE  Invariant'
<1>1. /\ phase = "attached" /\ phase' = "ran" /\ stub' = stub /\ at' = at
      /\ func' = func /\ found' = found /\ plans' = plans /\ span' = span /\ trial' = trial
  BY DEF Run
<1>2. Planned' /\ (OwnPlaces' <=> OwnPlaces) BY <1>1, PlansStay
<1>3. Diffed' BY <1>1 DEF Invariant, Diffed, Phases, Pieces
<1>4. Offsets' BY <1>1 DEF Invariant, Offsets
<1>5. OwnOffsets' BY <1>1, <1>2 DEF Invariant, OwnOffsets
<1> QED BY <1>2, <1>3, <1>4, <1>5 DEF Invariant

LEMMA StutterStep == Invariant /\ UNCHANGED vars => Invariant'
<1> SUFFICES ASSUME Invariant, UNCHANGED vars PROVE Invariant' OBVIOUS
<1>1. /\ phase' = phase /\ stub' = stub /\ at' = at
      /\ func' = func /\ found' = found /\ plans' = plans /\ span' = span /\ trial' = trial
  BY DEF vars
<1>2. Planned' /\ (OwnPlaces' <=> OwnPlaces) BY <1>1, PlansStay
<1>3. Diffed' BY <1>1 DEF Invariant, Diffed, Pieces
<1>4. Offsets' BY <1>1 DEF Invariant, Offsets
<1>5. OwnOffsets' BY <1>1, <1>2 DEF Invariant, OwnOffsets, InPlace
<1> QED BY <1>2, <1>3, <1>4, <1>5 DEF Invariant

----------------------------------------------------------------------------
(* jump-opt *)

\* The sites of two probes are apart.
LEMMA SitesApart ==
  ASSUME Planned, OwnPlaces, NEW i \in DOMAIN plans, NEW j \in DOMAIN plans, i # j
  PROVE  plans[i].sites \cap plans[j].sites = {}
<1>1. ASSUME NEW m \in DOMAIN plans, NEW n \in DOMAIN plans, m < n, NEW x \in plans[m].sites,
             x \in plans[n].sites
      PROVE  FALSE
  <2>1. Len(func) \in Int \/ plans[n].before \in 1..(Len(func) - 1) BY DEF Planned
  <2>2. x < plans[n].before /\ plans[n].before < x BY <1>1 DEF Planned, OwnPlaces
  <2>3. x \in Nat /\ plans[n].before \in Nat BY <1>1 DEF Planned
  <2> QED BY <2>2, <2>3
<1>2. i < j \/ j < i BY DEF Planned, Lists
<1> QED BY <1>1, <1>2

LEMMA ElementsAre ==
  ASSUME NEW S, NEW s \in Seq(S), NEW n \in Nat, Len(s) = n
  PROVE  DOMAIN s = 1..n /\ \A i \in 1..n : s[i] \in S
OBVIOUS

LEMMA PatchIs ==
  ASSUME NEW S, NEW src \in Seq(S), NEW old, NEW new \in S
  PROVE  /\ Patch(src, old, new) \in Seq(S) /\ Len(Patch(src, old, new)) = Len(src)
         /\ \A i \in DOMAIN src : Patch(src, old, new)[i] = IF src[i] = old THEN new ELSE src[i]
<1>1. Len(src) \in Nat /\ DOMAIN src = 1..Len(src) /\ \A i \in DOMAIN src : src[i] \in S OBVIOUS
<1>2. Patch(src, old, new) = [i \in 1..Len(src) |-> IF src[i] = old THEN new ELSE src[i]]
  BY <1>1 DEF Patch
<1>3. Patch(src, old, new) \in [1..Len(src) -> S] BY <1>1, <1>2
<1> QED BY <1>1, <1>2, <1>3

\* A probe's sites and the candidates among them
LEMMA SitesAre ==
  ASSUME Invariant, NEW i \in DOMAIN plans
  PROVE  /\ Sites[i] = plans[i].sites /\ plans[i].sites \subseteq 1..Len(func)
         /\ Len(func) \in Nat /\ IsFiniteSet(plans[i].sites)
         /\ Cardinality(plans[i].sites) \in Nat /\ Cardinality(plans[i].sites) >= 1
         /\ \A n \in 1..Cardinality(plans[i].sites) : Nth(plans[i].sites, n - 1) \in plans[i].sites
         /\ Cardinality(plans[i].sites) <= 1 => \A x, y \in plans[i].sites : x = y
<1> DEFINE S == plans[i].sites
<1>1. S # {} /\ S \subseteq 1..Len(func) BY DEF Invariant, Planned
<1>2. Len(func) \in Nat BY FunctionIs DEF Invariant, Diffed
<1>3. Sites[i] = S BY DEF Sites
<1> HIDE DEF S
<1>4. IsFiniteSet(1..Len(func)) BY <1>2, FS_Interval
<1>5. IsFiniteSet(S) /\ S \in SUBSET Nat
  <2>1. S \in SUBSET (1..Len(func)) /\ S \in SUBSET Nat BY <1>1
  <2> QED BY <1>4, <2>1, FS_Subset
<1>6. Cardinality(S) \in Nat BY <1>5, FS_CardinalityType
<1>7. Cardinality(S) # 0 BY <1>1, <1>5, FS_EmptySet
<1>8. ASSUME NEW n \in 1..Cardinality(S) PROVE Nth(S, n - 1) \in S
  <2>1. n - 1 \in Nat /\ n - 1 < Cardinality(S) BY <1>6
  <2> QED BY <1>5, <2>1, NthIs
<1>9. ASSUME Cardinality(S) <= 1, NEW x \in S, NEW y \in S, x # y PROVE FALSE
  <2>1. IsFiniteSet({x}) /\ Cardinality({x}) = 1 BY FS_Singleton
  <2>2. y \notin {x} BY <1>9
  <2>3. Cardinality({x} \cup {y}) = 2 BY <2>1, <2>2, FS_AddElement
  <2>4. {x} \cup {y} \in SUBSET S OBVIOUS
  <2>5. Cardinality({x} \cup {y}) <= Cardinality(S) BY <1>5, <2>4, FS_Subset
  <2> QED BY <1>6, <1>9, <2>3, <2>5
<1> QED BY <1>1, <1>2, <1>3, <1>5, <1>6, <1>7, <1>8, <1>9 DEF S

LEMMA BeginStep ==
  ASSUME Invariant, phase = "generated", Begin, phase' = "tuning",
         UNCHANGED <<func, found, plans, span, run>>
  PROVE  Invariant'
<1>1. /\ trial' = [NoTrial EXCEPT !.probe = 1, !.cand = 1, !.file = stub[1], !.read = stub]
      /\ at' = stub /\ stub' = stub /\ func' = func /\ found' = found /\ plans' = plans
      /\ span' = span
  BY DEF Begin
<1>2. /\ trial'.probe = 1 /\ trial'.cand = 1 /\ trial'.file = stub[1] /\ trial'.read = stub
      /\ trial'.selected = <<>> /\ DOMAIN trial' = DOMAIN NoTrial
  BY <1>1 DEF NoTrial
<1>3. Planned' /\ (OwnPlaces' <=> OwnPlaces) BY <1>1, PlansStay
<1>4. plans # <<>> BY DEF Invariant, Diffed
<1>5. Diffed' BY <1>1, <1>4 DEF Invariant, Diffed, Phases, Pieces
<1>6. /\ stub \in Seq(1..Len(func)) /\ Len(stub) = Len(plans)
      /\ Len(plans) \in Nat /\ DOMAIN plans = 1..Len(plans)
  BY DEF Invariant, Offsets, Planned, Lists
<1>7. 1 \in DOMAIN plans => Cardinality(plans[1].sites) \in Nat /\ Cardinality(plans[1].sites) >= 1
  BY SitesAre
<1>8. Len(plans) # 0
  <2> SUFFICES ASSUME Len(plans) = 0 PROVE FALSE OBVIOUS
  <2>1. stub = <<>> BY <1>6
  <2>2. DOMAIN plans = {} BY <1>6
  <2> QED BY <1>4, <2>2 DEF Invariant, Planned
<1>9. stub[1] \in 1..Len(func) BY <1>6, <1>8
<1>10. Offsets'
  <2>1. 1 \in DOMAIN plans /\ 1 \in 1..(Len(plans) + 1) BY <1>6, <1>8
  <2>2. 1 \in 1..Cardinality(plans[1].sites) BY <1>7, <2>1
  <2>3. trial'.selected \in Seq(Nat) BY <1>2
  <2> QED BY <1>1, <1>2, <1>6, <1>9, <2>1, <2>2, <2>3 DEF Invariant, Offsets
<1>11. OwnOffsets'
  <2> SUFFICES ASSUME OwnPlaces
               PROVE  /\ \A i \in DOMAIN plans : {stub[i], stub[i]} \subseteq plans[i].sites
                      /\ \A i \in DOMAIN plans : stub[i] \in plans[i].sites
                      /\ Len(trial'.selected) = trial'.probe - 1
                      /\ InPlace'
    BY <1>1, <1>2, <1>3 DEF OwnOffsets
  <2>1. \A i \in DOMAIN plans : stub[i] \in plans[i].sites BY DEF Invariant, OwnOffsets
  <2>2. InPlace' BY <1>1, <1>2, <1>6 DEF InPlace
  <2> QED BY <1>2, <2>1, <2>2
<1> QED BY <1>3, <1>5, <1>10, <1>11 DEF Invariant

\* The loop goes on to the next probe.
LEMMA SelectStep ==
  ASSUME Invariant, phase = "tuning", phase' = "tuning", UNCHANGED <<func, found, plans, span>>,
         trial.probe \in DOMAIN stub, NEW offset \in 1..Len(func), Select(offset),
         stub' \in Seq(1..Len(func)), Len(stub') = Len(plans),
         at' \in Seq(1..Len(func)), Len(at') = Len(plans),
         OwnPlaces => /\ stub'[trial.probe] = offset /\ offset \in plans[trial.probe].sites
                      /\ \A i \in DOMAIN plans \ {trial.probe} : stub'[i] = stub[i]
                      /\ \A i \in DOMAIN plans : at'[i] \in plans[i].sites
  PROVE  Invariant'
<1> DEFINE p == trial.probe
<1>1. Planned' /\ (OwnPlaces' <=> OwnPlaces) BY PlansStay
<1>2. Diffed' BY DEF Invariant, Diffed, Phases, Pieces
<1>3. /\ Len(plans) \in Nat /\ DOMAIN plans = 1..Len(plans) /\ DOMAIN stub = 1..Len(plans)
      /\ DOMAIN stub' = 1..Len(plans) /\ p \in 1..Len(plans) /\ Len(func) \in Nat
      /\ trial.read \in Seq(1..Len(func)) /\ Len(trial.read) = Len(plans)
      /\ DOMAIN trial.read = 1..Len(plans)
      /\ \A i \in 1..Len(plans) : trial.read[i] \in 1..Len(func)
      /\ trial.selected \in Seq(Nat) /\ DOMAIN trial = DOMAIN NoTrial
  <2>1. /\ Len(plans) \in Nat /\ DOMAIN plans = 1..Len(plans) /\ DOMAIN stub = 1..Len(plans)
        /\ DOMAIN stub' = 1..Len(plans) /\ p \in 1..Len(plans)
        /\ trial.read \in Seq(1..Len(func)) /\ Len(trial.read) = Len(plans)
        /\ trial.selected \in Seq(Nat) /\ DOMAIN trial = DOMAIN NoTrial
    BY SMTT(30) DEF Invariant, Offsets, Planned, Lists
  <2>2. Len(func) \in Nat BY FunctionIs DEF Invariant, Diffed
  <2>3. DOMAIN trial.read = 1..Len(plans) /\ \A i \in 1..Len(plans) : trial.read[i] \in 1..Len(func)
    BY <2>1, ElementsAre
  <2> QED BY <2>1, <2>2, <2>3
<1>4. /\ trial'.probe = p + 1 /\ trial'.cand = 1 /\ trial'.read = trial.read
      /\ trial'.file = (IF p + 1 \in 1..Len(plans) THEN trial.read[p + 1] ELSE 0)
      /\ trial'.selected = Append(trial.selected, offset) /\ DOMAIN trial' = DOMAIN NoTrial
  BY <1>3 DEF Select, NoTrial
<1>5. /\ trial'.selected \in Seq(Nat) /\ Len(trial'.selected) = Len(trial.selected) + 1
      /\ Len(trial.selected) \in Nat /\ trial'.selected[Len(trial.selected) + 1] = offset
      /\ \A i \in 1..Len(trial.selected) : trial'.selected[i] = trial.selected[i]
  <2> DEFINE chosen == trial.selected
  <2>1. chosen \in Seq(Nat) /\ offset \in Nat BY <1>3
  <2> HIDE DEF chosen
  <2>2. /\ Append(chosen, offset) \in Seq(Nat) /\ Len(Append(chosen, offset)) = Len(chosen) + 1
        /\ Len(chosen) \in Nat /\ Append(chosen, offset)[Len(chosen) + 1] = offset
        /\ \A i \in 1..Len(chosen) : Append(chosen, offset)[i] = chosen[i]
    BY <2>1
  <2> QED BY <1>4, <2>2 DEF chosen
<1>6. p + 1 \in DOMAIN plans => 1 \in 1..Cardinality(plans[p + 1].sites)
  <2>1. p + 1 \in DOMAIN plans => /\ Cardinality(plans[p + 1].sites) \in Nat
                                  /\ Cardinality(plans[p + 1].sites) >= 1
    BY SitesAre
  <2> QED BY <2>1
<1>11. Len(plans) \in Nat /\ p \in 1..Len(plans) BY <1>3
<1>7. p + 1 \in DOMAIN plans => trial'.file \in 1..Len(func) BY <1>3, <1>4
<1>8. trial'.probe \in 1..(Len(plans) + 1) BY <1>3, <1>4
<1>9. Offsets' BY <1>3, <1>4, <1>5, <1>6, <1>7, <1>8 DEF Offsets
<1>10. OwnOffsets'
  <2> SUFFICES ASSUME OwnPlaces
               PROVE  /\ \A i \in DOMAIN plans : {stub'[i], at'[i]} \subseteq plans[i].sites
                      /\ \A i \in DOMAIN plans : trial'.read[i] \in plans[i].sites
                      /\ Len(trial'.selected) = trial'.probe - 1
                      /\ InPlace'
    BY <1>1 DEF OwnOffsets
  <2>1. /\ \A i \in DOMAIN plans : {stub[i], at[i]} \subseteq plans[i].sites
        /\ \A i \in DOMAIN plans : trial.read[i] \in plans[i].sites
        /\ Len(trial.selected) = p - 1 /\ InPlace
    BY DEF Invariant, OwnOffsets
  <2>2. \A i \in DOMAIN plans : {stub'[i], at'[i]} \subseteq plans[i].sites BY <1>3, <2>1
  <2>3. Len(trial'.selected) = trial'.probe - 1 BY <1>3, <1>4, <1>5, <2>1
  <2>4. InPlace'
    <3> SUFFICES ASSUME NEW i \in 1..Len(plans)
                 PROVE  /\ i < p + 1 => stub'[i] = trial'.selected[i]
                        /\ i > p + 1 => stub'[i] = trial.read[i]
                        /\ i = p + 1 => stub'[i] = trial'.file
      BY <1>3, <1>4 DEF InPlace
    <3>0. i \in Nat /\ p \in Nat /\ i >= 1 BY <1>11
    <3>1. CASE i < p
      <4>1. i \in 1..Len(trial.selected)
        <5>1. Len(trial.selected) = p - 1 BY <2>1
        <5> QED BY <3>0, <3>1, <5>1
      <4>2. trial'.selected[i] = trial.selected[i] BY <1>5, <4>1
      <4>3. i # p /\ ~(i > p + 1) /\ i # p + 1 BY <3>0, <3>1, SMTT(30)
      <4>4. stub[i] = trial.selected[i]
        <5>1. i \in DOMAIN trial.read BY <1>3
        <5> QED BY <2>1, <3>1, <5>1 DEF InPlace
      <4>5. stub'[i] = stub[i] BY <1>3, <4>3
      <4> QED BY <4>2, <4>3, <4>4, <4>5
    <3>2. CASE i = p
      <4>1. i = Len(trial.selected) + 1
        <5>1. Len(trial.selected) = p - 1 BY <2>1
        <5> QED BY <3>0, <3>2, <5>1
      <4>2. trial'.selected[i] = offset BY <1>5, <4>1
      <4>3. stub'[i] = offset BY <3>2
      <4>4. ~(i > p + 1) /\ i # p + 1 BY <3>0, <3>2
      <4> QED BY <4>2, <4>3, <4>4
    <3>3. CASE i > p
      <4>1. i # p /\ ~(i < p + 1) BY <3>0, <3>3
      <4>2. stub[i] = trial.read[i]
        <5>1. i \in DOMAIN trial.read BY <1>3
        <5> QED BY <2>1, <3>3, <5>1 DEF InPlace
      <4>3. stub'[i] = stub[i] BY <1>3, <4>1
      <4>4. i = p + 1 => trial'.file = trial.read[i] BY <1>3, <1>4
      <4> QED BY <4>1, <4>2, <4>3, <4>4
    <3> QED BY <3>0, <3>1, <3>2, <3>3
  <2> QED BY <1>4, <2>1, <2>2, <2>3, <2>4
<1> QED BY <1>1, <1>2, <1>9, <1>10 DEF Invariant

\* The file with the probe that is tried at another of its sites
LEMMA PatchedIs ==
  ASSUME Invariant, phase = "tuning", trial.probe \in DOMAIN stub, NEW new \in 1..Len(func),
         OwnPlaces => new \in plans[trial.probe].sites
  PROVE  LET patched == Patch(stub, trial.file, new)
         IN /\ patched \in Seq(1..Len(func)) /\ Len(patched) = Len(plans)
            /\ OwnPlaces => /\ patched[trial.probe] = new
                            /\ \A i \in DOMAIN plans \ {trial.probe} : patched[i] = stub[i]
<1> DEFINE patched == Patch(stub, trial.file, new)
<1>1. /\ stub \in Seq(1..Len(func)) /\ Len(stub) = Len(plans) /\ Len(plans) \in Nat
      /\ DOMAIN plans = 1..Len(plans) /\ DOMAIN stub = DOMAIN plans
      /\ DOMAIN trial.read = DOMAIN plans
  BY SMTT(30) DEF Invariant, Offsets, Planned, Lists
<1>2. /\ patched \in Seq(1..Len(func)) /\ Len(patched) = Len(stub)
      /\ \A i \in DOMAIN stub : patched[i] = IF stub[i] = trial.file THEN new ELSE stub[i]
  BY <1>1, PatchIs
<1> HIDE DEF patched
<1>3. ASSUME OwnPlaces
      PROVE  /\ patched[trial.probe] = new
             /\ \A i \in DOMAIN plans \ {trial.probe} : patched[i] = stub[i]
  <2>1. InPlace /\ \A i \in DOMAIN plans : stub[i] \in plans[i].sites
    BY <1>3 DEF Invariant, OwnOffsets
  <2>2. stub[trial.probe] = trial.file BY <1>1, <2>1 DEF InPlace
  <2>3. ASSUME NEW i \in DOMAIN plans \ {trial.probe} PROVE stub[i] # trial.file
    <3>1. plans[i].sites \cap plans[trial.probe].sites = {}
      BY <1>1, <1>3, SitesApart DEF Invariant
    <3> QED BY <1>1, <2>1, <2>2, <3>1
  <2> QED BY <1>1, <1>2, <2>2, <2>3
<1> QED BY <1>1, <1>2, <1>3 DEF patched

LEMMA SkipStep ==
  ASSUME Invariant, phase = "tuning", phase' = "tuning", UNCHANGED <<func, found, plans, span>>,
         Skip(Sites)
  PROVE  Invariant'
<1> DEFINE p == trial.probe
<1>1. p \in DOMAIN stub /\ ~Tuned(Sites) /\ Select(trial.read[p]) /\ stub' = stub /\ at' = at
  BY DEF Skip
<1>2. /\ Len(plans) \in Nat /\ DOMAIN plans = 1..Len(plans) /\ DOMAIN stub = DOMAIN plans
      /\ \A i \in DOMAIN plans : trial.read[i] \in 1..Len(func)
      /\ stub \in Seq(1..Len(func)) /\ Len(stub) = Len(plans)
      /\ at \in Seq(1..Len(func)) /\ Len(at) = Len(plans)
  <2>1. /\ Len(plans) \in Nat /\ DOMAIN plans = 1..Len(plans)
        /\ stub \in Seq(1..Len(func)) /\ Len(stub) = Len(plans)
        /\ at \in Seq(1..Len(func)) /\ Len(at) = Len(plans)
        /\ trial.read \in Seq(1..Len(func)) /\ Len(trial.read) = Len(plans)
    BY DEF Invariant, Offsets, Planned, Lists
  <2>2. DOMAIN stub = 1..Len(plans) BY <2>1, ElementsAre
  <2>3. \A i \in 1..Len(plans) : trial.read[i] \in 1..Len(func) BY <2>1, ElementsAre
  <2> QED BY <2>1, <2>2, <2>3
<1>3. trial.read[p] \in 1..Len(func) BY <1>1, <1>2
<1>4. ASSUME OwnPlaces
      PROVE  /\ stub[p] = trial.read[p] /\ trial.read[p] \in plans[p].sites
             /\ \A i \in DOMAIN plans : at[i] \in plans[i].sites
  <2>1. /\ \A i \in DOMAIN plans : {stub[i], at[i]} \subseteq plans[i].sites
        /\ \A i \in DOMAIN plans : trial.read[i] \in plans[i].sites
    BY <1>4 DEF Invariant, OwnOffsets
  <2>2. /\ Sites[p] = plans[p].sites /\ Cardinality(plans[p].sites) \in Nat
        /\ Cardinality(plans[p].sites) <= 1 => \A x, y \in plans[p].sites : x = y
    BY <1>1, <1>2, SitesAre
  <2>3. ~(Cardinality(plans[p].sites) > 1) BY <1>1, <2>2 DEF Tuned
  <2> QED BY <1>1, <1>2, <2>1, <2>2, <2>3
<1> QED BY <1>1, <1>2, <1>3, <1>4, SelectStep

LEMMA PlaceStep ==
  ASSUME Invariant, phase = "tuning", phase' = "tuning", UNCHANGED <<func, found, plans, span>>,
         Place(Sites)
  PROVE  Invariant'
<1> DEFINE p == trial.probe
           new == Candidate(Sites)
<1>1. /\ p \in DOMAIN stub /\ stub' = Patch(stub, trial.file, new) /\ at' = at
      /\ trial' = [trial EXCEPT !.testing = TRUE, !.file = new]
  BY DEF Place, Tuned
<1>2. /\ Len(plans) \in Nat /\ DOMAIN plans = 1..Len(plans) /\ DOMAIN stub = DOMAIN plans
      /\ DOMAIN trial = DOMAIN NoTrial /\ DOMAIN trial.read = DOMAIN plans
      /\ at \in Seq(1..Len(func)) /\ Len(at) = Len(plans)
  BY DEF Invariant, Offsets, Planned, Lists
<1>3. new \in plans[p].sites
  <2>1. trial.cand \in 1..Cardinality(plans[p].sites) BY <1>1, <1>2 DEF Invariant, Offsets
  <2>2. /\ Sites[p] = plans[p].sites
        /\ \A n \in 1..Cardinality(plans[p].sites) : Nth(plans[p].sites, n - 1) \in plans[p].sites
    BY <1>1, <1>2, SitesAre
  <2> QED BY <2>1, <2>2 DEF Candidate
<1>4. new \in 1..Len(func) /\ Len(func) \in Nat BY <1>1, <1>2, <1>3, SitesAre
<1> HIDE DEF new
<1>5. /\ trial'.file = new /\ trial'.probe = p /\ trial'.cand = trial.cand
      /\ trial'.read = trial.read /\ trial'.selected = trial.selected
      /\ DOMAIN trial' = DOMAIN NoTrial
  BY <1>1, <1>2 DEF NoTrial
<1>6. /\ stub' \in Seq(1..Len(func)) /\ Len(stub') = Len(plans)
      /\ OwnPlaces => stub'[p] = new /\ \A i \in DOMAIN plans \ {p} : stub'[i] = stub[i]
  BY <1>1, <1>3, <1>4, PatchedIs
<1>7. Planned' /\ (OwnPlaces' <=> OwnPlaces) BY PlansStay
<1>8. Diffed' BY DEF Invariant, Diffed, Phases, Pieces
<1>9. Offsets' BY <1>1, <1>2, <1>4, <1>5, <1>6 DEF Invariant, Offsets
<1>10. OwnOffsets'
  <2> SUFFICES ASSUME OwnPlaces
               PROVE  /\ \A i \in DOMAIN plans : {stub'[i], at'[i]} \subseteq plans[i].sites
                      /\ \A i \in DOMAIN plans : trial'.read[i] \in plans[i].sites
                      /\ Len(trial'.selected) = trial'.probe - 1
                      /\ InPlace'
    BY <1>7 DEF OwnOffsets
  <2>1. /\ \A i \in DOMAIN plans : {stub[i], at[i]} \subseteq plans[i].sites
        /\ \A i \in DOMAIN plans : trial.read[i] \in plans[i].sites
        /\ Len(trial.selected) = p - 1 /\ InPlace
    BY DEF Invariant, OwnOffsets
  <2>2. \A i \in DOMAIN plans : {stub'[i], at'[i]} \subseteq plans[i].sites
    BY <1>1, <1>3, <1>6, <2>1
  <2>3. InPlace'
    <3> SUFFICES ASSUME NEW i \in DOMAIN plans
                 PROVE  /\ i < p => stub'[i] = trial.selected[i]
                        /\ i > p => stub'[i] = trial.read[i]
                        /\ i = p => stub'[i] = new
      BY <1>2, <1>5 DEF InPlace
    <3>1. p \in Nat /\ i \in Nat BY <1>1, <1>2
    <3>2. CASE i = p BY <1>6, <3>1, <3>2
    <3>3. CASE i # p
      <4>1. stub'[i] = stub[i] BY <1>6, <3>3
      <4> QED BY <1>2, <2>1, <3>1, <3>3, <4>1 DEF InPlace
    <3> QED BY <3>2, <3>3
  <2> QED BY <1>5, <2>1, <2>2, <2>3
<1> QED BY <1>7, <1>8, <1>9, <1>10 DEF Invariant

LEMMA TestStep ==
  ASSUME Invariant, phase = "tuning", phase' = "tuning", UNCHANGED <<func, found, plans, span>>,
         NEW outcome \in Outcomes, Test(Sites, outcome)
  PROVE  Invariant'
<1> DEFINE p == trial.probe
<1>1. /\ p \in DOMAIN stub /\ at' \in {at, stub}
      /\ \/ Select(trial.file) /\ stub' = stub
         \/ /\ trial.cand < Cardinality(Sites[p]) /\ stub' = stub
            /\ trial' = [trial EXCEPT !.cand = @ + 1, !.testing = FALSE]
         \/ Select(trial.read[p]) /\ stub' = Patch(stub, trial.file, trial.read[p])
  BY DEF Test, Tuned
<1>2. /\ Len(plans) \in Nat /\ DOMAIN plans = 1..Len(plans) /\ DOMAIN stub = DOMAIN plans
      /\ trial.read \in Seq(1..Len(func)) /\ Len(trial.read) = Len(plans)
      /\ DOMAIN trial.read = DOMAIN plans
      /\ stub \in Seq(1..Len(func)) /\ Len(stub) = Len(plans)
      /\ at' \in Seq(1..Len(func)) /\ Len(at') = Len(plans)
      /\ DOMAIN trial = DOMAIN NoTrial /\ trial.cand \in 1..Cardinality(plans[p].sites)
  <2>1. /\ Len(plans) \in Nat /\ DOMAIN plans = 1..Len(plans)
        /\ stub \in Seq(1..Len(func)) /\ Len(stub) = Len(plans)
        /\ at \in Seq(1..Len(func)) /\ Len(at) = Len(plans)
        /\ trial.read \in Seq(1..Len(func)) /\ Len(trial.read) = Len(plans)
        /\ DOMAIN trial = DOMAIN NoTrial
    BY DEF Invariant, Offsets, Planned, Lists
  <2>2. DOMAIN stub = DOMAIN plans /\ DOMAIN trial.read = DOMAIN plans BY <2>1
  <2>3. trial.cand \in 1..Cardinality(plans[p].sites) BY <1>1, <2>2 DEF Invariant, Offsets
  <2> QED BY <1>1, <2>1, <2>2, <2>3
<1>3. /\ Sites[p] = plans[p].sites /\ Cardinality(plans[p].sites) \in Nat /\ Len(func) \in Nat
  BY <1>1, <1>2, SitesAre
<1>4. ASSUME OwnPlaces
      PROVE  /\ \A i \in DOMAIN plans : stub[i] \in plans[i].sites
             /\ \A i \in DOMAIN plans : at'[i] \in plans[i].sites
             /\ \A i \in DOMAIN plans : trial.read[i] \in plans[i].sites
             /\ stub[p] = trial.file /\ InPlace /\ Len(trial.selected) = p - 1
  <2>1. /\ \A i \in DOMAIN plans : {stub[i], at[i]} \subseteq plans[i].sites
        /\ \A i \in DOMAIN plans : trial.read[i] \in plans[i].sites
        /\ Len(trial.selected) = p - 1 /\ InPlace
    BY <1>4 DEF Invariant, OwnOffsets
  <2>2. \A i \in DOMAIN plans : at'[i] \in {stub[i], at[i]} BY <1>1
  <2> QED BY <1>1, <1>2, <2>1, <2>2 DEF InPlace
<1>5. CASE Select(trial.file) /\ stub' = stub
  <2>1. trial.file \in 1..Len(func)
    BY <1>1, <1>2 DEF Invariant, Offsets
  <2> QED BY <1>1, <1>2, <1>4, <1>5, <2>1, SelectStep
<1>6. CASE Select(trial.read[p]) /\ stub' = Patch(stub, trial.file, trial.read[p])
  <2>1. trial.read[p] \in 1..Len(func)
    <3>1. trial.read \in Seq(1..Len(func)) /\ p \in DOMAIN trial.read BY <1>1, <1>2
    <3> HIDE DEF p
    <3> QED BY <3>1, ElementsAre
  <2>2. /\ stub' \in Seq(1..Len(func)) /\ Len(stub') = Len(plans)
        /\ OwnPlaces => /\ stub'[p] = trial.read[p]
                        /\ \A i \in DOMAIN plans \ {p} : stub'[i] = stub[i]
    BY <1>1, <1>2, <1>4, <1>6, <2>1, PatchedIs
  <2> QED BY <1>1, <1>2, <1>4, <1>6, <2>1, <2>2, SelectStep
<1>7. CASE /\ trial.cand < Cardinality(Sites[p]) /\ stub' = stub
           /\ trial' = [trial EXCEPT !.cand = @ + 1, !.testing = FALSE]
  <2>1. /\ trial'.file = trial.file /\ trial'.probe = p /\ trial'.cand = trial.cand + 1
        /\ trial'.read = trial.read /\ trial'.selected = trial.selected
        /\ DOMAIN trial' = DOMAIN NoTrial
    BY <1>2, <1>7 DEF NoTrial
  <2>2. trial'.cand \in 1..Cardinality(plans[p].sites) BY <1>2, <1>3, <1>7, <2>1
  <2>3. Planned' /\ (OwnPlaces' <=> OwnPlaces) BY PlansStay
  <2>4. Diffed' BY DEF Invariant, Diffed, Phases, Pieces
  <2>5. Offsets' BY <1>2, <1>7, <2>1, <2>2 DEF Invariant, Offsets
  <2>6. OwnOffsets'
    <3> SUFFICES ASSUME OwnPlaces
                 PROVE  /\ \A i \in DOMAIN plans : {stub'[i], at'[i]} \subseteq plans[i].sites
                        /\ \A i \in DOMAIN plans : trial'.read[i] \in plans[i].sites
                        /\ Len(trial'.selected) = trial'.probe - 1
                        /\ InPlace'
      BY <2>3 DEF OwnOffsets
    <3>1. \A i \in DOMAIN plans : {stub'[i], at'[i]} \subseteq plans[i].sites BY <1>4, <1>7
    <3>2. \A i \in DOMAIN plans : trial'.read[i] \in plans[i].sites BY <1>4, <2>1
    <3>3. Len(trial'.selected) = trial'.probe - 1 BY <1>4, <2>1
    <3>4. InPlace' BY <1>4, <1>7, <2>1 DEF InPlace
    <3> QED BY <3>1, <3>2, <3>3, <3>4
  <2> QED BY <2>3, <2>4, <2>5, <2>6 DEF Invariant
<1> QED BY <1>1, <1>5, <1>6, <1>7

LEMMA FinalStep ==
  ASSUME Invariant, phase = "tuning", phase' = "attached", UNCHANGED <<func, found, plans, span>>,
         Final
  PROVE  Invariant'
<1>1. /\ trial' = NoTrial /\ stub' \in {stub, trial.read} /\ at' \in {at, stub, trial.read}
  BY DEF Final
<1>2. Planned' /\ (OwnPlaces' <=> OwnPlaces) BY PlansStay
<1>3. Diffed' BY DEF Invariant, Diffed, Phases, Pieces
<1>4. Offsets' BY <1>1 DEF Invariant, Offsets
<1>5. OwnOffsets' BY <1>1, <1>2 DEF Invariant, OwnOffsets
<1> QED BY <1>2, <1>3, <1>4, <1>5 DEF Invariant

LEMMA KilledStep ==
  ASSUME Invariant, phase = "tuning", phase' = "generated", UNCHANGED <<func, found, plans, span>>,
         Killed
  PROVE  Invariant'
<1>1. trial' = NoTrial /\ stub' = stub /\ at' = at BY DEF Killed
<1>2. Planned' /\ (OwnPlaces' <=> OwnPlaces) BY PlansStay
<1>3. Diffed' BY DEF Invariant, Diffed, Phases, Pieces
<1>4. Offsets' BY <1>1 DEF Invariant, Offsets
<1>5. OwnOffsets' BY <1>1, <1>2 DEF Invariant, OwnOffsets
<1> QED BY <1>2, <1>3, <1>4, <1>5 DEF Invariant

----------------------------------------------------------------------------
(* Theorems of the specification *)

LEMMA TuneStep == Invariant /\ Tune => Invariant'
<1> SUFFICES ASSUME Invariant, Tune PROVE Invariant' OBVIOUS
<1>1. UNCHANGED <<func, found, plans, span, run>> BY DEF Tune
<1>2. CASE phase = "generated" /\ Begin /\ phase' = "tuning" BY <1>1, <1>2, BeginStep
<1>3. CASE /\ phase = "tuning" /\ phase' = "tuning"
           /\ Skip(Sites) \/ Place(Sites) \/ \E outcome \in Outcomes : Test(Sites, outcome)
  <2>1. CASE Skip(Sites) BY <1>1, <1>3, <2>1, SkipStep
  <2>2. CASE Place(Sites) BY <1>1, <1>3, <2>2, PlaceStep
  <2>3. CASE \E outcome \in Outcomes : Test(Sites, outcome) BY <1>1, <1>3, <2>3, TestStep
  <2> QED BY <1>3, <2>1, <2>2, <2>3
<1>4. CASE phase = "tuning" /\ Final /\ phase' = "attached" BY <1>1, <1>4, FinalStep
<1>5. CASE phase = "tuning" /\ Killed /\ phase' = "generated" BY <1>1, <1>5, KilledStep
<1> QED BY <1>2, <1>3, <1>4, <1>5 DEF Tune

\* The inductive invariant holds, whatever the tools find, plan and attach.
THEOREM InvariantTheorem == Spec => []Invariant
<1>1. Init => Invariant BY InitInvariant
<1>2. Invariant /\ [Next]_vars => Invariant'
  <2> SUFFICES ASSUME Invariant, [Next]_vars PROVE Invariant' OBVIOUS
  <2>1. CASE Diff BY <2>1, DiffStep
  <2>2. CASE Generate BY <2>2, GenerateStep
  <2>3. CASE Attach BY <2>3, AttachStep
  <2>4. CASE Gen BY <2>4, GenStep
  <2>5. CASE Tune BY <2>5, TuneStep
  <2>6. CASE \E V \in NewVals, e \in DOMAIN func, m \in Machines :
               \E from \in e..Len(func) : Run(V, e, from, m)
    BY <2>6, RunStep
  <2>7. CASE UNCHANGED vars BY <2>7, StutterStep
  <2> QED BY <2>1, <2>2, <2>3, <2>4, <2>5, <2>6, <2>7 DEF Next
<1> QED BY <1>1, <1>2, PTL DEF Spec

\* The blocks that are found, the probes' chains, saves and sites, and the
\* offsets in the policy file and in its object lie in the function (src/diff.py,
\* src/codegen.py: analyze_linear_relationship, src/loader.py: try_jump_optimization).
THEOREM TypeCorrect == Spec => []TypeOK
<1>1. Invariant => TypeOK
  <2> SUFFICES ASSUME Invariant PROVE TypeOK OBVIOUS
  <2>1. Lists(func) /\ Len(func) \in Nat /\ DOMAIN func = 1..Len(func)
    BY FunctionIs DEF Invariant, Diffed
  <2>2. ASSUME NEW v \in 1..3, NEW n \in DOMAIN found[v]
        PROVE  1 <= found[v][n][1] /\ found[v][n][1] <= found[v][n][2] /\ found[v][n][2] <= Len(func)
    <3>1. CASE phase = "source" BY <3>1 DEF Invariant, Diffed
    <3>2. CASE phase # "source"
      <4>1. BlocksFine BY <3>2, FineBlocks DEF Invariant, Diffed
      <4>2. found[v][n][1] \in 1..Len(func) /\ found[v][n][2] \in found[v][n][1]..Len(func)
        BY <4>1, BlockIs
      <4> QED BY <2>1, <4>2
    <3> QED BY <3>1, <3>2
  <2>3. ASSUME NEW i \in DOMAIN plans
        PROVE  /\ plans[i].type \in {"memory_store", "cmp_immediate", "simple", "saved", "inferred"}
               /\ plans[i].seed \in 1..plans[i].end
               /\ plans[i].end \in DOMAIN func /\ plans[i].save \in 0..Len(func)
               /\ plans[i].sites # {} /\ plans[i].sites \subseteq DOMAIN func
               /\ plans[i].before + 1 \in DOMAIN func /\ plans[i].before # 0
    <3>1. /\ plans[i].type \in PlanTypes
          /\ plans[i].end \in 1..Len(func) /\ plans[i].seed \in 1..plans[i].end
          /\ plans[i].save \in 0..Len(func)
          /\ plans[i].before \in 1..(Len(func) - 1)
          /\ plans[i].sites # {} /\ plans[i].sites \subseteq 1..Len(func)
      BY DEF Invariant, Planned
    <3>2. plans[i].before + 1 \in DOMAIN func /\ plans[i].before # 0 BY <2>1, <3>1
    <3> QED BY <2>1, <3>1, <3>2 DEF PlanTypes
  <2>4. /\ {Len(stub), Len(at)} = {Len(plans)}
        /\ \A i \in DOMAIN plans : {stub[i], at[i]} \subseteq DOMAIN func
    <3>1. /\ stub \in Seq(1..Len(func)) /\ at \in Seq(1..Len(func))
          /\ Len(stub) = Len(plans) /\ Len(at) = Len(plans)
          /\ Len(plans) \in Nat /\ DOMAIN plans = 1..Len(plans)
      BY DEF Invariant, Offsets, Planned, Lists
    <3>2. \A i \in 1..Len(plans) : stub[i] \in 1..Len(func) /\ at[i] \in 1..Len(func)
      BY <3>1, ElementsAre
    <3> QED BY <2>1, <3>1, <3>2
  <2>5. phase \in Phases /\ span \subseteq DOMAIN func BY DEF Invariant, Diffed, Planned
  <2> QED BY <2>2, <2>3, <2>4, <2>5 DEF TypeOK, Phases
<1> QED BY <1>1, InvariantTheorem, PTL

\* jump-opt takes every probe through its own sites alone, and keeps what it has
\* selected for the others, through failed compilations, kills and new loads
\* (src/loader.py: try_jump_optimization), in a function where the bytes that a
\* place is found by are its own.
THEOREM SelectedStaysTheorem == Spec => []SelectedStays
<1>1. Invariant => SelectedStays
  <2> SUFFICES ASSUME Invariant, OwnPlaces
               PROVE  InPlace /\ \A i \in DOMAIN plans : {stub[i], at[i]} \subseteq plans[i].sites
    BY DEF SelectedStays
  <2>1. \A i \in DOMAIN plans : {stub[i], at[i]} \subseteq plans[i].sites
    BY DEF Invariant, OwnOffsets
  <2>2. CASE phase = "tuning" BY <2>2 DEF Invariant, OwnOffsets
  <2>3. CASE phase # "tuning"
    <3>1. trial.read = <<>> BY <2>3 DEF Invariant, Offsets, NoTrial
    <3>2. DOMAIN trial.read = {} BY <3>1
    <3> QED BY <2>1, <3>2 DEF InPlace
  <2> QED BY <2>1, <2>2, <2>3
<1> QED BY <1>1, InvariantTheorem, PTL

\* The command that compares whole kernels leaves the tools' own states alone: what
\* holds of them alone holds beside it (diff.py --vmlinux changes no file of theirs).
THEOREM ImagesImplementSpec == SpecImages => Spec
<1>1. InitImages => Init BY DEF InitImages
<1>2. [NextImages]_imageVars => [Next]_vars
  <2> SUFFICES ASSUME [NextImages]_imageVars PROVE [Next]_vars OBVIOUS
  <2>1. CASE Next BY <2>1
  <2>2. ASSUME NEW fs, Detect(fs) PROVE UNCHANGED vars BY <2>2 DEF Detect, vars
  <2>3. ASSUME NEW fs, NEW names, Tell(fs, names) PROVE UNCHANGED vars BY <2>3 DEF Tell, vars
  <2>4. ASSUME NEW moved, Compare(moved) PROVE UNCHANGED vars BY <2>4 DEF Compare, vars
  <2>5. CASE UNCHANGED imageVars BY <2>5 DEF imageVars
  <2> QED BY <2>1, <2>2, <2>3, <2>4, <2>5 DEF NextImages
<1> QED BY <1>1, <1>2, PTL DEF Spec, SpecImages

----------------------------------------------------------------------------
(* Every use is found *)

\* Two builds of a function, of the same length, whose uses look unlike
Separate(f, x, y) ==
  LET uses == {k \in DOMAIN f : Varies(f[k])}
  IN /\ \A k \in DOMAIN f : Address(f, k, x) = Address(f, k, y)
     /\ \A k \in uses : f[k].src.v[x] # f[k].src.v[y]
     /\ \A j, k \in uses : j # k => Signature(f[j], y) # Signature(f[k], x)

LEMMA UsesOpcode ==
  ASSUME NEW f \in Functions, NEW k \in DOMAIN f, Varies(f[k])
  PROVE  f[k].op \notin Terminators
BY FunctionAssumption DEF FixedTargets

\* The filter removes what is no use, where no use looks in the one listing like
\* something else in the other.
UnlikeIn(f, lines, x, y) ==
  \A k \in lines : Varies(f[k]) =>
    /\ f[k].op \notin Terminators /\ f[k].src.v[x] # f[k].src.v[y]
    /\ \A l \in lines : k # l => Signature(f[k], x) # Signature(f[l], y)

LEMMA FilterIs ==
  ASSUME NEW f, NEW n \in Nat, NEW lines \in SUBSET (1..n), NEW x \in Vals, NEW y \in Vals,
         UnlikeIn(f, lines, x, y)
  PROVE  \A k : k \in Filtered(f, lines, x, y) <=> k \in lines /\ Varies(f[k])
<1> DEFINE like(k, V) == {j \in lines : Signature(f[j], V) = Signature(f[k], x)}
           upto(k) == {j \in like(k, x) : j <= k}
<1>1. Filtered(f, lines, x, y) = {k \in lines : Cardinality(upto(k)) > Cardinality(like(k, y))}
  BY DEF Filtered
<1>2. IsFiniteSet(1..n) BY FS_Interval
<1>3. ASSUME NEW k \in lines
      PROVE  /\ IsFiniteSet(like(k, y)) /\ IsFiniteSet(upto(k)) /\ k \in upto(k)
             /\ Cardinality(like(k, y)) \in Nat /\ Cardinality(upto(k)) \in Nat
  <2>1. like(k, y) \in SUBSET (1..n) OBVIOUS
  <2>2. upto(k) \in SUBSET (1..n) OBVIOUS
  <2>3. k \in Nat OBVIOUS
  <2>4. k \in upto(k) BY <2>3
  <2> HIDE DEF like, upto
  <2>5. IsFiniteSet(like(k, y)) /\ IsFiniteSet(upto(k)) BY <1>2, <2>1, <2>2, FS_Subset
  <2> QED BY <2>4, <2>5, FS_CardinalityType
<1>4. ASSUME NEW k \in lines, Varies(f[k]) PROVE Cardinality(upto(k)) > Cardinality(like(k, y))
  <2>1. like(k, y) = {}
    <3>1. ASSUME NEW j \in lines PROVE Signature(f[j], y) # Signature(f[k], x)
      <4>1. CASE j # k BY <1>4, <4>1 DEF UnlikeIn
      <4>2. CASE j = k
        <5>1. f[k].op \notin Terminators /\ f[k].src.v[x] # f[k].src.v[y] BY <1>4 DEF UnlikeIn
        <5> QED BY <4>2, <5>1 DEF Signature
      <4> QED BY <4>1, <4>2
    <3> QED BY <3>1
  <2>2. Cardinality(like(k, y)) = 0 BY <2>1, FS_EmptySet
  <2> HIDE DEF like, upto
  <2>3. Cardinality(upto(k)) # 0 BY <1>3, FS_EmptySet
  <2> QED BY <1>3, <2>2, <2>3
<1>5. ASSUME NEW k \in lines, ~Varies(f[k]) PROVE Cardinality(upto(k)) <= Cardinality(like(k, y))
  <2>1. \A j \in lines : ~Varies(f[j]) => Signature(f[j], x) = Signature(f[j], y)
    BY DEF Signature, Varies
  <2>2. ASSUME NEW j \in like(k, x) PROVE j \in like(k, y)
    <3>1. Signature(f[j], x) = Signature(f[k], y) BY <1>5, <2>1
    <3>2. ~Varies(f[j])
      <4> SUFFICES ASSUME Varies(f[j]) PROVE FALSE OBVIOUS
      <4>1. j # k BY <1>5
      <4> QED BY <3>1, <4>1 DEF UnlikeIn
    <3>3. Signature(f[j], y) = Signature(f[k], x) BY <2>1, <3>2
    <3> QED BY <3>3
  <2>3. upto(k) \in SUBSET like(k, y) BY <2>2
  <2> HIDE DEF like, upto
  <2> QED BY <1>3, <2>3, FS_Subset
<1> HIDE DEF like, upto
<1>6. ASSUME NEW k \in lines PROVE Cardinality(upto(k)) > Cardinality(like(k, y)) <=> Varies(f[k])
  <2>1. CASE Varies(f[k]) BY <1>4, <2>1
  <2>2. CASE ~Varies(f[k])
    <3> DEFINE c == Cardinality(upto(k))
               d == Cardinality(like(k, y))
    <3>1. c \in Nat /\ d \in Nat /\ c <= d BY <1>3, <1>5, <2>2
    <3> HIDE DEF c, d
    <3>2. ~(c > d) BY <3>1
    <3> QED BY <2>2, <3>2 DEF c, d
  <2> QED BY <2>1, <2>2
<1> QED BY <1>1, <1>6

\* What diff shows of two such builds is the uses, and the filter keeps them all.
LEMMA UsesKept ==
  ASSUME NEW f \in Functions, NEW x \in Vals, NEW y \in Vals, Separate(f, x, y)
  PROVE  LET uses == {k \in DOMAIN f : Varies(f[k])}
         IN Changed(f, x, y) = uses /\ Kept(f, x, y) = uses
<1> DEFINE uses == {k \in DOMAIN f : Varies(f[k])}
<1>1. Len(f) \in Nat /\ DOMAIN f = 1..Len(f) BY FunctionAssumption
<1>2. Changed(f, x, y) = uses BY DEF Changed, Varies, Separate
<1>3. uses \in SUBSET (1..Len(f)) BY <1>1
<1>4. \A k \in uses : Varies(f[k]) OBVIOUS
<1>5. UnlikeIn(f, uses, x, y)
  <2>1. \A k \in uses : f[k].op \notin Terminators BY UsesOpcode
  <2>2. \A k \in uses : f[k].src.v[x] # f[k].src.v[y] BY DEF Separate
  <2>3. \A k, l \in uses : k # l => Signature(f[k], x) # Signature(f[l], y) BY DEF Separate
  <2> HIDE DEF uses
  <2> QED BY <2>1, <2>2, <2>3 DEF UnlikeIn
<1> HIDE DEF uses
<1>6. Filtered(f, uses, x, y) = {k \in uses : Varies(f[k])}
  <2>1. \A k : k \in Filtered(f, uses, x, y) <=> k \in uses /\ Varies(f[k])
    BY <1>1, <1>3, <1>5, FilterIs
  <2>2. Filtered(f, uses, x, y) \subseteq uses BY DEF Filtered
  <2> QED BY <2>1, <2>2
<1>7. Kept(f, x, y) = uses BY <1>2, <1>4, <1>6 DEF Kept
<1> QED BY <1>2, <1>7 DEF uses

\* When all changed lines are left, each counts back to itself.
LEMMA LineNumberExact ==
  ASSUME NEW f, NEW x, NEW y, Lists(f), Kept(f, x, y) = Changed(f, x, y),
         NEW k \in Changed(f, x, y)
  PROVE  LineNumber(f, x, y, k) = k
<1> DEFINE s == HunkStart(f, x, y, k)
<1>1. k \in Nat /\ s \in 1..k /\ s..k \subseteq Changed(f, x, y)
  BY KeptChanged, HunkStartIs DEF Lists
<1>2. LineNumber(f, x, y, k) = s + Cardinality(Earlier(f, x, y, k)) BY LineNumberIs
<1>3. Earlier(f, x, y, k) = {j \in Changed(f, x, y) : s <= j /\ j < k} BY DEF Earlier
<1> HIDE DEF s
<1>4. \A j \in Changed(f, x, y) : j \in Nat BY KeptChanged DEF Lists
<1>5. Earlier(f, x, y, k) = s..(k - 1)
  <2>1. \A j \in Changed(f, x, y) : s <= j /\ j < k => j \in s..(k - 1) BY <1>1, <1>4
  <2>2. \A j \in s..(k - 1) : j \in s..k /\ s <= j /\ j < k BY <1>1
  <2> QED BY <1>1, <1>3, <2>1, <2>2
<1>6. Cardinality(s..(k - 1)) = k - s
  <2>1. s \in Int /\ k - 1 \in Int BY <1>1
  <2>2. Cardinality(s..(k - 1)) = IF s > k - 1 THEN 0 ELSE (k - 1) - s + 1
    BY <2>1, FS_Interval
  <2> QED BY <1>1, <2>2
<1> QED BY <1>1, <1>2, <1>5, <1>6

\* Two diffs that leave the same lines with the same numbers give the same blocks.
LEMMA SameBlocks ==
  ASSUME NEW f, Lists(f), NEW u, NEW v, NEW x, NEW y, Kept(f, u, v) = Kept(f, x, y),
         \A k \in Kept(f, u, v) : LineNumber(f, u, v, k) = LineNumber(f, x, y, k)
  PROVE  ChangedBlocks(f, u, v) = ChangedBlocks(f, x, y)
<1>1. PICK g : Grows(g, f, u, v) /\ ChangedBlocks(f, u, v) = g[Len(f)] BY ChangedBlocksIs
<1>2. PICK h : Grows(h, f, x, y) /\ ChangedBlocks(f, x, y) = h[Len(f)] BY ChangedBlocksIs
<1> DEFINE T == {n \in Nat : n <= Len(f) => g[n] = h[n]}
<1>3. Len(f) \in Nat BY DEF Lists
<1>4. \A n \in 0..Len(f) : g[n] = Grow(g, f, u, v, n) /\ h[n] = Grow(h, f, x, y, n)
  BY <1>1, <1>2 DEF Grows
<1>5. 0 \in T BY <1>3, <1>4 DEF Grow
<1>6. ASSUME NEW n \in T PROVE n + 1 \in T
  <2> SUFFICES ASSUME n + 1 <= Len(f) PROVE g[n + 1] = h[n + 1] OBVIOUS
  <2>1. n \in 0..Len(f) /\ n + 1 \in 0..Len(f) /\ (n + 1) - 1 = n /\ n + 1 # 0 BY <1>3
  <2>2. g[n] = h[n] BY <2>1
  <2>3. g[n + 1] = Grow(g, f, u, v, n + 1) /\ h[n + 1] = Grow(h, f, x, y, n + 1) BY <1>4, <2>1
  <2>4. CASE n + 1 \in Kept(f, u, v)
    <3>1. LineNumber(f, u, v, n + 1) = LineNumber(f, x, y, n + 1) BY <2>4
    <3> QED BY <2>1, <2>2, <2>3, <2>4, <3>1 DEF Grow
  <2>5. CASE n + 1 \notin Kept(f, u, v) BY <2>1, <2>2, <2>3, <2>5 DEF Grow
  <2> QED BY <2>4, <2>5
<1>7. T = Nat
  <2> HIDE DEF T
  <2>1. T \in SUBSET Nat BY DEF T
  <2> QED BY <1>5, <1>6, <2>1, Induction
<1> QED BY <1>1, <1>2, <1>3, <1>7

\* A kept line that counts back to itself, and is no terminator, is in a block.
LEMMA KeptInBlocks ==
  ASSUME NEW f, Lists(f), NEW u, NEW v, NEW k \in Kept(f, u, v),
         \A j \in Kept(f, u, v) : LineNumber(f, u, v, j) = j /\ j \notin EndsOf(f)
  PROVE  \E n \in DOMAIN ChangedBlocks(f, u, v) :
           k \in ChangedBlocks(f, u, v)[n][1]..ChangedBlocks(f, u, v)[n][2]
<1>1. PICK g : Grows(g, f, u, v) /\ ChangedBlocks(f, u, v) = g[Len(f)] BY ChangedBlocksIs
<1> DEFINE In(bs, j) == \E n \in DOMAIN bs : j \in bs[n][1]..bs[n][2]
           T == {n \in Nat : n <= Len(f) => \A j \in Kept(f, u, v) : j <= n => In(g[n], j)}
<1>2. Len(f) \in Nat /\ \A j \in Kept(f, u, v) : j \in 1..Len(f) BY KeptChanged DEF Lists
<1>3. \A n \in 0..Len(f) : g[n] = Grow(g, f, u, v, n) BY <1>1 DEF Grows
<1>4. 0 \in T
  <2>1. \A j \in Kept(f, u, v) : ~(j <= 0) BY <1>2
  <2> QED BY <2>1
<1>5. ASSUME NEW n \in T PROVE n + 1 \in T
  <2> SUFFICES ASSUME n + 1 <= Len(f), NEW j \in Kept(f, u, v), j <= n + 1
               PROVE  In(g[n + 1], j)
    OBVIOUS
  <2>1. n \in 0..Len(f) /\ n + 1 \in 1..Len(f) /\ (n + 1) - 1 = n /\ n + 1 # 0 BY <1>2
  <2>2. g[n + 1] = Grow(g, f, u, v, n + 1) BY <1>3, <2>1
  <2>3. g[n] \in Seq(Block(f)) BY <1>1, <2>1, GrowingAll DEF Growing
  <2>4. j <= n => In(g[n], j) BY <2>1
  <2>5. j <= n \/ j = n + 1 BY <1>2, <2>1
  <2> DEFINE line == LineNumber(f, u, v, n + 1)
             added == n + 1 \in Kept(f, u, v) /\ ~In(g[n], line)
  <2>6. CASE added
    <3> DEFINE b == BlockOf(f, line)
               new == Append(g[n], b)
    <3>1. g[n + 1] = new BY <2>1, <2>2, <2>6 DEF Grow
    <3>2. line = n + 1 /\ n + 1 \notin EndsOf(f) BY <2>6
    <3>3. /\ b = <<b[1], b[2]>> /\ b[1] \in 1..Len(f) /\ b[2] \in b[1]..Len(f)
          /\ n + 1 \in b[1]..b[2]
      BY <2>1, <3>2, BlockOfIs
    <3> HIDE DEF b, line
    <3>4. b \in Block(f) BY <1>2, <3>3 DEF Block
    <3>5. /\ DOMAIN new = 1..(Len(g[n]) + 1) /\ new[Len(g[n]) + 1] = b
          /\ Len(g[n]) \in Nat /\ DOMAIN g[n] = 1..Len(g[n])
          /\ \A m \in 1..Len(g[n]) : new[m] = g[n][m]
      BY <2>3, <3>4
    <3> HIDE DEF new
    <3>6. In(g[n], j) => In(new, j)
      <4> SUFFICES ASSUME NEW m \in DOMAIN g[n], j \in g[n][m][1]..g[n][m][2] PROVE In(new, j)
        OBVIOUS
      <4>1. m \in DOMAIN new /\ new[m] = g[n][m] BY <3>5
      <4> QED BY <4>1
    <3>7. In(new, n + 1)
      <4>1. Len(g[n]) + 1 \in DOMAIN new BY <3>5
      <4> QED BY <3>3, <3>5, <4>1
    <3> QED BY <2>4, <2>5, <3>1, <3>6, <3>7
  <2>7. CASE ~added
    <3>1. g[n + 1] = g[n] BY <2>1, <2>2, <2>7 DEF Grow
    <3>2. j = n + 1 => In(g[n], j) BY <2>7
    <3> QED BY <2>4, <2>5, <3>1, <3>2
  <2> QED BY <2>6, <2>7
<1>6. T = Nat
  <2> HIDE DEF T
  <2>1. T \in SUBSET Nat BY DEF T
  <2> QED BY <1>4, <1>5, <2>1, Induction
<1>7. In(g[Len(f)], k) BY <1>2, <1>6
<1> QED BY <1>1, <1>7

\* diff.py finds the block of every use of the constant, at the same place in the
\* three builds (src/diff.py: filter_address_offset_diff, the line numbers of step
\* 10, the blocks of steps 11 and 11b), for any function whose instructions keep
\* their lengths and whose uses look unlike.
THEOREM EveryUseFoundTheorem == Spec => []EveryUseFound
<1>1. Invariant => EveryUseFound
  <2> SUFFICES ASSUME Invariant, phase # "source", SameLength, NoTwins, UsesDiffer
               PROVE  /\ found[1] = found[2] /\ found[1] = found[3]
                      /\ \A k \in Uses : \E n \in DOMAIN found[1] :
                           found[1][n][1] <= k /\ k <= found[1][n][2]
    BY DEF EveryUseFound
  <2> DEFINE u == Samples[1]
             v == Samples[2]
             w == Samples[3]
  <2>1. u \in Vals /\ v \in Vals /\ w \in Vals BY SymAssumption
  <2>2. func \in Functions /\ Lists(func) /\ Len(func) \in Nat BY FunctionIs DEF Invariant, Diffed
  <2>3. Separate(func, u, v) /\ Separate(func, v, u) /\ Separate(func, w, u)
    <3>1. 2 \in 2..3 /\ 3 \in 2..3 OBVIOUS
    <3>2. Separate(func, u, v) BY <3>1 DEF Separate, SameLength, NoTwins, UsesDiffer, Uses
    <3>3. Separate(func, v, u) BY <3>1 DEF Separate, SameLength, NoTwins, UsesDiffer, Uses
    <3>4. Separate(func, w, u) BY <3>1 DEF Separate, SameLength, NoTwins, UsesDiffer, Uses
    <3> QED BY <3>2, <3>3, <3>4
  <2>4. /\ found[1] = ChangedBlocks(func, u, v) /\ found[2] = ChangedBlocks(func, v, u)
        /\ found[3] = ChangedBlocks(func, w, u)
    BY DEF Invariant, Diffed, Pieces, OriginalBlocks, RecompiledBlocks
  <2> HIDE DEF u, v, w
  <2>5. ASSUME NEW x \in Vals, NEW y \in Vals, Separate(func, x, y)
        PROVE  /\ Kept(func, x, y) = Uses
               /\ \A k \in Uses : LineNumber(func, x, y, k) = k
    <3>1. Changed(func, x, y) = Uses /\ Kept(func, x, y) = Uses
      BY <2>2, <2>5, UsesKept DEF Uses
    <3> QED BY <2>2, <3>1, LineNumberExact
  <2>6. found[1] = found[2] /\ found[1] = found[3]
    <3>1. /\ Kept(func, u, v) = Uses /\ \A k \in Uses : LineNumber(func, u, v, k) = k
          /\ Kept(func, v, u) = Uses /\ \A k \in Uses : LineNumber(func, v, u, k) = k
          /\ Kept(func, w, u) = Uses /\ \A k \in Uses : LineNumber(func, w, u, k) = k
      BY <2>1, <2>3, <2>5
    <3>2. ChangedBlocks(func, u, v) = ChangedBlocks(func, v, u) BY <2>2, <3>1, SameBlocks
    <3>3. ChangedBlocks(func, u, v) = ChangedBlocks(func, w, u) BY <2>2, <3>1, SameBlocks
    <3> QED BY <2>4, <3>2, <3>3
  <2>7. ASSUME NEW k \in Uses
        PROVE  \E n \in DOMAIN found[1] : found[1][n][1] <= k /\ k <= found[1][n][2]
    <3>1. Kept(func, u, v) = Uses /\ \A j \in Uses : LineNumber(func, u, v, j) = j
      BY <2>1, <2>3, <2>5
    <3>2. \A j \in Uses : j \notin EndsOf(func) BY <2>2, UsesOpcode DEF Uses, EndsOf
    <3>3. PICK n \in DOMAIN found[1] : k \in found[1][n][1]..found[1][n][2]
      BY <2>2, <2>4, <3>1, <3>2, KeptInBlocks
    <3>4. k \in Nat BY <2>2 DEF Uses, Lists
    <3> QED BY <3>3, <3>4
  <2> QED BY <2>6, <2>7
<1> QED BY <1>1, InvariantTheorem, PTL

----------------------------------------------------------------------------
(* ImageDiff: the functions of a file in one listing *)

\* The recursion by which FlattenSeq is defined
Upto(g, q, i) == IF i = 1 THEN q[i] ELSE g[i - 1] \o q[i]
IsFlat(g, q) == g = [i \in 1..Len(q) |-> Upto(g, q, i)]

LEMMA FlatExists ==
  ASSUME NEW q, Len(q) \in Nat
  PROVE  \E g : IsFlat(g, q)
<1> DEFINE Good(g, n) == \A i \in 1..Len(q) : i <= n => g[i] = Upto(g, q, i)
           T == {n \in Nat : \E g : Good(g, n)}
<1>1. 0 \in T
  <2>1. Good(<<>>, 0) OBVIOUS
  <2> QED BY <2>1
<1>2. ASSUME NEW n \in T PROVE n + 1 \in T
  <2>1. PICK g : Good(g, n) OBVIOUS
  <2> DEFINE h == [i \in 1..Len(q) |-> Upto(g, q, i)]
  <2>2. \A i \in 1..Len(q) : i <= n => h[i] = g[i] BY <2>1
  <2>3. ASSUME NEW i \in 1..Len(q), i <= n + 1 PROVE h[i] = Upto(h, q, i)
    <3>1. h[i] = Upto(g, q, i) OBVIOUS
    <3>2. CASE i = 1 BY <3>1, <3>2 DEF Upto
    <3>3. CASE i # 1
      <4>1. i - 1 \in 1..Len(q) /\ i - 1 <= n BY <2>3, <3>3
      <4>2. h[i - 1] = g[i - 1] BY <2>2, <4>1
      <4> HIDE DEF h
      <4> QED BY <3>1, <3>3, <4>2 DEF Upto
    <3> QED BY <3>2, <3>3
  <2>4. Good(h, n + 1) BY <2>3
  <2> HIDE DEF h, Good
  <2> QED BY <2>4
<1>3. T = Nat
  <2> HIDE DEF T
  <2>1. T \in SUBSET Nat BY DEF T
  <2> QED BY <1>1, <1>2, <2>1, Induction
<1>4. PICK g : Good(g, Len(q)) BY <1>3
<1> DEFINE h == [i \in 1..Len(q) |-> g[i]]
<1>5. ASSUME NEW i \in 1..Len(q) PROVE h[i] = Upto(h, q, i)
  <2>1. h[i] = Upto(g, q, i) BY <1>4
  <2>2. CASE i = 1 BY <2>1, <2>2 DEF Upto
  <2>3. CASE i # 1
    <3>1. i - 1 \in 1..Len(q) BY <2>3
    <3>2. h[i - 1] = g[i - 1] BY <3>1
    <3> HIDE DEF h
    <3> QED BY <2>1, <2>3, <3>2 DEF Upto
  <2> QED BY <2>2, <2>3
<1>6. IsFlat(h, q)
  <2> DEFINE r == [i \in 1..Len(q) |-> Upto(h, q, i)]
  <2>1. \A i \in 1..Len(q) : h[i] = r[i] BY <1>5
  <2>2. h = r BY <2>1
  <2> QED BY <2>2 DEF IsFlat
<1> HIDE DEF h
<1> QED BY <1>6

LEMMA FlatIs ==
  ASSUME NEW q, Len(q) \in Nat, Len(q) # 0
  PROVE  \E g : IsFlat(g, q) /\ FlattenSeq(q) = g[Len(q)]
<1> DEFINE g == CHOOSE g : IsFlat(g, q)
<1>1. IsFlat(g, q) BY FlatExists
<1>2. FlattenSeq(q) = g[Len(q)] BY DEF FlattenSeq, IsFlat, Upto
<1> QED BY <1>1, <1>2

\* The listing of the first n functions
Upper(fs, n) == FlattenSeq(SubSeq(fs, 1, n))

LEMMA UpperGrows ==
  ASSUME NEW S, NEW fs \in Seq(Seq(S))
  PROVE  /\ Upper(fs, 0) = <<>> /\ Upper(fs, Len(fs)) = FlattenSeq(fs)
         /\ \A n \in 1..Len(fs) : Upper(fs, n - 1) \in Seq(S) => Upper(fs, n) = Upper(fs, n - 1) \o fs[n]
<1>1. Len(fs) \in Nat /\ \A n \in 1..Len(fs) : fs[n] \in Seq(S) OBVIOUS
<1>2. Upper(fs, 0) = <<>>
  <2>1. SubSeq(fs, 1, 0) = <<>> OBVIOUS
  <2>2. Len(<<>>) = 0 OBVIOUS
  <2> QED BY <2>1, <2>2 DEF Upper, FlattenSeq
<1>3. Upper(fs, Len(fs)) = FlattenSeq(fs)
  <2>1. SubSeq(fs, 1, Len(fs)) = fs OBVIOUS
  <2> QED BY <2>1 DEF Upper
<1>4. PICK g : IsFlat(g, fs) BY <1>1, FlatExists
<1>5. ASSUME NEW n \in 1..Len(fs) PROVE Upper(fs, n) = g[n]
  <2> DEFINE q == SubSeq(fs, 1, n)
  <2>1. Len(q) = n /\ \A i \in 1..n : q[i] = fs[i] BY <1>1
  <2> HIDE DEF q
  <2>2. Len(q) \in Nat /\ Len(q) # 0 BY <1>1, <2>1
  <2>3. PICK h : IsFlat(h, q) /\ FlattenSeq(q) = h[Len(q)] BY <2>2, FlatIs
  <2> DEFINE T == {m \in Nat : m \in 1..n => h[m] = g[m]}
  <2>4. \A m \in 1..n : h[m] = Upto(h, q, m) /\ g[m] = Upto(g, fs, m)
    <3>1. \A m \in 1..Len(q) : h[m] = Upto(h, q, m) BY <2>3 DEF IsFlat
    <3>2. \A m \in 1..Len(fs) : g[m] = Upto(g, fs, m) BY <1>4 DEF IsFlat
    <3>3. 1..n \subseteq 1..Len(fs) BY <1>1
    <3> QED BY <2>1, <3>1, <3>2, <3>3
  <2>5. 0 \in T OBVIOUS
  <2>6. ASSUME NEW m \in T PROVE m + 1 \in T
    <3> SUFFICES ASSUME m + 1 \in 1..n PROVE h[m + 1] = g[m + 1] OBVIOUS
    <3>1. m \in Nat /\ (m + 1) - 1 = m OBVIOUS
    <3>2. q[m + 1] = fs[m + 1] BY <2>1
    <3>3. CASE m = 0 BY <2>4, <3>2, <3>3 DEF Upto
    <3>4. CASE m # 0
      <4>1. m \in 1..n /\ m + 1 # 1 BY <3>1, <3>4
      <4>2. h[m] = g[m] BY <4>1
      <4> HIDE DEF T
      <4> QED BY <2>4, <3>1, <3>2, <4>1, <4>2 DEF Upto
    <3> QED BY <3>3, <3>4
  <2>7. T = Nat
    <3> HIDE DEF T
    <3>1. T \in SUBSET Nat BY DEF T
    <3> QED BY <2>5, <2>6, <3>1, Induction
  <2>8. h[n] = g[n]
    <3>1. n \in Nat /\ n \in 1..n BY <1>1
    <3>2. n \in T BY <2>7, <3>1
    <3> QED BY <3>1, <3>2
  <2> QED BY <2>1, <2>3, <2>8 DEF Upper, q
<1>6. ASSUME NEW n \in 1..Len(fs), Upper(fs, n - 1) \in Seq(S)
      PROVE  Upper(fs, n) = Upper(fs, n - 1) \o fs[n]
  <2>1. Upper(fs, n) = Upto(g, fs, n) BY <1>4, <1>5 DEF IsFlat
  <2>2. CASE n = 1
    <3>1. Upper(fs, n - 1) = <<>> BY <1>2, <2>2
    <3>2. Upper(fs, n) = fs[n] /\ fs[n] \in Seq(S) BY <1>1, <2>1, <2>2 DEF Upto
    <3>3. <<>> \o fs[n] = fs[n] BY <3>2
    <3> QED BY <3>1, <3>2, <3>3
  <2>3. CASE n # 1
    <3>1. n - 1 \in 1..Len(fs) BY <1>1, <2>3
    <3>2. Upper(fs, n - 1) = g[n - 1] BY <1>5, <3>1
    <3> QED BY <2>1, <2>3, <3>2 DEF Upto
  <2> QED BY <2>2, <2>3
<1> QED BY <1>2, <1>3, <1>6

LEMMA ConcatIs ==
  ASSUME NEW S, NEW a \in Seq(S), NEW b \in Seq(S)
  PROVE  /\ a \o b \in Seq(S) /\ Len(a \o b) = Len(a) + Len(b)
         /\ Len(a) \in Nat /\ Len(b) \in Nat
         /\ \A k \in 1..Len(a) : (a \o b)[k] = a[k]
         /\ \A k \in 1..Len(b) : (a \o b)[Len(a) + k] = b[k]
OBVIOUS

\* Each instruction stands in the listing behind the functions before its own.
LEMMA UpperPlaces ==
  ASSUME NEW S, NEW fs \in Seq(Seq(S)), NEW n \in 0..Len(fs)
  PROVE  /\ Upper(fs, n) \in Seq(S)
         /\ \A i \in 1..n : \A k \in 1..Len(fs[i]) :
              /\ Len(Upper(fs, i - 1)) \in Nat
              /\ Len(Upper(fs, i - 1)) + k \in 1..Len(Upper(fs, n))
              /\ Upper(fs, n)[Len(Upper(fs, i - 1)) + k] = fs[i][k]
<1> DEFINE at_(i, k) == Len(Upper(fs, i - 1)) + k
           Right(m) == /\ Upper(fs, m) \in Seq(S)
                       /\ \A i \in 1..m : \A k \in 1..Len(fs[i]) :
                            /\ Len(Upper(fs, i - 1)) \in Nat
                            /\ at_(i, k) \in 1..Len(Upper(fs, m))
                            /\ Upper(fs, m)[at_(i, k)] = fs[i][k]
           T == {m \in Nat : m <= Len(fs) => Right(m)}
<1>1. Len(fs) \in Nat /\ \A m \in 1..Len(fs) : fs[m] \in Seq(S) OBVIOUS
<1>2. Right(0)
  <2>1. Upper(fs, 0) = <<>> BY UpperGrows
  <2>2. <<>> \in Seq(S) /\ 1..0 = {} OBVIOUS
  <2> HIDE DEF at_
  <2> QED BY <2>1, <2>2
<1>3. ASSUME NEW m \in Nat, m + 1 <= Len(fs), Right(m) PROVE Right(m + 1)
  <2> DEFINE a == Upper(fs, m)
             b == fs[m + 1]
  <2>1. m + 1 \in 1..Len(fs) /\ (m + 1) - 1 = m BY <1>1, <1>3
  <2>2. a \in Seq(S) /\ b \in Seq(S) BY <1>1, <1>3, <2>1
  <2>3. Upper(fs, m + 1) = a \o b BY <2>1, <2>2, UpperGrows
  <2> HIDE DEF a, b
  <2>4. /\ a \o b \in Seq(S) /\ Len(a \o b) = Len(a) + Len(b)
        /\ Len(a) \in Nat /\ Len(b) \in Nat
        /\ \A k \in 1..Len(a) : (a \o b)[k] = a[k]
        /\ \A k \in 1..Len(b) : (a \o b)[Len(a) + k] = b[k]
    BY <2>2, ConcatIs
  <2>5. ASSUME NEW i \in 1..(m + 1), NEW k \in 1..Len(fs[i])
        PROVE  /\ Len(Upper(fs, i - 1)) \in Nat
               /\ at_(i, k) \in 1..Len(a \o b) /\ (a \o b)[at_(i, k)] = fs[i][k]
    <3>1. CASE i = m + 1
      <4>1. Len(Upper(fs, i - 1)) = Len(a) /\ k \in 1..Len(b) BY <2>1, <3>1 DEF a, b
      <4> QED BY <2>4, <3>1, <4>1 DEF b
    <3>2. CASE i # m + 1
      <4>1. i \in 1..m BY <3>2
      <4>2. /\ Len(Upper(fs, i - 1)) \in Nat
            /\ at_(i, k) \in 1..Len(a) /\ a[at_(i, k)] = fs[i][k]
        BY <1>3, <4>1 DEF a
      <4> HIDE DEF at_
      <4> QED BY <2>4, <4>2
    <3> QED BY <3>1, <3>2
  <2> HIDE DEF at_
  <2> QED BY <2>3, <2>4, <2>5
<1>4. T = Nat
  <2>1. 0 \in T BY <1>2
  <2>2. ASSUME NEW m \in T PROVE m + 1 \in T
    <3> SUFFICES ASSUME m + 1 <= Len(fs) PROVE Right(m + 1) OBVIOUS
    <3>1. m \in Nat /\ m <= Len(fs) BY <1>1
    <3>2. Right(m) BY <3>1
    <3> HIDE DEF Right, T
    <3> QED BY <1>3, <3>1, <3>2
  <2> HIDE DEF T
  <2>3. T \in SUBSET Nat BY DEF T
  <2> QED BY <2>1, <2>2, <2>3, Induction
<1>5. n \in Nat /\ n <= Len(fs) BY <1>1
<1>6. Right(n)
  <2> HIDE DEF Right
  <2>1. n \in T BY <1>4, <1>5
  <2> QED BY <1>5, <2>1
<1> QED BY <1>6

LEMMA LineIs ==
  ASSUME NEW S, NEW fs \in Seq(Seq(S)), NEW i \in DOMAIN fs, NEW k \in DOMAIN fs[i]
  PROVE  /\ FlattenSeq(fs) \in Seq(S) /\ Len(FlattenSeq(fs)) \in Nat
         /\ Line(fs, i, k) \in 1..Len(FlattenSeq(fs)) /\ FlattenSeq(fs)[Line(fs, i, k)] = fs[i][k]
         /\ \A j \in DOMAIN fs : \A l \in DOMAIN fs[j] : i < j => Line(fs, i, k) < Line(fs, j, l)
         /\ \A l \in DOMAIN fs[i] : Line(fs, i, l) = Line(fs, i, k) => l = k
<1>1. Len(fs) \in Nat /\ DOMAIN fs = 1..Len(fs) /\ \A j \in 1..Len(fs) : fs[j] \in Seq(S) OBVIOUS
<1>2. \A j \in 1..Len(fs) : DOMAIN fs[j] = 1..Len(fs[j]) /\ Len(fs[j]) \in Nat BY <1>1
<1>3. ASSUME NEW j \in DOMAIN fs, NEW l \in DOMAIN fs[j]
      PROVE  /\ Line(fs, j, l) = Len(Upper(fs, j - 1)) + l /\ Len(Upper(fs, j - 1)) \in Nat
  <2> DEFINE n == Len(Upper(fs, j - 1))
  <2>1. Lines(fs, j) = (n + 1)..(n + Len(fs[j])) BY DEF Lines, Upper
  <2>2. j - 1 \in 0..Len(fs) BY <1>1
  <2>3. Upper(fs, j - 1) \in Seq(S) BY <2>2, UpperPlaces
  <2>4. n \in Nat BY <2>3
  <2> HIDE DEF n
  <2>5. Lines(fs, j) \in SUBSET Nat /\ n + 1 \in Lines(fs, j) BY <1>1, <1>2, <2>1, <2>4
  <2>6. Min(Lines(fs, j)) \in Lines(fs, j) /\ Min(Lines(fs, j)) <= n + 1 BY <2>5, MinIs
  <2>7. Min(Lines(fs, j)) = n + 1 BY <1>1, <1>2, <2>1, <2>4, <2>6
  <2>8. l \in Nat BY <1>1, <1>2
  <2> QED BY <2>4, <2>7, <2>8 DEF Line, n
<1>4. k \in Nat /\ i \in 1..Len(fs) /\ k \in 1..Len(fs[i]) BY <1>1, <1>2
<1>5. Len(fs) \in 0..Len(fs) BY <1>1
<1>6. Upper(fs, Len(fs)) = FlattenSeq(fs) BY UpperGrows
<1>7. /\ FlattenSeq(fs) \in Seq(S)
      /\ Line(fs, i, k) \in 1..Len(FlattenSeq(fs)) /\ FlattenSeq(fs)[Line(fs, i, k)] = fs[i][k]
  <2>1. Line(fs, i, k) = Len(Upper(fs, i - 1)) + k BY <1>3
  <2>2. /\ Upper(fs, Len(fs)) \in Seq(S)
        /\ Len(Upper(fs, i - 1)) + k \in 1..Len(Upper(fs, Len(fs)))
        /\ Upper(fs, Len(fs))[Len(Upper(fs, i - 1)) + k] = fs[i][k]
    BY <1>4, <1>5, UpperPlaces
  <2> QED BY <1>6, <2>1, <2>2
<1>8. Len(FlattenSeq(fs)) \in Nat BY <1>7
<1>9. ASSUME NEW j \in DOMAIN fs, NEW l \in DOMAIN fs[j], i < j
      PROVE  Line(fs, i, k) < Line(fs, j, l)
  <2>1. i \in 1..(j - 1) /\ j - 1 \in 0..Len(fs) BY <1>1, <1>9
  <2>2. Line(fs, i, k) \in 1..Len(Upper(fs, j - 1))
    <3>1. Line(fs, i, k) = Len(Upper(fs, i - 1)) + k BY <1>3
    <3>2. Len(Upper(fs, i - 1)) + k \in 1..Len(Upper(fs, j - 1)) BY <1>4, <2>1, UpperPlaces
    <3> QED BY <3>1, <3>2
  <2>3. /\ Line(fs, j, l) = Len(Upper(fs, j - 1)) + l /\ Len(Upper(fs, j - 1)) \in Nat
        /\ l \in 1..Len(fs[j])
    BY <1>1, <1>2, <1>3
  <2> QED BY <2>2, <2>3
<1>10. ASSUME NEW l \in DOMAIN fs[i], Line(fs, i, l) = Line(fs, i, k) PROVE l = k
  <2>1. l \in Nat BY <1>1, <1>2
  <2> DEFINE n == Len(Upper(fs, i - 1))
  <2>2. n \in Nat /\ Line(fs, i, l) = n + l /\ Line(fs, i, k) = n + k BY <1>3
  <2> HIDE DEF n
  <2>3. n + l = n + k BY <1>10, <2>2
  <2> QED BY <1>4, <2>1, <2>2, <2>3
<1> QED BY <1>7, <1>8, <1>9, <1>10

LEMMA LineApart ==
  ASSUME NEW S, NEW fs \in Seq(Seq(S)), NEW i \in DOMAIN fs, NEW k \in DOMAIN fs[i],
         NEW j \in DOMAIN fs, NEW l \in DOMAIN fs[j], Line(fs, i, k) = Line(fs, j, l)
  PROVE  i = j /\ k = l
<1>1. i \in Nat /\ j \in Nat OBVIOUS
<1>2. Line(fs, i, k) \in Nat /\ Line(fs, j, l) \in Nat BY LineIs
<1>3. i < j => Line(fs, i, k) < Line(fs, j, l) BY LineIs
<1>4. j < i => Line(fs, j, l) < Line(fs, i, k) BY LineIs
<1>5. i = j BY <1>1, <1>2, <1>3, <1>4
<1>6. k = l BY <1>5, LineIs
<1> QED BY <1>5, <1>6

----------------------------------------------------------------------------
(* ImageDiff: the functions and places that are found *)

\* The functions of a file, as the command finds them
FileIs(fs) == fs \in Seq(Seq(Instruction)) /\ \A i \in DOMAIN fs : FixedTargets(fs[i])

LEMMA UseIs ==
  ASSUME FileIs(file), NEW i \in DOMAIN file
  PROVE  /\ Len(file) \in Nat /\ DOMAIN file = 1..Len(file)
         /\ Len(file[i]) \in Nat /\ DOMAIN file[i] = 1..Len(file[i])
         /\ UsesOf(file[i]) \subseteq DOMAIN file[i]
         /\ \A k \in DOMAIN file[i] : file[i][k].op \in Terminators => ~Varies(file[i][k])
<1>1. file \in Seq(Seq(Instruction)) BY DEF FileIs
<1>2. file[i] \in Seq(Instruction) BY <1>1
<1> QED BY <1>1, <1>2 DEF FileIs, FixedTargets, UsesOf

\* Of the listing of a file, the filter leaves each function its uses.
LEMMA ListingKeptIs ==
  ASSUME FileIs(file), NEW x, NEW y,
         <<x, y>> \in {<<Original, Modified>>, <<Modified, Original>>}, Shown, Unlike(x, y), NEW i \in DOMAIN file
  PROVE  ListingKept(file, i, x, y) = UsesOf(file[i])
<1> DEFINE F == FlattenSeq(file)
           n == Len(F)
           shown == UNION {{Line(file, j, k) : k \in Changed(file[j], x, y)} : j \in DOMAIN file}
           kept == Filtered(F, shown, x, y)
<1>1. file \in Seq(Seq(Instruction)) BY DEF FileIs
<1>2. x \in Vals /\ y \in Vals
  <2>1. Original \in Vals /\ Modified \in Vals BY SymAssumption DEF Original, Modified
  <2> QED BY <2>1
<1>3. \A j \in DOMAIN file : Changed(file[j], x, y) \subseteq DOMAIN file[j] BY DEF Changed
<1>4. ASSUME NEW j \in DOMAIN file, NEW k \in UsesOf(file[j])
      PROVE  file[j][k].src.v[x] # file[j][k].src.v[y] /\ k \in Changed(file[j], x, y)
  <2>1. file[j][k].src.v[Original] # file[j][k].src.v[Modified] BY DEF Shown
  <2>2. file[j][k].src.v[x] # file[j][k].src.v[y] BY <2>1
  <2> QED BY <2>2 DEF Changed, UsesOf
<1>5. ASSUME NEW j \in DOMAIN file, NEW k \in DOMAIN file[j]
      PROVE  Line(file, j, k) \in 1..n /\ F[Line(file, j, k)] = file[j][k] /\ n \in Nat
  BY <1>1, LineIs
<1>6. ASSUME NEW a \in shown
      PROVE  \E j \in DOMAIN file : \E k \in Changed(file[j], x, y) :
               a = Line(file, j, k) /\ a \in 1..n /\ F[a] = file[j][k] /\ k \in DOMAIN file[j]
  <2>1. PICK j \in DOMAIN file : a \in {Line(file, j, k) : k \in Changed(file[j], x, y)} OBVIOUS
  <2>2. PICK k \in Changed(file[j], x, y) : a = Line(file, j, k) BY <2>1
  <2>3. k \in DOMAIN file[j] BY <1>3
  <2> HIDE DEF F, n, shown
  <2> QED BY <1>5, <2>2, <2>3
<1>7. kept = {a \in shown : Varies(F[a])}
  <2> HIDE DEF F, n, shown, kept
  <2>1. shown \in SUBSET (1..n) BY <1>6
  <2>2. ASSUME NEW a \in shown, Varies(F[a]) PROVE F[a].op \notin Terminators
    <3>1. PICK j \in DOMAIN file : \E k \in Changed(file[j], x, y) :
            F[a] = file[j][k] /\ k \in DOMAIN file[j]
      BY <1>6
    <3> QED BY <2>2, <3>1, UseIs
  <2>3. ASSUME NEW a \in shown, Varies(F[a]) PROVE F[a].src.v[x] # F[a].src.v[y]
    <3>1. PICK j \in DOMAIN file, k \in Nat : F[a] = file[j][k] /\ k \in DOMAIN file[j]
      BY <1>6, UseIs
    <3>2. k \in UsesOf(file[j]) BY <2>3, <3>1 DEF UsesOf
    <3> QED BY <1>4, <3>1, <3>2
  <2>4. ASSUME NEW a \in shown, NEW b \in shown, Varies(F[a]), a # b
        PROVE  Signature(F[a], x) # Signature(F[b], y)
    <3>1. PICK j \in DOMAIN file, k \in Nat :
            F[a] = file[j][k] /\ k \in DOMAIN file[j] /\ a = Line(file, j, k)
      BY <1>6, UseIs
    <3>2. PICK l \in DOMAIN file, m \in Nat :
            F[b] = file[l][m] /\ m \in DOMAIN file[l] /\ b = Line(file, l, m)
      BY <1>6, UseIs, SMTT(30)
    <3>3. k \in UsesOf(file[j]) BY <2>4, <3>1 DEF UsesOf
    <3>4. <<j, k>> # <<l, m>> BY <2>4, <3>1, <3>2
    <3> QED BY <3>1, <3>2, <3>3, <3>4 DEF Unlike
  <2>5. shown = {} \/ n \in Nat BY <1>6, <1>5
  <2>6. UnlikeIn(F, shown, x, y) BY <2>2, <2>3, <2>4 DEF UnlikeIn
  <2>7. CASE n \in Nat
    <3>1. Filtered(F, shown, x, y) = {a \in shown : Varies(F[a])}
      BY <1>2, <2>1, <2>6, <2>7, FilterIs
    <3> QED BY <3>1 DEF kept
  <2>8. CASE shown = {} BY <2>8 DEF kept, Filtered
  <2> QED BY <2>5, <2>7, <2>8
<1>8. ASSUME NEW k \in DOMAIN file[i] PROVE Line(file, i, k) \in kept <=> k \in UsesOf(file[i])
  <2>1. F[Line(file, i, k)] = file[i][k] BY <1>5
  <2>2. k \in UsesOf(file[i]) => Line(file, i, k) \in shown BY <1>4
  <2> HIDE DEF F, kept, shown
  <2> QED BY <1>7, <2>1, <2>2 DEF UsesOf
<1>9. ListingKept(file, i, x, y) = {k \in DOMAIN file[i] : Line(file, i, k) \in kept}
  BY DEF ListingKept
<1> HIDE DEF kept
<1> QED BY <1>8, <1>9 DEF UsesOf

LEMMA PointsOfIs ==
  ASSUME FileIs(file), Shown, Unlike(Original, Modified), NEW i \in DOMAIN file, NEW moved \in BOOLEAN
  PROVE  PointsOf(file[i], moved) = {k + 1 : k \in UsesOf(file[i])} \cap DOMAIN file[i]
<1> DEFINE f == file[i]
           lines == ImageChanged(f, moved)
<1>1. /\ Len(f) \in Nat /\ DOMAIN f = 1..Len(f) /\ UsesOf(f) \subseteq DOMAIN f
      /\ \A k \in DOMAIN f : f[k].op \in Terminators => ~Varies(f[k])
  BY UseIs
<1>2. Original \in Vals /\ Modified \in Vals BY SymAssumption DEF Original, Modified
<1>3. \A k \in UsesOf(f) : f[k].src.v[Original] # f[k].src.v[Modified] BY DEF Shown
<1>4. \A k \in UsesOf(f), l \in DOMAIN f : k # l => Signature(f[k], Original) # Signature(f[l], Modified)
  <2>1. \A k, l : k # l => <<i, k>> # <<i, l>> OBVIOUS
  <2> QED BY <2>1 DEF Unlike
<1> HIDE DEF f
<1>5. lines \in SUBSET (1..Len(f)) /\ UsesOf(f) \subseteq lines
  BY <1>1, <1>3 DEF ImageChanged, Changed
<1> HIDE DEF lines
<1>6. \A k \in lines : Varies(f[k]) => k \in UsesOf(f) BY <1>1, <1>5 DEF UsesOf
<1>7. UnlikeIn(f, lines, Original, Modified)
  BY <1>1, <1>3, <1>4, <1>5, <1>6 DEF UnlikeIn
<1>8. Filtered(f, lines, Original, Modified) = {k \in lines : Varies(f[k])}
  BY <1>1, <1>2, <1>5, <1>7, FilterIs
<1>9. {k \in lines : Varies(f[k])} = UsesOf(f) BY <1>1, <1>5 DEF UsesOf
<1> QED BY <1>8, <1>9 DEF PointsOf, lines, f

\* With both listings told apart, and no use in another's shadow, the functions
\* that are found are those with uses.
LEMMA AffectedIs ==
  ASSUME FileIs(file), Shown, Unlike(Original, Modified), Unlike(Modified, Original), Unshadowed
  PROVE  AffectedFunctions(file) = {i \in DOMAIN file : UsesOf(file[i]) # {}}
<1> DEFINE of(u, v) == UNION {{Address(file[i], k, u) : k \in ListingKept(file, i, u, v)} : i \in DOMAIN file}
           by(u) == UNION {{Address(file[i], k, u) : k \in UsesOf(file[i])} : i \in DOMAIN file}
<1>1. of(Original, Modified) = by(Original)
  <2>1. \A i \in DOMAIN file : ListingKept(file, i, Original, Modified) = UsesOf(file[i])
    BY ListingKeptIs
  <2> QED BY <2>1
<1>2. of(Modified, Original) = by(Modified)
  <2>1. \A i \in DOMAIN file : ListingKept(file, i, Modified, Original) = UsesOf(file[i])
    BY ListingKeptIs
  <2> QED BY <2>1
<1>3. AffectedFunctions(file) = UNION {FunctionAt(file, a) : a \in by(Original) \cup by(Modified)}
  BY <1>1, <1>2 DEF AffectedFunctions
<1>4. DOMAIN file \subseteq Nat BY DEF FileIs
<1>5. ASSUME NEW j \in AffectedFunctions(file) PROVE j \in DOMAIN file /\ UsesOf(file[j]) # {}
  <2>1. PICK a \in by(Original) \cup by(Modified) : j \in FunctionAt(file, a) BY <1>3
  <2>2. PICK V \in {Original, Modified} : a \in by(V) BY <2>1
  <2>3. PICK i \in DOMAIN file : \E k \in UsesOf(file[i]) : a = Address(file[i], k, V) BY <2>2
  <2>4. j \in Holders(file, a) /\ \A m \in Holders(file, a) : m <= j BY <2>1 DEF FunctionAt
  <2>5. i \in Holders(file, a) /\ j <= i BY <2>3, <2>4 DEF Unshadowed
  <2>6. i <= j /\ i \in Nat /\ j \in Nat BY <1>4, <2>4, <2>5 DEF Holders
  <2>7. i = j BY <2>5, <2>6
  <2> QED BY <2>3, <2>7
<1>6. ASSUME NEW i \in DOMAIN file, NEW k \in UsesOf(file[i]) PROVE i \in AffectedFunctions(file)
  <2> DEFINE a == Address(file[i], k, Original)
             H == Holders(file, a)
  <2>1. /\ Len(file) \in Nat /\ DOMAIN file = 1..Len(file) /\ k \in DOMAIN file[i] BY UseIs
  <2>2. i \in H BY <2>1 DEF Holders
  <2>3. a \in by(Original) OBVIOUS
  <2>4. FunctionAt(file, a) = {m \in H : \A j \in H : j <= m} BY DEF FunctionAt
  <2>5. \A j \in H : j <= i BY <2>2 DEF Unshadowed
  <2> HIDE DEF H, a, by
  <2>6. i \in FunctionAt(file, a) BY <2>2, <2>4, <2>5
  <2> QED BY <1>3, <2>3, <2>6
<1> QED BY <1>5, <1>6

\* What the command has found and printed
ImageInvariant ==
  /\ stage \in {"none", "chosen", "over"}
  /\ stage # "over" => DOMAIN points = {}
  /\ stage # "none" =>
       /\ FileIs(file) /\ affected \subseteq DOMAIN file
       /\ ~told => affected = AffectedFunctions(file)
  /\ \A i \in DOMAIN points :
       i \in DOMAIN file /\ \E moved \in BOOLEAN : points[i] = PointsOf(file[i], moved)

LEMMA FilesAre ==
  ASSUME NEW f \in Functions, NEW others \in Neighbours, NEW fs \in {others \o <<f>>, <<f>> \o others}
  PROVE  FileIs(fs)
<1>1. /\ f \in Seq(Instruction) /\ FixedTargets(f) /\ others \in Seq(Seq(Instruction))
      /\ \A i \in DOMAIN others : FixedTargets(others[i])
  BY FunctionAssumption, ImageAssumption
<1>2. <<f>> \in Seq(Seq(Instruction)) /\ Len(<<f>>) = 1 /\ <<f>>[1] = f BY <1>1
<1>3. ASSUME NEW a \in Seq(Seq(Instruction)), NEW b \in Seq(Seq(Instruction)),
             \A i \in 1..Len(a) : FixedTargets(a[i]), \A i \in 1..Len(b) : FixedTargets(b[i])
      PROVE  FileIs(a \o b)
  <2>1. /\ a \o b \in Seq(Seq(Instruction)) /\ Len(a \o b) = Len(a) + Len(b)
        /\ Len(a) \in Nat /\ Len(b) \in Nat
        /\ \A k \in 1..Len(a) : (a \o b)[k] = a[k]
        /\ \A k \in 1..Len(b) : (a \o b)[Len(a) + k] = b[k]
    BY ConcatIs
  <2>2. ASSUME NEW i \in DOMAIN (a \o b) PROVE FixedTargets((a \o b)[i])
    <3>1. i \in 1..(Len(a) + Len(b)) BY <2>1
    <3>2. CASE i <= Len(a)
      <4>1. i \in 1..Len(a) BY <2>1, <3>1, <3>2
      <4> QED BY <1>3, <2>1, <4>1
    <3>3. CASE i > Len(a)
      <4>1. i - Len(a) \in 1..Len(b) /\ Len(a) + (i - Len(a)) = i BY <2>1, <3>1, <3>3
      <4>2. (a \o b)[i] = b[i - Len(a)] BY <2>1, <4>1
      <4> QED BY <1>3, <4>1, <4>2
    <3> QED BY <2>1, <3>1, <3>2, <3>3
  <2> QED BY <2>1, <2>2 DEF FileIs
<1>4. \A i \in 1..Len(others) : FixedTargets(others[i]) BY <1>1
<1>5. \A i \in 1..Len(<<f>>) : FixedTargets(<<f>>[i]) BY <1>1, <1>2
<1> QED BY <1>1, <1>2, <1>3, <1>4, <1>5

LEMMA ImageStep == Invariant /\ ImageInvariant /\ [NextImages]_imageVars => ImageInvariant'
<1> SUFFICES ASSUME Invariant, ImageInvariant, [NextImages]_imageVars PROVE ImageInvariant'
  OBVIOUS
<1>1. func \in Functions BY DEF Invariant, Diffed
<1>2. CASE UNCHANGED command
  BY <1>2 DEF ImageInvariant, command
<1>3. ASSUME NEW others \in Neighbours, NEW fs \in {others \o <<func>>, <<func>> \o others}, Detect(fs)
      PROVE  ImageInvariant'
  <2>1. /\ stage = "none" /\ file' = fs /\ told' = FALSE /\ affected' = AffectedFunctions(fs)
        /\ stage' \in {"over", "chosen"} /\ points' = points
    BY <1>3 DEF Detect
  <2>2. FileIs(fs) BY <1>1, <1>3, FilesAre
  <2>3. AffectedFunctions(fs) \subseteq DOMAIN fs BY DEF AffectedFunctions, FunctionAt, Holders
  <2>4. DOMAIN points = {} BY <2>1 DEF ImageInvariant
  <2> QED BY <2>1, <2>2, <2>3, <2>4 DEF ImageInvariant
<1>4. ASSUME NEW others \in Neighbours, NEW fs \in {others \o <<func>>, <<func>> \o others},
             NEW names \in (SUBSET DOMAIN fs) \ {{}}, Tell(fs, names)
      PROVE  ImageInvariant'
  <2>1. /\ stage = "none" /\ file' = fs /\ told' = TRUE /\ affected' = names
        /\ stage' = "chosen" /\ points' = points
    BY <1>4 DEF Tell
  <2>2. FileIs(fs) BY <1>1, <1>4, FilesAre
  <2>3. DOMAIN points = {} BY <2>1 DEF ImageInvariant
  <2> QED BY <2>1, <2>2, <2>3 DEF ImageInvariant
<1>5. ASSUME NEW moved \in SUBSET affected, Compare(moved) PROVE ImageInvariant'
  <2>1. /\ stage = "chosen" /\ points' = [i \in affected |-> PointsOf(file[i], i \in moved)]
        /\ stage' = "over" /\ file' = file /\ told' = told /\ affected' = affected
    BY <1>5 DEF Compare
  <2>2. ASSUME NEW i \in DOMAIN points'
        PROVE  i \in DOMAIN file /\ \E b \in BOOLEAN : points'[i] = PointsOf(file[i], b)
    <3>1. i \in affected /\ points'[i] = PointsOf(file[i], i \in moved) BY <2>1
    <3>2. (i \in moved) \in BOOLEAN OBVIOUS
    <3>3. i \in DOMAIN file BY <2>1, <3>1 DEF ImageInvariant
    <3> QED BY <3>1, <3>2, <3>3
  <2> QED BY <2>1, <2>2 DEF ImageInvariant
<1>6. CASE UNCHANGED imageVars BY <1>2, <1>6 DEF imageVars
<1>7. CASE Next /\ stage = "none" /\ UNCHANGED command BY <1>2, <1>7
<1> QED BY <1>3, <1>4, <1>5, <1>6, <1>7 DEF NextImages

\* diff.py --vmlinux finds the functions that use the constant, whatever else the
\* file has in it, and prints the places behind their uses, wherever the functions
\* have moved (src/diff.py: filter_address_offset_diff, find_function_for_address_in_file,
\* parse_vmlinux_diff_with_offsets).
THEOREM PointsFollowUsesTheorem == SpecImages => []PointsFollowUses
<1>1. InitImages => ImageInvariant
  <2>1. DOMAIN <<>> = {} OBVIOUS
  <2> QED BY <2>1 DEF InitImages, ImageInvariant
<1>2. Invariant /\ ImageInvariant /\ [NextImages]_imageVars => ImageInvariant' BY ImageStep
<1>3. ImageInvariant => PointsFollowUses
  <2> SUFFICES ASSUME ImageInvariant, stage \in {"chosen", "over"}, Shown, Unlike(Original, Modified)
               PROVE  /\ ~told /\ Unlike(Modified, Original) /\ Unshadowed =>
                           affected = {i \in DOMAIN file : UsesOf(file[i]) # {}}
                      /\ \A i \in DOMAIN points :
                           points[i] = {k + 1 : k \in UsesOf(file[i])} \cap DOMAIN file[i]
    BY DEF PointsFollowUses
  <2>1. FileIs(file) /\ (~told => affected = AffectedFunctions(file)) BY DEF ImageInvariant
  <2>2. ASSUME ~told, Unlike(Modified, Original), Unshadowed
        PROVE  affected = {i \in DOMAIN file : UsesOf(file[i]) # {}}
    BY <2>1, <2>2, AffectedIs
  <2>3. ASSUME NEW i \in DOMAIN points
        PROVE  points[i] = {k + 1 : k \in UsesOf(file[i])} \cap DOMAIN file[i]
    <3>1. PICK moved \in BOOLEAN : points[i] = PointsOf(file[i], moved) BY DEF ImageInvariant
    <3>2. i \in DOMAIN file BY DEF ImageInvariant
    <3> QED BY <2>1, <3>1, <3>2, PointsOfIs
  <2> QED BY <2>2, <2>3
<1> QED BY <1>1, <1>2, <1>3, ImagesImplementSpec, InvariantTheorem, PTL DEF SpecImages
=============================================================================
