---------------------------- MODULE SpanFileProofs ----------------------------
(***************************************************************************)
(* What holds of the span files and their readers for any tables, kernel   *)
(* and chunk size.                                                         *)
(***************************************************************************)
EXTENDS SpanFile, WellFoundedInduction, TLAPS

----------------------------------------------------------------------------
(* The elements of a flattened sequence *)

LessThan == {p \in Nat \X Nat : p[1] < p[2]}

LEMMA Induction ==
  ASSUME NEW T \in SUBSET Nat, 0 \in T, \A n \in T : n + 1 \in T
  PROVE  T = Nat
<1> SUFFICES ASSUME T # Nat PROVE FALSE OBVIOUS
<1> DEFINE U == Nat \ T
<1>1. U # {} /\ U \subseteq Nat OBVIOUS
<1>2. IsWellFoundedOn(LessThan, Nat) BY NatLessThanWellFounded DEF OpToRel, LessThan
<1> HIDE DEF U
<1>3. PICK n \in U : \A m \in U : <<m, n>> \notin LessThan BY <1>1, <1>2, WFMin
<1> USE DEF U
<1>4. n # 0 /\ n - 1 \in Nat OBVIOUS
<1>5. <<n - 1, n>> \in LessThan BY <1>4 DEF LessThan
<1> QED BY <1>3, <1>4, <1>5

LEMMA ToSetConcat ==
  ASSUME NEW S, NEW a \in Seq(S), NEW b \in Seq(S)
  PROVE  a \o b \in Seq(S) /\ \A x : x \in ToSet(a \o b) <=> x \in ToSet(a) \/ x \in ToSet(b)
<1>1. a \o b \in Seq(S) /\ Len(a \o b) = Len(a) + Len(b) OBVIOUS
<1>2. /\ DOMAIN a = 1..Len(a) /\ DOMAIN b = 1..Len(b) /\ DOMAIN (a \o b) = 1..(Len(a) + Len(b))
      /\ Len(a) \in Nat /\ Len(b) \in Nat
  BY <1>1
<1>3. ASSUME NEW i \in 1..Len(a) PROVE (a \o b)[i] = a[i] /\ i \in 1..(Len(a) + Len(b)) BY <1>2
<1>4. ASSUME NEW i \in 1..Len(b)
      PROVE  (a \o b)[i + Len(a)] = b[i] /\ i + Len(a) \in 1..(Len(a) + Len(b))
  BY <1>2
<1>5. ASSUME NEW x, x \in ToSet(a \o b) PROVE x \in ToSet(a) \/ x \in ToSet(b)
  <2>1. PICK i \in 1..(Len(a) + Len(b)) : x = (a \o b)[i] BY <1>2, <1>5 DEF ToSet
  <2>2. CASE i <= Len(a)
    <3>1. i \in 1..Len(a) BY <1>2, <2>1, <2>2
    <3> QED BY <1>2, <1>3, <2>1, <3>1 DEF ToSet
  <2>3. CASE i > Len(a)
    <3>1. i - Len(a) \in 1..Len(b) /\ (i - Len(a)) + Len(a) = i BY <1>2, <2>1, <2>3
    <3>2. (a \o b)[i] = b[i - Len(a)] BY <1>4, <3>1
    <3> QED BY <1>2, <2>1, <3>1, <3>2 DEF ToSet
  <2> QED BY <1>2, <2>1, <2>2, <2>3
<1>6. ASSUME NEW x, x \in ToSet(a) PROVE x \in ToSet(a \o b)
  <2>1. PICK i \in 1..Len(a) : x = a[i] BY <1>2, <1>6 DEF ToSet
  <2> QED BY <1>2, <1>3, <2>1 DEF ToSet
<1>7. ASSUME NEW x, x \in ToSet(b) PROVE x \in ToSet(a \o b)
  <2>1. PICK i \in 1..Len(b) : x = b[i] BY <1>2, <1>7 DEF ToSet
  <2> QED BY <1>2, <1>4, <2>1 DEF ToSet
<1> QED BY <1>1, <1>5, <1>6, <1>7

\* The recursion by which FlattenSeq is defined.
Upto(g, q, i) == IF i = 1 THEN q[i] ELSE g[i - 1] \o q[i]
IsFlat(g, q) == g = [i \in 1..Len(q) |-> Upto(g, q, i)]

LEMMA FlatExists ==
  ASSUME NEW q, Len(q) \in Nat
  PROVE  \E g : IsFlat(g, q)
<1> DEFINE Good(g, n) == \A i \in 1..Len(q) : i <= n => g[i] = Upto(g, q, i)
           T == {n \in Nat : \E g : Good(g, n)}
<1>1. 0 \in T
  <2>1. Good(<<>>, 0) OBVIOUS
  <2> QED BY <2>1
<1>2. ASSUME NEW n \in T PROVE n + 1 \in T
  <2>1. PICK g : Good(g, n) OBVIOUS
  <2> DEFINE h == [i \in 1..Len(q) |-> Upto(g, q, i)]
  <2>2. \A i \in 1..Len(q) : i <= n => h[i] = g[i] BY <2>1
  <2>3. ASSUME NEW i \in 1..Len(q), i <= n + 1 PROVE h[i] = Upto(h, q, i)
    <3>1. h[i] = Upto(g, q, i) OBVIOUS
    <3>2. CASE i = 1 BY <3>1, <3>2 DEF Upto
    <3>3. CASE i # 1
      <4>1. i - 1 \in 1..Len(q) /\ i - 1 <= n BY <2>3, <3>3
      <4>2. h[i - 1] = g[i - 1] BY <2>2, <4>1
      <4> HIDE DEF h
      <4> QED BY <3>1, <3>3, <4>2 DEF Upto
    <3> QED BY <3>2, <3>3
  <2>4. Good(h, n + 1) BY <2>3
  <2> HIDE DEF h, Good
  <2> QED BY <2>4
<1>3. T = Nat
  <2> HIDE DEF T
  <2>1. T \in SUBSET Nat BY DEF T
  <2> QED BY <1>1, <1>2, <2>1, Induction
<1>4. PICK g : Good(g, Len(q)) BY <1>3
<1>5. \A i \in 1..Len(q) : g[i] = Upto(g, q, i) BY <1>4
<1> DEFINE h == [i \in 1..Len(q) |-> g[i]]
<1>6. ASSUME NEW i \in 1..Len(q) PROVE h[i] = Upto(h, q, i)
  <2>1. CASE i = 1 BY <2>1, <1>5 DEF Upto
  <2>2. CASE i # 1
    <3>1. i - 1 \in 1..Len(q) BY <2>2
    <3>2. h[i - 1] = g[i - 1] BY <3>1
    <3>3. h[i] = g[i] OBVIOUS
    <3> HIDE DEF h
    <3> QED BY <2>2, <1>5, <3>2, <3>3 DEF Upto
  <2> QED BY <2>1, <2>2
<1>7. IsFlat(h, q)
  <2> DEFINE k == [i \in 1..Len(q) |-> Upto(h, q, i)]
  <2>1. \A i \in 1..Len(q) : h[i] = k[i] BY <1>6
  <2>2. h = k BY <2>1
  <2> QED BY <2>2 DEF IsFlat
<1> HIDE DEF h
<1> QED BY <1>7

LEMMA FlatElements ==
  ASSUME NEW S, NEW q \in Seq(Seq(S)), NEW g, IsFlat(g, q), NEW n \in 1..Len(q)
  PROVE  /\ g[n] \in Seq(S)
         /\ \A x : x \in ToSet(g[n]) <=> \E i \in 1..n : x \in ToSet(q[i])
<1> DEFINE Right(m) == /\ g[m] \in Seq(S)
                       /\ \A x : x \in ToSet(g[m]) <=> \E i \in 1..m : x \in ToSet(q[i])
           T == {m \in Nat : m \in 1..Len(q) => Right(m)}
<1>1. \A m \in 1..Len(q) : g[m] = Upto(g, q, m) BY DEF IsFlat
<1>2. \A m \in 1..Len(q) : q[m] \in Seq(S) OBVIOUS
<1>3. Len(q) \in Nat OBVIOUS
<1> HIDE DEF Right
<1>4. 0 \in T OBVIOUS
<1>5. ASSUME NEW m \in T, m + 1 \in 1..Len(q) PROVE Right(m + 1)
  <2>1. m \in Nat /\ (m \in 1..Len(q) => Right(m)) OBVIOUS
  <2>2. CASE m = 0
    <3>1. g[1] = q[1] /\ q[1] \in Seq(S) BY <1>1, <1>2, <1>5, <2>2 DEF Upto
    <3>2. 1..1 = {1} OBVIOUS
    <3> QED BY <2>2, <3>1, <3>2 DEF Right
  <2>3. CASE m # 0
    <3>1. m \in 1..Len(q) BY <1>3, <1>5, <2>1, <2>3
    <3>2. Right(m) BY <2>1, <3>1
    <3>3. g[m + 1] = g[m] \o q[m + 1] /\ q[m + 1] \in Seq(S)
      <4>1. (m + 1) - 1 = m /\ m + 1 # 1 BY <2>1, <2>3
      <4> QED BY <1>1, <1>2, <1>5, <4>1 DEF Upto
    <3>4. /\ g[m + 1] \in Seq(S)
          /\ \A x : x \in ToSet(g[m + 1]) <=> x \in ToSet(g[m]) \/ x \in ToSet(q[m + 1])
      BY <3>2, <3>3, ToSetConcat DEF Right
    <3>5. 1..(m + 1) = (1..m) \cup {m + 1} BY <2>1, SMTT(30)
    <3> QED BY <3>2, <3>4, <3>5 DEF Right
  <2> QED BY <2>2, <2>3
<1>6. \A m \in T : m + 1 \in T BY <1>5
<1>7. T = Nat
  <2> HIDE DEF T
  <2>1. T \in SUBSET Nat BY DEF T
  <2> QED BY <1>4, <1>6, <2>1, Induction
<1>8. Right(n)
  <2>1. n \in Nat BY <1>3
  <2> QED BY <1>7, <2>1
<1> QED BY <1>8 DEF Right

\* The elements of the flattened sequence are those of its sequences.
LEMMA FlattenElements ==
  ASSUME NEW S, NEW q \in Seq(Seq(S))
  PROVE  /\ FlattenSeq(q) \in Seq(S)
         /\ \A x : x \in ToSet(FlattenSeq(q)) <=> \E i \in DOMAIN q : x \in ToSet(q[i])
<1>1. CASE Len(q) = 0
  <2>1. q = <<>> BY <1>1
  <2>2. FlattenSeq(q) = <<>> BY <1>1, <2>1 DEF FlattenSeq
  <2>3. <<>> \in Seq(S) /\ DOMAIN q = {} BY <2>1
  <2>4. \A x : x \notin ToSet(<<>>) BY DEF ToSet
  <2> QED BY <2>2, <2>3, <2>4
<1>2. CASE Len(q) # 0
  <2>1. Len(q) \in 1..Len(q) /\ DOMAIN q = 1..Len(q) /\ Len(q) \in Nat BY <1>2
  <2> DEFINE f == CHOOSE f : IsFlat(f, q)
             r == f[Len(q)]
  <2>2. FlattenSeq(q) = r BY <1>2 DEF FlattenSeq, IsFlat, Upto
  <2>3. IsFlat(f, q) BY <2>1, FlatExists
  <2> HIDE DEF f
  <2>4. r \in Seq(S) /\ \A x : x \in ToSet(r) <=> \E i \in 1..Len(q) : x \in ToSet(q[i])
    BY <2>1, <2>3, FlatElements, ZenonT(60)
  <2> HIDE DEF r
  <2> QED BY <2>1, <2>2, <2>4
<1> QED BY <1>1, <1>2

----------------------------------------------------------------------------
(* What is left of a table, and what is made of a file *)

\* q keeps those of the rows that are in A.
Keeps(q, rows, A) == q = [i \in DOMAIN rows |-> IF rows[i] \in A THEN <<rows[i]>> ELSE <<>>]

LEMMA Kept ==
  ASSUME NEW S, NEW rows \in Seq(S), NEW A, NEW q, Keeps(q, rows, A)
  PROVE  /\ FlattenSeq(q) \in Seq(S)
         /\ \A x : x \in ToSet(FlattenSeq(q)) <=> x \in ToSet(rows) /\ x \in A
<1>1. DOMAIN rows = 1..Len(rows) /\ Len(rows) \in Nat /\ DOMAIN q = DOMAIN rows
      /\ \A i \in DOMAIN rows : rows[i] \in S
  BY DEF Keeps
<1>2. \A i \in DOMAIN rows : q[i] = IF rows[i] \in A THEN <<rows[i]>> ELSE <<>> BY DEF Keeps
<1>3. \A a : ToSet(<<a>>) = {a} BY DEF ToSet
<1>4. ToSet(<<>>) = {} BY DEF ToSet
<1>5. \A i \in DOMAIN rows : q[i] \in Seq(S) /\ \A x : x \in ToSet(q[i]) <=> x = rows[i] /\ x \in A
  <2> SUFFICES ASSUME NEW i \in DOMAIN rows
               PROVE  q[i] \in Seq(S) /\ \A x : x \in ToSet(q[i]) <=> x = rows[i] /\ x \in A
    OBVIOUS
  <2>1. CASE rows[i] \in A
    <3>1. q[i] = <<rows[i]>> /\ <<rows[i]>> \in Seq(S) BY <1>1, <1>2, <2>1
    <3>2. ToSet(q[i]) = {rows[i]} BY <1>3, <3>1
    <3> QED BY <2>1, <3>1, <3>2
  <2>2. CASE rows[i] \notin A
    <3>1. q[i] = <<>> BY <1>2, <2>2
    <3>2. <<>> \in Seq(S) OBVIOUS
    <3> QED BY <1>4, <2>2, <3>1, <3>2
  <2> QED BY <2>1, <2>2
<1>6. q \in Seq(Seq(S))
  <2>1. q = [i \in 1..Len(rows) |-> q[i]] BY <1>1 DEF Keeps
  <2>2. \A i \in 1..Len(rows) : q[i] \in Seq(S) BY <1>1, <1>5
  <2> QED BY <1>1, <2>1, <2>2
<1>7. \A x : x \in ToSet(rows) <=> \E i \in DOMAIN rows : x = rows[i] BY DEF ToSet
<1>8. /\ FlattenSeq(q) \in Seq(S)
      /\ \A x : x \in ToSet(FlattenSeq(q)) <=> \E i \in DOMAIN rows : x \in ToSet(q[i])
  BY <1>1, <1>6, FlattenElements
<1> QED BY <1>5, <1>7, <1>8

LEMMA MineRows ==
  ASSUME NEW table \in Seq(Row)
  PROVE  /\ Mine(table) \in Seq(Row)
         /\ \A r : r \in ToSet(Mine(table)) <=> r \in ToSet(table) /\ r.id = id
<1> DEFINE A == {r \in ToSet(table) : r.id = id}
           q == [i \in DOMAIN table |-> IF table[i].id = id THEN <<table[i]>> ELSE <<>>]
<1>1. \A i \in DOMAIN table : table[i] \in A <=> table[i].id = id BY DEF ToSet
<1>2. Keeps(q, table, A) BY <1>1 DEF Keeps
<1>3. Mine(table) = FlattenSeq(q) BY DEF Mine, Only
<1> HIDE DEF q
<1>4. /\ FlattenSeq(q) \in Seq(Row)
      /\ \A x : x \in ToSet(FlattenSeq(q)) <=> x \in ToSet(table) /\ x \in A
  BY <1>2, Kept
<1> QED BY <1>3, <1>4

LEMMA KnownRows ==
  ASSUME NEW table \in Seq(Row)
  PROVE  /\ Only(table, Known) \in Seq(Row)
         /\ \A r : r \in ToSet(Only(table, Known)) <=> r \in ToSet(table) /\ Known(r)
<1> DEFINE A == {r \in ToSet(table) : Known(r)}
           q == [i \in DOMAIN table |-> IF Known(table[i]) THEN <<table[i]>> ELSE <<>>]
<1>1. \A i \in DOMAIN table : table[i] \in A <=> Known(table[i]) BY DEF ToSet
<1>2. Keeps(q, table, A) BY <1>1 DEF Keeps
<1>3. Only(table, Known) = FlattenSeq(q) BY DEF Only
<1> HIDE DEF q
<1>4. /\ FlattenSeq(q) \in Seq(Row)
      /\ \A x : x \in ToSet(FlattenSeq(q)) <=> x \in ToSet(table) /\ x \in A
  BY <1>2, Kept
<1> QED BY <1>3, <1>4

LEMMA UsableRows ==
  ASSUME NEW table \in Seq(Row)
  PROVE  /\ Usable(table) \in Seq(Row)
         /\ \A r : r \in ToSet(Usable(table)) <=>
                     r \in ToSet(table) /\ r.id = id /\ r.soff # r.eoff /\ Known(r)
<1> DEFINE m == Mine(table)
           A == {r \in ToSet(m) : r.soff # r.eoff /\ Known(r)}
           q == [i \in DOMAIN m |-> IF m[i].soff # m[i].eoff /\ Known(m[i]) THEN <<m[i]>> ELSE <<>>]
<1>1. \A i \in DOMAIN m : m[i] \in A <=> m[i].soff # m[i].eoff /\ Known(m[i]) BY DEF ToSet
<1>2. Keeps(q, m, A) BY <1>1 DEF Keeps
<1>3. Usable(table) = FlattenSeq(q) BY DEF Usable, Only
<1>4. m \in Seq(Row) /\ \A r : r \in ToSet(m) <=> r \in ToSet(table) /\ r.id = id BY MineRows
<1> HIDE DEF q, m
<1>5. /\ FlattenSeq(q) \in Seq(Row)
      /\ \A x : x \in ToSet(FlattenSeq(q)) <=> x \in ToSet(m) /\ x \in A
  BY <1>2, <1>4, Kept
<1> QED BY <1>3, <1>4, <1>5

\* The lines of a file, and of a table whatever its order.
AnyLine == {Line(r) : r \in Row}

LEMMA LinesOfRows ==
  ASSUME NEW rows \in Seq(Row)
  PROVE  /\ Lines(rows) \in Seq(AnyLine)
         /\ ToSet(Lines(rows)) = {Line(r) : r \in ToSet(rows)}
         /\ Lines(rows) = <<>> <=> ToSet(rows) = {}
<1>1. /\ DOMAIN rows = 1..Len(rows) /\ Len(rows) \in Nat
      /\ \A i \in DOMAIN rows : rows[i] \in Row
  OBVIOUS
<1>2. Lines(rows) = [i \in 1..Len(rows) |-> Line(rows[i])] BY <1>1 DEF Lines
<1>3. \A i \in 1..Len(rows) : Line(rows[i]) \in AnyLine BY <1>1 DEF AnyLine
<1>4. Lines(rows) \in Seq(AnyLine) BY <1>1, <1>2, <1>3
<1>5. ToSet(Lines(rows)) = {Line(r) : r \in ToSet(rows)} BY <1>1, <1>2 DEF ToSet
<1>6. Lines(rows) = <<>> <=> Len(rows) = 0
  <2>1. Len(Lines(rows)) = Len(rows) BY <1>1, <1>2
  <2> QED BY <1>4, <2>1
<1>7. ToSet(rows) = {} <=> Len(rows) = 0
  <2>1. CASE Len(rows) = 0
    <3>1. DOMAIN rows = {} BY <1>1, <2>1
    <3> QED BY <2>1, <3>1 DEF ToSet
  <2>2. CASE Len(rows) # 0
    <3>1. 1 \in DOMAIN rows BY <1>1, <2>2
    <3>2. rows[1] \in ToSet(rows) BY <3>1 DEF ToSet
    <3> QED BY <2>2, <3>2
  <2> QED BY <2>1, <2>2
<1> QED BY <1>4, <1>5, <1>6, <1>7

LEMMA LineFields ==
  ASSUME NEW r \in Row
  PROVE  /\ Line(r).func = r.func /\ Line(r).addr = Kallsyms[r.func]
         /\ Line(r).soff = r.soff /\ Line(r).eoff = r.eoff
         /\ Line(r).func \in DOMAIN NameLen
  BY DEF Line, Row

\* What the module makes of one line: nothing, or a span that begins where the
\* line's does, under its name or under none.
LEMMA ParsedLine ==
  ASSUME NEW l \in AnyLine, NEW start
  PROVE  \/ Parsed(l, start) = <<>>
         \/ \E y : /\ Parsed(l, start) = <<y>> /\ y.addr = l.addr /\ y.soff = l.soff
                   /\ y.func \in {l.func, "-"}
<1>1. PICK r \in Row : l = Line(r) BY DEF AnyLine
<1>2. l = [func |-> r.func, addr |-> Kallsyms[r.func], soff |-> r.soff, eoff |-> r.eoff]
  BY <1>1 DEF Line
<1>3. ASSUME NEW c
      PROVE  \/ Cut(l, c) = <<>>
             \/ \E y : Cut(l, c) = <<y>> /\ y.addr = l.addr /\ y.soff = l.soff
                       /\ y.func \in {l.func, "-"}
  <2> DEFINE d == Digits(l.eoff)
             y1 == [l EXCEPT !.func = "-"]
             y2 == [l EXCEPT !.eoff = 0]
             y3 == [l EXCEPT !.eoff = @ \div Radix^(d - (c - EoffFrom(l) - 2))]
  <2>1. Cut(l, c) = CASE c <= NameEnd(l) -> <<y1>>
                      [] c = EoffFrom(l) + 1 -> <<y2>>
                      [] c > EoffFrom(l) + 2 -> <<y3>>
                      [] OTHER -> <<>>
    BY DEF Cut
  <2>2. /\ y1.addr = l.addr /\ y1.soff = l.soff /\ y1.func = "-"
        /\ y2.addr = l.addr /\ y2.soff = l.soff /\ y2.func = l.func
        /\ y3.addr = l.addr /\ y3.soff = l.soff /\ y3.func = l.func
    BY <1>2
  <2> HIDE DEF y1, y2, y3
  <2>3. Cut(l, c) \in {<<y1>>, <<y2>>, <<y3>>, <<>>} BY <2>1
  <2> QED BY <2>2, <2>3
<1>4. Parsed(l, start) = <<l>> \/ \E c : Parsed(l, start) = Cut(l, c) BY DEF Parsed
<1> QED BY <1>3, <1>4

\* The module's spans, of any file.
LEMMA ReadLines ==
  ASSUME NEW file \in Seq(AnyLine)
  PROVE  \A x : x \in ToSet(ReadSpans(file)) <=>
                  /\ x.soff # x.eoff
                  /\ \E i \in DOMAIN file : x \in ToSet(Parsed(file[i], From(file, i)))
<1> DEFINE p == [i \in DOMAIN file |-> Parsed(file[i], From(file, i))]
           S == UNION {ToSet(p[i]) : i \in DOMAIN file}
           f == FlattenSeq(p)
           A == {x \in ToSet(f) : x.soff # x.eoff}
           q == [i \in DOMAIN f |-> IF f[i].soff # f[i].eoff THEN <<f[i]>> ELSE <<>>]
<1>1. DOMAIN file = 1..Len(file) /\ Len(file) \in Nat /\ \A i \in DOMAIN file : file[i] \in AnyLine
  OBVIOUS
<1>2. \A i \in DOMAIN file : p[i] \in Seq(S)
  <2> SUFFICES ASSUME NEW i \in DOMAIN file PROVE p[i] \in Seq(S) OBVIOUS
  <2>1. p[i] = <<>> \/ \E y : p[i] = <<y>> BY <1>1, ParsedLine
  <2>2. ToSet(p[i]) \subseteq S OBVIOUS
  <2> HIDE DEF p, S
  <2>3. CASE p[i] = <<>> BY <2>3
  <2>4. ASSUME NEW y, p[i] = <<y>> PROVE p[i] \in Seq(S)
    <3>1. y \in ToSet(<<y>>) BY DEF ToSet
    <3> QED BY <2>2, <2>4, <3>1
  <2> QED BY <2>1, <2>3, <2>4
<1>3. p \in Seq(Seq(S))
  <2>1. p = [i \in 1..Len(file) |-> p[i]] BY <1>1
  <2> HIDE DEF p, S
  <2> QED BY <1>1, <1>2, <2>1
<1>4. DOMAIN p = DOMAIN file /\ \A i \in DOMAIN file : p[i] = Parsed(file[i], From(file, i)) OBVIOUS
<1>5. ReadSpans(file) = FlattenSeq(q) BY DEF ReadSpans, Only
<1> HIDE DEF p, S
<1>6. f \in Seq(S) /\ \A x : x \in ToSet(f) <=> \E i \in DOMAIN file : x \in ToSet(p[i])
  BY <1>3, <1>4, FlattenElements
<1> HIDE DEF f
<1>7. \A i \in DOMAIN f : f[i] \in A <=> f[i].soff # f[i].eoff BY DEF ToSet
<1>8. Keeps(q, f, A) BY <1>7 DEF Keeps
<1> HIDE DEF q
<1>9. \A x : x \in ToSet(FlattenSeq(q)) <=> x \in ToSet(f) /\ x \in A BY <1>6, <1>8, Kept
<1> QED BY <1>4, <1>5, <1>6, <1>9

----------------------------------------------------------------------------
(* How far a load has come, and what that says of the files and tables *)

\* The lines of the critical and of the safe spans of the ConstID that is
\* being loaded, and of all of them.
Critical == {Line(r) : r \in {x \in ToSet(csRaw) : x.id = id /\ Known(x)}}
Safe     == {Line(r) : r \in {x \in ToSet(ssRaw) : x.id = id /\ x.soff # x.eoff /\ Known(x)}}
HasSafe  == \E r \in ToSet(ssRaw) : r.id = id
AllOf(table) == {Line(r) : r \in {x \in ToSet(table) : Known(x)}}

Typed ==
  /\ csRaw \in CsTables /\ ssRaw \in SsTables
  /\ pc \in {"idle", "cs", "ss", "header", "fill cs", "fill ss", "insmod", "loaded"}
  /\ id \in Ids /\ mode \in 0..2
  /\ csFile \in Seq(AnyLine) /\ ssFile \in Seq(AnyLine)
  /\ ToSet(csFile) \subseteq AllOf(csRaw)
  /\ ToSet(ssFile) \cup guards \subseteq AllOf(csRaw) \cup AllOf(ssRaw)

Loading ==
  /\ cs \cup ss \subseteq Extents(Critical \cup Safe)
  /\ pc \in {"ss", "header", "fill cs", "fill ss", "insmod", "loaded"} => ToSet(csFile) = Critical
  /\ pc \in {"header", "fill cs", "fill ss", "insmod", "loaded"} =>
       ToSet(ssFile) = IF HasSafe THEN Safe ELSE Critical
  /\ pc \in {"fill cs", "fill ss", "insmod", "loaded"} =>
       guards = IF mode = 1 THEN ToSet(ssFile) ELSE {}
  /\ pc \in {"fill ss", "insmod", "loaded"} => cs = Extents(ToSet(csFile))
  /\ pc \in {"insmod", "loaded"} => ss = Extents(ToSet(ssFile))
  /\ pc = "insmod" => mode = 2
  /\ list = IF pc = "loaded" /\ mode = 2 THEN ReadSpans(ssFile) ELSE <<>>

LEMMA Tables == ASSUME Typed PROVE csRaw \in Seq(Row) /\ ssRaw \in Seq(Row)
  BY FileAssumption DEF Typed

LEMMA SmallLists == /\ Lines(<<>>) = <<>> /\ ToSet(<<>>) = {} /\ <<>> \in Seq(AnyLine)
<1>1. ToSet(<<>>) = {} BY DEF ToSet
<1>2. Lines(<<>>) = <<>> BY DEF Lines
<1>3. <<>> \in Seq(AnyLine) OBVIOUS
<1> QED BY <1>1, <1>2, <1>3

LEMMA Elements ==
  ASSUME NEW S, NEW s \in Seq(S)
  PROVE  ToSet(s) \subseteq S /\ (s = <<>> <=> ToSet(s) = {})
<1>1. ToSet(s) \subseteq S
  <2>1. \A i \in DOMAIN s : s[i] \in S OBVIOUS
  <2> QED BY <2>1 DEF ToSet
<1>2. ASSUME s # <<>> PROVE ToSet(s) # {}
  <2>1. 1 \in DOMAIN s BY <1>2
  <2>2. s[1] \in ToSet(s) BY <2>1 DEF ToSet
  <2> QED BY <2>2
<1> QED BY <1>1, <1>2, SmallLists

\* The file of critical spans after it is written.
LEMMA CsWritten ==
  ASSUME Typed
  PROVE  LET file == Lines(Only(Mine(csRaw), Known))
         IN file \in Seq(AnyLine) /\ ToSet(file) = Critical /\ ToSet(file) \subseteq AllOf(csRaw)
<1> DEFINE rows == Only(Mine(csRaw), Known)
<1>1. csRaw \in Seq(Row) BY Tables
<1>2. /\ Mine(csRaw) \in Seq(Row)
      /\ \A r : r \in ToSet(Mine(csRaw)) <=> r \in ToSet(csRaw) /\ r.id = id
  BY <1>1, MineRows
<1>3. /\ rows \in Seq(Row)
      /\ \A r : r \in ToSet(rows) <=> r \in ToSet(Mine(csRaw)) /\ Known(r)
  BY <1>2, KnownRows
<1> HIDE DEF rows
<1>4. \A r : r \in ToSet(rows) <=> r \in ToSet(csRaw) /\ r.id = id /\ Known(r) BY <1>2, <1>3
<1>5. Lines(rows) \in Seq(AnyLine) /\ ToSet(Lines(rows)) = {Line(r) : r \in ToSet(rows)}
  BY <1>3, LinesOfRows
<1>6. {Line(r) : r \in ToSet(rows)} = Critical BY <1>4 DEF Critical
<1>7. Critical \subseteq AllOf(csRaw) BY DEF Critical, AllOf
<1> QED BY <1>5, <1>6, <1>7 DEF rows

\* And the file of safe spans, if the build wrote any for the ConstID.
LEMMA SsWritten ==
  ASSUME Typed
  PROVE  LET file == Lines(Usable(ssRaw))
         IN /\ file \in Seq(AnyLine) /\ ToSet(file) = Safe /\ ToSet(file) \subseteq AllOf(ssRaw)
            /\ Mine(ssRaw) = <<>> <=> ~HasSafe
<1> DEFINE rows == Usable(ssRaw)
<1>1. ssRaw \in Seq(Row) BY Tables
<1>2. /\ rows \in Seq(Row)
      /\ \A r : r \in ToSet(rows) <=>
                  r \in ToSet(ssRaw) /\ r.id = id /\ r.soff # r.eoff /\ Known(r)
  BY <1>1, UsableRows
<1> HIDE DEF rows
<1>3. Lines(rows) \in Seq(AnyLine) /\ ToSet(Lines(rows)) = {Line(r) : r \in ToSet(rows)}
  BY <1>2, LinesOfRows
<1>4. {Line(r) : r \in ToSet(rows)} = Safe BY <1>2 DEF Safe
<1>5. Safe \subseteq AllOf(ssRaw) BY DEF Safe, AllOf
<1>6. Mine(ssRaw) = <<>> <=> ~HasSafe
  <2>1. /\ Mine(ssRaw) \in Seq(Row)
        /\ \A r : r \in ToSet(Mine(ssRaw)) <=> r \in ToSet(ssRaw) /\ r.id = id
    BY <1>1, MineRows
  <2>2. Mine(ssRaw) = <<>> <=> ToSet(Mine(ssRaw)) = {} BY <2>1, Elements
  <2> QED BY <2>1, <2>2 DEF HasSafe
<1> QED BY <1>3, <1>4, <1>5, <1>6 DEF rows

LEMMA LoadStep ==
  ASSUME Typed, Loading, Next
  PROVE  Typed' /\ Loading'
<1>1. ASSUME NEW i \in Ids, NEW m \in 0..2, Load(i, m) PROVE Typed' /\ Loading'
  <2>1. UNCHANGED <<csRaw, ssRaw, csFile, ssFile, guards>> BY <1>1 DEF Load, raw
  <2>2. pc' = "cs" /\ id' = i /\ mode' = m /\ cs' = {} /\ ss' = {} /\ list' = <<>>
    BY <1>1 DEF Load
  <2>3. Typed' BY <2>1, <2>2 DEF Typed
  <2>4. Loading' BY <2>2 DEF Loading
  <2> QED BY <2>3, <2>4
<1>2. ASSUME UNCHANGED <<csRaw, ssRaw, id, mode>>
      PROVE  UNCHANGED <<Critical, Safe, HasSafe>>
  BY <1>2 DEF Critical, Safe, HasSafe
<1>3. CASE WriteCs
  <2>1. /\ pc = "cs" /\ pc' = "ss" /\ csFile' = Lines(Only(Mine(csRaw), Known))
        /\ UNCHANGED <<csRaw, ssRaw, id, mode, ssFile, guards, cs, ss, list>>
    BY <1>3 DEF WriteCs, raw
  <2>2. /\ csFile' \in Seq(AnyLine) /\ ToSet(csFile') = Critical
        /\ ToSet(csFile') \subseteq AllOf(csRaw)
    BY <2>1, CsWritten
  <2>3. Typed' BY <2>1, <2>2 DEF Typed
  <2>4. UNCHANGED <<Critical, Safe, HasSafe>> BY <1>2, <2>1
  <2>5. Loading' BY <2>1, <2>2, <2>4 DEF Loading
  <2> QED BY <2>3, <2>5
<1>4. CASE WriteSs
  <2>1. /\ pc = "ss" /\ pc' = "header"
        /\ UNCHANGED <<csRaw, ssRaw, id, mode, csFile, guards, cs, ss, list>>
        /\ ssFile' = IF Mine(ssRaw) = <<>> THEN csFile ELSE Lines(Usable(ssRaw))
    BY <1>4 DEF WriteSs, Usable, raw
  <2>2. /\ ssFile' = IF HasSafe THEN Lines(Usable(ssRaw)) ELSE csFile
        /\ Lines(Usable(ssRaw)) \in Seq(AnyLine) /\ ToSet(Lines(Usable(ssRaw))) = Safe
        /\ ToSet(Lines(Usable(ssRaw))) \subseteq AllOf(ssRaw)
    BY <2>1, SsWritten
  <2>3. ToSet(csFile) = Critical BY <2>1 DEF Loading
  <2>4. ToSet(ssFile') = IF HasSafe THEN Safe ELSE Critical BY <2>2, <2>3
  <2>5. Typed' BY <2>1, <2>2 DEF Typed
  <2>6. UNCHANGED <<Critical, Safe, HasSafe>> BY <1>2, <2>1
  <2>7. Loading' BY <2>1, <2>3, <2>4, <2>6 DEF Loading
  <2> QED BY <2>5, <2>7
<1>5. CASE WriteHeader
  <2>1. /\ pc = "header" /\ pc' \in {"idle", "fill cs"}
        /\ UNCHANGED <<csRaw, ssRaw, id, mode, csFile, ssFile, cs, ss, list>>
        /\ guards' = IF mode = 1 THEN ToSet(ssFile) ELSE {}
    BY <1>5 DEF WriteHeader, raw
  <2>2. Typed' BY <2>1 DEF Typed
  <2>3. UNCHANGED <<Critical, Safe, HasSafe>> BY <1>2, <2>1
  <2>4. Loading' BY <2>1, <2>3 DEF Loading
  <2> QED BY <2>2, <2>4
<1>6. CASE FillCs
  <2>1. /\ pc = "fill cs" /\ pc' = "fill ss" /\ ss' = {} /\ cs' = Extents(ToSet(csFile))
        /\ UNCHANGED <<csRaw, ssRaw, id, mode, csFile, ssFile, guards, list>>
    BY <1>6 DEF FillCs, raw, Extents
  <2>2. Typed' BY <2>1 DEF Typed
  <2>3. UNCHANGED <<Critical, Safe, HasSafe>> BY <1>2, <2>1
  <2>4. ToSet(csFile) = Critical BY <2>1 DEF Loading
  <2>5. cs' \cup ss' \subseteq Extents(Critical \cup Safe) BY <2>1, <2>4 DEF Extents
  <2>6. Loading' BY <2>1, <2>3, <2>5 DEF Loading
  <2> QED BY <2>2, <2>6
<1>7. CASE FillSs
  <2>1. /\ pc = "fill ss" /\ pc' = (IF mode = 2 THEN "insmod" ELSE "loaded")
        /\ ss' = Extents(ToSet(ssFile))
        /\ UNCHANGED <<csRaw, ssRaw, id, mode, csFile, ssFile, guards, cs, list>>
    BY <1>7 DEF FillSs, raw, Extents
  <2>2. Typed' BY <2>1 DEF Typed
  <2>3. UNCHANGED <<Critical, Safe, HasSafe>> BY <1>2, <2>1
  <2>4. ToSet(ssFile) \subseteq Critical \cup Safe BY <2>1 DEF Loading
  <2>5. cs \subseteq Extents(Critical \cup Safe) BY DEF Loading
  <2>6. cs' \cup ss' \subseteq Extents(Critical \cup Safe) BY <2>1, <2>4, <2>5 DEF Extents
  <2>7. Loading' BY <2>1, <2>3, <2>6 DEF Loading
  <2> QED BY <2>2, <2>7
<1>8. CASE Insmod
  <2>1. /\ pc = "insmod" /\ pc' = "loaded" /\ list' = ReadSpans(ssFile)
        /\ UNCHANGED <<csRaw, ssRaw, id, mode, csFile, ssFile, guards, cs, ss>>
    BY <1>8 DEF Insmod, raw
  <2>2. Typed' BY <2>1 DEF Typed
  <2>3. UNCHANGED <<Critical, Safe, HasSafe>> BY <1>2, <2>1
  <2>4. Loading' BY <2>1, <2>3 DEF Loading
  <2> QED BY <2>2, <2>4
<1>9. CASE Kill
  <2>1. /\ pc # "loaded" /\ pc' = "idle"
        /\ UNCHANGED <<csRaw, ssRaw, id, mode, csFile, ssFile, guards, cs, ss, list>>
    BY <1>9 DEF Kill, raw
  <2>2. Typed' BY <2>1 DEF Typed
  <2>3. UNCHANGED <<Critical, Safe, HasSafe>> BY <1>2, <2>1
  <2>4. Loading' BY <2>1, <2>3 DEF Loading
  <2> QED BY <2>2, <2>4
<1> QED BY <1>1, <1>3, <1>4, <1>5, <1>6, <1>7, <1>8, <1>9 DEF Next

LEMMA LoadingHolds == Spec => [](Typed /\ Loading)
<1>1. Init => Typed /\ Loading
  <2> SUFFICES ASSUME Init PROVE Typed /\ Loading OBVIOUS
  <2>1. Typed BY SmallLists DEF Init, Typed
  <2>2. Loading BY DEF Init, Loading
  <2> QED BY <2>1, <2>2
<1>2. Typed /\ Loading /\ [Next]_vars => Typed' /\ Loading'
  <2> SUFFICES ASSUME Typed, Loading, [Next]_vars PROVE Typed' /\ Loading' OBVIOUS
  <2>1. CASE UNCHANGED vars
    <3>1. UNCHANGED <<csRaw, ssRaw, pc, id, mode, csFile, ssFile, guards, cs, ss, list>>
      BY <2>1 DEF vars, raw
    <3>2. UNCHANGED <<Critical, Safe, HasSafe>> BY <3>1 DEF Critical, Safe, HasSafe
    <3>3. Typed' BY <3>1 DEF Typed
    <3>4. Loading' BY <3>1, <3>2 DEF Loading
    <3> QED BY <3>3, <3>4
  <2> QED BY <2>1, LoadStep
<1> QED BY <1>1, <1>2, PTL DEF Spec

\* Lines(Only(table, Known)), whatever the order of the table.
LEMMA KnownLines ==
  ASSUME NEW table \in Seq(Row)
  PROVE  ToSet(Lines(Only(table, Known))) = AllOf(table)
<1> DEFINE rows == Only(table, Known)
<1>1. rows \in Seq(Row) /\ \A r : r \in ToSet(rows) <=> r \in ToSet(table) /\ Known(r)
  BY KnownRows
<1> HIDE DEF rows
<1>2. ToSet(Lines(rows)) = {Line(r) : r \in ToSet(rows)} BY <1>1, LinesOfRows
<1>3. ToSet(Lines(rows)) = AllOf(table) BY <1>1, <1>2 DEF AllOf
<1> QED BY <1>3 DEF rows

\* A span of the module is a line of the file, but for a name or an end that
\* may have been cut.
LEMMA ListedLines ==
  ASSUME Typed, Loading, NEW x \in ToSet(list)
  PROVE  /\ mode = 2 /\ pc = "loaded" /\ x.soff # x.eoff
         /\ \E l \in ToSet(ssFile) : /\ x.addr = l.addr /\ x.soff = l.soff
                                     /\ x.func \in {l.func, "-"}
<1>1. mode = 2 /\ pc = "loaded" /\ list = ReadSpans(ssFile)
  <2>1. list # <<>> BY SmallLists
  <2> QED BY <2>1 DEF Loading
<1>2. ssFile \in Seq(AnyLine) BY DEF Typed
<1>3. /\ x.soff # x.eoff
      /\ \E i \in DOMAIN ssFile : x \in ToSet(Parsed(ssFile[i], From(ssFile, i)))
  BY <1>1, <1>2, ReadLines
<1>4. PICK i \in DOMAIN ssFile : x \in ToSet(Parsed(ssFile[i], From(ssFile, i))) BY <1>3
<1>5. ssFile[i] \in AnyLine /\ ssFile[i] \in ToSet(ssFile) BY <1>2 DEF ToSet
<1>6. ToSet(Parsed(ssFile[i], From(ssFile, i))) # {} BY <1>4
<1>7. PICK y : /\ Parsed(ssFile[i], From(ssFile, i)) = <<y>>
               /\ y.addr = ssFile[i].addr /\ y.soff = ssFile[i].soff
               /\ y.func \in {ssFile[i].func, "-"}
  <2>1. Parsed(ssFile[i], From(ssFile, i)) # <<>> BY <1>6, SmallLists
  <2> QED BY <1>5, <2>1, ParsedLine
<1>8. x = y
  <2>1. ToSet(<<y>>) = {y} BY DEF ToSet
  <2> QED BY <1>4, <1>7, <2>1
<1> QED BY <1>1, <1>3, <1>5, <1>7, <1>8

\* The types of the variables, and that the module lists no span without width.
THEOREM TypeCorrect == Spec => []TypeOK
<1>1. Typed /\ Loading => TypeOK
  <2> SUFFICES ASSUME Typed, Loading PROVE TypeOK OBVIOUS
  <2>1. /\ ToSet(Lines(Only(csRaw, Known))) = AllOf(csRaw)
        /\ ToSet(Lines(Only(ssRaw, Known))) = AllOf(ssRaw)
    BY Tables, KnownLines
  <2>2. Critical \cup Safe \subseteq AllOf(csRaw) \cup AllOf(ssRaw)
    BY DEF Critical, Safe, AllOf
  <2>3. cs \cup ss \subseteq {Extent(l) : l \in AllOf(csRaw) \cup AllOf(ssRaw)}
    BY <2>2 DEF Loading, Extents
  <2>4. ASSUME NEW x \in ToSet(list)
        PROVE  x.func \in DOMAIN NameLen \cup {"-"} /\ x.soff # x.eoff
    <3>1. PICK l \in ToSet(ssFile) : x.func \in {l.func, "-"} BY ListedLines
    <3>2. l \in AnyLine BY <3>1, Elements DEF Typed
    <3>3. l.func \in DOMAIN NameLen BY <3>2, LineFields DEF AnyLine
    <3> QED BY <3>1, <3>3, ListedLines
  <2>5. /\ ToSet(csFile) \subseteq ToSet(Lines(Only(csRaw, Known)))
        /\ ToSet(ssFile) \cup guards \subseteq
             ToSet(Lines(Only(csRaw, Known))) \cup ToSet(Lines(Only(ssRaw, Known)))
        /\ cs \cup ss \subseteq {Extent(l) : l \in ToSet(Lines(Only(csRaw, Known)))
                                                   \cup ToSet(Lines(Only(ssRaw, Known)))}
    BY <2>1, <2>3 DEF Typed
  <2> QED BY <2>4, <2>5 DEF Typed, TypeOK
<1> QED BY <1>1, LoadingHolds, PTL

\* The usable rows of the two tables, as lines.
LEMMA OwnLines ==
  ASSUME Typed
  PROVE  /\ ToSet(Lines(Usable(csRaw))) = Critical
         /\ ToSet(Lines(Usable(ssRaw))) = Safe
         /\ Usable(ssRaw) = <<>> <=> Safe = {}
<1>1. csRaw \in Seq(Row) /\ ssRaw \in Seq(Row) BY Tables
<1>2. \A r \in ToSet(csRaw) : r.soff # r.eoff
  <2>1. \A r \in ToSet(csRaw) : r \in Row BY <1>1, Elements
  <2>2. \A r \in ToSet(csRaw) : r.soff < r.eoff BY FileAssumption DEF Typed
  <2> QED BY <2>1, <2>2 DEF Row
<1>3. /\ Usable(csRaw) \in Seq(Row) /\ Usable(ssRaw) \in Seq(Row)
      /\ \A r : r \in ToSet(Usable(csRaw)) <=> r \in ToSet(csRaw) /\ r.id = id /\ Known(r)
      /\ \A r : r \in ToSet(Usable(ssRaw)) <=>
                  r \in ToSet(ssRaw) /\ r.id = id /\ r.soff # r.eoff /\ Known(r)
  <2>1. \A r : r \in ToSet(Usable(csRaw)) <=>
                 r \in ToSet(csRaw) /\ r.id = id /\ r.soff # r.eoff /\ Known(r)
    BY <1>1, UsableRows
  <2> QED BY <1>1, <1>2, <2>1, UsableRows
<1>4. /\ ToSet(Lines(Usable(csRaw))) = {Line(r) : r \in ToSet(Usable(csRaw))}
      /\ ToSet(Lines(Usable(ssRaw))) = {Line(r) : r \in ToSet(Usable(ssRaw))}
  BY <1>3, LinesOfRows
<1>5. {Line(r) : r \in ToSet(Usable(csRaw))} = Critical BY <1>3 DEF Critical
<1>6. {Line(r) : r \in ToSet(Usable(ssRaw))} = Safe BY <1>3 DEF Safe
<1>7. Usable(ssRaw) = <<>> <=> Safe = {}
  <2> DEFINE u == Usable(ssRaw)
  <2>1. u \in Seq(Row) /\ Safe = {Line(r) : r \in ToSet(u)} BY <1>3, <1>6
  <2>2. u = <<>> <=> ToSet(u) = {} BY <2>1, Elements
  <2> HIDE DEF u
  <2>3. Safe = {} <=> ToSet(u) = {} BY <2>1
  <2> QED BY <2>2, <2>3 DEF u
<1> QED BY <1>4, <1>5, <1>6, <1>7

\* Guards, BPF tables and the module have spans of the ConstID that is being
\* loaded only, whatever earlier loads have left in the files.
THEOREM OwnSpansOnlyTheorem == Spec => []OwnSpansOnly
<1>1. Typed /\ Loading => OwnSpansOnly
  <2> SUFFICES ASSUME Typed, Loading PROVE OwnSpansOnly OBVIOUS
  <2> DEFINE own == ToSet(Lines(Usable(csRaw))) \cup ToSet(Lines(Usable(ssRaw)))
  <2>1. own = Critical \cup Safe BY OwnLines
  <2>2. pc \in {"header", "fill cs", "fill ss", "insmod", "loaded"} =>
          ToSet(ssFile) \subseteq Critical \cup Safe
    BY DEF Loading
  <2>3. pc \in {"fill cs", "fill ss", "insmod", "loaded"} => guards \subseteq own
    BY <2>1, <2>2 DEF Loading
  <2>4. cs \cup ss \subseteq Extents(own) BY <2>1 DEF Loading
  <2>5. ASSUME NEW x \in ToSet(list)
        PROVE  \E o \in own : x.addr = o.addr /\ x.soff = o.soff
    <3>1. PICK l \in ToSet(ssFile) : x.addr = l.addr /\ x.soff = l.soff BY ListedLines
    <3>2. pc = "loaded" BY ListedLines
    <3>3. l \in own BY <2>1, <2>2, <3>1, <3>2
    <3> HIDE DEF own
    <3> QED BY <3>1, <3>3
  <2> QED BY <2>3, <2>4, <2>5 DEF OwnSpansOnly
<1> QED BY <1>1, LoadingHolds, PTL

\* What a loaded ConstID's stack check searches.
LEMMA SearchedIs ==
  ASSUME Typed, Loading, pc = "loaded"
  PROVE  /\ Searched = Extents(IF Safe = {} THEN Critical ELSE Safe)
         /\ ToSet(ssFile) # {} => Searched = Extents(ToSet(ssFile))
<1>1. /\ ToSet(ssFile) = (IF HasSafe THEN Safe ELSE Critical)
      /\ cs = Extents(Critical) /\ ss = Extents(ToSet(ssFile))
  BY DEF Loading
<1>2. \A lines : Extents(lines) = {} <=> lines = {} BY DEF Extents
<1>3. ~HasSafe => Safe = {} BY DEF HasSafe, Safe
<1>4. ToSet(ssFile) # {} => Searched = Extents(ToSet(ssFile)) BY <1>1, <1>2 DEF Searched
<1>5. Searched = Extents(IF Safe = {} THEN Critical ELSE Safe)
  <2>1. CASE ToSet(ssFile) = {}
    <3>1. Searched = Extents(Critical) BY <1>1, <1>2, <2>1 DEF Searched
    <3>2. Safe = {} BY <1>1, <1>3, <2>1
    <3> QED BY <3>1, <3>2
  <2>2. CASE ToSet(ssFile) # {}
    <3>1. ToSet(ssFile) = IF Safe = {} THEN Critical ELSE Safe BY <1>1, <1>3, <2>2
    <3> QED BY <1>4, <2>2, <3>1
  <2> QED BY <2>1, <2>2
<1> QED BY <1>4, <1>5

\* The stack check looks for the usable safe spans of the build, or for the
\* critical spans when it has none.
THEOREM RowsAreSearchedTheorem == Spec => []RowsAreSearched
<1>1. Typed /\ Loading => RowsAreSearched
  <2> SUFFICES ASSUME Typed, Loading, pc = "loaded"
               PROVE  Searched = Extents(ToSet(Lines(Usable(
                                   IF Usable(ssRaw) = <<>> THEN csRaw ELSE ssRaw))))
    BY DEF RowsAreSearched
  <2>1. CASE Usable(ssRaw) = <<>>
    <3>1. Searched = Extents(Critical) BY <2>1, OwnLines, SearchedIs
    <3>2. ToSet(Lines(Usable(csRaw))) = Critical BY OwnLines
    <3> QED BY <2>1, <3>1, <3>2
  <2>2. CASE Usable(ssRaw) # <<>>
    <3>1. Searched = Extents(Safe) BY <2>2, OwnLines, SearchedIs
    <3>2. ToSet(Lines(Usable(ssRaw))) = Safe BY OwnLines
    <3> QED BY <2>2, <3>1, <3>2
  <2> QED BY <2>1, <2>2
<1> QED BY <1>1, LoadingHolds, PTL

\* With no line cut, the module lists the lines of the file.
LEMMA NothingCut ==
  ASSUME Typed, Loading, NoLineCut, pc = "loaded", mode = 2
  PROVE  ToSet(list) = ToSet(ssFile)
<1>1. ssFile \in Seq(AnyLine) /\ list = ReadSpans(ssFile) BY DEF Typed, Loading
<1>2. \A i \in DOMAIN ssFile : Parsed(ssFile[i], From(ssFile, i)) = <<ssFile[i]>>
  BY DEF NoLineCut, Parsed
<1>3. \A l \in ToSet(ssFile) : l.soff # l.eoff
  <2>1. ToSet(ssFile) \subseteq Critical \cup Safe BY DEF Loading
  <2>2. \A r \in ToSet(csRaw) \cup ToSet(ssRaw) : r \in Row BY Tables DEF ToSet
  <2>3. ASSUME NEW l \in Critical PROVE l.soff # l.eoff
    <3>1. PICK r \in ToSet(csRaw) : l = Line(r) BY <2>3 DEF Critical
    <3>2. r.soff < r.eoff /\ r.soff \in Nat /\ r.eoff \in Nat
      BY <2>2, FileAssumption DEF Typed, Row
    <3>3. l.soff = r.soff /\ l.eoff = r.eoff BY <2>2, <3>1, LineFields
    <3> QED BY <3>2, <3>3
  <2>4. ASSUME NEW l \in Safe PROVE l.soff # l.eoff
    <3>1. PICK r \in ToSet(ssRaw) : l = Line(r) /\ r.soff # r.eoff BY <2>4 DEF Safe
    <3>2. l.soff = r.soff /\ l.eoff = r.eoff BY <2>2, <3>1, LineFields
    <3> QED BY <3>1, <3>2
  <2> QED BY <2>1, <2>3, <2>4
<1>4. \A a : ToSet(<<a>>) = {a} BY DEF ToSet
<1>5. \A x : x \in ToSet(ssFile) <=> \E i \in DOMAIN ssFile : x = ssFile[i] BY DEF ToSet
<1>6. \A x : x \in ToSet(list) <=>
               x.soff # x.eoff /\ \E i \in DOMAIN ssFile : x \in ToSet(<<ssFile[i]>>)
  <2>1. \A x : x \in ToSet(ReadSpans(ssFile)) <=>
                 /\ x.soff # x.eoff
                 /\ \E i \in DOMAIN ssFile : x \in ToSet(Parsed(ssFile[i], From(ssFile, i)))
    BY <1>1, ReadLines
  <2> QED BY <1>1, <1>2, <2>1
<1>7. ASSUME NEW x \in ToSet(list) PROVE x \in ToSet(ssFile)
  <2>1. PICK i \in DOMAIN ssFile : x \in ToSet(<<ssFile[i]>>) BY <1>6
  <2>2. x = ssFile[i] BY <1>4, <2>1
  <2> QED BY <1>5, <2>2
<1>8. ASSUME NEW x \in ToSet(ssFile) PROVE x \in ToSet(list)
  <2>1. PICK i \in DOMAIN ssFile : x = ssFile[i] BY <1>5
  <2>2. x \in ToSet(<<ssFile[i]>>) BY <1>4, <2>1
  <2>3. x.soff # x.eoff BY <1>3
  <2> QED BY <1>6, <2>2, <2>3
<1> QED BY <1>7, <1>8

\* The guard probes of mode 1 and the module of mode 2 work with the spans
\* that the stack check searches; the other modes leave no guard probe.
THEOREM ReadersAgreeTheorem == Spec => []ReadersAgree
<1>1. Typed /\ Loading => ReadersAgree
  <2> SUFFICES ASSUME Typed, Loading, pc = "loaded"
               PROVE  /\ mode = 1 /\ ssFile # <<>> => Extents(guards) = Searched
                      /\ mode # 1 => guards = {}
                      /\ mode = 2 /\ ssFile # <<>> /\ NoLineCut =>
                           /\ Extents(ToSet(list)) = Searched
                           /\ \A l \in ToSet(list) : l.func # "-"
    BY DEF ReadersAgree
  <2>1. guards = IF mode = 1 THEN ToSet(ssFile) ELSE {} BY DEF Loading
  <2>2. ssFile # <<>> => ToSet(ssFile) # {} BY Elements DEF Typed
  <2>3. ssFile # <<>> => Searched = Extents(ToSet(ssFile)) BY <2>2, SearchedIs
  <2>4. \A l \in ToSet(ssFile) : l.func # "-"
    <3>1. \A l \in ToSet(ssFile) : l \in AnyLine BY Elements DEF Typed
    <3>2. \A l \in AnyLine : l.func \in DOMAIN NameLen BY LineFields DEF AnyLine
    <3> QED BY <3>1, <3>2, FileAssumption
  <2> QED BY <2>1, <2>3, <2>4, NothingCut
<1> QED BY <1>1, LoadingHolds, PTL
=============================================================================
