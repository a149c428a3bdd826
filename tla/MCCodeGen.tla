----------------------------- MODULE MCCodeGen -----------------------------
(***************************************************************************)
(* Blocks for CodeGen: a prelude, a seed that holds the constant, up to two *)
(* instructions after it, a terminator.                                     *)
(***************************************************************************)
EXTENDS ImageDiff

ValueSet  == 1..7
Sizes     == [w |-> 4, l |-> 16, q |-> 64]
Keys      == <<"FLAGS", "mem", "a", "b">>
Builds    == <<2, 4, 6>>
NewValues == {2, 3, 7}
Machine(x, y) == [r |-> [a |-> x, b |-> y], mem |-> 5, f |-> [z |-> FALSE, c |-> TRUE],
                  taken |-> <<>>]
Entered   == {Machine(11, 3), Machine(54, 23)}

Imm(f)   == [k |-> "imm", r |-> "-", v |-> f]
Const(n) == Imm([V \in ValueSet |-> n])
Lin(a, b) == Imm([V \in ValueSet |-> a * V + b])
Sat      == Imm([V \in ValueSet |-> IF V > 6 THEN 6 ELSE V])
Squared  == Imm([V \in ValueSet |-> V * V])
Low      == Imm([V \in ValueSet |-> IF V <= 4 THEN 2 ELSE V])
Half     == Imm([V \in ValueSet |-> V \div 2])
Zero     == [V \in ValueSet |-> 0]
Reg(r)   == [k |-> "reg", r |-> r, v |-> Zero]
Mem      == [k |-> "mem", r |-> "-", v |-> Zero]
Disp(r, o) == [k |-> "mem", r |-> r, v |-> o.v]
I(op, w, s, d) == [op |-> op, w |-> w, src |-> s, dst |-> d]
a == Reg("a")
b == Reg("b")
End(op) == I(op, "q", Const(0), Const(0))

Preludes(w) == {<<>>, <<I("cmp", w, Const(4), b)>>,
                <<I("cmp", w, Const(4), b), I("sbb", w, a, a)>>, <<I("sub", w, Const(1), a)>>,
                <<I("mov", w, Const(2), a)>>, <<I("and", w, Const(2), a)>>}
Seeds(w) ==
  {I("mov", w, o, a) : o \in {Lin(1, 0), Lin(2, 1), Sat, Squared, Half}}
    \cup {I(op, w, Lin(1, 0), a) : op \in {"add", "or", "and", "shr", "shl", "cmp"}}
    \cup {I("and", w, Lin(1, 8), a), I("lea", w, Disp("b", Lin(1, 0)), a), I("mov", w, Lin(1, 0), Mem),
            I("cmp", w, Lin(1, 0), Mem)}
    \cup (IF w = "l" THEN {I("cmp", "w", Lin(1, 0), o) : o \in {a, Mem}} ELSE {})
Middles(w) ==
  {I("add", w, Const(8), a), I("add", w, Lin(1, 0), a), I("add", w, b, a), I("mov", w, b, a),
   I("mov", w, Lin(1, 0), b), I("mov", w, a, b), I("mov", w, Mem, b), I("cmp", w, Const(3), a),
   I("cmov", w, b, a), I("test", w, b, b)}
Ends == {End("je"), End("jb"), End("call")}

Chained   == {I("add", "l", Lin(1, 0), a), I("add", "l", b, a), I("mov", "l", a, b)}
Following == {I("add", "l", Lin(1, 0), a), I("mov", "l", b, a), I("cmp", "l", Const(3), a)}
After(w) == {<<>>} \cup {<<m>> : m \in Middles(w)}
Pairs    == {<<m, n>> : m \in Chained, n \in Following}

Blocks(w) ==
  {p \o <<s>> \o x \o <<e>> : p \in Preludes(w), s \in Seeds(w), x \in After(w),
   e \in IF w = "l" THEN Ends ELSE {End("je"), End("call")}}
    \cup (IF w = "l" THEN {<<s>> \o x \o <<e>> : s \in Seeds(w), x \in Pairs, e \in Ends} ELSE {})

\* Two blocks that both use the constant
Firsts  == {I(op, "l", o, a) : op \in {"mov", "and", "cmp"}, o \in {Lin(1, 0), Lin(2, 0), Low}}
Seconds == {I("mov", "l", o, b) : o \in {Lin(1, 0), Lin(1, 2), Low}}
             \cup {I("mov", "l", Lin(1, 2), a), I("and", "l", Lin(1, 0), b), I("cmp", "l", Lin(1, 0), Mem)}
Tests(r) == {<<>>, <<I("test", "l", r, r)>>}
TwoBlocks == {<<s>> \o x \o <<End("je"), t>> \o y \o <<End("jb")>> :
              s \in Firsts, t \in Seconds, x \in Tests(a), y \in Tests(b)}

\* The seed of the second block has the bytes of an instruction of the first,
\* and a window goes round it.
Lookalike == <<I("mov", "l", Lin(1, 0), b), I("mov", "l", Const(2), a), I("test", "l", b, b), End("je"),
               I("mov", "l", Lin(1, 0), a), End("jb")>>

\* A use that shrinks, after which the next stands where no instruction stood; and
\* one that grows into what stands behind it.
Shrinker == <<I("or", "l", Imm([V \in ValueSet |-> 13 - V]), b), I("sub", "l", Lin(1, 1), b), End("ret")>>
Mimicked == <<I("test", "l", a, a), I("or", "l", Lin(1, 8), b), I("or", "l", Const(12), a), End("ret")>>

AllFunctions == Blocks("l") \cup Blocks("q") \cup TwoBlocks \cup {Lookalike, Shrinker, Mimicked}
Short        == {f \in AllFunctions : Len(f) <= 3} \cup {Mimicked}

\* Functions of the same file: one without the constant, one with it in another
\* place, one with two uses of which the first grows
Plain  == <<I("test", "l", b, b), End("ret")>>
User   == <<I("test", "l", b, b), I("test", "l", a, a), I("sub", "l", Lin(1, 1), b), End("ret")>>
Grower == <<I("or", "l", Lin(1, 8), b), I("sub", "l", Lin(1, 4), b), End("ret")>>
Gapped == <<I("or", "l", Const(12), b), I("test", "l", b, b), End("ret")>>
Around == {<<>>, <<Plain>>, <<User>>, <<Grower>>, <<Gapped>>}

Moves == {<<I("mov", "q", Lin(1, 0), a)>> \o x \o <<e>> : x \in After("q"), e \in Ends}
=============================================================================
