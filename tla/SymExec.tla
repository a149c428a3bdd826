------------------------------- MODULE SymExec -------------------------------
(***************************************************************************)
(* The symbolic executor of src/codegen.py and the search for the          *)
(* immediate that carries the perf-const (find_iv_from_symstates).         *)
(*                                                                         *)
(* An expression is the sequence of its tokens in postfix order, which     *)
(* stands for the source's parenthesised string: a number is Num(n), any   *)
(* other token a name.  The source's templates, its literal lists and its  *)
(* textual replacement are the same operations on either.  A register is   *)
(* its own anonymous name.  <<>> is a key the state does not hold.         *)
(***************************************************************************)
EXTENDS X86Block, FiniteSetsExt

CONSTANTS
  KeyOrder,   \* the keys of a state in the order of sorted()
  Samples     \* (V1, V2, V3): the values of the three builds

ASSUME SymAssumption ==
  /\ KeyOrder \in Seq(Regs \cup {"FLAGS", "mem"})
  /\ {KeyOrder[k] : k \in DOMAIN KeyOrder} = Regs \cup {"FLAGS", "mem"}
  /\ Samples \in [1..3 -> Vals]

Tok(name) == [t |-> name, n |-> 0]
Num(n)    == [t |-> "N", n |-> n]

EmptyState == [k \in Regs \cup {"FLAGS", "mem"} |-> <<>>]
Of(s, r)   == IF s[r] = <<>> THEN <<Tok(r)>> ELSE s[r]

\* parse_operand, and what execute_instruction puts in its place.
Expr(s, o, V) ==
  CASE o.k = "imm" -> <<Num(o.v[V])>>
    [] o.k = "reg" -> Of(s, o.r)
    [] o.k = "mem" -> <<Tok("mem")>>

\* re.sub('[bwlq]$', '') takes the last letter of these names, and objdump
\* prints no size suffix for a register operand: no branch matches them.
Misread == {"sub", "shl", "sbb"}

Symbol == [add |-> "+", and |-> "&", or |-> "|", xor |-> "^", shr |-> ">>"]

ToReg(s, i, e) == [s EXCEPT ![i.dst.r] = e]

\* A store of a register to memory leaves no trace.
SymMove(s, i, V) ==
  LET src == Expr(s, i.src, V)
  IN CASE i.dst.k = "reg" -> ToReg(s, i, src)
       [] i.src.k = "imm" -> [s EXCEPT !["mem"] = src]
       [] OTHER -> s

SymLea(s, i, V) == ToReg(s, i, <<Num(i.src.v[V]), Tok(i.src.r), Tok("+")>>)

\* An operand in memory changes nothing: the register keeps what it had.
SymArith(s, i, V) ==
  IF "mem" \in {i.src.k, i.dst.k} THEN s
  ELSE ToReg(s, i, Expr(s, i.dst, V) \o Expr(s, i.src, V) \o <<Tok(Symbol[i.op])>>)

SymCmov(s, i, V) == ToReg(s, i, Expr(s, i.src, V) \o Expr(s, i.dst, V) \o <<Tok("cmov")>>)
SymExtend(s, i, V) == ToReg(s, i, Expr(s, i.src, V) \o <<Tok("zext")>>)

SymCompare(s, i, V) ==
  [s EXCEPT !["FLAGS"] = Expr(s, i.dst, V) \o Expr(s, i.src, V) \o <<Tok("cmp")>>]

\* SymbolicExecutor.execute_instruction; a test sets no FLAGS.
SymStep(s, i, V) ==
  CASE i.op = "mov" -> SymMove(s, i, V)
    [] i.op = "lea" -> SymLea(s, i, V)
    [] i.op = "cmp" -> SymCompare(s, i, V)
    [] i.op = "cmov" -> SymCmov(s, i, V)
    [] i.op = "movzbl" -> SymExtend(s, i, V)
    [] i.op \in DOMAIN Symbol -> SymArith(s, i, V)
    [] i.op \in Misread \cup Terminators \cup {"test"} -> s

\* run_symbolic_exec_on_instructions: the state after each instruction
SymStates(block, V) ==
  LET states[k \in DOMAIN block] ==
        SymStep(IF k = 1 THEN EmptyState ELSE states[k - 1], block[k], V)
  IN states

----------------------------------------------------------------------------
Template(e) == [k \in DOMAIN e |-> e[k].t]

\* The literals that differ between three expressions of one template.
Differing(e) ==
  {k \in DOMAIN e[1] : ~(e[1][k].n = e[2][k].n /\ e[2][k].n = e[3][k].n)}

SameTemplate(e) == Template(e[1]) = Template(e[2]) /\ Template(e[1]) = Template(e[3])

\* find_linear_relationship: IV = a * V + b through the first two samples
\* holds for the third.
Linear(iv) ==
  /\ Samples[1] # Samples[2]
  /\ (iv[3] - iv[1]) * (Samples[2] - Samples[1]) = (iv[2] - iv[1]) * (Samples[3] - Samples[1])

\* build_expr gives an integer expression; a fraction becomes floating point.
Integral(iv) == (iv[2] - iv[1]) % (Samples[2] - Samples[1]) = 0

\* build_expr, evaluated
At(iv, V) ==
  iv[1] + ((iv[2] - iv[1]) \div (Samples[2] - Samples[1])) * (V - Samples[1])

\* extract_varying_constant, for expressions of one template
VaryingConstant(e) == LET k == CHOOSE k \in Differing(e) : TRUE
                      IN [v \in 1..3 |-> e[v][k].n]

IsIV(e) ==
  /\ \A v \in 1..3 : e[v] # <<>>
  /\ SameTemplate(e) /\ Cardinality(Differing(e)) = 1
  /\ Linear(VaryingConstant(e))

\* The steps that the three builds have in common
Steps(states) == Min({Len(states[v]) : v \in 1..3})

\* find_iv_from_symstates: the first step, and at it the first key in order,
\* whose expressions carry the constant; the number of the pair, or 0.
Pair(step, key) == (step - 1) * Len(KeyOrder) + key
FindIV(states) ==
  LET pairs == {Pair(step, key) : step \in 1..Steps(states), key \in DOMAIN KeyOrder}
      \* (step, key) of a pair's number
      step(p) == ((p - 1) \div Len(KeyOrder)) + 1
      key(p)  == KeyOrder[((p - 1) % Len(KeyOrder)) + 1]
      hits == {p \in pairs : IsIV([v \in 1..3 |-> states[v][step(p)][key(p)]])}
  IN IF hits = {} THEN [step |-> 0, key |-> "-"]
     ELSE [step |-> step(Min(hits)), key |-> key(Min(hits))]
=============================================================================
