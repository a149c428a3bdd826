------------------------------ MODULE X86Block ------------------------------
(***************************************************************************)
(* The instructions of a basic block of the kernel under tuning, as the    *)
(* processor runs them: what src/codegen.py's symbolic executor stands     *)
(* for, and the reference its probes are compared with.                    *)
(*                                                                         *)
(* A block is one text in several builds: an immediate is a function of    *)
(* the value of the perf-const the kernel was built with.  Registers have  *)
(* Size["q"] values; an instruction of a smaller width works on the low    *)
(* part and clears the rest.                                               *)
(***************************************************************************)
EXTENDS Integers, Sequences, SequencesExt

CONSTANTS
  Regs,    \* general registers
  Vals,    \* values the perf-const is built with
  Size     \* values of a register by operand width, "q" the whole register

ASSUME SizeAssumption ==
  Vals \subseteq Nat /\ Size \in [{"w", "l", "q"} -> Nat \ {0}]

\* An operand: an immediate, a register, the memory cell (or, for lea, the
\* displacement v from register r).
Operand == [k : {"imm", "reg", "mem"}, r : Regs \cup {"-"}, v : [Vals -> Nat]]
Ops     == {"mov", "add", "sub", "and", "or", "xor", "shl", "shr", "sbb", "lea",
            "cmp", "test", "cmov", "movzbl", "je", "jb", "call", "ret"}
Instruction == [op : Ops, w : DOMAIN Size, src : Operand, dst : Operand]

Jumps       == {"je", "jb"}
Terminators == Jumps \cup {"call", "ret"}

Varies(i) == \E u, v \in Vals : i.src.v[u] # i.src.v[v]

WritesReg(i, r) ==
  i.dst.k = "reg" /\ i.dst.r = r /\ i.op \notin {"cmp", "test"} \cup Terminators
SetsFlags(i)  == i.op \in {"add", "sub", "and", "or", "xor", "shl", "shr", "sbb", "cmp", "test"}
ReadsFlags(i) == i.op \in Jumps \cup {"cmov", "sbb"}

\* The number whose bits are op of the bits of x and y
Bitwise(op(_, _), x, y) ==
  LET f[p \in Nat \X Nat] ==
        IF p = <<0, 0>> THEN 0
        ELSE op(p[1] % 2, p[2] % 2) + 2 * f[<<p[1] \div 2, p[2] \div 2>>]
  IN f[<<x, y>>]

And(x, y) == Bitwise(LAMBDA a, b : a * b, x, y)
Or(x, y)  == Bitwise(LAMBDA a, b : a + b - a * b, x, y)
Xor(x, y) == Bitwise(LAMBDA a, b : (a + b) % 2, x, y)

\* dst OP src on registers with n values
Result(op, d, s, n) ==
  CASE op = "add" -> (d + s) % n
    [] op \in {"sub", "cmp"} -> (d - s) % n
    [] op \in {"and", "test"} -> And(d, s)
    [] op = "or"  -> Or(d, s)
    [] op = "xor" -> Xor(d, s)
    [] op = "shl" -> (d * 2^s) % n
    [] op = "shr" -> d \div 2^s
    [] op \in {"mov", "lea", "movzbl"} -> s % n

\* Zero and carry after dst OP src.
FlagsOf(op, d, s, n) ==
  [z |-> Result(op, d, s, n) = 0,
   c |-> CASE op = "add" -> d + s >= n
           [] op \in {"sub", "cmp"} -> d < s
           [] op = "shr" -> s > 0 /\ (d \div 2^(s - 1)) % 2 = 1
           [] OTHER -> FALSE]

\* A machine: registers, the memory cell, the flags, the branches taken.
Value(m, o, V) ==
  CASE o.k = "imm" -> o.v[V] [] o.k = "reg" -> m.r[o.r] [] o.k = "mem" -> m.mem

Put(m, o, v) ==
  IF o.k = "reg" THEN [m EXCEPT !.r[o.r] = v] ELSE [m EXCEPT !.mem = v]

Execute(m, i, V) ==
  LET n == Size[i.w]
      s == (IF i.op = "lea" THEN m.r[i.src.r] + i.src.v[V] ELSE Value(m, i.src, V)) % n
      d == Value(m, i.dst, V) % n
  IN CASE i.op \in Jumps -> [m EXCEPT !.taken = Append(@, IF i.op = "je" THEN m.f.z ELSE m.f.c)]
       [] i.op \in Terminators -> m
       [] i.op \in {"cmp", "test"} -> [m EXCEPT !.f = FlagsOf(i.op, d, s, n)]
       [] i.op = "cmov" -> Put(m, i.dst, IF m.f.c THEN s ELSE d)
       [] i.op = "sbb"  ->
            LET b == s + (IF m.f.c THEN 1 ELSE 0)
            IN [Put(m, i.dst, (d - b) % n) EXCEPT !.f = [z |-> (d - b) % n = 0, c |-> d < b]]
       [] OTHER ->
            LET done == Put(m, i.dst, Result(i.op, d, s, n))
            IN IF SetsFlags(i) THEN [done EXCEPT !.f = FlagsOf(i.op, d, s, n)] ELSE done

\* The block of the kernel built with V, entered at instruction e.
RunBuilt(block, V, e, m) ==
  FoldLeftDomain(LAMBDA x, k : IF k < e THEN x ELSE Execute(x, block[k], V), m, block)
=============================================================================
