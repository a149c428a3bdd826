------------------------------ MODULE CodeGen -------------------------------
(***************************************************************************)
(* How a perf-const in a kernel function becomes probes that change it:    *)
(* src/diff.py finds the basic blocks that differ between three builds     *)
(* (DiffBlocks), src/codegen.py executes them symbolically (SymExec),      *)
(* plans a probe for each and generates its code, the loader attaches the  *)
(* probes (JumpOpt), and a policy writes a new value.                      *)
(*                                                                         *)
(* One behaviour takes one function through the tools and runs it once,    *)
(* with the probes and, beside it, as the kernel built with the new value  *)
(* would run it.                                                           *)
(***************************************************************************)
EXTENDS SymExec, DiffBlocks, JumpOpt

CONSTANTS
  Functions,   \* the functions under study: sequences of Instruction
  Machines,    \* the machines a function is entered with
  NewVals,     \* the values a policy writes
  ArgRegs      \* registers a call reads

\* Where a jump or a call leads does not depend on the constant.
FixedTargets(f) == \A k \in DOMAIN f : f[k].op \in Terminators => ~Varies(f[k])

ASSUME FunctionAssumption ==
  /\ Functions \subseteq Seq(Instruction) /\ \A f \in Functions : FixedTargets(f)
  /\ NewVals \subseteq Vals /\ ArgRegs \subseteq Regs

VARIABLES phase, func, found, plans, span, run

vars == <<phase, func, found, plans, span, stub, at, trial, run>>

NoProbe == [type |-> "none", reg |-> "-", w |-> "q", seed |-> 0, end |-> 0, save |-> 0,
            before |-> 0, iv |-> [v \in 1..3 |-> 0], expr |-> <<>>, sites |-> {}]

----------------------------------------------------------------------------
(* The plan of a probe *)

Irreversible == {"and", "shr"}   \* of IRREVERSIBLE_BASE, what the executor can find

\* instruction_reads_register
Mentions(o, r) == o.k # "imm" /\ o.r = r
Reads(i, r) ==
  CASE i.op = "call" -> r \in ArgRegs
    [] i.op \in {"mov", "lea", "movzbl"} -> Mentions(i.src, r) \/ (i.dst.k = "mem" /\ i.dst.r = r)
    [] OTHER -> Mentions(i.src, r) \/ Mentions(i.dst, r)

\* Mutant: a register that nothing reads gives a window past the block.
WindowPastBlock(blk, first, r) ==
  LET readers == {j \in first..Len(blk) : Reads(blk[j], r)}
  IN first..(IF readers = {} THEN Len(blk) + 1 ELSE Min(readers))

\* Every instruction up to and including the first reader of the register.
Window(blk, first, r) ==
  LET readers == {j \in first..Len(blk) : Reads(blk[j], r)}
  IN first..(IF readers = {} THEN Len(blk) ELSE Min(readers))

\* The last step of the chain that works on the register with varying constants.
EffectiveEnd(states, seed, r) ==
  Max({e \in seed..Steps(states) : \A j \in (seed + 1)..e :
         /\ \E v \in 2..3 : states[v][j][r] # states[1][j][r]
         /\ states[1][j][r] # states[1][j - 1][r]})

\* build_compound_expr: the expressions at the end with the saved value cut
\* out; <<>> when they cannot be reconciled.
Saved == Tok("saved")
Cut(e, before) ==
  LET n == Len(before)
      Step(c, k) ==
        IF k < c.next THEN c
        ELSE IF k + n - 1 <= Len(e) /\ SubSeq(e, k, k + n - 1) = before
          THEN [out |-> Append(c.out, Saved), next |-> k + n]
          ELSE [out |-> Append(c.out, e[k]), next |-> k + 1]
  IN FoldLeftDomain(Step, [out |-> <<>>, next |-> 1], e).out
Compound(states, seed, end, r) ==
  LET before == IF seed = 1 THEN <<Tok(r)>> ELSE Of(states[1][seed - 1], r)
      e == [v \in 1..3 |-> Cut(states[v][end][r], before)]
      iv(k) == [v \in 1..3 |-> e[v][k].n]
  IN IF /\ Contains(e[1], Saved) /\ SameTemplate(e)
        /\ \E k \in DOMAIN e[1] : e[1][k].t = "N"
        /\ \A k \in Differing(e) : Linear(iv(k))
     THEN [k \in DOMAIN e[1] |-> [t |-> e[1][k].t, iv |-> iv(k)]]
     ELSE <<>>

\* sbb %x,%x before the seed makes the saved value 0 or all ones.
SbbSelf(blk, seed) ==
  seed > 1 /\ blk[seed - 1].op = "sbb" /\ blk[seed - 1].src = blk[seed - 1].dst

\* What clang takes: integer arithmetic on the saved value and literals; there
\* is no xk_cmp_set_flags16 for an operand in memory.
Compiles(p) ==
  /\ p.type = "cmp_immediate" => p.reg # "-" \/ p.w # "w"
  /\ Integral(p.iv)
  /\ \A k \in DOMAIN p.expr :
       p.expr[k].t \in {"saved", "N"} \cup {Symbol[op] : op \in DOMAIN Symbol} /\ Integral(p.expr[k].iv)

\* The sites of a probe and, before them, the instruction that they follow
AtSites(p, sites) ==
  IF sites = {} THEN NoProbe ELSE [p EXCEPT !.sites = sites, !.before = Min(sites) - 1]

\* A chain that ends with its block: the instructions after the first one marked
\* as changed, without the marked ones, up to the first reader of its target.
Fallback(blk, marks) ==
  LET from    == Min(marks)
      after   == ((from + 1)..Len(blk)) \ marks
      readers == {j \in after : blk[from].dst.k = "reg" /\ Reads(blk[j], blk[from].dst.r)}
  IN IF marks = {} THEN {} ELSE {j \in after : \A k \in readers : j <= k}

\* The sites of a probe that may come anywhere between the chain and its reader
WindowSites(p, blk, marks) ==
  LET window == Window(blk, p.end + 1, p.reg)
  IN AtSites(p, IF window = {} THEN Fallback(blk, marks) ELSE window)

\* A probe right after its instruction
NextSite(p, blk) == AtSites(p, {p.seed + 1} \cap DOMAIN blk)

StorePlan(base, blk)   == NextSite([base EXCEPT !.type = "memory_store"], blk)
ComparePlan(base, blk) ==
  NextSite([base EXCEPT !.type = "cmp_immediate", !.reg = blk[base.seed].dst.r], blk)

SimplePlan(base, blk, marks, r) ==
  WindowSites([base EXCEPT !.type = "simple", !.reg = r], blk, marks)

\* A seed that destroys its input: save it before, recompute after the chain.
ChainPlan(base, blk, marks, states, r) ==
  LET end  == EffectiveEnd(states, base.seed, r)
      expr == Compound(states, base.seed, end, r)
      inferred == SbbSelf(blk, base.seed)
  IN IF expr = <<>> THEN NoProbe
     ELSE WindowSites([base EXCEPT !.type = IF inferred THEN "inferred" ELSE "saved",
                                   !.save = IF inferred THEN 0 ELSE base.seed,
                                   !.reg = r, !.end = end, !.expr = expr], blk, marks)

\* analyze_linear_relationship, for one block of each build; marks are the
\* instructions of the first that are marked as changed
PlanOf(blks, marks) ==
  LET states == [v \in 1..3 |-> SymStates(blks[v], Samples[v])]
      hit    == FindIV(states)
      s      == hit.step
      blk    == blks[1]
      base   == [NoProbe EXCEPT !.w = blk[s].w, !.seed = s, !.end = s,
                   !.iv = VaryingConstant([v \in 1..3 |-> states[v][s][hit.key]])]
  IN CASE s = 0 -> NoProbe
       [] s > 0 /\ hit.key = "mem" -> StorePlan(base, blk)
       [] s > 0 /\ hit.key = "FLAGS" -> ComparePlan(base, blk)
       [] s > 0 /\ hit.key \in Regs ->
            IF blk[s].op \in Irreversible THEN ChainPlan(base, blk, marks, states, hit.key)
            ELSE SimplePlan(base, blk, marks, hit.key)

\* A plan with its places in the function instead of in the block.
Placed(p, first) ==
  IF p.type = "none" THEN p
  ELSE [p EXCEPT !.seed = @ + first - 1, !.end = @ + first - 1, !.before = @ + first - 1,
                 !.save = IF @ = 0 THEN 0 ELSE @ + first - 1,
                 !.sites = {s + first - 1 : s \in @}]

\* The n-th block in the file of build v.
BasicBlock(v, n) == SubSeq(func, found[v][n][1], found[v][n][2])

\* The instructions marked as changed in a block of the first listing
Marked(block) == Kept(func, Samples[1], Samples[2]) \cap (block[1]..block[2])

\* The blocks of the three builds are taken together by their number.
PlanFor(n) ==
  LET block == found[1][n]
      marks == {k - block[1] + 1 : k \in Marked(block)}
  IN Placed(PlanOf([v \in 1..3 |-> BasicBlock(v, n)], marks), block[1])

Plans ==
  LET numbers == {n \in 1..Min({Len(found[v]) : v \in 1..3}) : PlanFor(n).type # "none"}
  IN [i \in 1..Cardinality(numbers) |-> PlanFor(Nth(numbers, i - 1))]

\* The machine code of an instruction in the running kernel
Bytes(i) == <<i.op, i.w, i.src.k, i.src.r, i.src.v[Samples[1]], i.dst>>

\* The function as objdump lists it
Listing == [k \in DOMAIN func |-> Bytes(func[k])]

\* The instruction with these bytes that has n others before it
Find(bytes, n) ==
  LET code == Listing
      hits == {k \in DOMAIN code : code[k] = bytes}
  IN Nth(hits, n)

\* translate_kprobe_offsets_to_vmlinux: the site follows the n-th instruction
\* of the running kernel with the bytes of the one before it, n counting the
\* probes; the seed is the first with its bytes.  The other sites are dropped
\* when an offset differs, as all do when the object file is laid out otherwise.
Translated(ps, shifted) ==
  [i \in DOMAIN ps |->
     LET p == ps[i]
         same == {j \in 1..(i - 1) : Bytes(func[ps[j].before]) = Bytes(func[p.before])}
         m == Find(Bytes(func[p.before]), Cardinality(same))
     IN [p EXCEPT !.sites = IF m = p.before /\ ~shifted THEN @ ELSE {m + 1},
                  !.save = IF @ = 0 THEN 0 ELSE Find(Bytes(func[@]), 0)]]

\* The offsets of the policy file: each probe's first candidate.
Stub(ps) == [i \in DOMAIN ps |-> Min(ps[i].sites)]

\* Where the tools find the function's code: in the running kernel, in a vmlinux
\* file that matches it, or nowhere.
Disassemblies == {"kcore", "file", "none"}

\* The critical span of a block of listing 1: the instructions marked as changed,
\* up to the end of the last, or else the block up to its last instruction.
CriticalSpan(block) ==
  LET marked == Marked(block)
  IN IF marked = {} THEN block[1]..(block[2] - 1) ELSE Min(marked)..Max(marked)

\* Mutant: the span ends one instruction earlier.
KernelSpanShort == 1..(Len(func) - 2)

\* get_function_end_offset: from the entry to the last instruction.
KernelSpan == 1..(Len(func) - 1)

\* _populate_ss_raw_single: the safe span is half-open, one for each function.
\* Without kcore it is the critical span of the function's first probe, whose
\* offsets are the object file's.
SafeSpan(ps, shifted, source) ==
  CASE source = "kcore" -> KernelSpan
    [] source # "kcore" /\ (shifted \/ ps = <<>>) -> {}
    [] OTHER -> CriticalSpan(CHOOSE b \in Range(found[1]) : ps[1].seed \in b[1]..b[2])

----------------------------------------------------------------------------
(* The generated code *)

Whole == Size["q"]

\* The compound expression in u64 arithmetic, its constants cast to the
\* register's width.
Compute(p, saved, V) ==
  LET Apply(st, tk) ==
        LET a == st[Len(st) - 1]   b == st[Len(st)]
            op == CHOOSE o \in DOMAIN Symbol : Symbol[o] = tk.t
        IN Append(SubSeq(st, 1, Len(st) - 2), Result(op, a, b, Whole))
      Push(st, tk) ==
        CASE tk.t = "saved" -> Append(st, saved)
          [] tk.t = "N" -> Append(st, At(tk.iv, V) % Size[p.w])
          [] OTHER -> Apply(st, tk)
  IN FoldLeft(Push, <<>>, p.expr)[1]

\* sbb-self: which of its two values the register had, judged by what the
\* original constant made of it.
Infer(p, cur) == IF cur % Size["l"] > Samples[1] THEN 0 ELSE Size["l"] - 1

\* Mutant: every comparison is simulated on 32 bits.
CmpSizeAlways32(w) == Size["l"]

\* cmp_size: 16- and 8-bit registers stay at 32.
CmpSize(w) == IF w = "q" THEN Size["q"] ELSE Size["l"]

\* __sie_<id>_<i>, called by the policy with the value it chose.
SIE(p, m, saved, V) ==
  LET iv == At(p.iv, V)
      set(v) == [m EXCEPT !.r[p.reg] = v % Whole]
  IN CASE p.type = "memory_store" -> [m EXCEPT !.mem = iv % Size[p.w]]
       [] p.type = "cmp_immediate" ->
            LET n == CmpSize(p.w)
                d == IF p.reg = "-" THEN m.mem ELSE m.r[p.reg]
            IN [m EXCEPT !.f = FlagsOf("cmp", d % n, iv % n, n)]
       [] p.type = "simple"   -> set(iv)
       [] p.type = "saved"    -> set(Compute(p, saved, V))
       [] p.type = "inferred" -> set(Compute(p, Infer(p, m.r[p.reg]), V))

\* Mutant: the register is saved after the irreversible instruction.
SaveAfter(p, k, m, saved) ==
  IF p.type = "saved" /\ k = p.save + 1 THEN m.r[p.reg] ELSE saved

\* __xk_save_<id>_<i>, on the instruction that destroys its input
Save(p, k, m, saved) ==
  IF p.type = "saved" /\ k = p.save THEN m.r[p.reg] ELSE saved

\* The function of the running kernel with the probes ps, probe i attached at
\* site qs[i]: probes fire before their instruction, and do nothing until the
\* thread gets to instruction from, where the transition has let it go on.
RunProbed(f, ps, qs, V, e, from, m) ==
  LET Step(x, k) ==
        LET kept == [i \in DOMAIN ps |-> Save(ps[i], k, x.m, x.saved[i])]
            Fire(n, i) == IF k = qs[i] THEN SIE(ps[i], n, kept[i], V) ELSE n
            n == FoldLeftDomain(Fire, x.m, ps)
        IN IF k < e THEN x
           ELSE IF k < from THEN [x EXCEPT !.m = Execute(x.m, f[k], Samples[1])]
           ELSE [m |-> Execute(n, f[k], Samples[1]), saved |-> kept]
  IN FoldLeftDomain(Step, [m |-> m, saved |-> [i \in DOMAIN ps |-> 0]], f).m

----------------------------------------------------------------------------
Init ==
  /\ phase = "source" /\ func \in Functions
  /\ found = [v \in 1..3 |-> <<>>] /\ plans = <<>> /\ span = {} /\ run = <<>>
  /\ stub = <<>> /\ at = <<>> /\ trial = NoTrial

\* Steps 11 and 11b of diff.py with the modified value V
OriginalBlocks(f, V)   == ChangedBlocks(f, Samples[1], V)
RecompiledBlocks(f, V) == ChangedBlocks(f, V, Samples[1])

\* generate_bb_files_single: diff.py with each of the two modified values; the
\* original blocks of the second run are not used.
Diff ==
  /\ phase = "source"
  /\ found' = <<OriginalBlocks(func, Samples[2]), RecompiledBlocks(func, Samples[2]),
                RecompiledBlocks(func, Samples[3])>>
  /\ phase' = "diffed"
  /\ UNCHANGED <<func, plans, span, stub, at, trial, run>>

\* run_codegen_single, and make; shifted: the offsets of the object file are
\* not those of the running kernel, which without a disassembly no site survives.
Generate ==
  /\ phase = "diffed"
  /\ LET planned == Plans
     IN \E shifted \in BOOLEAN, source \in Disassemblies :
          /\ shifted => source # "none"
          /\ plans' = IF source = "none" THEN planned ELSE Translated(planned, shifted)
          /\ span' = SafeSpan(plans', shifted, source)
  /\ phase' = IF plans' # <<>> /\ \A i \in DOMAIN plans' : Compiles(plans'[i])
              THEN "generated" ELSE "refused"
  /\ stub' = Stub(plans') /\ at' = stub'
  /\ UNCHANGED <<func, found, trial, run>>

Sites == [i \in DOMAIN plans |-> plans[i].sites]

\* xkernel load: the policy is compiled and attached.
Attach ==
  /\ phase \in {"generated", "bare"}
  /\ at' = stub /\ phase' = "attached"
  /\ UNCHANGED <<func, found, plans, span, stub, trial, run>>

\* xkernel gen writes the policy file anew: each probe at the offset of its
\* comment, which jump-opt leaves alone, and without the list of candidates, so
\* that the next jump-opt has none to try.
Gen ==
  /\ phase \in {"generated", "attached"}
  /\ stub' = Stub(plans) /\ phase' = "bare"
  /\ UNCHANGED <<func, found, plans, span, at, trial, run>>

\* xkernel load --jump-opt, which may be killed and run again
Tune ==
  /\ \/ phase = "generated" /\ Begin /\ phase' = "tuning"
     \/ phase = "tuning" /\ phase' = "tuning"
          /\ (Skip(Sites) \/ Place(Sites) \/ \E outcome \in Outcomes : Test(Sites, outcome))
     \/ phase = "tuning" /\ Final /\ phase' = "attached"
     \/ phase = "tuning" /\ Killed /\ phase' = "generated"
  /\ UNCHANGED <<func, found, plans, span, run>>

\* A thread enters the function's code at instruction e, where a branch may
\* lead, and the policy writes V: from the start, or from an instruction outside
\* the safe span on, where the transition does not wait for the thread.
Run(V, e, from, m) ==
  /\ phase = "attached"
  /\ from = e \/ (e = 1 /\ from \notin span)
  /\ run' = [value |-> V, entry |-> e, from |-> from, machine |-> m,
             probed |-> RunProbed(func, plans, at, V, e, from, m),
             rebuilt |-> RunBuilt(func, V, e, m)]
  /\ phase' = "ran"
  /\ UNCHANGED <<func, found, plans, span, stub, at, trial>>

Next ==
  \/ Diff \/ Generate \/ Attach \/ Gen \/ Tune
  \/ \E V \in NewVals, e \in DOMAIN func, m \in Machines :
       \E from \in e..Len(func) : Run(V, e, from, m)

Spec == Init /\ [][Next]_vars

----------------------------------------------------------------------------
TypeOK ==
  /\ phase \in {"source", "diffed", "generated", "bare", "refused", "tuning", "attached", "ran"}
  /\ \A v \in 1..3 : \A n \in DOMAIN found[v] :
       1 <= found[v][n][1] /\ found[v][n][1] <= found[v][n][2] /\ found[v][n][2] <= Len(func)
  /\ \A i \in DOMAIN plans :
       /\ plans[i].type \in {"memory_store", "cmp_immediate", "simple", "saved", "inferred"}
       /\ plans[i].seed \in 1..plans[i].end
       /\ plans[i].end \in DOMAIN func /\ plans[i].save \in 0..Len(func)
       /\ plans[i].sites # {} /\ plans[i].sites \subseteq DOMAIN func
       /\ plans[i].before + 1 \in DOMAIN func /\ plans[i].before # 0
  /\ {Len(stub), Len(at)} = {Len(plans)}
  /\ \A i \in DOMAIN plans : {stub[i], at[i]} \subseteq DOMAIN func
  /\ span \subseteq DOMAIN func

(***************************************************************************)
(* When every use of the constant is found                                 *)
(***************************************************************************)

Uses == {k \in DOMAIN func : Varies(func[k])}

\* No instruction changes its length.
SameLength == \A k \in DOMAIN func, v \in 2..3 : Address(func, k, Samples[1]) = Address(func, k, Samples[v])

\* No use in one build looks like another use in another build.
NoTwins ==
  \A j, k \in Uses, v \in 2..3 :
    j # k => Signature(func[j], Samples[1]) # Signature(func[k], Samples[v])

\* Every use differs between the original build and both others.
UsesDiffer == \A k \in Uses, v \in 2..3 : func[k].src.v[Samples[1]] # func[k].src.v[Samples[v]]

\* diff.py finds the block of every use, in the same place in the three builds.
EveryUseFound ==
  phase # "source" /\ SameLength /\ NoTwins /\ UsesDiffer =>
    /\ found[1] = found[2] /\ found[1] = found[3]
    /\ \A k \in Uses : \E n \in DOMAIN found[1] : found[1][n][1] <= k /\ k <= found[1][n][2]

(***************************************************************************)
(* When the probes do what a rebuilt kernel would.  Each condition is one  *)
(* the tools do not check; dropping any of them refutes the property.      *)
(***************************************************************************)

\* The seed's result is the constant, or a function of the saved register.
SeedSynthesised(p) == p.type = "simple" => func[p.seed].op = "mov"

\* A 16-bit comparison is simulated on 32 bits, a 32-bit shift on 64.
WidthKept(p) ==
  /\ p.type = "cmp_immediate" => p.w # "w"
  /\ p.w = "q" \/ \A k \in p.seed..p.end : func[k].op # "shr"

\* The original constant tells the two outcomes of sbb %x,%x apart.
SbbTold(p) ==
  p.type = "inferred" =>
    /\ p.w = "l" /\ func[p.seed - 1].dst.r = p.reg
    /\ \A saved \in {0, Size["l"] - 1} : Infer(p, Compute(p, saved, Samples[1])) = saved

\* No instruction between the chain and the probe overwrites the register.
NotOverwritten(p, site) ==
  \A k \in (p.end + 1)..(site - 1) : p.reg = "-" \/ ~WritesReg(func[k], p.reg)

\* No branch enters the block between the seed and the probe.
EnteredBefore(p, site) ==
  run.entry > site \/ run.entry <= IF p.type = "inferred" THEN p.seed - 1 ELSE p.seed

\* The bytes a place is found by occur nowhere before it, but for the places of
\* earlier probes.
OwnBytes(i) ==
  LET p == plans[i]
  IN /\ \A k \in 1..(p.before - 1) : Bytes(func[k]) = Bytes(func[p.before]) =>
            \E j \in 1..(i - 1) : plans[j].before = k
     /\ p.type = "saved" => \A k \in 1..(p.seed - 1) : Bytes(func[k]) # Bytes(func[p.seed])

OwnPlaces == \A i \in DOMAIN plans : OwnBytes(i)

\* jump-opt takes each probe through its own sites alone, whatever it is killed
\* or fails at: the policy file and the object have it at one of them, and what
\* the loop selected for a probe stays while it tries the next.
SelectedStays ==
  OwnPlaces => InPlace /\ \A i \in DOMAIN plans : {stub[i], at[i]} \subseteq plans[i].sites

Handled ==
  /\ OwnPlaces
  /\ \A i \in DOMAIN plans :
       /\ SeedSynthesised(plans[i]) /\ WidthKept(plans[i]) /\ SbbTold(plans[i])
       /\ NotOverwritten(plans[i], at[i]) /\ EnteredBefore(plans[i], at[i])

\* The flags a chain sets are set again before they are read.
FlagsDead ==
  \A i \in DOMAIN plans : plans[i].type \in {"saved", "inferred"} =>
    \A k \in (plans[i].end + 1)..Len(func) : ReadsFlags(func[k]) =>
      \E j \in (plans[i].end + 1)..(k - 1) : SetsFlags(func[j])

\* A use belongs to a probe's chain, and keeps to the line that the three
\* samples show.
OneConstant ==
  \A k \in Uses :
    /\ \E i \in DOMAIN plans : k \in plans[i].seed..plans[i].end
    /\ \A V \in NewVals :
         func[k].src.v[V] = At([v \in 1..3 |-> func[k].src.v[Samples[v]]], V)

\* A function of narrow instructions is compared in the low half, as it uses it.
Width == IF \E k \in DOMAIN func : func[k].w = "q" /\ func[k].op \notin Terminators THEN "q" ELSE "l"
Same(m, n) ==
  /\ \A r \in Regs : m.r[r] % Size[Width] = n.r[r] % Size[Width]
  /\ m.mem = n.mem /\ m.taken = n.taken

\* Probes that write V make the function do what the kernel built with V does:
\* registers, memory and branches.
ProbeEqualsRebuild ==
  phase = "ran" /\ run.from = run.entry /\ Handled /\ FlagsDead /\ OneConstant => Same(run.probed, run.rebuilt)

\* The generated policy, which writes the original value, changes nothing.
OriginalIsNoOp ==
  phase = "ran" /\ run.from = run.entry /\ Handled /\ run.value = Samples[1] => Same(run.probed, run.rebuilt)

\* One handler does all there is to do.
OneHandler == Len(plans) = 1 /\ plans[1].type # "saved"

\* A thread that the transition need not wait for, as its address is outside the
\* safe span, runs the whole function with the old value or with the new one;
\* the span must come from the running kernel, and no probe sits on the
\* function's last instruction, which the span leaves out.
OutsideIsWhole ==
  /\ phase = "ran" /\ run.from > run.entry /\ Handled /\ FlagsDead /\ OneConstant
  /\ OneHandler \/ (span = KernelSpan /\ \A i \in DOMAIN at : at[i] < Len(func))
  => \/ Same(run.probed, RunBuilt(func, Samples[1], run.entry, run.machine))
     \/ Same(run.probed, run.rebuilt)

\* The promise of the comment on the window and of docs/jump_optimization.md:
\* every instruction of it is a valid attachment point, here for the plainest
\* seed, a move, and a thread that enters at the top.
EverySiteIsValid ==
  phase = "ran" /\ run.entry = 1 /\ run.from = 1 /\ OneConstant => Same(run.probed, run.rebuilt)
=============================================================================
