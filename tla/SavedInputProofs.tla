-------------------------- MODULE SavedInputProofs --------------------------
(***************************************************************************)
(* The promise of the pair of probes, for any tasks, interrupt contexts,   *)
(* CPUs and inputs.                                                        *)
(***************************************************************************)
EXTENDS SavedInput, TLAPS

LoaderRisks == {"attach", "update"}

\* When nothing fails in the loader, xk_active implies that all probes fire.
Gate ==
  risks \cap LoaderRisks = {} =>
    /\ phase \in {"filling", "loaded"} => attached = Probes
    /\ active => phase = "loaded"

\* Who may be inside on one CPU.
Apart ==
  /\ "interrupt" \notin risks => \A i \in Irqs : pc[i] = "out"
  /\ \A i, j \in Irqs : i # j /\ pc[i] # "out" /\ pc[j] # "out" => cpu[i] # cpu[j]
  /\ "preempt" \notin risks =>
       \A t, u \in Tasks : t # u /\ pc[t] # "out" /\ pc[u] # "out" => cpu[t] # cpu[u]

\* The task that an interrupt found stays on its CPU.
Hosted ==
  \A i \in Irqs : pc[i] # "out" =>
    /\ current[i] \in Tasks => cpu[current[i]] = cpu[i]
    /\ current[i] \notin Tasks => current[i] = cpu[i]

\* The contexts to which the promise is made.
Promised(c) ==
  \/ c \in Tasks /\ risks \subseteq {"late"}
  \/ c \in Irqs /\ risks \cap LoaderRisks = {}

\* Between the two probes, if the second one is to compute, the entry of its
\* CPU is what the context's register held.
Kept(c) == pc[c] = "apply" /\ Done(c) /\ ~Excused(c) => slot[cpu[c]] = reg[c]

Promise ==
  \A c \in Contexts : Promised(c) => Kept(c) /\ (Excused(c) \/ c \notin lost)

IInv == TypeOK /\ Gate /\ Apart /\ Hosted /\ Promise

LEMMA InitHolds == ASSUME Init PROVE IInv
<1>1. \A c \in Contexts : pc[c] = "out" /\ c \notin lost
  BY DEF Init
<1>2. TypeOK BY DEF Init, TypeOK, Owners, Contexts
<1>3. Gate BY DEF Init, Gate
<1>4. Apart /\ Hosted BY <1>1 DEF Apart, Hosted, Contexts
<1>5. Promise BY <1>1 DEF Promise, Kept
<1> QED BY <1>2, <1>3, <1>4, <1>5 DEF IInv

\* A task on whose CPU an interrupt is inside does not run, and no two
\* interrupts are inside on one CPU: so two contexts inside on a CPU, of which
\* one runs and one is promised to, are the same.
LEMMA Alone ==
  ASSUME IInv, NEW c \in Contexts, NEW d \in Contexts, Promised(d),
         pc[c] # "out", pc[d] # "out", Runs(c), cpu[c] = cpu[d]
  PROVE  c = d
<1>1. CASE d \in Irqs
  BY <1>1 DEF IInv, Apart, Runs, Inside, Contexts
<1>2. CASE d \in Tasks /\ risks \subseteq {"late"}
  BY <1>2 DEF IInv, Apart, Contexts
<1> QED BY <1>1, <1>2 DEF Promised

\* Nor do two such contexts share a verdict.
LEMMA OwnVerdict ==
  ASSUME IInv, NEW c \in Contexts, NEW d \in Contexts, Promised(d),
         pc[c] # "out", pc[d] # "out", Runs(c), Current(c) = Current(d)
  PROVE  c = d
<1>1. CASE c \in Tasks /\ d \in Tasks BY <1>1 DEF Current
<1>2. CASE c \in Irqs /\ d \in Tasks
  <2>1. d \notin Irqs BY <1>2, PairAssumption
  <2>2. "interrupt" \notin risks BY <2>1 DEF Promised
  <2> QED BY <1>2, <2>2 DEF IInv, Apart
<1>3. CASE d \in Irqs
  <2>1. d \notin Tasks BY <1>3, PairAssumption
  <2>2. Current(d) = current[d] BY <2>1 DEF Current
  <2>3. CASE c \in Tasks
    <3>1. current[d] = c BY <2>2, <2>3 DEF Current
    <3>2. cpu[c] = cpu[d] BY <1>3, <2>3, <3>1 DEF IInv, Hosted
    <3> QED BY <3>2, Alone
  <2>4. CASE c \in Irqs
    <3>1. c \notin Tasks BY <2>4, PairAssumption
    <3>2. current[c] = current[d] BY <2>2, <3>1 DEF Current
    <3>3. cpu[c] = cpu[d] BY <1>3, <2>4, <3>2 DEF IInv, Hosted
    <3> QED BY <3>3, Alone
  <2> QED BY <2>3, <2>4 DEF Contexts
<1> QED BY <1>1, <1>2, <1>3 DEF Contexts

----------------------------------------------------------------------------
LEMMA EnterStep ==
  ASSUME IInv, NEW c \in Contexts, Enter(c)
  PROVE  IInv'
<1>1. PICK x \in Inputs : reg' = [reg EXCEPT ![c] = x]
  BY DEF Enter
<1>2. /\ pc' = [pc EXCEPT ![c] = "seed"] /\ turned' = [turned EXCEPT ![c] = "no"]
      /\ lost' = lost \ {c} /\ MayEnter(c) /\ pc[c] = "out"
      /\ UNCHANGED <<risks, phase, attached, perTask, active, verdict, slot, cpu>>
  BY DEF Enter, loader
<1>3. /\ current' \in [Irqs -> Owners]
      /\ \A d \in Irqs : d # c => current'[d] = current[d]
      /\ c \in Irqs => MayInterrupt(c, current'[c])
  <2>1. CASE c \in Tasks
    <3>1. c \notin Irqs /\ current' = current BY <2>1, PairAssumption DEF Enter
    <3> QED BY <3>1 DEF IInv, TypeOK
  <2>2. CASE c \notin Tasks
    <3>1. c \in Irqs BY <2>2 DEF Contexts
    <3>2. PICK o \in Owners : MayInterrupt(c, o) /\ current' = [current EXCEPT ![c] = o]
      BY <2>2 DEF Enter
    <3> QED BY <3>1, <3>2 DEF IInv, TypeOK
  <2> QED BY <2>1, <2>2
<1>4. TypeOK' BY <1>1, <1>2, <1>3 DEF IInv, TypeOK
<1>5. Gate' BY <1>2 DEF IInv, Gate
<1>6. \A d \in Contexts : d # c => pc'[d] = pc[d]
  BY <1>2 DEF IInv, TypeOK
<1>7. Apart'
  <2>1. ASSUME NEW d \in Contexts, d # c, pc[d] # "out", cpu[d] = cpu[c]
        PROVE  ~(c \in Irqs /\ d \in Irqs) /\ (c \in Tasks /\ d \in Tasks => "preempt" \in risks)
    BY <1>2, <2>1, PairAssumption DEF MayEnter, Inside
  <2>2. c \in Irqs => "interrupt" \in risks BY <1>2 DEF MayEnter
  <2> QED BY <1>2, <2>1, <2>2, <1>6 DEF IInv, Apart, Contexts
<1>8. Hosted'
  <2> SUFFICES ASSUME NEW i \in Irqs, pc'[i] # "out"
               PROVE  /\ current'[i] \in Tasks => cpu[current'[i]] = cpu[i]
                      /\ current'[i] \notin Tasks => current'[i] = cpu[i]
    BY <1>2 DEF Hosted
  <2>1. CASE i = c BY <1>3, <2>1 DEF MayInterrupt
  <2>2. CASE i # c BY <1>3, <1>6, <2>2 DEF IInv, Hosted, Contexts
  <2> QED BY <2>1, <2>2
<1>9. Promise'
  <2> SUFFICES ASSUME NEW d \in Contexts, Promised(d)'
               PROVE  Kept(d)' /\ (Excused(d) \/ d \notin lost)'
    BY DEF Promise
  <2>1. Promised(d) BY <1>2 DEF Promised
  <2>2. CASE d = c
    <3>1. pc'[c] = "seed" BY <1>2 DEF IInv, TypeOK
    <3>2. c \notin lost' BY <1>2
    <3> QED BY <2>2, <3>1, <3>2 DEF Kept
  <2>3. CASE d # c
    <3>1. /\ pc'[d] = pc[d] /\ reg'[d] = reg[d] /\ (d \in lost' <=> d \in lost) /\ turned'[d] = turned[d]
      BY <1>1, <1>2, <2>3 DEF IInv, TypeOK
    <3>2. Current(d)' = Current(d) BY <1>3, <2>3 DEF Current, Contexts
    <3>3. Done(d)' = Done(d) BY <1>2, <3>2 DEF Done
    <3>4. Excused(d)' = Excused(d) BY <1>2, <3>1 DEF Excused
    <3>5. Kept(d) /\ (Excused(d) \/ d \notin lost) BY <2>1 DEF IInv, Promise
    <3> QED BY <1>2, <3>1, <3>3, <3>4, <3>5 DEF Kept
  <2> QED BY <2>2, <2>3
<1> QED BY <1>4, <1>5, <1>7, <1>8, <1>9 DEF IInv

\* A guard turns the verdict of no context that stands between its probes and
\* is promised to, but of its own if it comes late.
LEMMA GuardStep ==
  ASSUME IInv, NEW c \in Contexts, Guard(c)
  PROVE  IInv'
<1>1. PICK answer \in BOOLEAN : verdict' = [verdict EXCEPT ![Current(c)] = answer]
  BY DEF Guard
<1>2. /\ pc[c] = "seed" \/ (pc[c] = "apply" /\ "late" \in risks)
      /\ Runs(c) /\ Turned("guard")
      /\ UNCHANGED <<risks, phase, attached, perTask, active, slot, pc, cpu, current, reg, lost>>
  BY DEF Guard, loader, context
<1>3. \A d \in Contexts :
        turned'[d] = IF pc[d] = "apply" /\ ~Done(d) /\ Done(d)' THEN "guard" ELSE turned[d]
  BY <1>2 DEF Turned
<1>4. turned' \in [Contexts -> {"no", "activation", "guard"}]
  BY <1>2 DEF Turned, IInv, TypeOK
<1>5. TypeOK' BY <1>1, <1>2, <1>4 DEF IInv, TypeOK
<1>6. Gate' BY <1>2 DEF IInv, Gate
<1>7. Apart' /\ Hosted' BY <1>2 DEF IInv, Apart, Hosted
<1>8. Promise'
  <2> SUFFICES ASSUME NEW d \in Contexts, Promised(d)'
               PROVE  Kept(d)' /\ (Excused(d) \/ d \notin lost)'
    BY DEF Promise
  <2>1. Promised(d) BY <1>2 DEF Promised
  <2>2. Kept(d) /\ (Excused(d) \/ d \notin lost) BY <2>1 DEF IInv, Promise
  <2>3. CASE pc[d] = "apply" /\ ~Done(d) /\ Done(d)'
    <3>1. Current(c) = Current(d)
      <4>1. Current(d)' = Current(d) BY <1>2 DEF Current
      <4>2. verdict'[Current(d)] # verdict[Current(d)] BY <1>2, <2>3, <4>1 DEF Done
      <4> QED BY <1>1, <4>2 DEF IInv, TypeOK
    <3>2. c = d BY <1>2, <2>1, <2>3, <3>1, OwnVerdict
    <3>3. Excused(d)' BY <1>2, <1>3, <2>3, <3>2 DEF Excused
    <3> QED BY <3>3 DEF Kept
  <2>4. CASE ~(pc[d] = "apply" /\ ~Done(d) /\ Done(d)')
    <3>1. turned'[d] = turned[d] BY <1>3, <2>4
    <3>2. Excused(d)' = Excused(d) BY <1>2, <3>1 DEF Excused
    <3> QED BY <1>2, <2>2, <2>4, <3>2 DEF Kept
  <2> QED BY <2>3, <2>4
<1> QED BY <1>5, <1>6, <1>7, <1>8 DEF IInv

LEMMA SeedStep ==
  ASSUME IInv, NEW c \in Contexts, Seed(c)
  PROVE  IInv'
<1>1. /\ pc[c] = "seed" /\ Runs(c) /\ pc' = [pc EXCEPT ![c] = "apply"]
      /\ slot' = IF Done(c) /\ "save" \in attached THEN [slot EXCEPT ![cpu[c]] = reg[c]] ELSE slot
      /\ UNCHANGED <<risks, phase, attached, perTask, active, verdict, cpu, current, reg, lost, turned>>
  BY DEF Seed, Saved, loader, history
<1>2. TypeOK' BY <1>1 DEF IInv, TypeOK
<1>3. Gate' BY <1>1 DEF IInv, Gate
<1>4. Apart' /\ Hosted' BY <1>1 DEF IInv, TypeOK, Apart, Hosted, Contexts
<1>5. \A d \in Contexts : Done(d)' = Done(d) /\ Excused(d)' = Excused(d)
  BY <1>1 DEF Done, Current, Excused
<1>6. Promise'
  <2> SUFFICES ASSUME NEW d \in Contexts, Promised(d)'
               PROVE  Kept(d)' /\ (Excused(d) \/ d \notin lost)'
    BY DEF Promise
  <2>1. Promised(d) BY <1>1 DEF Promised
  <2>2. CASE d = c
    <3>1. Done(c) => slot'[cpu[c]] = reg[c]
      <4>1. risks \cap LoaderRisks = {} BY <2>1 DEF Promised, LoaderRisks
      <4>2. Done(c) => "save" \in attached BY <4>1 DEF IInv, Gate, Done, Probes
      <4> QED BY <1>1, <4>2 DEF IInv, TypeOK
    <3>2. pc'[c] = "apply" BY <1>1 DEF IInv, TypeOK
    <3>3. Excused(c) \/ c \notin lost BY <2>1, <2>2 DEF IInv, Promise
    <3> QED BY <1>1, <1>5, <2>2, <3>1, <3>2, <3>3 DEF Kept
  <2>3. CASE d # c
    <3>1. pc'[d] = pc[d] BY <1>1, <2>3 DEF IInv, TypeOK
    <3>2. pc[d] # "out" => cpu[c] # cpu[d] BY <1>1, <2>1, <2>3, Alone
    <3>3. pc[d] # "out" => slot'[cpu[d]] = slot[cpu[d]]
      BY <1>1, <3>2 DEF IInv, TypeOK
    <3>4. Kept(d) /\ (Excused(d) \/ d \notin lost) BY <2>1 DEF IInv, Promise
    <3> QED BY <1>1, <1>5, <3>1, <3>3, <3>4 DEF Kept
  <2> QED BY <2>2, <2>3
<1> QED BY <1>2, <1>3, <1>4, <1>6 DEF IInv

LEMMA ApplyStep ==
  ASSUME IInv, NEW c \in Contexts, Apply(c)
  PROVE  IInv'
<1> DEFINE Spoilt == Done(c) /\ "apply" \in attached /\ slot[cpu[c]] # reg[c]
<1>1. /\ pc[c] = "apply" /\ pc' = [pc EXCEPT ![c] = "out"]
      /\ reg' = [reg EXCEPT ![c] = Zero]
      /\ UNCHANGED <<risks, phase, attached, perTask, active, verdict, slot, cpu, current>>
  BY DEF Apply, loader
<1>2. /\ Spoilt => lost' = lost \cup {c} /\ turned' = turned
      /\ ~Spoilt => lost' = lost \ {c} /\ turned' = [turned EXCEPT ![c] = "no"]
  BY DEF Apply, Computed
<1>3. TypeOK'
  <2>1. lost' \subseteq Contexts /\ turned' \in [Contexts -> {"no", "activation", "guard"}]
    BY <1>2 DEF IInv, TypeOK
  <2> QED BY <1>1, <2>1 DEF IInv, TypeOK
<1>4. Gate' BY <1>1 DEF IInv, Gate
<1>5. Apart' /\ Hosted' BY <1>1 DEF IInv, TypeOK, Apart, Hosted, Contexts
<1>6. \A d \in Contexts : d # c =>
        pc'[d] = pc[d] /\ reg'[d] = reg[d] /\ (d \in lost' <=> d \in lost) /\ turned'[d] = turned[d]
  BY <1>1, <1>2 DEF IInv, TypeOK
<1>7. pc'[c] = "out" BY <1>1 DEF IInv, TypeOK
<1>8. \A d \in Contexts : Done(d)' = Done(d) /\ (turned'[d] = turned[d] => Excused(d)' = Excused(d))
  BY <1>1 DEF Done, Current, Excused
<1>9. Promise'
  <2> SUFFICES ASSUME NEW d \in Contexts, Promised(d)'
               PROVE  Kept(d)' /\ (Excused(d) \/ d \notin lost)'
    BY DEF Promise
  <2>1. Promised(d) BY <1>1 DEF Promised
  <2>2. Kept(d) /\ (Excused(d) \/ d \notin lost) BY <2>1 DEF IInv, Promise
  <2>3. CASE d = c
    <3>1. Spoilt => Excused(c)' BY <1>1, <1>2, <1>8, <2>2, <2>3 DEF Kept
    <3>2. ~Spoilt => c \notin lost' BY <1>2
    <3> QED BY <1>7, <2>3, <3>1, <3>2 DEF Kept
  <2>4. CASE d # c BY <1>1, <1>6, <1>8, <2>2, <2>4 DEF Kept
  <2> QED BY <2>3, <2>4
<1> QED BY <1>3, <1>4, <1>5, <1>9 DEF IInv

LEMMA MigrateStep ==
  ASSUME IInv, NEW t \in Contexts, Migrate(t)
  PROVE  IInv'
<1>1. PICK e \in Cpus : cpu' = [cpu EXCEPT ![t] = e] BY DEF Migrate
<1>2. /\ t \in Tasks /\ t \notin Irqs /\ Runs(t) /\ (pc[t] = "out" \/ "preempt" \in risks)
      /\ UNCHANGED <<risks, phase, attached, perTask, active, verdict, slot, pc, current, reg, lost, turned>>
  BY PairAssumption DEF Migrate, loader, history
<1>3. TypeOK' BY <1>1, <1>2 DEF IInv, TypeOK
<1>4. Gate' BY <1>2 DEF IInv, Gate
<1>5. \A c \in Contexts : c # t => cpu'[c] = cpu[c] BY <1>1 DEF IInv, TypeOK
<1>6. Apart' BY <1>2, <1>5 DEF IInv, Apart, Contexts
<1>7. Hosted'
  <2> SUFFICES ASSUME NEW i \in Irqs, pc[i] # "out"
               PROVE  /\ current[i] \in Tasks => cpu'[current[i]] = cpu'[i]
                      /\ current[i] \notin Tasks => current[i] = cpu'[i]
    BY <1>2 DEF Hosted
  <2>1. cpu'[i] = cpu[i] BY <1>2, <1>5 DEF Contexts
  <2>2. cpu[t] # cpu[i] BY <1>2 DEF Runs, Inside
  <2>3. current[i] \in Tasks => cpu'[current[i]] = cpu[current[i]]
    BY <1>5, <2>2 DEF IInv, Hosted, Contexts
  <2> QED BY <2>1, <2>3 DEF IInv, Hosted
<1>8. \A d \in Contexts : Done(d)' = Done(d) /\ Excused(d)' = Excused(d)
  BY <1>2 DEF Done, Current, Excused
<1>9. Promise'
  <2> SUFFICES ASSUME NEW d \in Contexts, Promised(d)'
               PROVE  Kept(d)' /\ (Excused(d) \/ d \notin lost)'
    BY DEF Promise
  <2>1. Promised(d) BY <1>2 DEF Promised
  <2>2. Kept(d) /\ (Excused(d) \/ d \notin lost) BY <2>1 DEF IInv, Promise
  <2>3. pc[d] = "apply" => cpu'[d] = cpu[d] BY <1>2, <1>5, <2>1 DEF Promised
  <2> QED BY <1>2, <1>8, <2>2, <2>3 DEF Kept
<1> QED BY <1>3, <1>4, <1>6, <1>7, <1>9 DEF IInv

\* No step of the loader turns a verdict but the activation, which it records.
LEMMA LoaderStep ==
  ASSUME IInv,
         Load \/ SetMode \/ Activate \/ Deactivate \/ \E p \in Probes : Attach(p) \/ Detach(p)
  PROVE  IInv'
<1>1. UNCHANGED <<risks, pc, cpu, current, reg, lost>>
  BY DEF Load, SetMode, Activate, Deactivate, Attach, Detach, context, history
<1>2. turned' \in [Contexts -> {"no", "activation", "guard"}]
  BY DEF IInv, TypeOK, Load, SetMode, Activate, Turned, Deactivate, Attach, Detach, history
<1>3. TypeOK'
  <2>1. CASE Load BY <1>1, <1>2, <2>1 DEF IInv, TypeOK, Load
  <2>2. CASE SetMode BY <1>1, <1>2, <2>2 DEF IInv, TypeOK, SetMode
  <2>3. CASE Activate BY <1>1, <1>2, <2>3 DEF IInv, TypeOK, Activate
  <2>4. CASE Deactivate BY <1>1, <1>2, <2>4 DEF IInv, TypeOK, Deactivate
  <2>5. ASSUME NEW p \in Probes, Attach(p) PROVE TypeOK'
    BY <1>1, <1>2, <2>5 DEF IInv, TypeOK, Attach
  <2>6. ASSUME NEW p \in Probes, Detach(p) PROVE TypeOK'
    <3>1. (active /\ attached' # {}) \in BOOLEAN OBVIOUS
    <3> QED BY <1>1, <1>2, <2>6, <3>1 DEF IInv, TypeOK, Detach
  <2> QED BY <2>1, <2>2, <2>3, <2>4, <2>5, <2>6
<1>4. Gate'
  <2> SUFFICES ASSUME risks \cap LoaderRisks = {}
               PROVE  /\ phase' \in {"filling", "loaded"} => attached' = Probes
                      /\ active' => phase' = "loaded"
    BY <1>1 DEF Gate
  <2>1. CASE Load BY <2>1 DEF IInv, TypeOK, Load
  <2>2. CASE SetMode BY <2>2 DEF IInv, TypeOK, SetMode, LoaderRisks
  <2>3. CASE Activate BY <2>3 DEF IInv, Gate, Activate
  <2>4. CASE Deactivate BY <2>4 DEF Deactivate, LoaderRisks
  <2>5. ASSUME NEW p \in Probes, Attach(p) PROVE active' = FALSE /\ phase' = "attaching"
    BY <2>5 DEF IInv, TypeOK, Attach
  <2>6. ASSUME NEW p \in Probes, Detach(p)
        PROVE  active' = FALSE /\ phase' \in {"unloaded", "unloading"}
    BY <2>6 DEF IInv, TypeOK, Gate, Detach
  <2> QED BY <2>1, <2>2, <2>3, <2>4, <2>5, <2>6
<1>5. Apart' /\ Hosted' BY <1>1 DEF IInv, Apart, Hosted
<1>6. Promise'
  <2> SUFFICES ASSUME NEW d \in Contexts, Promised(d)'
               PROVE  Kept(d)' /\ (Excused(d) \/ d \notin lost)'
    BY DEF Promise
  <2>1. Promised(d) /\ risks \cap LoaderRisks = {} BY <1>1 DEF Promised, LoaderRisks
  <2>2. Excused(d) \/ d \notin lost BY <2>1 DEF IInv, Promise
  <2>3. CASE Activate
    <3>1. ~Done(d) BY <2>3 DEF IInv, TypeOK, Activate, Done
    <3>2. turned'[d] = IF pc[d] = "apply" /\ ~Done(d) /\ Done(d)' THEN "activation" ELSE turned[d]
      BY <2>3 DEF Activate, Turned
    <3>3. CASE pc[d] = "apply" /\ Done(d)'
      <4>1. turned'[d] = "activation" BY <3>1, <3>2, <3>3
      <4> QED BY <4>1 DEF Excused, Kept
    <3>4. CASE ~(pc[d] = "apply" /\ Done(d)')
      <4>1. turned'[d] = turned[d] BY <3>2, <3>4
      <4> QED BY <1>1, <2>2, <3>4, <4>1 DEF Excused, Kept
    <3> QED BY <3>3, <3>4
  <2>4. CASE ~Activate
    <3>1. turned' = turned
      BY <2>4 DEF Load, SetMode, Deactivate, Attach, Detach, history
    <3>2. active' = FALSE
      <4>1. Load \/ SetMode => active' = FALSE BY DEF IInv, TypeOK, Load, SetMode
      <4>2. Deactivate => active' = FALSE BY <2>1 DEF Deactivate, LoaderRisks
      <4>3. ASSUME NEW p \in Probes, Attach(p) PROVE active' = FALSE
        BY <4>3 DEF IInv, TypeOK, Attach
      <4>4. ASSUME NEW p \in Probes, Detach(p) PROVE active' = FALSE
        BY <2>1, <4>4 DEF IInv, TypeOK, Gate, Detach
      <4> QED BY <2>4, <4>1, <4>2, <4>3, <4>4
    <3>3. ~Done(d)' BY <3>2 DEF Done
    <3> QED BY <1>1, <2>2, <3>1, <3>3 DEF Excused, Kept
  <2> QED BY <2>3, <2>4
<1> QED BY <1>3, <1>4, <1>5, <1>6 DEF IInv

LEMMA Invariance == Spec => []IInv
<1>1. IInv /\ [Next]_vars => IInv'
  <2> SUFFICES ASSUME IInv, [Next]_vars PROVE IInv'
    OBVIOUS
  <2>1. ASSUME NEW c \in Contexts, Enter(c) \/ Guard(c) \/ Seed(c) \/ Apply(c) \/ Migrate(c)
        PROVE  IInv'
    BY <2>1, EnterStep, GuardStep, SeedStep, ApplyStep, MigrateStep
  <2>2. CASE UNCHANGED vars
    <3>1. /\ UNCHANGED <<risks, phase, attached, perTask, active, verdict, slot>>
          /\ UNCHANGED <<pc, cpu, current, reg, lost, turned>>
      BY <2>2 DEF vars, loader, context, history
    <3>2. \A c \in Contexts : Done(c)' = Done(c) /\ Excused(c)' = Excused(c)
      BY <3>1 DEF Done, Current, Excused
    <3>3. TypeOK' BY <3>1 DEF IInv, TypeOK
    <3>4. Gate' BY <3>1 DEF IInv, Gate
    <3>5. Apart' /\ Hosted' BY <3>1 DEF IInv, Apart, Hosted
    <3>6. Promise' BY <3>1, <3>2 DEF IInv, Promise, Promised, Kept
    <3> QED BY <3>3, <3>4, <3>5, <3>6 DEF IInv
  <2> QED BY <2>1, <2>2, LoaderStep DEF Next
<1> QED BY <1>1, InitHolds, PTL DEF Spec

----------------------------------------------------------------------------
\* Every variable keeps its type, and xk_active is set only by a loader that
\* is done attaching.
THEOREM TypeCorrect == Spec => []TypeOK
  BY Invariance, PTL DEF IInv

\* A task that nothing preempts or interrupts ends its pass with a register
\* computed from its own input, in either kind of mode, however many tasks run
\* the function on other CPUs, whatever guards answer and however often the
\* ConstID is loaded and unloaded meanwhile: its two handlers agree on the
\* verdict, but where the activation, or a guard between them, turned it.
THEOREM TasksKeepTheirInputTheorem == Spec => []TasksKeepTheirInput
<1>1. IInv => TasksKeepTheirInput
  BY DEF IInv, Promise, Promised, TasksKeepTheirInput, Contexts
<1> QED BY <1>1, Invariance, PTL

\* An interrupt's pass does so whatever the scheduler does with the tasks, though
\* its handlers ask for the verdict of the task it interrupted.
THEOREM InterruptsKeepTheirInputTheorem == Spec => []InterruptsKeepTheirInput
<1>1. IInv => InterruptsKeepTheirInput
  BY DEF IInv, Promise, Promised, InterruptsKeepTheirInput, Contexts, LoaderRisks
<1> QED BY <1>1, Invariance, PTL
=============================================================================
