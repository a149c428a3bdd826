\* Two tasks and an interrupt context on two CPUs, in either kind of mode, with a loader that does not fail.
SPECIFICATION Spec
CONSTANTS
  t1 = t1  t2 = t2  i1 = i1  c1 = c1  c2 = c2  a = a  b = b
  Tasks = {t1, t2}
  Irqs = {i1}
  Cpus = {c1, c2}
  Inputs = {a, b}
  Zero = zero
  Risks = {"preempt", "interrupt", "late"}
SYMMETRY Symmetry
INVARIANTS TasksKeepTheirInput InterruptsKeepTheirInput
