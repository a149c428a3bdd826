\* Every hazard of the code in spans, on a kernel without preemption: both transitions end.
SPECIFICATION FairSpec
CONSTANTS
  t1 = t1  t2 = t2  t3 = t3
  s1 = s1  s2 = s2
  Threads = {t1, t2}
  Spans = {s1, s2}
  MaxDepth = 1
  MaxEntries = 1
  MaxLeak = 1
  MaxPolls = 2
  Preemptible = FALSE
  TailCall = {s1}
  SideEntry = {s1}
  NoGuard = {s2}
  EarlyExit = {s1}
  BackEdge = {s1}
  NoUnguard = {s2}
  Mortal = {t1}
INVARIANTS UnloadIsClean ArmedUntilDecided
PROPERTIES ForwardResolves ReverseResolves
