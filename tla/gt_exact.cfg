\* Well-formed spans, immortal threads: the count is exact and the module implements QuietPoint.
SPECIFICATION Spec
CONSTANTS
  t1 = t1  t2 = t2  t3 = t3
  s1 = s1  s2 = s2
  Threads = {t1, t2, t3}
  Spans = {s1}
  MaxDepth = 2
  MaxEntries = 2
  MaxLeak = 0
  MaxPolls = 2
  Preemptible = FALSE
  TailCall = {}
  SideEntry = {}
  NoGuard = {}
  EarlyExit = {}
  BackEdge = {}
  NoUnguard = {}
  Mortal = {}
SYMMETRY ThreadSymmetry
INVARIANTS RefcountExact
PROPERTIES ImplementsQuietPoint
