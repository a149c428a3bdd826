\* Every way a leaving thread can fail to give its unit back, and threads that exit: the count may only be too high.
SPECIFICATION Spec
CONSTANTS
  t1 = t1  t2 = t2  t3 = t3
  s1 = s1  s2 = s2
  Threads = {t1, t2}
  Spans = {s1, s2}
  MaxDepth = 2
  MaxEntries = 2
  MaxLeak = 2
  MaxPolls = 1
  Preemptible = FALSE
  TailCall = {}
  SideEntry = {}
  NoGuard = {}
  EarlyExit = {s1}
  BackEdge = {s1}
  NoUnguard = {s2}
  Mortal = {t1, t2}
SYMMETRY ThreadSymmetry
INVARIANTS DoneIsQuiet RefcountCovers
