\* Every mode, everything that may fail, stacks the walk sees whole.
SPECIFICATION Spec
CONSTANTS
  t1 = t1  t2 = t2
  Threads <- OneThread
  Modes = {0, 1, 2}
  SafeSpans <- Two
  CriticalSpans <- OneCs
  Outside = 0
  MaxSpans = 2
  MaxLoop = 4
  Wrap = 8
  Addresses <- Sites
  MaxDepth = 3
  Visible = 3
  Failures = {"stack", "update", "timeout"}
INVARIANTS FreshNeverMixes StaleNeverApplies
PROPERTIES NewIsKept
