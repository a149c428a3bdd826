\* Two handlers at once and a report.
SPECIFICATION Spec
CONSTANTS
  t1 = t1  t2 = t2
  Threads = {t1, t2}
  Latencies = {1, 2, 4}
  MaxEpoch = 1
SYMMETRY Symmetry
INVARIANTS TypeOK CountedOnce AloneExact AverageInRange
PROPERTIES ExtremesOnlyImprove
