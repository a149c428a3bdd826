\* Lists without nested spans that fit in the table: the search is exact.
SPECIFICATION SearchSpec
CONSTANTS
  MaxSpans = 4
  MaxLoop = 6
  Wrap = 16
  Addresses <- SevenAddresses
  MaxList = 4
  Nested = FALSE
INVARIANTS SearchExact EndsInTime LoopInvariant
CHECK_DEADLOCK FALSE
