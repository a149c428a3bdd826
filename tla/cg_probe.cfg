\* Every prelude, seed, later instructions and terminator.
SPECIFICATION SpecImages
CONSTANTS
  Regs = {"a", "b"}
  Vals <- ValueSet
  Size <- Sizes
  KeyOrder <- Keys
  Samples <- Builds
  Functions <- AllFunctions
  Long = 11
  Machines <- Entered
  NewVals <- NewValues
  ArgRegs = {"a"}
  Neighbours <- Around
  Compared <- Short
INVARIANTS TypeOK PointsFollowUses EveryUseFound SelectedStays ProbeEqualsRebuild OriginalIsNoOp OutsideIsWhole
CHECK_DEADLOCK FALSE
