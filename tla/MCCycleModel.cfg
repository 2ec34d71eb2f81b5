SPECIFICATION Spec
CONSTANTS
  Insns <- Program
  Regs = {"a0", "a1"}
  Values = {0, 9}
  WordBits = 4
  DivCycles = 7
  LogCommits = TRUE
  MaxInsns = 3
  None = None
INVARIANT Decomposition
INVARIANT CoresDifferAsDocumented
INVARIANT RegionWithinBoundary
INVARIANT DivisorExact
CHECK_DEADLOCK FALSE
