SPECIFICATION Spec
CONSTANTS
  Regions <- MixRegions
  InsnCycles <- XInsnCycles
  HazardPenalty <- XHazardPenalty
  Regs = {"a0", "a1", "a2"}
  WordBits = 4
  DivCycles = 7
  None = None
  MaxLen = 3
  NumRs = 2
  AllowMem = TRUE
  OffloadLatency = 1
  Lookahead = 2
INVARIANT FusableAsOne
INVARIANT ScanComplete
INVARIANT StallsWithinExpected
CHECK_DEADLOCK FALSE
