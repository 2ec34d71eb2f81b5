SPECIFICATION Spec
CONSTANTS
  Insns <- Calls
  Regs = {"a0", "ra"}
  Values = {0, 9}
  WordBits = 4
  DivCycles = 7
  LogCommits = TRUE
  MaxInsns = 3
  None = None
INVARIANT JalrHazardCharged
CHECK_DEADLOCK FALSE
