SPECIFICATION FairSpec
CONSTANTS
  Ids = {0, 1}
  Ops = {"sdot4", "sdot2", "mac"}
  Operands <- EdgeOperands
  RsValid = {2}
  Kills = {TRUE, FALSE}
  None = None
  Supported = {"sdot4", "sdot2"}
  RsNeeded = 0
  LaneBits = 2
INVARIANT TakesOwnResult
INVARIANT ExactDotProduct
INVARIANT BusyIffInFlight
PROPERTY ResultHeld
PROPERTY ReadyAgain
