\* The last pointer wraps around the end of the address space.
SPECIFICATION FairSpec
CONSTANTS
  Ids = {0, 1}
  Ops = {"swpi"}
  Operands <- StoreOperands
  RsValid = {2}
  Kills = {TRUE, FALSE}
  None = None
  AddrSpace = 16
  Pointers = {12}
PROPERTY ReadyAgain
