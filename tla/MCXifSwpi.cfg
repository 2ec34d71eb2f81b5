\* The last pointer wraps around the end of the address space.
SPECIFICATION FairSpec
CONSTANTS
  Ids = {0, 1}
  Ops = {"swpi", "other"}
  Operands <- StoreOperands
  RsValid = {1, 2}
  Kills = {FALSE}
  None = None
  AddrSpace = 16
  Pointers = {0, 12}
INVARIANT StoredOnceThenPointer
INVARIANT ResultAfterStore
PROPERTY ReadyAgain
