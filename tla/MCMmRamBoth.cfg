SPECIFICATION FairSpec
CONSTANTS
  RamSize = 2
  DbgSize = 1
  DmHalt = 4
  Data = {0, 1}
  Zero = 0
  Depth = 2
  PowerUp <- PowerUpZero
  MaxDelay = 15
  MaxInstrOutstanding = 1
  MaxDataOutstanding = 1
  FetchAddr = {4}
  LoadAddr <- NoAddr
  StoreWrites <- StoreMemory
  Windows = {"RAM", "RND_STALL"}
  InitialRegs <- MixedStalls
  StallWrites <- SwitchBothStalls
INVARIANT StallRunning
PROPERTY OneMemory
PROPERTY EveryRequestGranted
