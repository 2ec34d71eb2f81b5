SPECIFICATION Spec
CONSTANTS
  RamSize = 2
  DbgSize = 1
  DmHalt = 4
  Data = {0, 1}
  Zero = 0
  Depth = 3
  PowerUp <- PowerUpZero
  MaxDelay = 15
  MaxInstrOutstanding = 1
  MaxDataOutstanding = 2
  FetchAddr <- NoAddr
  LoadAddr = {1}
  StoreWrites <- StoreWindow
  Windows = {"RAM", "RND_NUM", "RND_STALL"}
  InitialRegs <- DataStalls
  StallWrites <- SwitchDataStalls
PROPERTY OneMemory
