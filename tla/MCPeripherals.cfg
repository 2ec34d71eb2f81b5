SPECIFICATION FairSpec
CONSTANTS
  Irq = {"i0", "i1"}
  RndIrqId = "i1"
  CountLimit = 4
  Verilator = FALSE
  Masks <- TimerMasks
  TimerVals = {0, 1, 2}
  DebugRequests <- Requests
  IrqModes <- Modes
  RandomDebug <- UpTo
  MaxWrites = 4
INVARIANTS DebugLineAsAsked TicksOrOverflow PendingUntilTaken
PROPERTIES ComesToRest TriggerTaken
