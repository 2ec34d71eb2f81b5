SPECIFICATION AllSpec
CONSTANTS
  Alignment = 2
  Heaps <- MCHeaps
  HeapSize = 6
  Sizes <- MCSizes
  Byte <- MCByte
  Unset = Unset
  None = None
  MaxRequested = 11
  Values <- MCValues
  Rpt = 2
  Unrolled <- MCUnrolled
  Elems <- MCElems
  Key <- MCKey
  SortedList <- MCSortedList
  Seconds <- MCSeconds
  Compress <- MCCompress
  StartState <- MCStartState
  BlockSize = 4
  SizeField = 1
  WriteSize <- MCWriteSize
  Data <- MCData
  MaxLen = 5
  Runs <- MCRuns
  Stem <- MCStem
  SimDir <- MCSimDir
  Detected <- MCFound
  Program <- MCProgram
  Result <- MCResult
INVARIANTS
  BlocksKept
  CheckTellsRefusal
  DigestOfMessage
  RedBlack
  LinkedBothWays
  VerdictIsBacked
PROPERTIES
  NetFiresWhatItCan
  PredictionIsBacked
  CallsEnd
  RewritesAreExact
  KernelsAgree
  FindsMatch
  SortsStably
  ResultsAsSpecified
CHECK_DEADLOCK FALSE
