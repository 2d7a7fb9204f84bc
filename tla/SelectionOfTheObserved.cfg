SPECIFICATION CommandLineSpec
CONSTANTS
  Blank = Blank
  NoCell = Blank
  Cases <- SelectionOnly
  Ratios <- MCRatios
  Fits <- MCFits
  AkmCalls = {}
  WorkerPart <- MCWorkerPart
  FirmPart <- MCFirmPart
  Offsets <- MCOffsets
  MatchCalls = {}
  Scores <- MCScores
  QuantileCalls = {}
  Commands = {}
  MaxIters = 2
INVARIANTS
  EveryoneIsInTheProbit
CHECK_DEADLOCK TRUE
