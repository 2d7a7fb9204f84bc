SPECIFICATION CommandLineSpec
CONSTANTS
  Blank = Blank
  NoCell = Blank
  Cases <- MCCases
  Ratios <- MCRatios
  Fits <- MCFits
  AkmCalls <- MCAkmCalls
  WorkerPart <- MCWorkerPart
  FirmPart <- MCFirmPart
  Offsets <- MCOffsets
  MatchCalls <- MCMatchCalls
  Scores <- MCScores
  QuantileCalls <- MCQuantileCalls
  Commands <- MCCommands
  MaxIters = 2
INVARIANTS
  RowsAreTheirs
  ConfinementIsDue
  DetailIsBaseFree
  OnePopulation
  LargestSetIsIdentified
  
  TwoGroupsAreCompared
  OutputsAreTheirs
PROPERTIES
  QuantileIsSequential
CHECK_DEADLOCK TRUE
