SPECIFICATION Spec
CONSTANTS
  Weights <- MCWeights
  Level <- MCLevel
  Solves <- MCSolves
  Cases <- MCCases
INVARIANTS
  LiveIsBounded
  EmployeesAreEqual
  IntervalIsInterior
PROPERTIES
  SequentialSpec
  RunCompletes
CHECK_DEADLOCK TRUE
