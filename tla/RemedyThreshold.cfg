SPECIFICATION Spec
CONSTANTS
  Compared <- MCCompared
  Reference <- MCReference
  Cases <- MCThreshold
INVARIANTS
  LeftOutIsSmall
CHECK_DEADLOCK TRUE
