SPECIFICATION FairSpec
CONSTANTS
  s1 = s1
  s2 = s2
  t1 = t1
  t2 = t2
  num = num
  txt = txt
  n1 = n1
  n2 = n2
  a = a
  nan = nan
  null = null
  Subjects <- MCSubjects
  Targets <- MCTargets
  NumericKinds <- MCNumericKinds
  TextKinds = {}
  Numbers = {n1}
  Texts = {}
  Inert <- MCInert
  Fresh <- MCFresh
  Rows <- MCRowsNaN
  Pins <- MCPinsNaN
  MaxSeeds = 2
  MaxRows = 2
  Protocol = TRUE
PROPERTIES
  DrainCompletes
CHECK_DEADLOCK TRUE
