SPECIFICATION Spec
CONSTANTS
  s1 = s1
  s2 = s2
  t1 = t1
  t2 = t2
  num = num
  txt = txt
  n1 = n1
  n2 = n2
  a = a
  nan = nan
  null = null
  Subjects = {s1}
  Targets <- MCTargets
  NumericKinds <- MCNumericKinds
  TextKinds <- MCTextKinds
  Numbers <- MCNumbers
  Texts <- MCTexts
  Inert = {}
  Fresh <- MCFresh
  Rows <- MCRows
  Pins <- MCPins
  MaxSeeds = 3
  MaxRows = 2
  Protocol = FALSE
PROPERTIES
  DrainEmpties
CHECK_DEADLOCK TRUE
