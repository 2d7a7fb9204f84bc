SPECIFICATION Spec
CONSTANTS
  s1 = s1
  s2 = s2
  t1 = t1
  t2 = t2
  num = num
  txt = txt
  n1 = n1
  n2 = n2
  a = a
  nan = nan
  null = null
  Subjects <- MCSubjects
  Targets <- MCTargets
  NumericKinds <- MCNumericKinds
  TextKinds <- MCTextKinds
  Numbers <- MCNumbers
  Texts <- MCTexts
  Inert = {}
  Fresh <- MCFresh
  Rows <- MCRows
  Pins <- MCPins
  MaxSeeds = 2
  MaxRows = 2
  Protocol = TRUE
SYMMETRY MCSymmetry
INVARIANTS
  ResidentExact
  ReportIsExact
  PatchGivesWeek
PROPERTIES
  DrainEmpties
  LedgerSpec
CHECK_DEADLOCK TRUE
