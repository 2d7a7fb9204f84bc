SPECIFICATION FrontierSpec
CONSTANTS
  Compared <- MCCompared
  Reference <- MCReference
  Cases <- MCCases
  Priced <- MCPriced
  Axes <- MCAxes
INVARIANTS
  NeverAboveTheLine
  SpendIsBounded
  PriorityKept
  BestIsThePeak
  LeastBudget
  LandsWhereItSays
  BindingIsShort
  StillBelowIsCounted
  CurveIsTheSchedule
PROPERTIES
  CurveCompletes
CHECK_DEADLOCK TRUE
