SPECIFICATION Spec
CONSTANTS
  Columns <- MCColumns
  KeyColumns <- TwoNumbers
  Outcome = "wage"
  Group = "sex"
  Predictors = {"grade"}
  Reference = 0
  Employees = {1, 2, 3, 4}
  Starts <- MCStarts
  Corrections <- MCCorrections
  Overrides <- MCOverrides
  MaxEntries = 2
  MaxChanges = 3
INVARIANTS
  NeverTheNeighbour
CHECK_DEADLOCK FALSE
