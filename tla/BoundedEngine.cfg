SPECIFICATION Spec
CONSTANTS
  MaxHot = 4
  Interval = 2
  MaxPrompt = 5
  MaxNew = 4
  MaxTokens = 12
  MaxFaults = 2
CHECK_DEADLOCK FALSE
INVARIANTS
  HotIsTheWindow
  DistancesAreRight
