SPECIFICATION Spec
CONSTANTS
  NumTokens = 5
  WindowSize = 2
  MaxFaults = 0
  MaxRuns = 2
  Mode7 = {TRUE}
CHECK_DEADLOCK FALSE
INVARIANTS
  CalibrationFindsTheLibrary
