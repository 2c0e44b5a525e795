SPECIFICATION FairSpec
CONSTANTS
  NumTokens = 7
  WindowSize = 2
  MaxFaults = 2
  MaxRuns = 2
  Mode7 = {FALSE, TRUE}
CHECK_DEADLOCK FALSE
INVARIANTS
  NothingIsSkipped
  LibraryCanBeResumed
PROPERTIES
  LibraryCompletes
