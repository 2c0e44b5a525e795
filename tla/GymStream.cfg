SPECIFICATION FairSpec
CONSTANTS
  NumConfigure = 2
  MaxRetries = 1
  MaxEpisodes = 2
  MaxSteps = 3
  MaxStarted = 7
  MaxLag = 6
  MaxOdd = 1
  MaxRounds = 3
CHECK_DEADLOCK FALSE
INVARIANTS
  IInv
  SamplesArePaired
PROPERTIES
  IterationEnds
