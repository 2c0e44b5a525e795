SPECIFICATION WindowSpec
CONSTANTS
  Samples <- FiveSamples
  Priorities = {1, 2}
  MaxSize = 2
  MaxAdds = 3
  Policies = {"fifo", "priority", "random"}
  Trackings <- Either
  None = None
  Edges <- OneEdge
  OverflowMax = 3
  TokenBudget = 2
  MinSamples = 1
  i1 = i1
  i2 = i2
  Iterators <- TwoIterators
  MaxWindows = 2
  MaxYields = 3
SYMMETRY IteratorSymmetry
CHECK_DEADLOCK FALSE
INVARIANTS
  BufferBooks
  WindowsAreWhole
  ExhaustedMeansSeen
