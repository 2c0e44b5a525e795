\* Windows of 5 tokens overlapping by 2, deltas that complete up to three
\* windows at once, turns of up to 30 tokens.
CONSTANTS
  WindowTokens = 5
  OverlapTokens = 2
  MaxDelta = 12
  MaxTurnTokens = 30
SPECIFICATION WindowerSpec
INVARIANTS WindowerInv FlushCoversTheTurn WindowsAdvance
