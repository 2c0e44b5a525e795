SPECIFICATION FairSpec
CONSTANTS
  Paths = {"chat", "server", "direct"}
  MaxTokens = 4
CHECK_DEADLOCK FALSE
INVARIANTS
  TypeOK
  ReturnedReplyIsWhole
  DeltasArriveInOrder
PROPERTIES
  ReplyEnds
