SPECIFICATION Spec
CONSTANTS
  w1 = w1
  w2 = w2
  Workers = {w1, w2}
  Users = {u}
  Anonymous = anonymous
  Dialogues = {a, b}
  Shared = shared
  Seed = seed
  Common = 1
  HashWindow = 2
  MaxSessions = 2
  MaxHot = 3
  NewTokens = {1, 4}
  StreamChoices = {FALSE, TRUE}
  MaxLength = 4
  MaxRequests = 3
  MaxFaults = 1
SYMMETRY Symmetric
CHECK_DEADLOCK FALSE
INVARIANTS
  CacheInv
  EachKvHasOneConversation
  NoForeignTokens
  EntriesAreExact
