SPECIFICATION Spec
CONSTANTS
  w1 = w1
  w2 = w2
  Workers = {w1}
  Users = {u}
  Anonymous = anonymous
  Dialogues = {a, b}
  Shared = shared
  Seed = seed
  Common = 1
  HashWindow = 1
  MaxSessions = 1
  MaxHot = 3
  NewTokens = {2}
  StreamChoices = {FALSE}
  MaxLength = 5
  MaxRequests = 3
  MaxFaults = 0
CHECK_DEADLOCK FALSE
INVARIANTS
  ReuseMatchesThePrefill
