SPECIFICATION FairSpec
CONSTANTS
  w1 = w1
  w2 = w2
  Windows <- TwoWindows
  Stop = Stop
  NoWindow = NoWindow
  FailedQueueSize = 1
  FlushChoices <- Sometimes
  MaxCloses = 2
  MaxFaults = 2
  MaxCrashes = 1
INVARIANTS
  IInv
  EveryWindowIsAccountedFor
  PublishedStoreIsLoadable
  CleanCloseIsComplete
  FirstCompactionKeepsData
PROPERTIES
  FinalManifestIsFinal
  ImplementsSessionStore
  CallsReturn
  QueueDrains
CHECK_DEADLOCK FALSE
