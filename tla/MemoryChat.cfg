CONSTANTS
  Modes <- AllModes
  Stop = Stop
  MaxSessions = 3
  MaxExchanges = 3
  MaxSaves = 3
  MaxFaults = 1
  MaxCrashes = 1
SPECIFICATION Spec
CHECK_DEADLOCK FALSE
INVARIANTS IInv WindowIdsAreUnique TranscriptMatchesHistory HandlesAreReadable NothingCapturedIsLost
PROPERTY PublicationsAreFinal
