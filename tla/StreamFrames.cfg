SPECIFICATION FairSpec
CONSTANTS
  QueueSize = 2
  MaxFrames = 5
  MaxConns = 3
  None = None
INVARIANTS
  FramesSafe
PROPERTIES
  StatusJudgedRight
  DisconnectReconnects
CHECK_DEADLOCK FALSE
