SPECIFICATION Spec
CONSTANTS
  QueueSize = 2
  MaxFrames = 5
  MaxConns = 3
  None = None
PROPERTY StaleStatusIgnored
CHECK_DEADLOCK FALSE
