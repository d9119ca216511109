SPECIFICATION Spec
CONSTANTS
  MaxDay = 2
  MaxTrades = 2
  None = None
PROPERTIES
  WorkerExportsItsDate
