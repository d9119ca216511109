SPECIFICATION Spec
CONSTANTS
  Symbols = {SPY}
  Refreshed = {SPY}
  Concurrency = 1
  MaxTicks = 3
  MaxVolume = 1
  MaxOpens = 1
  None = None
PROPERTIES
  StreamNeverZeroesVolume
