SPECIFICATION FairSpec
CONSTANTS
  Symbols = {SPY, QQQ}
  Refreshed = {SPY}
  Concurrency = 1
  MaxTicks = 2
  MaxVolume = 1
  MaxOpens = 1
  None = None
INVARIANTS
  WritesSound
PROPERTIES
  SchedulerVolumeShows
  PendingTakenUp
