SPECIFICATION FairSpec
CONSTANTS
  c1 = c1
  c2 = c2
  c3 = c3
  worker = worker
  scheduler = scheduler
  NULL = NULL
  Callers <- MCCallers
  Processes <- MCProcesses
  ProcessOf <- MCProcessOf
  Limit = 2
  StaleAfter = 3
  AcquireTimeout = 1
  MaxHold = 3
  MaxRetries = 1
INVARIANTS
  SlotsSafe
PROPERTIES
  OrphansRecovered
  AcquireEnds
  NeverFreesAnothersRow
  ImplementsSemaphore
