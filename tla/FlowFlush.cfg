SPECIFICATION FlowFairSpec
CONSTANTS
  MaxMinute = 3
  MaxObserved = 4
  MaxPartials = 1
  Batch = 1
  Cap = 2
INVARIANTS
  TradesAccounted
PROPERTIES
  EndedMinutesStored
