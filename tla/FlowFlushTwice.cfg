SPECIFICATION FlowSpec
CONSTANTS
  MaxMinute = 3
  MaxObserved = 3
  MaxPartials = 1
  Batch = 1
  Cap = 2
INVARIANTS
  NothingHalfWritten
