SPECIFICATION FairSpec
CONSTANTS
  MaxDay = 3
  MaxTrades = 3
  None = None
INVARIANTS
  CountsReal
PROPERTIES
  CountsAreStored
  StoredOnlyGrows
