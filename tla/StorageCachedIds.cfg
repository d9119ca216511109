SPECIFICATION Spec
CONSTANTS
  Symbols = {"SPX", "ZZ"}
  Configured = {"SPX"}
  Seeded = {"SPX"}
  Families = {"prices"}
  Start = 3
  MaxNow = 5
  MaxSaves = 3
  RecentWindow = 2
  DeltaWindow = 1
  FastCandidates = 2
  LeeReadyOnly = TRUE
INVARIANTS
  CachedIdsExist
