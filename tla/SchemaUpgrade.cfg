SPECIFICATION Spec
CONSTANTS
  Symbols = {"SPX", "NDX", "NQ"}
  Active = {"SPX", "NDX", "NQ"}
  KindOf <- MCKindOf
  MaxRows = 2
  MaxFailures = 2
INVARIANTS
  SchemaHolds
  StatementsGoThrough
  WritesFitNewest
PROPERTIES
  UpgradesKeepThresholds
