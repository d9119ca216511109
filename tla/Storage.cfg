SPECIFICATION Spec
CONSTANTS
  Symbols = {"SPX", "ZZ"}
  Configured = {"SPX", "NQ"}
  Seeded = {"SPX", "ZZ"}
  Families = {"threshold", "users", "invites", "presets", "chart", "chain", "gamma", "fast", "prices", "flow", "references", "bars", "alerts", "pressure", "volumes", "corrections", "fallbacks", "quotes", "fbars", "events", "qminutes", "mflow", "sflow", "prints", "anchors"}
  Start = 3
  MaxNow = 5
  MaxSaves = 3
  RecentWindow = 2
  DeltaWindow = 1
  FastCandidates = 2
  LeeReadyOnly = TRUE
INVARIANTS
  ReadsAgree
  SameAnswers
PROPERTIES
  TypedAnchorStands
CHECK_DEADLOCK FALSE
