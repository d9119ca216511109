CONSTANTS
  None = None
  IndexPrices = {100, 101}
  ProxyPrices = {10}
  SILENCE_LIMIT = 1
  RECENT_WINDOW = 1
  DRIFT_HOLD = 1
  RECOVER_HOLD = 2
  SAMPLE_EVERY = 1
  RATIO_WINDOW = 4
  MIN_SAMPLES = 2
  PROXY_FRESH = 1
  STATUS_HEARTBEAT = 1
  STATUS_STALE = 2
  MaxNow = 5
SPECIFICATION Spec
INVARIANTS
  ViewsAgree
  OffsetStands
  FutureFollowsIndex
  RollAccepted
  VwapCountsOnce
  WalkStops
  BannerTrue
PROPERTIES
  QuietBeforeRecovery
CHECK_DEADLOCK FALSE
