SPECIFICATION FairSpec
CONSTANTS
  Contracts = {call, put}
  Threads = {spx}
  Rounds = 1
  MaxChecks = 2
  MaxConns = 2
  MaxIds = 4
  None = None
INVARIANTS
  NothingForgotten
  ForcedReconnectsBounded
PROPERTIES
  OldAnswersNeverCount
  RejectedResent
CHECK_DEADLOCK FALSE
