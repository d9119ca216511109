SPECIFICATION Spec
CONSTANTS
  Contracts = {c1, c2}
  Window = 1
  Sustained = 2
  MinPrevious = 1
  MinSustained = 2
  UnusualMin = 1
  UnusualTimes = 1
  WhaleMin = 2
  WhaleTimes = 1
  SustainedMin = 2
  Batch = 2
  QueueSize = 2
  Failing = {"trades"}
  MaxTrades = 3
  MaxMinute = 3
  MaxFailures = 1
INVARIANTS
  TradesInPlace
  AlertedMatchesWindow
PROPERTIES
  BucketsClose
CHECK_DEADLOCK FALSE
