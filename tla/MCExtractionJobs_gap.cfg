SPECIFICATION FairSpec
CONSTANTS
  MaxTurn = 2
  MaxRestarts = 0
  Cadence = 1
  BatchMax = 2
  RetryLimit = 1
  FailLimit = 2
  ReenableAfter = 1
  LiveRecalc = TRUE
PROPERTIES ScheduledTurnsAreDecided
CHECK_DEADLOCK FALSE
