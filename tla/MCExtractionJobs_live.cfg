SPECIFICATION FairSpec
CONSTANTS
  MaxTurn = 2
  MaxRestarts = 1
  Cadence = 2
  BatchMax = 1
  RetryLimit = 1
  FailLimit = 2
  ReenableAfter = 1
  LiveRecalc = TRUE
PROPERTIES ScheduledTurnsAreDecided
CHECK_DEADLOCK FALSE
