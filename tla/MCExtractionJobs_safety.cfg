SPECIFICATION Spec
CONSTANTS
  MaxTurn = 2
  MaxRestarts = 1
  Cadence = 2
  BatchMax = 2
  RetryLimit = 1
  FailLimit = 2
  ReenableAfter = 1
  LiveRecalc = FALSE
INVARIANTS TypeOK OneBatchPerBranch
PROPERTIES DecisionsStand
CHECK_DEADLOCK FALSE
