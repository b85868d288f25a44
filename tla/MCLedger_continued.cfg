SPECIFICATION Spec
CONSTANTS
  Branches = {main}
  Root = main
  w1 = w1
  Wounds = {w1}
  NoWound = NoWound
  NoEffect = NoEffect
  NoCheckpoint = NoCheckpoint
  MaxTurn = 2
  MaxCommits = 3
  CheckpointEvery = 2
  BatchMax = 2
  PruneKeep = 1
  LateReplies = FALSE
  ColdPath = TRUE
  LiveRecalcs = {TRUE}
  Deltas <- PlainOnly
INVARIANTS RetiredTurnsHoldNoProposals
CHECK_DEADLOCK FALSE
