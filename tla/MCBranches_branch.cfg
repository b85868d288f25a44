SPECIFICATION BranchesSpec
CONSTANTS
  Branches = {main, fork}
  Root = main
  w1 = w1
  Wounds = {w1}
  NoWound = NoWound
  NoEffect = NoEffect
  NoCheckpoint = NoCheckpoint
  MaxTurn = 1
  MaxCommits = 3
  MaxForked = 2
  MaxLagging = 2
  CheckpointEvery = 2
  BatchMax = 2
  PruneKeep = 1
  LateReplies = FALSE
  ColdPath = TRUE
  LiveRecalcs = {TRUE, FALSE}
  Deltas <- Reports
INVARIANTS TypeOK UserWritesSurvive RetiredTurnsStayRetired ReceiptsMatchJournal RestatementNeverLands
PROPERTIES ForkInheritsHistory
CHECK_DEADLOCK FALSE
