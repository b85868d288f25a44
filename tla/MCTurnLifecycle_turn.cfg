SPECIFICATION TurnsSpec
SYMMETRY Symmetry
CONSTANTS
  Connections = {c1, c2}
  Bodies = {b1, b2}
  Stories = {told}
  Fallback = fallback
  None = None
  MaxSwipes = 1
  MaxRoot = 2
  MaxCrashes = 1
  x = x
  y = y
  z = z
  Msgs <- Said
  Requests <- Sent
  Externals = {e1, e2}
  NoId = noid
  MinAnchor = 2
  AdoptMin = 2
  AlignK = 1
  Unmixed = TRUE
  MaxBranches = 3
  MaxSessions = 2
  MaxLen = 3
  MaxTurn = 2
INVARIANTS TurnsTypeOK RowsAgree StreamsAreClaimed TextIsCurrent IndexInStep TurnsRunOn
PROPERTIES ShownIsFinal KeepsPromise HistoryOnlyGrows
CHECK_DEADLOCK FALSE
