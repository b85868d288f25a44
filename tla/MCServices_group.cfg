SPECIFICATION ServicesSpec
CONSTANTS
  Texts = {x}
  None = none
  MaxTurn = 1
  MaxSwipes = 1
  MaxRestarts = 1
  Cadence = 1
  RetryLimit = 1
  LiveRecalc = TRUE
  root = root
  child = child
  Roots = {root}
  Children = {child}
  Workers = {w1, w2}
  MaxEpoch <- Epochs
  MaxBranch <- LastBranch
  Lessons = {lesson1}
  Branches = {b1, b2}
  Root = b1
  Nowhere = nowhere
  Connections = {c1}
  LastTurn = 0
  MaxRevision = 2
  MaxLessons = 1
  MaxSelected = 1
  Hosts = {h1, h2, h3}
  Agendas = 3
  Faction <- OneFaction
  Segments <- Clocks
  Lasts <- ForEver
  MaxStory = 1
  MaxForks = 0
  LateInForks = FALSE
INVARIANTS GroupsLandWhole
CHECK_DEADLOCK FALSE
