SPECIFICATION PlaySpec
SYMMETRY Symmetry
CONSTANTS
  Owners = {o1, o2}
  belt = belt
  coin = coin
  waist = waist
  Kinds = {belt, coin}
  Slots = {waist}
  Loose = loose
  None = none
  Cells <- BeltCells
  Scenes = {s1, s2}
  Capacity <- OneThing
  SlotOf <- BeltSlot
  MaxCopy = 1
  MaxQty = 2
  MaxItems = 3
  Named = {golem}
  Foes = {golem}
  Friends = {golem}
  Extra = extra
  Band = band
  Nobody = nobody
  Health = 1
  SideCap = 2
  Total = 2
  WaveSize = 1
  WaveCap = 1
  Momentum = 1
  MaxRows = 3
INVARIANTS PlayTypeOK IndexAgrees IntentNamesAFoe
PROPERTIES LossesAreOverflows FightsHaveFoes VictoryIsEarned
CHECK_DEADLOCK FALSE
