SPECIFICATION ItemsSpec
SYMMETRY Symmetry
CONSTANTS
  Owners = {o1, o2}
  belt = belt
  coin = coin
  waist = waist
  Kinds = {belt, coin}
  Slots = {waist}
  Loose = loose
  None = none
  Cells <- BeltCells
  Scenes = {s1, s2}
  Capacity <- OneThing
  SlotOf <- BeltSlot
  MaxCopy = 2
  MaxQty = 1
  MaxItems = 3
INVARIANTS OneInstanceOnePlace
CHECK_DEADLOCK FALSE
