SPECIFICATION Spec
CONSTANTS
  Size = 3
  Weight <- WeightDef
  Rounds = 2
  Usd = 2
  CallCaps = {2, 5, 7}
  MaxCost = 1
INVARIANTS TypeOK OverspendBounded NothingLost
PROPERTIES RunEnds
CHECK_DEADLOCK FALSE
