SPECIFICATION MCSpec
CONSTANTS
  Id <- IdDef
  Refused <- RefusedDef
  TAIL = 1
  REPLAY = 2
  MaxPost = 2
  MaxEvents = 4
  MaxShort = 1
  MaxBoots = 2
  MaxPosts = 2
INVARIANTS MissesOnlyTheGap BridgeLosesNothing ViewerInOrder ViewerSkipsNothing
CHECK_DEADLOCK FALSE
