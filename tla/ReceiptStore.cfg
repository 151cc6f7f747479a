SPECIFICATION MCSpec
CONSTANTS
  Procs = {p1, p2}
  Nobody = Nobody
  Unprobed = {}
  Rotators = {r1, r2}
  Epochs = {2}
  MaxHashes = 2
  MaxTears = 1
SYMMETRY Symmetric
INVARIANTS TypeOK SegmentsVerify LiveWritersNeverOverlap LostAtMostTears
PROPERTY AppendOnly
CHECK_DEADLOCK FALSE
