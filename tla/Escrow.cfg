SPECIFICATION MCSpec
CONSTANTS
  Procs = {p1, p2, p3}
  Ceiling = 2
  Amounts = {1, 2}
  MaxLost = 1
SYMMETRY Symmetric
INVARIANTS FileVerifies DrawsBounded FinalUnlessOverwritten
CHECK_DEADLOCK FALSE
