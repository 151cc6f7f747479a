SPECIFICATION MCSpec
CONSTANTS
  Jobs = {j1}
  Bodies = {b1}
  Taps = {t1, t2}
  Runs = {h1, h2}
  Counters = {1, 2}
  LastDay = 2
  MaxSeals = 2
  MaxUnit = 2
SYMMETRY Symmetric
INVARIANTS MirrorIsPrefix HeadListsChain DaysLinked CountersIncrease
CHECK_DEADLOCK FALSE
