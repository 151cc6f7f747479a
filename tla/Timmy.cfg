SPECIFICATION MCSpec
CONSTANTS
  Jobs = {j1, j2, j3}
  Bodies <- Body
  Costs = {1}
  Budgets = {1, 3}
  Notes = {k1}
  FirstCap = 2
  MaxSeals = 4
INVARIANTS TypeOK StateFollowsChain
CHECK_DEADLOCK FALSE
