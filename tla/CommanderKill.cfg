SPECIFICATION MCSpec
CONSTANTS
  Requests = {r1, r2}
  Members = {m1}
  Tokens = {t1, t2}
  Modes = {generate}
  Caps = {2}
  Costs = {0, 1}
  SwarmBudget = 1
  Schedules = {s1}
  Notes = {k1}
  Commands = {"think", "kill"}
  FirstMode = generate
  FirstCap = 2
  Nobody = Nobody
  MaxSeals = 2
  MaxRuns = 2
PROPERTY OnlyReviveUnkills
CHECK_DEADLOCK FALSE
