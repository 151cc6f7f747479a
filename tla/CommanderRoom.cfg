SPECIFICATION MCFairSpec
CONSTANTS
  Requests = {r1, r2}
  Members = {m1}
  Tokens = {t1}
  Modes = {generate, fusion}
  Caps = {0, 2}
  Costs = {1}
  SwarmBudget = 1
  Schedules = {s1}
  Notes = {k1}
  Commands = {"think", "mode", "cap", "schedule", "cancel", "remember", "record", "kill"}
  FirstMode = generate
  FirstCap = 2
  Nobody = Nobody
  MaxSeals = 3
  MaxRuns = 2
PROPERTY HandlersAnswered
CHECK_DEADLOCK FALSE
