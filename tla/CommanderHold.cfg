SPECIFICATION MCSpec
CONSTANTS
  Requests = {r1, r2}
  Members = {m1, m2}
  Tokens = {t1}
  Modes = {generate}
  Caps = {2}
  Costs = {1}
  SwarmBudget = 1
  Schedules = {s1}
  Notes = {k1}
  Commands = {"think", "turn", "handoff", "release", "kill", "revive", "swarm"}
  FirstMode = generate
  FirstCap = 2
  Nobody = Nobody
  MaxSeals = 4
  MaxRuns = 2
SYMMETRY Symmetric
INVARIANTS TypeOK SwarmCitesAll HeldMeansPaused LedgerNeverOverBills
PROPERTIES HeadNeverRegresses ImplementsEdgeChain
CHECK_DEADLOCK FALSE
