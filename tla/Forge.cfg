SPECIFICATION MCSpec
CONSTANTS
  Drivers = {d1, d2, d3}
  Nobody = Nobody
  Scripts <- ScriptsDef
  MaxAttempts = 1
  MaxIterations = 2
  MaxDead = 1
  Crew = 2
SYMMETRY Symmetric
INVARIANTS PaidIsOpen OneSubmission
PROPERTIES NeverRerun
CHECK_DEADLOCK FALSE
