SPECIFICATION MCSpec
CONSTANTS
  Procs = {p1, p2, p3}
  Nobody = Nobody
  Plans = {dp}
  Contents = {c1, c2}
  Containers = {c2}
  Edited = {c2}
  Tokens = {t1, t2}
  None = None
  MaxLost = 1
  MaxDead = 1
  MaxBoxes = 1
  Third = {p3}
  Plain = c1
SYMMETRY Symmetric
INVARIANTS TypeOK NothingUnapprovedRuns LaunchesPaidFor TokenSpentOnce
CHECK_DEADLOCK FALSE
