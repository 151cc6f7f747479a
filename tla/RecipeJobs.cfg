SPECIFICATION Spec
CONSTANTS
  Procs = {p1, p2, p3}
  Nobody = Nobody
SYMMETRY Symmetric
INVARIANTS NativeAtMostOnce CancelledMeansStopped ClaimedJobHasOwner
PROPERTY VerdictNeverChanges
CHECK_DEADLOCK FALSE
