SPECIFICATION Spec
CONSTANTS
  Tasks = {t1, t2, t3}
  None = None
  TTL = 6
  REFRESH_MARGIN = 4
  Cap = 6
  Skews <- RightOrBehind
  MaxDelay = 2
  MaxStepBack = 2
  MaxBehind = 2
  MaxTime = 12
CHECK_DEADLOCK FALSE
SYMMETRY TaskSymmetry
INVARIANTS TypeOK HeldTokenIsLive
PROPERTY RefreshesAreSpaced
