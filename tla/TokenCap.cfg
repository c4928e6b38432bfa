SPECIFICATION Spec
CONSTANTS
  Tasks = {t1}
  None = None
  TTL = 1200
  REFRESH_MARGIN = 60
  Cap = 1200
  Skews <- RightOrAhead
  MaxDelay = 2
  MaxStepBack = 0
  MaxBehind = 0
  MaxTime = 4
CHECK_DEADLOCK FALSE
INVARIANT HeldTokenIsUnderTheCap
