SPECIFICATION Spec
CONSTANTS
  Calls = {c1, c2}
  MaxLines = 2
CHECK_DEADLOCK FALSE
SYMMETRY CallSymmetry
INVARIANT OrderIsPreserved
