SPECIFICATION FairSpec
CONSTANTS
  Calls = {c1, c2, c3}
  MaxLines = 1
CHECK_DEADLOCK FALSE
INVARIANTS TypeOK NothingLostNorRepeated OrderedUntilOverlap
PROPERTIES ReturnsDrained EveryLineArrives
