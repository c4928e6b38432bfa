SPECIFICATION TeamSpec
CONSTANTS
  Tasks = {t1}
  Kinds <- OnlyUsers
  Entries = {e1, e2}
  Untyped = {}
  PageSize = 1
  MaxRev = 1
  MaxChanges = 2
CHECK_DEADLOCK FALSE
INVARIANTS EveryUserIsListed
