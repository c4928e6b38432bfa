SPECIFICATION FairSpec
CONSTANTS
  Tasks = {t1, t2}
  Kinds <- OnlyApps
  Entries = {a1, a2}
  Untyped = {}
  PageSize = 1
  MaxRev = 3
  MaxChanges = 3
  Interruptible = TRUE
CHECK_DEADLOCK FALSE
INVARIANTS TypeOK
PROPERTIES IsAppCache OkMeansStored StoreNeverGoesBack SyncReturns
