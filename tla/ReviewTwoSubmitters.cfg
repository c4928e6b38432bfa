SPECIFICATION FairSpec
CONSTANTS
  p1 = p1
  p2 = p2
  Procs = {p1, p2}
  OpsOf <- TwoSubmitters
  Subs = {s1, s2}
  Versions = {v1, v2}
  NoSub = NoSub
  NoVersion = NoVersion
  MaxCalls = 3
  SlotLimit = 2
  PageSize = 2
  ItemPageSize = 1
  Faults = {"refused", "lost", "dropped"}
CHECK_DEADLOCK FALSE
PROPERTIES OkMeansInReview CallReturns
