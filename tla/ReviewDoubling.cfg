SPECIFICATION Spec
CONSTANTS
  p1 = p1
  p2 = p2
  Procs = {p1}
  OpsOf <- SubmitterOnly
  Subs = {s1, s2}
  Versions = {v1}
  NoSub = NoSub
  NoVersion = NoVersion
  MaxCalls = 1
  SlotLimit = 2
  PageSize = 2
  ItemPageSize = 1
  Faults = {"lost"}
CHECK_DEADLOCK FALSE
PROPERTY FallbackNeverDoubles
