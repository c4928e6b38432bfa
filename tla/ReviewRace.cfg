SPECIFICATION Spec
CONSTANTS
  p1 = p1
  p2 = p2
  Procs = {p1, p2}
  OpsOf <- OneSubmitter
  Subs = {s1, s2, s3}
  Versions = {v1, v2}
  NoSub = NoSub
  NoVersion = NoVersion
  MaxCalls = 2
  SlotLimit = 3
  PageSize = 3
  ItemPageSize = 1
  Faults = {"refused", "lost", "dropped"}
CHECK_DEADLOCK FALSE
SYMMETRY DataSymmetry
INVARIANTS TypeOK ReusedDraftIsOurs
PROPERTIES SubmitSendsExactlyItsVersion KeepsPromise
