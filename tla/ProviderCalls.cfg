SPECIFICATION Spec
CONSTANTS
  Tasks = {t1}
  Kinds <- AllReaders
  Entries = {e1, e2, e3}
  Untyped = {e3}
  PageSize = 1
  MaxRev = 1
  MaxChanges = 2
  Hosts = {h1, h2}
  Resources <- AllResources
  MaxCopies = 2
  Slots = {s1, s2, s3}
  FileSize = 3
  max_bytes = 3
  MaxBody = 5
  Passwords = {p1, p2}
  Iterations = {2, 3}
  PBKDF2_ITERATIONS = 3
  Apps = {a1}
  MaxFiles = 2
CHECK_DEADLOCK FALSE
INVARIANTS TypeOK CompleteListing RemovedStaysOut NeverTwice EditsHold CommittedIsComplete HeldIsBounded UnsupportedMeansTooLarge OkMeansWhole ArrivesAsEntered RightPasswordOpens ConnectsIfComplete
PROPERTIES ReadReturns OkMeansUploaded
