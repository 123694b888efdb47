CONSTANTS
  Threads = {t1, t2}
  NumKinds = 1
  Requests <- MostRequests
  Items = {}
  Nobody = Nobody
  MaxInstalls = 1
  MaxChanges = 1
  ForeignImports = TRUE
  Keeps = {}
SPECIFICATION Spec
INVARIANT NoLockCycle
CHECK_DEADLOCK FALSE
