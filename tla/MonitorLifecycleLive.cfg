CONSTANTS
  Threads = {t1, t2}
  NumKinds = 1
  Requests <- MostRequests
  Items = {}
  Nobody = Nobody
  MaxInstalls = 2
  MaxChanges = 3
  ForeignImports = FALSE
  Keeps = {1}
SPECIFICATION FairSpec
PROPERTY EventuallyWrapped
\* A program may leave monitoring alone for ever, and its changes are bounded.
CHECK_DEADLOCK FALSE
