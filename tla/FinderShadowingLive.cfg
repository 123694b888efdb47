CONSTANTS
  Threads = {t1, t2}
  Finders = {f1, o1}
  Opaque = {o1}
  Absent = Absent
  Bound = Bound
  Foreign = Foreign
  Nobody = Nobody
  MaxInstalls = 1
SPECIFICATION FairSpec
INVARIANT RestoreInv
\* A program may leave monitoring alone for ever, and installs are bounded.
CHECK_DEADLOCK FALSE
PROPERTY EventuallyRestored
