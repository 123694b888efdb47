CONSTANTS
  Threads = {t1, t2, t3}
  Finders = {f1}
  Opaque = {}
  Absent = Absent
  Bound = Bound
  Foreign = Foreign
  Nobody = Nobody
  MaxInstalls = 2
SPECIFICATION Spec
SYMMETRY ThreadSymmetry
INVARIANT RestoredAfterUninstall
INVARIANT NoAbandonedClaim
INVARIANT OneAttemptPerFinder
\* A program may leave monitoring alone for ever, and installs are bounded.
CHECK_DEADLOCK FALSE
