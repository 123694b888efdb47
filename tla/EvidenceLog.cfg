SPECIFICATION Spec
CONSTANTS
  t1 = t1
  t2 = t2
  Threads = {t1, t2}
  Nobody = Nobody
  a = a
  b = b
  Contents = {a, b}
  None = None
  MaxMoments = 2
  MaxInstalls = 2
  MaxOps = 2
  Interrupts = TRUE
SYMMETRY Symmetry
INVARIANT LogExplainsCache
INVARIANT ReportIsCurrent
INVARIANT ObserverInv
INVARIANT HooksAccounted
\* The threads may have used up the bounds with monitoring off.
CHECK_DEADLOCK FALSE
