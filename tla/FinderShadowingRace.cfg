CONSTANTS
  Threads = {t1, t2}
  Finders = {f1}
  Opaque = {}
  Absent = Absent
  Bound = Bound
  Foreign = Foreign
  Nobody = Nobody
  MaxInstalls = 1
SPECIFICATION Spec
INVARIANT NoWrapperSurvives
CHECK_DEADLOCK FALSE
