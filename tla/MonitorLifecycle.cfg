CONSTANTS
  Threads = {t1, t2}
  NumKinds = 2
  Requests <- MostRequests
  Items = {i1}
  Nobody = Nobody
  MaxInstalls = 2
  MaxChanges = 2
  ForeignImports = TRUE
  Keeps = {}
SPECIFICATION Spec
SYMMETRY ThreadSymmetry
INVARIANT LifecycleInv
INVARIANT OrdinaryWhenOff
INVARIANT OneWorker
PROPERTY ContentsKept
PROPERTY RecoveryHasCause
PROPERTY ProgramListsStay
\* A program may leave monitoring alone for ever, its changes are bounded, and
\* threads may wait for each other (NoLockCycle).
CHECK_DEADLOCK FALSE
