CONSTANTS
  Regions = {r1, r2, r3}
  Callers = {c1, c2}
  Nobody = Nobody
  MaxCalls = 4
  Interrupts = TRUE
SPECIFICATION Spec
SYMMETRY ActorSymmetry
INVARIANT RegionInv
INVARIANT MonitoredInside
INVARIANT NothingLeftBehind
PROPERTY EarlierInstallationStays
CHECK_DEADLOCK FALSE
