CONSTANTS
  Regions = {r1, r2, r3, r4}
  Callers = {}
  Nobody = Nobody
  MaxCalls = 0
  Interrupts = FALSE
SPECIFICATION FairSpec
PROPERTY LeaseSpec
PROPERTY EventuallyEntered
CHECK_DEADLOCK FALSE
