CONSTANTS
  k1 = k1
  k2 = k2
  Controllers = {k1, k2}
  MaxBirths = 2
  MaxSessions = 2
SPECIFICATION FairSpec
\* After a race nothing is claimed, nor that a session is ever cleared.
CONSTRAINT NotRaced
INVARIANT AttachmentInv
INVARIANT ActiveIsReachable
INVARIANT ActiveMeansMonitored
INVARIANT OwnReport
INVARIANT NoSecondStop
PROPERTY DeliveredBeforeRemoved
PROPERTY EventuallyCleared
\* The process dies, nobody runs a command: the system may stop.
CHECK_DEADLOCK FALSE
