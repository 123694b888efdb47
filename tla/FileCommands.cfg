SPECIFICATION MCSpec
CONSTANTS
  k1 = k1
  k2 = k2
  Commands = {k1, k2}
  p1 = p1
  Pids = {p1}
  v1 = v1
  v2 = v2
  Versions = {v1, v2}
  MaxBirths = 2
  None = None
  Others = Others
  MaxForeign = 2
SYMMETRY Symmetry
CONSTRAINT NotRaced
INVARIANT ArchivesStay
INVARIANT SaysWhatIsSo
INVARIANT StuckWasGivenUp
PROPERTY ForeignFileStays
\* A process id may have had all its processes, and nobody runs a command.
CHECK_DEADLOCK FALSE
