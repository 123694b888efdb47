SPECIFICATION MCSpec
CONSTANTS
  m1 = m1
  m2 = m2
  odd = odd
  Names = {m1, m2, odd}
  Odd = {odd}
  Nothing = Nothing
  MaxImports = 3
  MaxDepth = 4
  MaxChanges = 6
  t1 = t1
  t2 = t2
  Threads = {t1, t2}
  Nobody = Nobody
  Tool = Tool
  NoProfiler = NoProfiler
  MaxInstalls = 2
  MaxTools = 3
  MetaPath = 3
  Entries = 3
  Hooks = 3
  NoCall = NoCall
  MaxStarts = 3
  MaxSteps = 8
SYMMETRY Alike
CONSTRAINT NotSkewed
INVARIANT ProfilingInv
INVARIANT ShadowsAreTheStack
INVARIANT RecordsJoin
INVARIANT OneRecordPerImport
INVARIANT OneExploration
INVARIANT ExploresEveryLaterSibling
PROPERTY ProfilersOfOthers
\* The bounds on imports, installations, tools and explorations may be used
\* up.
CHECK_DEADLOCK FALSE
