SPECIFICATION MCFairSpec
CONSTANTS
  c1 = c1
  f = f
  g = g
  Directives = {1, 2, 3}
  Files <- MCFiles
  Coders = {c1}
  Parent <- MCParent
  AppAuthored = {3}
  Agentic = {2, 3}
  MaxConcurrent = 2
  MaxDirectives = 1
  MaxFaults = 2
INVARIANTS
  FilesApart
  StopAtRestWins
PROPERTIES
  RowsOnlyEnd
  SpawnedOnce
  DirectiveSettles
  CallerReturns
CHECK_DEADLOCK FALSE
