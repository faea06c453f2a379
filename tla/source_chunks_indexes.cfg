SPECIFICATION Spec
CONSTANTS
  r1 = r1
  r2 = r2
  p1 = p1
  Run <- MCRun
  Page <- MCPage
  Length <- MCLength
  FieldCount = 4
  TopK = 1
  FinalTopK = 2
  MinChunks = 1
  Batch = 1
  MaxDocs = 2
  MaxFaults = 2
INVARIANT ReadyHasIndexes
CHECK_DEADLOCK FALSE
