SPECIFICATION Spec
CONSTANTS
  r1 = r1
  r2 = r2
  p1 = p1
  Run <- MCRun
  Page <- MCPage
  Length <- MCLength
  FieldCount = 2
  TopK = 1
  FinalTopK = 2
  MinChunks = 1
  Batch = 1
  MaxDocs = 2
  MaxFaults = 2
INVARIANTS
  TypeOK
  CollectionIsMadeOnce
  ReportedIsStored
PROPERTIES
  StoreIsArchive
  RunsEnd
CHECK_DEADLOCK FALSE
