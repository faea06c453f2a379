\* Two requests of one user or of two, in one session; one edit at a time, one database error.
CONSTANTS
  Request = {r1, r2}
  User = {u1, u2}
  Blank = {r2}
  Session = {s1}
  NoSession = NoSession
  Edit = {e1}
  HistoryLimit = 1
  MaxFaults = 1
SPECIFICATION FairSpec
INVARIANTS
  HistoryStaysPrivate
  NoOrphanRows
PROPERTIES
  SaveSettles
CHECK_DEADLOCK FALSE
