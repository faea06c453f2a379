\* Three requests of one user in one session, no edit and no database error.
CONSTANTS
  Request = {r1, r2, r3}
  User = {u1}
  Blank = {}
  Session = {s1}
  NoSession = NoSession
  Edit = {}
  HistoryLimit = 1
  MaxFaults = 0
SYMMETRY Interchangeable
SPECIFICATION Spec
INVARIANT
  LostOnlyWithSession
CHECK_DEADLOCK FALSE
