\* One request, one session, one edit at a time.
CONSTANTS
  Request = {r1}
  User = {u1}
  Blank = {}
  Session = {s1}
  NoSession = NoSession
  Edit = {e1}
  HistoryLimit = 1
  MaxFaults = 0
SPECIFICATION Spec
PROPERTY
  InactiveIsNotFound
CHECK_DEADLOCK FALSE
