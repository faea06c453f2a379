\* Three requests of one user meet in one session, while one edit at a time renames,
\* deletes or clears it and one database error may happen.
CONSTANTS
  Request = {r1, r2, r3}
  User = {u1}
  Blank = {}
  Session = {s1}
  NoSession = NoSession
  Edit = {e1}
  HistoryLimit = 1
  MaxFaults = 1
SYMMETRY Interchangeable
SPECIFICATION Spec
INVARIANTS
  TypeOK
  DenseTurnNumbers
  StoredInOrder
  TurnHasQuery
  LostToTwoOthers
PROPERTIES
  StoreIsTurnLog
  TurnsOnlyLeaveWithSession
  AutoTitleComesWithFirstTurn
\* The three requests may all be over and the only session id used up.
CHECK_DEADLOCK FALSE
