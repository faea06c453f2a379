SPECIFICATION FairSpec
CONSTANTS
  u1 = u1
  u2 = u2
  Search = {u1, u2}
  Route <- MCRoute
  ConcurrencyLimit = 2
INVARIANTS
  TypeOK
  SlotsConserved
  ReportIsTrue
PROPERTIES
  SearchIsStructured
  SearchEnds
