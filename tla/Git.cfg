SPECIFICATION IndexedSpec
CONSTANTS
  p = p
  c1 = c1
  c2 = c2
  Other = Other
  None = None
  Paths = {p}
  Calls = {c1, c2}
  MaxReads = 3
  MaxOthers = 1
CHECK_DEADLOCK FALSE
INVARIANTS
  TypeOK
  AnswersTrue
PROPERTIES
  AtomicBranches
  NoEditLost
  LocalCallsSettle
  BusyEnds
