SPECIFICATION FairSpec
CONSTANTS
  ConnectTimeout = 1
  TotalTimeout = 3
  RetryDelay = 2
  Cap = 3
  MaxRetries = 2
  MaxChunk = 4
INVARIANTS
  TypeOK
  WholeBody
  TimeBounded
PROPERTIES
  OnlyLateIsCut
  RequestSettles
CHECK_DEADLOCK FALSE
