SPECIFICATION FairSpec
CONSTANTS
  ConnectTimeout = 1
  TotalTimeout = 2
  RetryDelay = 1
  Cap = 2
  MaxRetries = 1
  MaxChunk = 3
INVARIANTS
  TotalDeadline
CHECK_DEADLOCK FALSE
