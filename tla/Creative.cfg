SPECIFICATION FairSpec
CONSTANTS
  MaxRequests = 2
  StreamCap = 2
  Checks = {1, 2}
  FlawedKeys = {"gateway.baseUrl", "gateway.connectTimeoutMs", "ollama.baseUrl"}
INVARIANTS
  TypeOK
  NoLeftovers
  ShownIsCurrent
  BusyWithCurrent
PROPERTIES
  PromiseKept
  RequestsEnd
  ConnectingEnds
CHECK_DEADLOCK FALSE
