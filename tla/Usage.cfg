SPECIFICATION FairSpec
CONSTANTS
  Providers = {"minimax", "xiaomi", "gemini", "xai"}
  Style <- MCStyle
  Lifetime = 2
INVARIANTS
  TypeOK
  PendingIsRunning
PROPERTIES
  FreshLeftAlone
  QuotasComeInRounds
  RefreshEnds
