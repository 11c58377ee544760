SPECIFICATION TimedSpec
CONSTANTS
  Providers = {"xai", "gemini", "minimax"}
  Style <- MCStyle
  Lifetime = 1
PROPERTIES
  EveryFetchHasDeadline
