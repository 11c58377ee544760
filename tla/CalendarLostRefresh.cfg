SPECIFICATION FairSpec
CONSTANTS
  c1 = c1
  c2 = c2
  e0 = e0
  None = None
  Calls = {c1, c2}
  Stored = {e0}
  MaxEvents = 2
  MaxBytes = 2
  Weight <- MCWeight
  MaxCrashes = 0
PROPERTIES
  NoSilentDivergence
