SPECIFICATION Spec
CONSTANTS
  c1 = c1
  c2 = c2
  e0 = e0
  None = None
  Calls = {c1, c2}
  Stored = {e0}
  MaxEvents = 2
  MaxBytes = 3
  Weight <- MCHeavy
  MaxCrashes = 0
INVARIANTS
  WrittenStoreReadable
