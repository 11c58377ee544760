SPECIFICATION Spec
CONSTANTS
  p = p
  q = q
  c1 = c1
  c2 = c2
  Other = Other
  None = None
  Paths = {p, q}
  Calls = {c1, c2}
  MaxReads = 2
  MaxOthers = 0
CHECK_DEADLOCK FALSE
INVARIANTS
  CommitsOnlyDeclared
