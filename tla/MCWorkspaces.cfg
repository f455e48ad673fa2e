CONSTANTS
  None = None
  w1 = w1
  w2 = w2
  Ids <- MCIds
  Path <- MCPath
  Attempts = {a1, a2}
  Managers = {m1, m2}
  MaxCalls = 5
  MaxEdits = 2
  MaxRenewals = 1
SYMMETRY Symmetric
SPECIFICATION Spec
CHECK_DEADLOCK FALSE
INVARIANTS WorktreesKept
PROPERTIES NothingLost ExclusiveHolder
