CONSTANTS
  None = None
  t1 = t1
  t2 = t2
  Tasks = {t1, t2}
  MaxDrawn = 3
  MaxAttempts = 2
  MaxTurns = 1
  MaxAgents = 1
  Scenarios <- Automatic
SPECIFICATION Spec
SYMMETRY TaskSymmetry
CHECK_DEADLOCK FALSE
INVARIANTS TurnsExclusive SettledRunsClose QuietAgree CodexKeepsTask LimitPerRetry
