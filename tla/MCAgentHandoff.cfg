CONSTANTS
  None = None
  t1 = t1
  t2 = t2
  Tasks = {t1}
  MaxDrawn = 2
  MaxAttempts = 2
  MaxTurns = 1
  MaxAgents = 1
  Scenarios <- HandedOver
SPECIFICATION FairSpec
PROPERTIES HandoffsReturn
CHECK_DEADLOCK FALSE
