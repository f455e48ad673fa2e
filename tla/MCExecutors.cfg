CONSTANTS
  None = None
  Refs = {q1, q2}
  MaxTurns = 2
  MaxSteers = 1
  MaxFaults = 1
SPECIFICATION Spec
CHECK_DEADLOCK FALSE
INVARIANTS QuestionsHeld CompletedIsIdle
PROPERTIES CallsReturn KeepsContract
