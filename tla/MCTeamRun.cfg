CONSTANTS
  None = None
  Runs = {r1}
  Attempts = {a1, a2}
  MaxReviews = 2
  MaxRevised = 1
  MaxFaults = 2
  MaxEdits = 1
SPECIFICATION Spec
CHECK_DEADLOCK FALSE
INVARIANTS RecordFollows
PROPERTIES AcceptedKnowingly CommandsReturn
