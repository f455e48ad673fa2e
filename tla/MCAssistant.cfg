CONSTANTS
  MaxRequests = 3
  MaxTools = 2
  MaxFaults = 1
  MaxCrashes = 1
SPECIFICATION Spec
CHECK_DEADLOCK FALSE
INVARIANTS PeopleDecide OneRun NothingInterrupted
PROPERTIES RunsEnd
