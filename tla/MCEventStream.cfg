CONSTANTS
  None = None
  Projects = {1, 2}
  MaxEvents = 2
  MaxBreaks = 1
  MaxRestarts = 1
  MaxRemovals = 1
  MaxCommands = 1
SPECIFICATION FairSpec
CHECK_DEADLOCK FALSE
INVARIANTS EachOnce
PROPERTIES CommandSeesCurrent EventuallyShown
