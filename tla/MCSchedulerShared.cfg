SPECIFICATION Spec
CONSTANTS
  None = None
  t1 = t1
  t2 = t2
  p1 = p1
  p2 = p2
  Tasks = {t1, t2}
  AttemptIds = {a1, a2}
  Workspaces <- MCContested
  Paths = {p1, p2}
  WorkspaceIds = {"w1", "w2", "w3"}
  Repositories = {"r"}
  Threads = {s1, s2}
  ClaudeThreads = {s2}
  Turns = {u1, u2}
  TaskStates = {"todo", "done"}
  Summaries <- MCSummaries
  Policies <- MCReloads
  MaxSequence = 2
  MaxRestarts = 0
SYMMETRY MCAttemptSymmetry
CHECK_DEADLOCK FALSE
INVARIANTS WorkspacesAgree CleanupIsIdle SessionsExclusive
PROPERTIES StartsWithinLimits
