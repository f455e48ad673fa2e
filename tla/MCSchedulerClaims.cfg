SPECIFICATION Spec
CONSTANTS
  None = None
  t1 = t1
  t2 = t2
  p1 = p1
  p2 = p2
  Tasks = {t1}
  AttemptIds = {a1, a2, a3}
  Workspaces <- MCOneWorkspace
  Paths = {p1}
  WorkspaceIds = {"w1", "w2", "w3"}
  Repositories = {"r"}
  Threads = {s1}
  ClaudeThreads = {}
  Turns = {u1}
  TaskStates = {"todo", "done"}
  Summaries <- MCSummaries
  Policies <- MCOnePolicy
  MaxSequence = 3
  MaxRestarts = 2
SYMMETRY MCAttemptSymmetry
CHECK_DEADLOCK FALSE
INVARIANTS TypeOK ClaimsAgree
PROPERTIES ImplementsTaskLease
