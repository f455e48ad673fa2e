CONSTANTS
  None = None
  a1 = a1
  a2 = a2
  Attempts = {a1, a2}
  Questions <- MCQuestions
  Requests <- MCRequests
  Contents = {"c"}
  Settings <- MCSettings
  MaxLines = 4
  MaxVersion = 2
SPECIFICATION Spec
CHECK_DEADLOCK FALSE
INVARIANTS AnswersKept RestartSafe ArtifactsWhole
PROPERTIES AnsweredRunsOnce
