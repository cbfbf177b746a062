SPECIFICATION Spec
CONSTANTS
  s1 = s1
  s2 = s2
  c1 = c1
  Setups = {s1, s2}
  Checks = {c1}
  ProcIds = {1, 2}
  MayHide = TRUE
  None = None
INVARIANTS SteadyAnswerIsRight SetupLeavesListenerAlone
CHECK_DEADLOCK FALSE
