SPECIFICATION Spec
CONSTANTS
  s1 = s1
  s2 = s2
  c1 = c1
  Setups = {s1, s2}
  Checks = {c1}
  ProcIds = {1, 2}
  MayHide = FALSE
  None = None
INVARIANT FindingMeansHidden
CHECK_DEADLOCK FALSE
