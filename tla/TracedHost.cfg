SPECIFICATION HostSpec
CONSTANTS
  Pids = {0, 1, 2, 3}
  HostPids = {}
  Images = {sh, curl}
  MaxTime = 1
  None = None
  Reaper = 1
  Preexisting = {1}
  Reuse = FALSE
  Ordered = FALSE
  MaxLag = 2
SYMMETRY ImagesAlike
INVARIANTS RunningHasNoExit KeyIsPidAndStart ExitIsRecorded ParentWasAParent ImageIsCurrent
CHECK_DEADLOCK FALSE
