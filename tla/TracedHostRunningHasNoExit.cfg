SPECIFICATION HostSpec
CONSTANTS
  Pids = {0, 1, 2, 3}
  HostPids = {}
  Images = {sh, curl}
  MaxTime = 1
  None = None
  Reaper = 1
  Preexisting = {1}
  Reuse = TRUE
  Ordered = TRUE
  MaxLag = 1
INVARIANT RunningHasNoExit
CHECK_DEADLOCK FALSE
