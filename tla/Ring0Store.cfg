SPECIFICATION Spec
CONSTANTS
  scheduler = scheduler
  cli = cli
  proc_ps = proc_ps
  unhide = unhide
  l1 = l1
  l2 = l2
  Checkers = {scheduler, cli}
  Scheduler = scheduler
  Plan <- MCPlan
  Fixed = {proc_ps}
  Serious = {unhide}
  Lines = {l1, l2}
  Tokenings <- MCTokenings
  MaxLines = 2
  MaxShown = 2
  MaxFailures = 1
  None = None
INVARIANTS OneRowPerFinding
PROPERTIES BatchIsVisible TrustNeverImproves PersistentAnomalyIsStored
CHECK_DEADLOCK FALSE
