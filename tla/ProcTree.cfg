SPECIFICATION Spec
CONSTANTS
  Pids = {0, 1, 2}
  HostPids = {}
  Images = {}
  MaxTime = 1
  None = None
INVARIANTS TypeOK IndexCoversNodes LinksHaveEdges DanglingOnlyIfSeenLater OnePidPerNode
PROPERTY IdentityIsStable
CHECK_DEADLOCK FALSE
