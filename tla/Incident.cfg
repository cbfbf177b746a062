SPECIFICATION Spec
CONSTANTS
  Pids = {1, 2, 3}
  Kinds = {"open_cron", "alert"}
  Images <- MCImages
  HostTrust = 2
  UpCap = 2
  DownCaps = {1, 2}
  ListLimit = 1
  Roots = {1}
  MaxTime = 2
  MaxActs = 1
  None = None
INVARIANTS EventsOfFinishedProcessesAreShown AncestorsShowItToo HitsAreTaggedAndCostTrust SuspicionReachesThePage
 
CHECK_DEADLOCK FALSE
