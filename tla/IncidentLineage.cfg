SPECIFICATION LineageSpec
CONSTANTS
  NodeKeys = {1, 2, 3, 4, 5}
  Small = {1, 2, 3}
  Caps = {0, 1, 2, 3, 4}
  None = None
INVARIANTS
  AncestryIsAChain
  AncestryIsMaximal
  DescendantsAreConnected
  DescendantsAreComplete
  LineageIsIncidents
PROPERTY WalkEnds
CHECK_DEADLOCK FALSE
