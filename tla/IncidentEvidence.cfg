SPECIFICATION Spec
CONSTANTS
  Deliveries <- MCDeliveries
  Ancestry <- MCAncestry
  Descendants <- MCDescendants
  RootPid = 1
  Limit = 2
  None = None
INVARIANTS EveryEventIsShown AlertsAreAttachedUnless DeliveriesStayTogether
CHECK_DEADLOCK FALSE
