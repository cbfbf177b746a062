SPECIFICATION Spec
CONSTANTS
  r1 = r1
  r2 = r2
  named = named
  anonymous = anonymous
  e1 = e1
  a1 = a1
  Requests = {r1, r2}
  Payloads <- MCPayloads
  EventId <- MCEventId
  AlertId <- MCAlertId
  MaxItems = 2
  MaxClock = 4
  None = None
INVARIANTS EvidenceTracesBack AnsweredMeansStored RetriesAreAbsorbed
PROPERTY ImplementsLedger
CHECK_DEADLOCK FALSE
