SPECIFICATION Spec
CONSTANTS
  open1 = open1
  open2 = open2
  untimed = untimed
  i1 = i1
  i2 = i2
  Events = {open1, open2, untimed}
  Stamp <- MCStamp
  Ingests = {i1, i2}
  MaxCaptures = 2
  MaxLines = 3
  MaxNow = 1
  Torn = Torn
  None = None
INVARIANTS StoredOnce
PROPERTIES IngestedIsStored EvidenceIsKept
CHECK_DEADLOCK FALSE
