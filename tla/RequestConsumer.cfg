CONSTANTS
  r1 = r1
  r2 = r2
  e1 = e1
  e2 = e2
  e3 = e3
  e4 = e4
  Instance = {i1, i2}
  EventId = {e1, e2, e3, e4}
  Request = {r1, r2}
  Record <- TwoRequests
  MaxLog = 2
  MaxFaults = 2
SPECIFICATION OperatedSpec
CHECK_DEADLOCK FALSE
INVARIANTS TypeOK NothingDropped MarkedIsCreated OnlyAskedFor
PROPERTIES NeverReopened EveryRequestAppraised BacklogDrains
