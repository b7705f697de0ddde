CONSTANTS
  Event = {e1, e2, e3}
  Relay = {m1, m2}
  BatchSize = 2
  MaxFaults = 1
  MaxStops = 1
SPECIFICATION FairSpec
CHECK_DEADLOCK FALSE
INVARIANTS TypeOK MarkedWasDelivered OnlyCommittedDelivered CopiesBounded
PROPERTIES EveryEventMarked
