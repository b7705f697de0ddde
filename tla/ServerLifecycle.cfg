CONSTANTS
  Event = {e1, e2}
  BatchSize = 2
  MaxFaults = 2
SPECIFICATION FairSpec
CHECK_DEADLOCK FALSE
INVARIANTS TypeOK NothingClosedInUse CleanEnd ErrorIsReported
PROPERTIES ProcessEnds
