CONSTANTS
  NULL = NULL
  r1 = r1
  i1 = i1
  c1 = c1
  c2 = c2
  e1 = e1
  e2 = e2
  Appraisal = {r1}
  Call = {c1, c2}
  Kinds <- TwoKinds
  Patches <- NoPatches
  NumAnalogs = 1
  DistinctStamps = TRUE
  Instance = {i1}
  EventId = {e1, e2}
  Record <- OneRequest
  BatchSize = 1
  Host <- OnOneHost
  MaxLog = 2
  MaxStops = 1
  MaxCallFaults = 1
  MaxLoopFaults = 1
  MaxRelayFaults = 1
SPECIFICATION FairSpec
CHECK_DEADLOCK FALSE
INVARIANTS TypeOK OutboxIsOne AnnouncedIsTrue
PROPERTIES RefinesFlow RefinesComponents
