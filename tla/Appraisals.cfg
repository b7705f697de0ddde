CONSTANTS
  NULL = NULL
  Appraisal = {a1, a2}
  Call = {c1, c2, c3}
  Kinds <- AllKinds
  Patches <- SomePatches
  NumAnalogs = 2
  DistinctStamps = TRUE
  MaxFaults = 2
SPECIFICATION Spec
CHECK_DEADLOCK FALSE
SYMMETRY Symmetric
INVARIANTS TypeOK AcknowledgedIsKept RejectedLeavesNoTrace OneEventPerCompletion SnapshotIsCurrent
PROPERTIES FrozenRow NoLostUpdate RefinesLifecycle
