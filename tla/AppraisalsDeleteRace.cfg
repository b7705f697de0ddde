CONSTANTS
  NULL = NULL
  Appraisal = {a1}
  Call = {c1, c2, c3}
  Kinds <- DeleteKinds
  Patches <- NoPatches
  NumAnalogs = 1
  DistinctStamps = TRUE
  MaxFaults = 0
SPECIFICATION Spec
CHECK_DEADLOCK FALSE
SYMMETRY Symmetric
PROPERTIES NoDeleteFromCompleted
