CONSTANTS
  NULL = NULL
  Appraisal = {a1}
  Call = {c1, c2}
  Kinds <- EventKinds
  Patches <- NoPatches
  NumAnalogs = 1
  DistinctStamps = TRUE
  MaxFaults = 0
SPECIFICATION Spec
CHECK_DEADLOCK FALSE
SYMMETRY Symmetric
INVARIANTS EventMatchesRow
