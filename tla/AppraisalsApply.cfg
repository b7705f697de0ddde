CONSTANTS
  NULL = NULL
  Appraisal = {a1}
  Call = {c1, c2}
  Kinds <- ApplyKinds
  Patches <- NoPatches
  NumAnalogs = 2
  DistinctStamps = TRUE
  MaxFaults = 0
SPECIFICATION Spec
CHECK_DEADLOCK FALSE
SYMMETRY Symmetric
INVARIANTS ComparablesMatchCalculation
