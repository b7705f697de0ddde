CONSTANTS
  Call = {c1, c2}
  NULL = NULL
  Default <- Base
  Config <- Stored
  Input <- Inputs
  MaxFaults = 1
SPECIFICATION Spec
CHECK_DEADLOCK FALSE
SYMMETRY Calls
INVARIANTS TypeOK CalculatedInForce Reconciled FormulaTypesAgree LikeKeepsPrice
PROPERTIES OnlyAdminsReplace
