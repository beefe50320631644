SPECIFICATION Spec
CONSTANTS
  Defs <- MCDefs
  Fuel = 12
  Limit = 8
  Theories <- MCTheories
  Ctors <- MCCtors
  Depth = 2
INVARIANTS
  ProvedHolds
  PlannedMeansSame
CHECK_DEADLOCK FALSE
