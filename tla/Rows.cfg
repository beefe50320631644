SPECIFICATION RowSpec
CONSTANTS
  Label = {l1, l2}
  MaxRows = 3
INVARIANTS
  RowsAcyclic
  UnifiedRowsAgree
PROPERTIES
  RowsOnlyGrow
CHECK_DEADLOCK FALSE
