SPECIFICATION Spec
CONSTANTS
  Ptr = {p1, p2, p3}
  Items = {a, b}
  NoItem = none
  Given = {a}
  MaxLen = 3
  MinPrune = 1
INVARIANTS
  TableAgrees
  WindowsAgree
PROPERTY
  WritesSettle
CHECK_DEADLOCK FALSE
