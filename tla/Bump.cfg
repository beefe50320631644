SPECIFICATION Spec
CONSTANTS
  Align = 2
  HeapOrigin = 8
  ImageOrigin = 5
  Size = {1, 3}
  Address = {7, 8, 11}
  MaxDepth = 2
  MaxAddress = 14
INVARIANTS
  HomesDisjoint
  BelowCursor
PROPERTIES
  ExtentsKeepCursors
CHECK_DEADLOCK FALSE
