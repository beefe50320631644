SPECIFICATION Spec
CHECK_DEADLOCK FALSE
CONSTANTS
  Chapters <- MCChapters
  Arguments = {0, 1, 2}
  Constructors = {"Keep"}
INVARIANTS
  SameAnswer
  RoundsSettle
  LoopsStay
