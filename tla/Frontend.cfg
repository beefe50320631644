SPECIFICATION Spec
CONSTANTS
  Names = {"a", "b", "f", "x", "y", "on", "for", "all", "do", "times", "falling", "back", "to", "failure", "family", "deriving", "wrapping", "clamping", "t", "r"}
  TypeNames = {"T", "Chapter", "Section", "Page", "Integer", "Vector"}
  Texts <- MCTexts
INVARIANTS
  TreesRead
  NextItemRead
  PlacesRight
PROPERTY
  EachTurnTakes
CHECK_DEADLOCK FALSE
