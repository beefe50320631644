SPECIFICATION UnitSpec
CONSTANTS
  Projects <- MCProjects
  Fold <- MCFold
  CiteKey <- MCCiteKey
  Slugify <- MCSlugify
  NoQuire <- MCNoQuire
  NoHeader <- MCNoHeader
  NoCheckout <- MCNoCheckout
  Capitals <- MCCapitals
  Builtins <- MCBuiltins
INVARIANTS
  UnitInOrder
  UnitIsWhole
  NamesSettled
PROPERTIES
  ResolvingEnds
CHECK_DEADLOCK FALSE
