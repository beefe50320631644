SPECIFICATION Spec
CONSTANTS
  Capital <- MCCapital
  Band <- MCBand
  BuiltinSigs <- MCBuiltinSigs
  Chapters <- MCChapters
INVARIANTS
  NothingLeftOpen
  CheckedRunsWell
  EffectsCovered
CHECK_DEADLOCK FALSE
