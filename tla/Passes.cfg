SPECIFICATION Spec
CONSTANTS
  BuiltinNames <- MCBuiltins
  Band <- MCBand
  Programs <- MCPrograms
  MaxSuffix = 9
  MaxLambdas = 9
  LeafFuel = 12
  DepthLimit = 60
INVARIANTS
  MeaningKept
  BindersKept
  NothingLoose
  CompiledAgrees
  LoopsRunFlat
CHECK_DEADLOCK FALSE
