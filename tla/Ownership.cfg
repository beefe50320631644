CONSTANTS
  Names <- MCNames
  Sigs <- MCSigs
  Bodies <- MCBodies
  MaxMints = 3
  MaxRuns = 2
SPECIFICATION Spec
INVARIANTS UsedExactlyOnce MovedStaysAway
CHECK_DEADLOCK FALSE
