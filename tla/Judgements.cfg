SPECIFICATION Spec
CONSTANTS
  Expr <- MCExpr
  Local <- MCLocal
  Chapters <- MCChapters
  AllocClass <- MCAllocClass
  BudgetArg <- MCBudgetArg
  RtSafe <- MCRtSafe
  RtUnsafe <- MCRtUnsafe
  Logic <- MCLogic
  NoClass <- MCNoClass
  ScopedOp <- MCScopedOp
  Channel <- MCChannel
  Nodes <- MCNodes
  Binds <- MCBinds
  Head1 <- MCHead1
  Args <- MCArgs
  RhsAllocates <- MCRhsAllocates
  Grows <- MCGrows
  Allocates <- MCAllocates
  Overbudget <- MCOverbudget
  Reaches <- MCReaches
  AppliesLocalBuiltin <- MCAppliesLocalBuiltin
  Acts <- MCActs
INVARIANTS
  RoundsReachAll
  PromisesKept
  PunctualRunsEnd
CHECK_DEADLOCK FALSE
