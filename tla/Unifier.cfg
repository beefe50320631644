SPECIFICATION PoolSpec
CONSTANTS
  Program = {"structural", "applications", "lanes", "names", "effects", "linears"}
  MaxVars = 3
  MaxRows = 4
  RowsPerCall = 2
  MaxCalls = 5
  Depth = 5
  ListName = 21
  LinkedListName = 22
  SessionState = {31, 32}
  Label <- MCLabel
  Term <- MCTerm
  Operand <- MCOperand
  Walked <- MCWalked
  Bare <- MCBare
  Mentions <- MCMentions
  MentionsRow <- MCMentionsRow
INVARIANTS
  NoWalkedCycle
  UnifiedAgree
  ProofMismatchReported
PROPERTIES
  BindsOnce
  CallsReturn
CHECK_DEADLOCK FALSE
