SPECIFICATION Spec
CONSTANTS
  MaxNodes = 3
  None = None
  Keys <- OneKey
  Lower <- OneLower
INVARIANT
  PrevIsPredecessor
CHECK_DEADLOCK FALSE
