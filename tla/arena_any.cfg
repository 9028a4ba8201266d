SPECIFICATION Spec
CONSTANTS
  MaxNodes = 2
  None = None
  Keys <- MCKeys
  Lower <- MCLower
INVARIANT
  LinksInBounds
CHECK_DEADLOCK FALSE
