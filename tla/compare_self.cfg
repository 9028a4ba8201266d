SPECIFICATION ParseSpec
CONSTANTS
  MaxNodes = 3
  NestingLimit = 2
  None = None
  Keys <- MCKeys
  Lower <- MCLower
  Inputs <- KeyTwice
INVARIANT
  ItemEqualsItself
CHECK_DEADLOCK FALSE
