SPECIFICATION TreeSpec
CONSTANTS
  MaxNodes = 3
  None = None
  Keys <- MCKeys
  Lower <- MCLower
PROPERTIES
  ForestSpec
  KeyIsFirstMatch
  CreatedHangsOrIsGone
CHECK_DEADLOCK FALSE
