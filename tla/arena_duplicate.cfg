SPECIFICATION DupSpec
CONSTANTS
  MaxNodes = 8
  BuildNodes = 3
  CircularLimit = 2
  None = None
  Keys <- OneKey
  Lower <- OneLower
INVARIANTS
  DupTypeOK
  CopyIsFaithful
  NothingLeftOfARefusedCopy
  RefusedForAReason
  LinksConsistent
PROPERTIES
  OthersUntouched
  CopyEnds
CHECK_DEADLOCK FALSE
