SPECIFICATION Spec
CONSTANTS
  MaxNodes = 3
  None = None
  Keys <- OneKey
  Lower <- OneLower
PROPERTY
  ReferencesNeedLiveSource
CHECK_DEADLOCK FALSE
