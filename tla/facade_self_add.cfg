SPECIFICATION SelfAddSpec
CONSTANTS
  MaxBlocks = 3
  Null = Null
  Texts = {text}
  Docs <- MCDocs
  Allocators <- OnlyLibc
INVARIANT
  NoStructHoldsItself
CHECK_DEADLOCK FALSE
