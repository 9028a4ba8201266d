SPECIFICATION HeapSpec
CONSTANTS
  MaxBlocks = 3
  Null = Null
  Texts = {first, second}
  Docs <- MCDocs
  Allocators <- OnlyLibc
INVARIANT
  ErrorPtrOfTheLastParse
CHECK_DEADLOCK FALSE
