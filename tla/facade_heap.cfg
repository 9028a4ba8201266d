SPECIFICATION HeapSpec
CONSTANTS
  MaxBlocks = 5
  Null = Null
  Texts = {text}
  Docs <- MCDocs
  Allocators <- TwoAllocators
INVARIANTS
  HeapTypeOK
  NothingLeakedOrShared
  SiblingsLinkedBothWays
  BuildsTheDocument
  FreedByItsAllocator
CONSTRAINTS
  TwoTrees
  OneSwitch
  RejectedFirst
CHECK_DEADLOCK FALSE
