SPECIFICATION TreeSpec
CONSTANTS
  MaxNodes = 4
  None = None
  Keys <- NoKeys
  Lower <- NoLower
INVARIANTS
  LinksConsistent
  SingleOwner
  RootsStandAlone
  Acyclic
PROPERTIES
  ForestSpec
  IndexIsPosition
CHECK_DEADLOCK FALSE
