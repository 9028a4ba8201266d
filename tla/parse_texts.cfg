SPECIFICATION ParseSpec
CONSTANTS
  MaxNodes = 7
  NestingLimit = 2
  None = None
  Keys <- MCKeys
  Lower <- MCLower
  Inputs <- Texts
INVARIANTS
  ParserTypeOK
  AcceptsTheGrammar
  TreeSpellsTheText
  EveryNodeInOneHand
  NothingLeftBehind
  LinksConsistent
  OffsetInText
  CompareIsMeaning
  OverflowDiffersFromItsCopy
  PrintsWhatItParsed
PROPERTY
  ParseEnds
CHECK_DEADLOCK FALSE
