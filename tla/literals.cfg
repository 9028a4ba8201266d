SPECIFICATION LiteralsSpec
CONSTANTS
  StringCalls <- Strings
  NumberCalls <- Numbers
  MinifyCalls <- Sources
INVARIANTS
  LiteralsTypeOK
  EndsAtTheFirstBareQuote
  OutputFits
  DecodesWhatIsWritten
  EscapedComesBack
  NumberIsLongestPrefix
  MinifyKeepsTheTokens
CHECK_DEADLOCK FALSE
