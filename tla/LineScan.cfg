SPECIFICATION SFairSpec
CONSTANTS
  a = a
  b = b
  NL = NL
  NUL = NUL
  Byte <- Letters
  SIZE = 5
  BIN_PEEK = 2
  MaxFile = 4
  Jobs <- AfterLong
  Searches <- FileSearches
INVARIANT LinesPrinted
PROPERTY STermination
\* A thread ends when it has no file left.
CHECK_DEADLOCK FALSE
