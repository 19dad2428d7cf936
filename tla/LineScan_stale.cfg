SPECIFICATION SSpec
CONSTANTS
  a = a
  b = b
  NL = NL
  NUL = NUL
  Byte <- Letters
  SIZE = 5
  BIN_PEEK = 2
  MaxFile = 2
  Jobs <- AfterLong
  Searches <- StaleTail
INVARIANT OnlyMatches
\* A thread ends when it has no file left.
CHECK_DEADLOCK FALSE
