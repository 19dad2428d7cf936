SPECIFICATION VSpec
CONSTANTS
  NL = "newline"
  NUL = "NUL"
  Byte = {"h", "i", "l", "newline", "NUL"}
  SIZE = 5
  BIN_PEEK = 2
  Programs <- Binaries
  Cases <- RunOne
  Fixture <- TextFiles
INVARIANT EveryImplPasses
\* The script ends.
CHECK_DEADLOCK FALSE
