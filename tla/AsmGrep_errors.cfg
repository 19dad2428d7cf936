SPECIFICATION GFairSpec
CONSTANTS
  r = r a = a b = b x = x y = y u = u
  short = short long = long half1 = half1 half2 = half2
  NoNode = NoNode
  Node <- TreeNode
  Entries <- TreeEntries
  Mode <- TreeMode
  DType <- TreeMode
  PathLen <- UnitLen
  Roots <- FileAndTree
  Unreadable = {b}
  opt_r = TRUE
  NThreads = 1
  PAR_SPAWN = 2
  MAX_DIRS = 8
  ARENA_SZ = 100
  PATH_MAX_BUILD = 9
  Line = {short, long, half1, half2}
  LinesOf <- FileLines
  Size <- LineSize
  multi = TRUE
  OUTBUF_SZ = 5
  WriteMayFail = TRUE
INVARIANT IOErrorsReported
\* The process ends.
CHECK_DEADLOCK FALSE
