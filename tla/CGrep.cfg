SPECIFICATION CFairSpec
CONSTANTS
  r = r a = a b = b c = c d = d x = x y = y z = z k = k p = p u = u v = v s = s
  short = short long = long long2 = long2 half1 = half1 half2 = half2
  unseen = unseen unseen2 = unseen2
  NoNode = NoNode
  Node <- TreeNode
  Paths <- FilesAndTree
  Entries <- TreeEntries
  DType <- TreeDType
  Mode <- TreeMode
  TooLong = {s}
  Unreadable = {d, u}
  Unmapped = {v}
  Line = {short, long, long2, half1, half2, unseen, unseen2}
  LinesOf <- FileLines
  Size <- LineSize
  OUTBUF_SZ = 5
  PathLen <- NameLen
  MAX_DIRS = 2
  ARENA_SZ = 12
  g_r = TRUE
  nt = 3
  CreateMayFail = TRUE
  WriteMayFail = FALSE
INVARIANTS PendingExact NoEarlyExit HelpersDone LinesWhole EachKindInOrder OutputComplete
PROPERTIES ImplementsTreeSearch CTermination
\* The process ends.
CHECK_DEADLOCK FALSE
