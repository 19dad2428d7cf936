SPECIFICATION NFairSpec
CONSTANTS
  nothing = nothing f = f u = u d = d a = a s = s b = b k = k x = x
  e = e g = g p = p c = c h = h j = j y = y q = q m = m
  NWorkers = 2
  CAP = 2
  MAX_LINE = 3
  Lists <- SmallLists
  Pools <- ThePools
  Argvs <- CommandLines
  Parsers <- AllParsers
  Node <- Nodes
  Kind <- TreeKind
  Mode <- TreeMode
  Typeless = {k, g}
  Entries <- TreeEntries
  Levels <- TreeLevels
  Denied = {x}
  Broken = {y}
  Named <- Names
  Missing = nothing
  Content <- Contents
  Bytes <- Sizes
  ProbeDirs = {d, e}
  PER = 2
  WARM = 1
  ITERS = 1
  BUFSZ = 5
INVARIANTS ParsedRight FilesFoundOnce SameWork
INVARIANTS PTypeOK LinesWhole FilesWhole OwnOrder ListOrder Complete
PROPERTY Ends
\* The programs end, and some pools get stuck.
CHECK_DEADLOCK FALSE
