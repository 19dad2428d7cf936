SPECIFICATION FairSpec
CONSTANTS
  r = r a = a b = b c = c d = d e = e k = k m = m n = n gone = gone
  NoNode = NoNode
  Node <- TreeNode
  Entries <- TreeEntries
  Mode <- TreeMode
  DType <- TreeDType
  PathLen <- UnitLen
  Roots <- OneRoot
  Unreadable = {e}
  Matching = {m}
  opt_r = TRUE
  NThreads = 2
  PAR_SPAWN = 2
  MAX_DIRS = 8
  ARENA_SZ = 100
  PATH_MAX_BUILD = 9
INVARIANT HelpersJoined
