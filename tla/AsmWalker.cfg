SPECIFICATION FairSpec
CONSTANTS
  r = r a = a b = b c = c d = d e = e k = k m = m n = n gone = gone
  NoNode = NoNode
  Node <- TreeNode
  Entries <- TreeEntries
  Mode <- TreeMode
  DType <- TreeDType
  PathLen <- UnitLen
  Roots <- ManyRoots
  Unreadable = {e}
  Matching = {m}
  opt_r = TRUE
  NThreads = 3
  PAR_SPAWN = 2
  MAX_DIRS = 2
  ARENA_SZ = 9
  PATH_MAX_BUILD = 9
INVARIANTS RInv DirqMutex PendingExact NoEarlyExit
PROPERTIES FlagsFinal Termination ImplementsTreeSearch
