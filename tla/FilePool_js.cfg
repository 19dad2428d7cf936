SPECIFICATION PSpec
CONSTANTS
  NWorkers = 2
  CAP = 2
  MAX_LINE = 3
  Lists <- TwoFiles
  Pools <- JSPools
INVARIANT NeverSplitsALine
CHECK_DEADLOCK FALSE
