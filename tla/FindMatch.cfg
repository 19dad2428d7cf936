SPECIFICATION FFairSpec
CONSTANTS
  Byte <- Codes
  Hays <- SmallHays
  Pats <- SmallPats
  Floors = {0, 1}
  MaxCase = 5
  MaxCommon = 6
  LANES = 2
  BMH_MIN = 4
INVARIANTS FirstMatch InBounds FIInv
PROPERTY FTermination
\* find_match returns.
CHECK_DEADLOCK FALSE
