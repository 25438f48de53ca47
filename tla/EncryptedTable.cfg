SPECIFICATION Spec
CONSTANTS
  Users <- MCUsers
  Gaps <- MCGaps
  MaxSeq = 2
  Values <- MCValues
  MacSize = 1
  Skip = 3
  MaxEntries = 3
  AllowReadError = TRUE
INVARIANTS
  TypeOK
  ForwardContract
  BackwardInBlock
  StatusTellsStaleBlock
  GetCorrect
