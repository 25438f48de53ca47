SPECIFICATION Spec
CONSTANTS
  Users <- MCUsers
  Gaps <- MCGaps
  MaxSeq = 2
  Values <- TombstoneValues
  MacSize = 1
  Skip = 3
  MaxEntries = 3
  AllowReadError = FALSE
INVARIANT GetFindsEntry
