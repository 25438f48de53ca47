SPECIFICATION Spec
CONSTANTS
  kBlockSize = 8
  kHeaderSize = 2
  kRecyclableHeaderSize = 3
  MacSize = 2
  Length = {0, 1, 3, 4, 5, 9}
  MaxRecords = 2
  recycle_log_files_ = FALSE
  FlushModes = {FALSE}
  RecoveryModes = {"kPointInTimeRecovery"}
  AllowReadError = FALSE
INVARIANT TornTailIsEndOfLog
