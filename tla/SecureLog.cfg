SPECIFICATION FairSpec
CONSTANTS
  kBlockSize = 8
  kHeaderSize = 2
  kRecyclableHeaderSize = 3
  MacSize = 2
  Length = {0, 1, 3, 4, 5, 9}
  MaxRecords = 3
  recycle_log_files_ = FALSE
  FlushModes = {TRUE, FALSE}
  RecoveryModes = {"kAbsoluteConsistency", "kPointInTimeRecovery"}
  AllowReadError = TRUE
INVARIANTS TypeOK FragmentsFit ReadsPrefix UntornLogReads AckedRecordsRead
  NothingDroppedSilently
PROPERTIES ReaderEnds ImplementsRecordLog
