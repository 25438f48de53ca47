SPECIFICATION Spec
CONSTANTS
  FlushJobs = {f1}
  CompactionJobs = {c1}
  Iterators = {i1}
  MaxFile = 3
  MaxBoot = 2
  MaxIn = 2
  AllowRoll = FALSE
  AllowFailure = FALSE
  AllowManifestError = FALSE
INVARIANTS LiveFilesReadable NeverAborts DurableKeysOutsideWindows
  KeyedNumbersSpent
PROPERTY KeyRecordOutlivesFile
