SPECIFICATION FairSpec
CONSTANTS
  FlushJobs = {f1}
  CompactionJobs = {c1}
  Iterators = {}
  MaxFile = 3
  MaxBoot = 1
  MaxIn = 1
  AllowRoll = TRUE
  AllowFailure = FALSE
  AllowManifestError = TRUE
INVARIANTS TypeOK ListedTablesExist NeverAborts
PROPERTY JobsFinish
