SPECIFICATION Spec
CONSTANTS
  FlushJobs = {f1, f2}
  CompactionJobs = {c1}
  Iterators = {i1}
  MaxFile = 3
  MaxBoot = 1
  MaxIn = 1
  AllowRoll = FALSE
  AllowFailure = TRUE
  AllowManifestError = FALSE
SYMMETRY Symmetry
INVARIANTS LiveFilesReadable NeverAborts
