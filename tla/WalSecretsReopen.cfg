SPECIFICATION Spec
CONSTANTS
  CF = {c0, c1}
  default = c0
  MaxWrites = 2
  MaxWal = 6
  MaxBoot = 2
  avoid_flush_during_recovery = FALSE
  AllowRoll = FALSE
  AllowManifestError = FALSE
INVARIANT ReopensAfterCrash
