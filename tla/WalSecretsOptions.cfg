SPECIFICATION Spec
CONSTANTS
  CF = {c0, c1}
  default = c0
  MaxWrites = 2
  MaxWal = 4
  MaxBoot = 3
  avoid_flush_during_recovery = TRUE
  AllowRoll = TRUE
  AllowManifestError = TRUE
INVARIANTS AckedVisible AppliedOnce
