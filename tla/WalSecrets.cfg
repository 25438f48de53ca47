SPECIFICATION FairSpec
CONSTANTS
  CF = {c0, c1}
  default = c0
  MaxWrites = 2
  MaxWal = 6
  MaxBoot = 3
  avoid_flush_during_recovery = FALSE
  AllowRoll = FALSE
  AllowManifestError = FALSE
INVARIANTS TypeOK AckedVisible AppliedOnce BatchAtomic ReopensOutsideWindows
  LogNumbersForward CurrentWalKept
PROPERTY ObsoleteWalsGo
