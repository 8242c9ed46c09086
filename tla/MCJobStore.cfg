SPECIFICATION FairSpec
CONSTANTS
  a = a
  b = b
  c = c
  Procs = {a, b, c}
  Foreign = {c}
  Pids = {i, j}
  Known <- ThreeKnown
INVARIANT TypeOK
INVARIANT OnlyTheDeadAreInterrupted
INVARIANT FinishedScanSettles
INVARIANT MigratedOnce
PROPERTY StrandedJobsAreSwept
CHECK_DEADLOCK FALSE
