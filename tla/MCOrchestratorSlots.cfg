SPECIFICATION FairSpec
CONSTANTS
  Scans = {s1, s2}
  ReconOnly = {s2}
  MaxConcurrentScans = 1
  MaxFindings = 0
  HasScanTimeout = FALSE
  HasStageTimeout = FALSE
  CanonicalBound = 0
INVARIANT SlotAccounting
PROPERTY ImplementsLifecycle
CHECK_DEADLOCK FALSE
