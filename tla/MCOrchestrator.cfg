SPECIFICATION FairSpec
CONSTANTS
  Scans = {s1}
  ReconOnly = {}
  MaxConcurrentScans = 0
  MaxFindings = 1
  HasScanTimeout = TRUE
  HasStageTimeout = TRUE
  CanonicalBound = 2
INVARIANT TypeOK
INVARIANT CompletedRanEverything
INVARIANT CompletedHidesNothing
INVARIANT FailureIsLocated
INVARIANT CancelledHasCause
PROPERTY CancelledNeverCompletes
PROPERTY EveryScanReturns
CHECK_DEADLOCK FALSE
