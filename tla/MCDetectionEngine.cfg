SPECIFICATION FairSpec
CONSTANTS
  NumPairs = 4
  Eligible = {1, 3, 4}
  Keys = {k1, k2}
  Concurrency = 2
  MaxPerPair = 1
  MaxRuns = 2
INVARIANT NoKeyStoredTwice
INVARIANT NothingReportedIsLost
INVARIANT EveryEligiblePairSettled
PROPERTY RunReturns
CHECK_DEADLOCK FALSE
