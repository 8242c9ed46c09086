SPECIFICATION FairSpec
CONSTANTS
  m3 = m3
  t1 = t1
  t2 = t2
  Passive = {p1, p2}
  Original = {o1}
  Mutated = {m1, m2, m3}
  Targets = {t1, t2}
  Target <- MCTarget
  Concurrency = 1
  MaxRedirects = 1
  MaxRequests = 1
  MaxPerTarget = 1
  MaxTotal = 2
INVARIANT TypeOK
INVARIANT Ceilings
INVARIANT FlightsBounded
INVARIANT BudgetIsUsable
PROPERTY EveryCallEnds
CHECK_DEADLOCK FALSE
