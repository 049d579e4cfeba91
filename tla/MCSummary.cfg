SPECIFICATION FairSpec
CONSTANTS
  Threads = {t1, t2}
  NQuantiles = 2
  MaxAge = 5
  AgeBuckets = 2
  MaxTime = 7
  MaxCalls = 4
  None = None
CHECK_DEADLOCK FALSE
INVARIANT ScrapeOfWholeObservations
INVARIANT ScrapeWindowsShrink
INVARIANT ScrapeFresh
PROPERTY CallsReturn
