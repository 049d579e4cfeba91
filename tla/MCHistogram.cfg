SPECIFICATION Spec
CONSTANTS
  Observers = {o1, o2}
  Scrapers = {s1}
  Boundaries <- MCBoundaries
  Values <- MCValues
  Batches <- MCBatches
  MaxCalls = 3
SYMMETRY MCSymmetry
INVARIANT NothingLost
INVARIANT ScrapeCumulative
PROPERTY ScrapesNeverGoBack
INVARIANT ScrapeSumCoversCounts
CHECK_DEADLOCK FALSE
