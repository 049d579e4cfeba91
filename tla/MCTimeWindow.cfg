SPECIFICATION Spec
CONSTANTS
  MaxAge = 7
  AgeBuckets = 3
  MaxTime = 10
INVARIANT NothingTooOld
INVARIANT NothingDroppedTooSoon
CHECK_DEADLOCK FALSE
