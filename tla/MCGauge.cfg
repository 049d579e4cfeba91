SPECIFICATION FairSpec
CONSTANTS
  Threads = {t1, t2, t3}
  Amounts <- MCAmounts
  MaxCalls = 4
  NoCall = NoCall
PROPERTY ImplementsAtomicGauge
PROPERTY LockFree
CHECK_DEADLOCK FALSE
