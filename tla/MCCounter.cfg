SPECIFICATION CounterSpec
CONSTANTS
  Threads = {t1, t2, t3}
  Amounts <- MCAmounts
  MaxCalls = 4
  NoCall = NoCall
SYMMETRY Symmetry
PROPERTY NeverDecreases
CHECK_DEADLOCK FALSE
