SPECIFICATION Spec
CONSTANTS
  Threads = {t1, t2}
  l1 = l1
  l2 = l2
  bad = bad
  LabelSets = {l1, l2, bad}
  BadLabels = {bad}
  h1 = h1
  h2 = h2
  h3 = h3
  Hashes = {h1, h2, h3}
  Hash <- OneHashForTwo
  Addresses = {a1, a2, a3}
  OutOfMemory = FALSE
  MaxCalls = 4
  None = None
CHECK_DEADLOCK FALSE
INVARIANT AssertSameLabels
