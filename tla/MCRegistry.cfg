SPECIFICATION FairSpec
CONSTANTS
  Threads = {t1, t2}
  TypeOrder <- MCTypeOrder
  Names = {n1, bad}
  BadNames = {bad}
  LabelSets = {la, lb}
  BadLabels = {}
  Metrics = {m1}
  Behaviors <- AllBehaviors
  MaxCalls = 4
  None = None
CHECK_DEADLOCK FALSE
INVARIANT OneFamilyPerName
INVARIANT HandedAsRequested
INVARIANT ScrapeBracketed
PROPERTY ScrapeWalksStillVectors
PROPERTY CallsReturn
