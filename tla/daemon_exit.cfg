SPECIFICATION Spec
CONSTANTS
  first = first
  other = other
  unknown = unknown
  a = a
  b = b
  c = c
  d = d
  None = None
  Models <- TwoLanes
  Rank <- TheRank
  Depth <- TheDepth
  Tasks <- AllTasks
  ModelOf <- TheModel
  Revocable <- SomeRevoked
INVARIANT ConsumerExitsOnlyOnShutdown
CHECK_DEADLOCK FALSE
