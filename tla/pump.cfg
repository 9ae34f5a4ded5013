SPECIFICATION FairSpec
CONSTANTS
  e1 = e1
  e2 = e2
  t1 = t1
  w1 = w1
  m1 = m1
  p1 = p1
  p2 = p2
  None = None
  Endpoints <- TwoEndpoints
  Models <- OneModel
  Tasks <- OneTask
  Workflows <- OneWorkflow
  Polls <- TwoPolls
  ModelOf <- TheModel
  WorkflowOf <- TheWorkflow
  Binding <- BoundToE1
  MaxRemaining = 1
  MaxFaults = 2
INVARIANT TypeOK
INVARIANT NotifiedAtMostOnce
INVARIANT SecondExecutorOnlyAfterDeath
INVARIANT PushedMeansSentWithoutOverlap
PROPERTY RebindOnlyOnExpiry
PROPERTY DeferredIsRetried
PROPERTY DeliverySpec
