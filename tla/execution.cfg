SPECIFICATION FairExecutionSpec
CONSTANTS
  e1 = e1
  t1 = t1
  t2 = t2
  w1 = w1
  w2 = w2
  m1 = m1
  p1 = p1
  None = None
  Endpoints <- OneEndpoint
  Models <- OneModel
  Tasks <- TwoTasks
  Workflows <- TwoWorkflows
  Polls <- OnePoll
  ModelOf <- TheModel
  WorkflowOf <- OwnWorkflow
  Binding <- BoundToE1
  MaxRemaining = 2
  MaxFaults = 1
INVARIANT ExecutionTypeOK
INVARIANT LiveSocketIsCurrent
PROPERTY ComesBackOnline
PROPERTY SettledUnlessGivenUp
