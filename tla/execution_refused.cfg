SPECIFICATION FairExecutionSpec
CONSTANTS
  e1 = e1
  t1 = t1
  t2 = t2
  w1 = w1
  w2 = w2
  m1 = m1
  p1 = p1
  None = None
  Endpoints <- OneEndpoint
  Models <- OneModel
  Tasks <- TwoTasks
  Workflows <- OneWorkflow
  Polls <- OnePoll
  ModelOf <- TheModel
  WorkflowOf <- SameWorkflow
  Binding <- BoundToE1
  MaxRemaining = 1
  MaxFaults = 0
PROPERTY RefusedIsDispatchedAgain
