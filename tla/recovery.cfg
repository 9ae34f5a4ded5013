SPECIFICATION FairRecoverySpec
CONSTANTS
  e1 = e1
  e2 = e2
  t1 = t1
  w1 = w1
  m1 = m1
  p1 = p1
  None = None
  Endpoints <- OneEndpoint
  Models <- OneModel
  Tasks <- OneTask
  Workflows <- OneWorkflow
  Polls <- OnePoll
  ModelOf <- TheModel
  WorkflowOf <- TheWorkflow
  Binding <- BoundToE1
  MaxRemaining = 1
  MaxFaults = 1
  MaxCrashes = 1
INVARIANT RecoveryTypeOK
INVARIANT NoticeRepeatedOnlyAfterLostReport
PROPERTY WaitingIsSentAgain
