SPECIFICATION FairSpec
CONSTANTS
  x = x
  y = y
  z = z
  Nodes <- ThreeNodes
  Needed <- OutputNodes
  NoticeKinds <- AllKinds
  MaxNotices = 1
CHECK_DEADLOCK FALSE
INVARIANT TypeOK
INVARIANT CompletedHasItsInputs
INVARIANT PromiseResolvedOnce
PROPERTY OutcomeChangesOnlyInWindow
PROPERTY AcceptedNoticeWakesNode
PROPERTY NotifiedRunEnds
PROPERTY StatusSpec
