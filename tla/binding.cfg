SPECIFICATION FairSpec
CONSTANTS
  a = a
  b = b
  c = c
  ghost = ghost
  m1 = m1
  m2 = m2
  e1 = e1
  e2 = e2
  None = None
  Dynamic = Dynamic
  Names <- AllNames
  Models <- TwoModels
  Endpoints <- TwoEndpoints
  Rank <- TheRank
  Requests <- SomeRequests
  Registries <- SomeRegistries
CHECK_DEADLOCK FALSE
INVARIANT TypeOK
INVARIANT ComponentsAreStrong
INVARIANT GroupedCyclesStayTogether
INVARIANT BoundIsServed
INVARIANT InspectionAgreesWithBinding
PROPERTY RequestAnswered
