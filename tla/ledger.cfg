SPECIFICATION FairSpec
CONSTANTS
  s1 = s1
  s2 = s2
  r1 = r1
  r2 = r2
  t1 = t1
  Submits <- TwoSubmits
  Readers <- TwoReaders
  Tasks <- OneTask
  MaxCrashes = 1
CHECK_DEADLOCK FALSE
INVARIANT TypeOK
INVARIANT ClosedRecordHasNoLiveRun
INVARIANT EndRevokesInFlight
PROPERTY RecordGoesForward
PROPERTY EndedRunIsRecorded
