SPECIFICATION MCSpec
CONSTANTS
  Ids = {i1, i2, i3, i4}
  MaxQueued = 2
  MaxRecords = 2
  NoJob = NoJob
  Requests = {r1, r2, r3}
  MaxWorkers = 2
INVARIANTS
  InOrder
  QuiescentOnceClosing
  
PROPERTIES
  AcceptedJobsEnd
  KeepsJobs
  ClosingEnds
CHECK_DEADLOCK FALSE
