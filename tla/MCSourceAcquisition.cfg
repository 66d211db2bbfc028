SPECIFICATION AcquisitionSpec
CONSTANTS
  r1 = r1
  r2 = r2
  Runs = {r1, r2}
  v = v
  w = w
  Videos = {v, w}
  Names <- MCNames
  None = None
  Requests <- MCRequests
  MaxFaults = 2
  MaxCrashes = 1
SYMMETRY Exchangeable
INVARIANTS  InsightOfTranscript
CHECK_DEADLOCK FALSE
