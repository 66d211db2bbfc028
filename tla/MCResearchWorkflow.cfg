SPECIFICATION WorkflowSpec
CONSTANTS
  Videos = {v1, v2}
  Keys = {d1, d2, r1, r2, a1}
  DecisionKeys = {d1, d2}
  RetryKeys = {r1, r2}
  AcquireKeys = {a1}
  Procs = {p, q}
  NoAttempt = NoAttempt
  MaxRevision = 12
  MaxCrashes = 1
SYMMETRY Symmetry
INVARIANTS
  NeverRepeatsSettled
  AskedOnFreshIndexes
PROPERTY KeepsPromise
CHECK_DEADLOCK FALSE
