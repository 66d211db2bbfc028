SPECIFICATION Spec
CONSTANTS
  Videos = {v1, v2}
  Keys = {k1, k2, k3}
  NoAttempt = NoAttempt
  MaxRevision = 9
SYMMETRY Symmetry
PROPERTIES
  AnswersKept
  RevisionNamesEvidence
CHECK_DEADLOCK FALSE
