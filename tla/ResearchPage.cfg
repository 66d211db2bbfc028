SPECIFICATION PageSpec
CONSTANTS
  SessionStates = {"awaiting_candidate_approval", "discovering", "acquiring"}
  Acquiring = "acquiring"
  Deciding = {"awaiting_candidate_approval"}
  Starting = {"discovering", "acquiring"}
  Replayed = {"acquiring"}
  Materials = {1, 2}
  Works = {w1}
  Nothing = Nothing
  MaxRevision = 2
INVARIANTS
  EvidenceIsOfItsRevision
PROPERTIES
  AcceptedOnItsEvidence
  JobResultShown
CHECK_DEADLOCK FALSE
