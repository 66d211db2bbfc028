------------------------- MODULE MCResearchWorkflow -------------------------
(* Small instances of ResearchWorkflow.                                    *)
EXTENDS ResearchWorkflow, TLC

Symmetry ==
  Permutations(Videos) \cup Permutations(Procs) \cup Permutations(DecisionKeys)
    \cup Permutations(RetryKeys) \cup Permutations(AcquireKeys)
=============================================================================
