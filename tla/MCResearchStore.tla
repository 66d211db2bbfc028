--------------------------- MODULE MCResearchStore ---------------------------
(* Small instances of ResearchStore.                                       *)
EXTENDS ResearchStore, TLC

Symmetry == Permutations(Keys) \cup Permutations(Videos)
=============================================================================
