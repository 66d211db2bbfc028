--------------------------- MODULE MCReplayRegistry ---------------------------
(* A small instance of ReplayRegistry.                                      *)
EXTENDS ReplayRegistry, TLC

Symmetry == Permutations(Calls) \cup Permutations(Ids) \cup Permutations(Payloads)
              \cup Permutations(Queued)
=============================================================================
