-------------------------- MODULE MCBrowserAttempts --------------------------
(* One scope is in play, the plan s1 or the action r1: the generations of the *)
(* others are at their bound from the start.  The plan s2 only fills the cache.*)
EXTENDS BrowserAttempts

CONSTANTS s1, s2, r1

PlanSize == [p \in Plans |-> IF p = s1 THEN 1 ELSE 2]

InPlay(s) == generation[s] < MaxGeneration

MCInit ==
  /\ \E s \in {s1, r1} : AttemptsInitFrom([o \in Scopes |-> IF o = s THEN 0 ELSE MaxGeneration])

\* No plans are previewed while only the action is in play.
MCNext == AttemptsNext /\ (InPlay(r1) => plans' = plans)

MCSpec == MCInit /\ [][MCNext]_attemptVars /\ AttemptsFairness

=============================================================================
