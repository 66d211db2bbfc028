--------------------------- MODULE MCStaleRestart ---------------------------
(***************************************************************************)
(* One behaviour of ResearchWorkflow that is too long for breadth-first     *)
(* search: who acts at each step is given, and the outcome of the network.  *)
(* Process q replays a retry key, finds attempt a1 behind a failed index    *)
(* refresh, and is delayed before it takes the lock.  Meanwhile p finishes  *)
(* a1 with another key and a second attempt fails; q restarts a1 then.      *)
(***************************************************************************)
EXTENDS ResearchWorkflow

CONSTANTS v1, v2, v3, v4, p, q, a1, a2, r1, r2, r3

VARIABLE done   \* steps taken

Turn(n, A) == done = n /\ A

Asks(n, found, approved) ==
  \/ Turn(n, DecideCommand) /\ session'.state = "discovering"
  \/ Turn(n + 1, BeginDiscover(p))
  \/ Turn(n + 2, Discover(p)) /\ DOMAIN candidates' = found
  \/ Turn(n + 3, ApproveCommand) /\ {v \in found : candidates'[v] = "approved"} = approved

Begins(n, k) ==
  \/ Turn(n, BeginAcquire(p, k)) \/ Turn(n + 1, Reserves(p)) \/ Turn(n + 2, LockAttempt(p))
  \/ Turn(n + 3, Continue(p))

Item(n, x, v, outcome) ==
  \/ Turn(n, Acquire(x)) /\ proc'[x].got = [w \in {v} |-> outcome]
  \/ Turn(n + 1, Record(x))

Retrying(n, x, k) ==
  \/ Turn(n, BeginRetry(x, k)) \/ Turn(n + 1, FindAttempt(x)) \/ Turn(n + 2, ClaimLock(x))
  \/ Turn(n + 3, Claim(x))

Ends(n, x) == Turn(n, Respond(x)) \/ Turn(n + 1, Complete(x))

Script ==
  \/ Turn(0, Start(p)) \/ Turn(1, Assess(p))
  \/ Asks(2, {v1, v2, v3}, {v1, v2, v3}) \/ Begins(6, a1)
  \/ Item(10, p, v1, "acquired") \/ Item(12, p, v2, "failed_retryable")
  \/ Item(14, p, v3, "failed_retryable")
  \/ Turn(16, FinishAcquisition(p)) \/ Turn(17, RefreshFails(p))
  \/ Retrying(18, p, r1) \/ Turn(22, RefreshFails(p)) \/ Turn(23, Crash(p))
  \/ Turn(24, BeginRetry(q, r1)) \/ Turn(25, FindAttempt(q))
  \/ Retrying(26, p, r2) \/ Turn(30, RefreshIndexes(p)) \/ Turn(31, Reindexed(p))
  \/ Turn(32, Assess(p)) \/ Ends(33, p)
  \/ Asks(35, {v2, v4}, {v4}) \/ Begins(39, a2)
  \/ Item(43, p, v4, "failed_retryable") \/ Turn(45, FailAcquisition(p))
  \/ Turn(46, ClaimLock(q)) \/ Turn(47, Claim(q)) \/ Turn(48, Continue(q))
  \/ Item(49, q, v2, "acquired") \/ Turn(51, FailAcquisition(q)) \/ Ends(52, q)
  \/ Retrying(54, p, r3) \/ Turn(58, Continue(p))
  \/ Item(59, p, v4, "no_transcript") \/ Turn(61, FinishAcquisition(p))
  \/ Turn(62, Reindexed(p)) \/ Turn(63, Assess(p))

ScriptSpec ==
  /\ WorkflowInit /\ done = 0
  /\ [][WorkflowNext /\ Script /\ done' = done + 1]_<<workflowVars, done>>
=============================================================================
