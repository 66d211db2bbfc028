------------------------------- MODULE MCServing -------------------------------
(* The threads of the server process: those that answer requests (LoopbackServer)   *)
(* and the one that runs jobs (JobExecutor).  They share no state, so that each is   *)
(* explored while the other has not begun; nothing of it is then due to happen.     *)
EXTENDS JobExecutor, LoopbackServer

ExecutorNotBegun == issued = {} /\ ~closed

ServerNotBegun == closer = "none" /\ ~closing /\ \A r \in Requests : request[r] = "none"

MCInit == ExecutorInit /\ ServerInit

MCNext ==
  \/ ServerNotBegun /\ ExecutorNext /\ UNCHANGED serverVars
  \/ ExecutorNotBegun /\ ServerNext /\ UNCHANGED executorVars

MCSpec ==
  /\ MCInit /\ [][MCNext]_<<executorVars, serverVars>>
  /\ ExecutorFairness /\ ServerFairness
================================================================================
