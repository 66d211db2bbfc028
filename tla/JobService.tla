------------------------------ MODULE JobService ------------------------------
(***************************************************************************)
(* What the job executor promises those who submit work: an accepted job is *)
(* pending until it is done, and only a job that is done may be forgotten.  *)
(***************************************************************************)
CONSTANT Ids

VARIABLES
  jobs,     \* job id -> what a submitter can know of it
  open      \* new work is accepted

serviceVars == <<jobs, open>>

Done == {id \in Ids : jobs[id] = "done"}

ServiceInit == jobs = [id \in Ids |-> "unknown"] /\ open = TRUE

\* Accepting work may forget jobs that are done, to keep the records bounded.
Accept(id, old) ==
  /\ open
  /\ jobs[id] = "unknown"
  /\ old \subseteq Done
  /\ jobs' = [j \in Ids |-> IF j = id THEN "pending"
                            ELSE IF j \in old THEN "forgotten" ELSE jobs[j]]
  /\ UNCHANGED open

Forget(old) ==
  /\ old \subseteq Done
  /\ jobs' = [j \in Ids |-> IF j \in old THEN "forgotten" ELSE jobs[j]]
  /\ UNCHANGED open

Finish(id) ==
  /\ jobs[id] = "pending"
  /\ jobs' = [jobs EXCEPT ![id] = "done"]
  /\ UNCHANGED open

Shut == open' = FALSE /\ UNCHANGED jobs

ServiceNext ==
  \/ \E id \in Ids, old \in SUBSET Ids : Accept(id, old)
  \/ \E old \in SUBSET Ids : Forget(old)
  \/ \E id \in Ids : Finish(id)
  \/ Shut

ServiceSpec == ServiceInit /\ [][ServiceNext]_serviceVars

=============================================================================
