-------------------------- MODULE ResearchWorkflow --------------------------
(***************************************************************************)
(* ResearchWorkflow (src/yt_insights/research/workflow.py): the commands of *)
(* one research session, run by several operating-system processes over     *)
(* the shared store.  A command is a sequence of store transactions with    *)
(* network and index work between them; a process may die after any step    *)
(* and the kernel then releases its flock locks.                            *)
(*                                                                         *)
(* A command whose first check refuses it, and one that only reads a        *)
(* committed answer again, change nothing and are not modelled as steps.    *)
(***************************************************************************)
EXTENDS ResearchStore

CONSTANTS
  Procs,          \* processes that run commands
  DecisionKeys,   \* keys sent with decide, approve and cancel
  RetryKeys,      \* keys sent with retry
  AcquireKeys,    \* keys sent with acquire
  MaxCrashes      \* bound on crashes

ASSUME WorkflowAssumption ==
  /\ DecisionKeys \cup RetryKeys \cup AcquireKeys \subseteq Keys
  /\ MaxCrashes \in Nat

VARIABLES
  proc,       \* what each process is executing
  corpus,     \* videos whose transcript is in the data root
  indexed,    \* videos the published index pair was built from
  crashes

workflowVars == <<storeVars, proc, corpus, indexed, crashes>>

-----------------------------------------------------------------------------
(* Processes.  rev is the session revision a command believes in, todo the  *)
(* videos left to acquire, got the outcome about to be recorded.            *)

NoOutcome == [v \in {} |-> "pending"]

Idle == [command |-> "none", pc |-> "idle", key |-> NoAttempt, rev |-> 0,
         attempt |-> NoAttempt, partial |-> FALSE, todo |-> {}, known |-> {},
         got |-> NoOutcome, error |-> "none", locks |-> {}]

At(p, pc) == proc[p].pc = pc

Go(p, changes) ==
  proc' = [proc EXCEPT ![p] = [f \in DOMAIN Idle |->
             IF f \in DOMAIN changes THEN changes[f] ELSE proc[p][f]]]

\* Faulty: the lock file is opened but its lock is not tested.
LockFree_Unchecked(lock) == TRUE

LockFree(lock) == \A q \in Procs : lock \notin proc[q].locks

RetryLock(k) == <<"retry", k>>

AttemptLock(a) == <<"acquisition", a>>

\* The response is built: a retry still has to store it, others are done.
Return(p, rev, error) ==
  IF proc[p].command = "retry"
  THEN Go(p, [pc |-> "respond", rev |-> rev, error |-> error])
  ELSE proc' = [proc EXCEPT ![p] = Idle]

\* The transaction the process was about to run raises; the command ends.
Raise(p) == proc' = [proc EXCEPT ![p] = Idle] /\ UNCHANGED storeVars

Quiet == UNCHANGED <<corpus, indexed, crashes>>

Free(p) ==
  /\ At(p, "idle")
  /\ session.revision < MaxRevision
  /\ Quiet

-----------------------------------------------------------------------------
(* Commands of one transaction: decide, approve and cancel.                *)

\* Commands that a user sends are bounded; those in progress may finish.
Answerable == session.revision < MaxRevision /\ UNCHANGED proc /\ Quiet

DecideCommand ==
  /\ Answerable
  /\ \E k \in DecisionKeys, action \in {"sufficient", "refresh"} :
       DecideSufficiency(k, session.revision, action)

ApproveCommand ==
  /\ Answerable
  /\ \E k \in DecisionKeys, approved \in SUBSET DOMAIN candidates :
       ApproveCandidates(k, session.revision, approved)

CancelCommand ==
  /\ Answerable
  /\ session.state = "awaiting_candidates"
  /\ \E k \in DecisionKeys : Cancel(k, session.revision)

-----------------------------------------------------------------------------
(* start and the reassessment every acquisition ends with.                 *)

Start(p) ==
  /\ Free(p)
  /\ CreateSession
  /\ Go(p, [command |-> "start", pc |-> "assess", rev |-> 0])

AssessmentFails(p) ==
  /\ At(p, "assess")
  /\ RecordFailure(proc[p].rev, "assessing")
  /\ Return(p, proc[p].rev + 1, "local_index_unavailable")
  /\ Quiet

Assess(p) ==
  /\ At(p, "assess")
  /\ IF proc[p].partial
     THEN /\ RecordPartialAssessment(proc[p].rev, proc[p].attempt)
          /\ Return(p, proc[p].rev + 1, "partial_acquisition_failed")
     ELSE /\ RecordAssessment(proc[p].rev)
          /\ Return(p, proc[p].rev + 1, "none")
  /\ Quiet

AssessRefused(p) ==
  /\ At(p, "assess")
  /\ \/ ~Expected(proc[p].rev, {"assessing"})
     \/ proc[p].partial /\ ~PartiallyRetryable(proc[p].attempt)
  /\ Raise(p) /\ Quiet

-----------------------------------------------------------------------------
(* discover: the provider is called between the check and the transaction.  *)

BeginDiscover(p) ==
  /\ Free(p)
  /\ session.state = "discovering"
  /\ Go(p, [command |-> "discover", pc |-> "discover", rev |-> session.revision])
  /\ UNCHANGED storeVars

DiscoveryFails(p) ==
  /\ At(p, "discover")
  /\ RecordFailure(proc[p].rev, "discovering")
  /\ Return(p, proc[p].rev + 1, "discovery_unavailable")
  /\ Quiet

Discover(p) ==
  /\ At(p, "discover")
  /\ \E found \in (SUBSET Videos) \ {{}} : RecordCandidates(proc[p].rev, found)
  /\ Return(p, proc[p].rev + 1, "none")
  /\ Quiet

DiscoverRefused(p) ==
  /\ At(p, "discover")
  /\ ~Expected(proc[p].rev, {"discovering"})
  /\ Raise(p) /\ Quiet

-----------------------------------------------------------------------------
(* acquire.                                                                *)

\* Faulty: the whole snapshot is taken for the approved batch.
Approved_Snapshot == DOMAIN candidates

Approved == {v \in DOMAIN candidates : candidates[v] = "approved"}

BeginAcquire(p, k) ==
  /\ Free(p)
  /\ session.state = "acquiring"
  /\ k \notin DOMAIN attempts
  /\ Approved # {} /\ Cardinality(Approved) <= MaxApproved
  /\ Go(p, [command |-> "acquire", pc |-> "reserve", key |-> k,
            rev |-> session.revision, todo |-> Approved])
  /\ UNCHANGED storeVars

Reserves(p) ==
  /\ At(p, "reserve")
  /\ StartAttempt(proc[p].key, proc[p].rev, proc[p].todo)
  /\ Go(p, [pc |-> "lock", attempt |-> proc[p].key])
  /\ Quiet

ReserveRefused(p) ==
  /\ At(p, "reserve")
  /\ ~Startable(proc[p].key, proc[p].rev, proc[p].todo)
  /\ Raise(p) /\ Quiet

\* The session is read again under the lock, the attempt is not.
LockAttempt(p) ==
  /\ At(p, "lock")
  /\ IF LockFree(AttemptLock(proc[p].attempt))
     THEN Go(p, [pc |-> "continue", rev |-> session.revision,
                 locks |-> {AttemptLock(proc[p].attempt)}])
     ELSE proc' = [proc EXCEPT ![p] = Idle]
  /\ UNCHANGED storeVars /\ Quiet

-----------------------------------------------------------------------------
(* _continue_acquisition: under the attempt's lock, each video that has no  *)
(* settled outcome is acquired and recorded in a transaction of its own.    *)

Continue(p) ==
  /\ At(p, "continue")
  /\ Go(p, [pc |-> "item", known |-> DOMAIN candidates,
            todo |-> {v \in VideosOf(proc[p].attempt) :
                        attempts[proc[p].attempt].outcomes[v] \notin Settled}])
  /\ UNCHANGED storeVars /\ Quiet

\* ResearchAcquisitionService on one video: a cached transcript is found again,
\* a new one is promoted into the corpus, and either way the item may fail.
Acquire(p) ==
  /\ At(p, "item")
  /\ \E v \in proc[p].todo \cap proc[p].known :
       \E outcome \in {"failed_retryable"} \cup
            (IF v \in corpus THEN {"already_present"} ELSE {"acquired", "no_transcript"}) :
         /\ corpus' = IF outcome = "acquired" THEN corpus \cup {v} ELSE corpus
         /\ Go(p, [pc |-> "record", got |-> [w \in {v} |-> outcome]])
  /\ UNCHANGED <<storeVars, indexed, crashes>>

Record(p) ==
  /\ At(p, "record")
  /\ RecordProgress(proc[p].rev, proc[p].attempt, proc[p].got)
  /\ Go(p, [pc |-> "item", todo |-> proc[p].todo \ DOMAIN proc[p].got,
            got |-> NoOutcome])
  /\ Quiet

RecordRefused(p) ==
  /\ At(p, "record")
  /\ ~(Active(proc[p].rev, proc[p].attempt) /\ Recordable(proc[p].attempt, proc[p].got))
  /\ Raise(p) /\ Quiet

\* A reserved video that left the snapshot, or a batch that only failed.
NothingReady(p) ==
  \/ proc[p].todo \ proc[p].known # {}
  \/ /\ proc[p].todo = {}
     /\ HasOutcome(proc[p].attempt, {"failed_retryable"})
     /\ ~HasOutcome(proc[p].attempt, Ready)

FailAcquisition(p) ==
  /\ At(p, "item") /\ NothingReady(p)
  /\ RecordAcquisitionFailure(proc[p].rev, proc[p].attempt)
  /\ Return(p, proc[p].rev + 1, "acquisition_unavailable")
  /\ Quiet

FinishAcquisition(p) ==
  /\ At(p, "item") /\ proc[p].todo = {} /\ ~NothingReady(p)
  /\ CompleteAttempt(proc[p].rev, proc[p].attempt)
  /\ Go(p, [pc |-> IF HasOutcome(proc[p].attempt, Ready) THEN "refresh" ELSE "reindexed",
            partial |-> HasOutcome(proc[p].attempt, {"failed_retryable"}),
            rev |-> proc[p].rev + 1])
  /\ Quiet

AcquisitionRefused(p) ==
  /\ At(p, "item") /\ (proc[p].todo = {} \/ NothingReady(p))
  /\ \/ ~Active(proc[p].rev, proc[p].attempt)
     \/ ~NothingReady(p) /\ HasOutcome(proc[p].attempt, {"pending"})
  /\ Raise(p) /\ Quiet

-----------------------------------------------------------------------------
(* _finish_reindexing.                                                     *)

RefreshIndexes(p) ==
  /\ At(p, "refresh")
  /\ indexed' = corpus
  /\ Go(p, [pc |-> "reindexed"])
  /\ UNCHANGED <<storeVars, corpus, crashes>>

RefreshFails(p) ==
  /\ At(p, "refresh")
  /\ RecordFailure(proc[p].rev, "reindexing")
  /\ Return(p, proc[p].rev + 1, "index_refresh_failed")
  /\ Quiet

Reindexed(p) ==
  /\ At(p, "reindexed")
  /\ CompleteReindexing(proc[p].rev)
  /\ Go(p, [pc |-> "assess", rev |-> proc[p].rev + 1])
  /\ Quiet

ReindexRefused(p) ==
  /\ At(p, "reindexed") \/ At(p, "refresh")
  /\ ~Expected(proc[p].rev, {"reindexing"})
  /\ Raise(p) /\ Quiet

-----------------------------------------------------------------------------
(* retry.  A key is replayed with the revision it was first sent with.      *)

BeginRetry(p, k) ==
  /\ Free(p)
  /\ session.state # "absent"
  /\ k \in DOMAIN decisions => Incomplete(k)
  /\ LockFree(RetryLock(k))
  /\ Go(p, [command |-> "retry", pc |-> "find", key |-> k,
            rev |-> IF k \in DOMAIN decisions THEN decisions[k].revision
                                              ELSE session.revision,
            locks |-> {RetryLock(k)}])
  /\ UNCHANGED storeVars

FindAttempt(p) ==
  /\ At(p, "find")
  /\ \/ \E a \in RetryAttempts(proc[p].key, proc[p].rev) :
          Go(p, [pc |-> IF a = NoAttempt THEN "claim" ELSE "claim_lock", attempt |-> a])
     \/ /\ RetryAttempts(proc[p].key, proc[p].rev) = {}
        /\ proc' = [proc EXCEPT ![p] = Idle]
  /\ UNCHANGED storeVars /\ Quiet

ClaimLock(p) ==
  /\ At(p, "claim_lock")
  /\ IF LockFree(AttemptLock(proc[p].attempt))
     THEN Go(p, [pc |-> "claim", locks |-> proc[p].locks \cup {AttemptLock(proc[p].attempt)}])
     ELSE proc' = [proc EXCEPT ![p] = Idle]
  /\ UNCHANGED storeVars /\ Quiet

\* Faulty: a resumed reindexing trusts the indexes of the interrupted run.
StageOf_NoRefresh(target) ==
  CASE target = "acquiring" -> "continue"
    [] target = "reindexing" -> "reindexed"
    [] target = "assessing" -> "assess"
    [] target = "discovering" -> "discover"

\* _resume_retry: where the resumed stage enters the command.
StageOf(target) ==
  CASE target = "acquiring" -> "continue"
    [] target = "reindexing" -> "refresh"
    [] target = "assessing" -> "assess"
    [] target = "discovering" -> "discover"

\* Faulty: a resumed pipeline forgets that its batch failed in part.
PartlyFailed_Forgotten(a) == FALSE

\* _partial_attempt_id
PartlyFailed(a) ==
  a # NoAttempt /\ HasOutcome(a, {"failed_retryable"}) /\ HasOutcome(a, Ready)

Resume(p, target, rev) ==
  Go(p, [pc |-> StageOf(target), rev |-> rev, partial |-> PartlyFailed(proc[p].attempt)])

Claim(p) ==
  /\ At(p, "claim")
  /\ LET k == proc[p].key
         rev == proc[p].rev
         a == proc[p].attempt IN
     \/ ClaimRetry(k, rev, a) /\ Resume(p, RetryTarget, session'.revision)
     \/ ReclaimRetry(k, rev, a) /\ Resume(p, ReclaimTarget(k, a), session'.revision)
     \/ /\ Finalizable(k, rev, a)
        /\ Return(p, session.revision, FinalError(k, a))
        /\ UNCHANGED storeVars
     \/ /\ ~(Claimable(k, rev, a) \/ Reclaimable(k, rev, a) \/ Finalizable(k, rev, a))
        /\ Raise(p)
  /\ Quiet

\* _response: when the session has moved on, the newer snapshot is the answer.
Respond(p) ==
  /\ At(p, "respond")
  /\ Go(p, [pc |-> "complete", rev |-> session.revision,
            error |-> IF session.revision = proc[p].rev THEN proc[p].error ELSE "none"])
  /\ UNCHANGED storeVars /\ Quiet

Complete(p) ==
  /\ At(p, "complete")
  /\ IF Incomplete(proc[p].key) /\ proc[p].rev >= decisions[proc[p].key].claim
     THEN CompleteRetry(proc[p].key, proc[p].rev, proc[p].error)
     ELSE UNCHANGED storeVars
  /\ proc' = [proc EXCEPT ![p] = Idle]
  /\ Quiet

-----------------------------------------------------------------------------
\* Faulty: the locks are files that outlive the process that made them.
Crash_KeepsLocks(p) ==
  /\ ~At(p, "idle")
  /\ crashes < MaxCrashes
  /\ crashes' = crashes + 1
  /\ proc' = [proc EXCEPT ![p] = [Idle EXCEPT !.locks = proc[p].locks]]
  /\ UNCHANGED <<storeVars, corpus, indexed>>

\* The process dies, or its command is abandoned by an unexpected exception.
Crash(p) ==
  /\ ~At(p, "idle")
  /\ crashes < MaxCrashes
  /\ crashes' = crashes + 1
  /\ proc' = [proc EXCEPT ![p] = Idle]
  /\ UNCHANGED <<storeVars, corpus, indexed>>

Command(p) ==
  \/ Start(p) \/ BeginDiscover(p)
  \/ \E k \in AcquireKeys : BeginAcquire(p, k)
  \/ \E k \in RetryKeys : BeginRetry(p, k)

Step(p) ==
  \/ Assess(p) \/ AssessmentFails(p) \/ AssessRefused(p)
  \/ Discover(p) \/ DiscoveryFails(p) \/ DiscoverRefused(p)
  \/ Reserves(p) \/ ReserveRefused(p) \/ LockAttempt(p)
  \/ Continue(p) \/ Acquire(p) \/ Record(p) \/ RecordRefused(p)
  \/ FailAcquisition(p) \/ FinishAcquisition(p) \/ AcquisitionRefused(p)
  \/ RefreshIndexes(p) \/ RefreshFails(p) \/ Reindexed(p) \/ ReindexRefused(p)
  \/ FindAttempt(p) \/ ClaimLock(p) \/ Claim(p) \/ Respond(p) \/ Complete(p)

WorkflowInit ==
  /\ Init
  /\ proc = [p \in Procs |-> Idle]
  /\ corpus = {} /\ indexed = {}
  /\ crashes = 0

WorkflowNext ==
  \/ DecideCommand \/ ApproveCommand \/ CancelCommand
  \/ \E p \in Procs : Command(p) \/ Step(p) \/ Crash(p)

WorkflowSpec == WorkflowInit /\ [][WorkflowNext]_workflowVars

\* A live process goes on with its command, and the user sends every retry key
\* again as long as it has no result.
FairSpec ==
  /\ WorkflowSpec
  /\ \A p \in Procs : WF_workflowVars(Step(p))
  /\ \A p \in Procs, k \in RetryKeys : SF_workflowVars(BeginRetry(p, k))

-----------------------------------------------------------------------------
(* Properties.                                                             *)

Locks == ({"retry"} \X Keys) \cup ({"acquisition"} \X Keys)

\* What a process remembers between two transactions has the expected shape.
WorkflowTypeOK ==
  /\ \A p \in Procs :
       /\ proc[p].command \in {"none", "start", "discover", "acquire", "retry"}
       /\ proc[p].rev \in Nat /\ proc[p].partial \in BOOLEAN
       /\ {proc[p].key, proc[p].attempt} \subseteq Keys \cup {NoAttempt}
       /\ proc[p].todo \cup proc[p].known \subseteq Videos
       /\ proc[p].locks \subseteq Locks
       /\ proc[p].command = "none" => proc[p] = Idle
  /\ indexed \subseteq corpus /\ corpus \subseteq Videos
  /\ crashes \in 0..MaxCrashes

\* Under the attempt's lock no saved outcome is acquired a second time, however
\* many processes started, retried or crashed on the same attempt before.
NeverRepeatsSettled ==
  \A p \in Procs : At(p, "item") =>
    \A v \in proc[p].todo : attempts[proc[p].attempt].outcomes[v] \notin Settled

\* The commands implement the session promised to the user: in particular
\* nothing enters the corpus that the user has not approved by its id.
Promised == INSTANCE ResearchSession WITH
  phase <- Phase, consented <- ConsentedVideos, held <- corpus

KeepsPromise == Promised!SessionSpec

\* Every transcript that attempt a reports as ready is in the published indexes.
Indexed(a) == \A v \in VideosOf(a) : attempts[a].outcomes[v] \in Ready => v \in indexed

\* When the sufficiency question is asked again, it is asked on indexes that have
\* every transcript of the latest batch, and of every batch that ran through.
AskedOnFreshIndexes ==
  session.state \in {"awaiting_sufficiency", "completed"} =>
    \A a \in DOMAIN attempts :
      IsLatest(a, DOMAIN attempts) \/ attempts[a].status # "failed_retryable" => Indexed(a)

\* The same for every attempt.  It does not hold: a retry that found its attempt
\* before it took the lock may restart one that a newer attempt has replaced.
AskedOnAllTranscripts ==
  session.state \in {"awaiting_sufficiency", "completed"} =>
    \A a \in DOMAIN attempts : Indexed(a)

\* A partial batch never ends as a success: once its session has left the
\* pipeline, an attempt with failed and ready items is retryable, whether the
\* batch ran through or was finished by a retry after a crash.
PartialFailureStaysRetryable ==
  \A a \in WithStatus("completed") :
    HasOutcome(a, {"failed_retryable"}) /\ HasOutcome(a, Ready) =>
      a = batch /\ (Pipelined \/ session.target = "assessing")

\* The item statuses shown with the session are the outcomes of its latest
\* attempt, until the next discovery replaces the snapshot.
SnapshotShowsOutcomes ==
  \A a \in DOMAIN attempts :
    /\ IsLatest(a, DOMAIN attempts)
    /\ Running(a) \/ Pipelined \/ session.target = "acquiring"
         \/ session.state = "awaiting_sufficiency"
    => \A v \in VideosOf(a) :
         /\ v \in DOMAIN candidates
         /\ attempts[a].outcomes[v] # "pending" => candidates[v] = attempts[a].outcomes[v]

\* A retry with a fresh key is accepted whenever the session has failed or one
\* of its attempts is running (its process may have died).
FreshRetryAccepted ==
  session.state = "failed_retryable" \/ WithStatus("running") # {} =>
    \E a \in FreshRetryAttempts(session.revision) : Acceptable(session.revision, a)

\* A retry is accepted, with a fresh key or with that of an unfinished one.
Resumable ==
  \/ \E a \in FreshRetryAttempts(session.revision) : Acceptable(session.revision, a)
  \/ \E k \in DOMAIN decisions : LET rev == decisions[k].revision IN
       \E a \in ReplayedRetryAttempts(k, rev) :
         Reclaimable(k, rev, a) \/ Finalizable(k, rev, a)

NobodyWorks == \A p \in Procs : At(p, "idle")

\* Every assessment cycle ends in the sufficiency question: a session left in
\* assessing by a process that died can be taken further by a retry.
AssessmentCycleResumable ==
  NobodyWorks /\ session.state = "assessing" => Resumable

\* A session whose index refresh was interrupted can resume from reindexing.
RefreshResumable ==
  NobodyWorks /\ session.state = "reindexing" => Resumable

\* The reservation a crashed retry leaves behind satisfies what
\* get_decision_replay requires of it: the claimed session is in the state the
\* retry targets, at a later revision than the one the key was sent with.
ReservationReadable ==
  \A k \in DOMAIN decisions : Incomplete(k) =>
    /\ decisions[k].claimed = decisions[k].target
    /\ decisions[k].claim > decisions[k].revision

BoundReached ==
  \/ session.revision >= MaxRevision
  \/ \A k \in RetryKeys : k \in DOMAIN decisions /\ ~Incomplete(k)

\* An acquisition that was begun is answered: whatever process dies on the way,
\* retrying brings its session to the question or to a recorded failure.
AcquisitionAnswered ==
  WithStatus("running") # {} ~>
    session.state \in {"awaiting_sufficiency", "failed_retryable"} \/ BoundReached

=============================================================================
