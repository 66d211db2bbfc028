---------------------------- MODULE ResearchStore ----------------------------
(***************************************************************************)
(* The durable state of one research session and the write transactions of *)
(* src/yt_insights/research/store.py.  Every operator below is one call of  *)
(* _write(operation): BEGIN IMMEDIATE, the checks, the updates, COMMIT.  A  *)
(* failed check raises and rolls back, so it is a step that does not exist. *)
(*                                                                         *)
(* Rows are abstracted to what the transactions read: a session snapshot is *)
(* named by its revision (one revision is one version of the row), an       *)
(* acquisition attempt by its idempotency key (the column is UNIQUE and the *)
(* attempt id is a digest that contains it), videos by members of Videos.   *)
(***************************************************************************)
EXTENDS Naturals, FiniteSets

CONSTANTS
  Videos,       \* the video identities a discovery can return
  Keys,         \* the idempotency keys callers may send
  NoAttempt,    \* SQL NULL where an attempt is expected
  MaxRevision   \* bound: no transaction commits on a session at this revision

ASSUME StoreAssumption ==
  /\ NoAttempt \notin Keys
  /\ MaxRevision \in Nat

VARIABLES
  session,      \* the research_sessions row
  assessments,  \* revisions that have a research_assessments row
  candidates,   \* latest research_candidates snapshot: video -> status
  decisions,    \* research_decisions: key -> row, for the keys used so far
  attempts,     \* research_acquisition_attempts with their outcomes
  batch         \* attempt of the latest acquisition_batch_recorded event

storeVars == <<session, assessments, candidates, decisions, attempts, batch>>

-----------------------------------------------------------------------------
(* Values.                                                                 *)

FailureTargets == {"assessing", "discovering", "acquiring", "reindexing"}

States == FailureTargets \cup
  {"absent", "awaiting_sufficiency", "awaiting_candidates", "completed",
   "failed_retryable", "cancelled"}

Ready == {"acquired", "already_present"}

Settled == Ready \cup {"no_transcript"}

\* "pending": the reserved video has no row in research_acquisition_outcomes.
Outcomes == Settled \cup {"failed_retryable", "pending"}

CandidateStatuses == Settled \cup {"candidate", "approved", "failed_retryable"}

MaxApproved == 5

NoResult == 0     \* a decision's result is never the revision of creation

-----------------------------------------------------------------------------
(* Reads inside a transaction.                                             *)

Expected(rev, states) == session.revision = rev /\ session.state \in states

\* Faulty: the state changes and the revision does not.
Transition_Unnumbered(to, target) ==
  session' = [state |-> to, target |-> target, revision |-> session.revision]

\* _transition: the new state, the next revision, and an event row.
Transition(to, target) ==
  session' = [state |-> to, target |-> target, revision |-> session.revision + 1]

WithStatus(status) == {a \in DOMAIN attempts : attempts[a].status = status}

\* ORDER BY expected_revision DESC LIMIT 1.
IsLatest(a, set) ==
  /\ a \in set
  /\ \A b \in set : attempts[b].revision <= attempts[a].revision

VideosOf(a) == DOMAIN attempts[a].outcomes

HasOutcome(a, statuses) ==
  \E v \in VideosOf(a) : attempts[a].outcomes[v] \in statuses

SetStatus(a, status) == attempts' = [attempts EXCEPT ![a].status = status]

\* One more row in a table of rows named by their key.
WithRow(table, k, row) ==
  [j \in DOMAIN table \cup {k} |-> IF j = k THEN row ELSE table[j]]

\* A user decision stores the session that its transition produced.
Decide(k, rev, action, request) ==
  decisions' = WithRow(decisions, k,
    [action |-> action, revision |-> rev, request |-> request,
     claim |-> NoResult, claimed |-> "none", result |-> session.revision + 1,
     target |-> "none", error |-> "none"])

\* A retry reservation stores the session it resumed (its revision in claim,
\* its state in claimed) and no result yet.
Incomplete(k) ==
  /\ k \in DOMAIN decisions
  /\ decisions[k].action = "retry"
  /\ decisions[k].result = NoResult

-----------------------------------------------------------------------------
(* Assessment and decisions.                                               *)

CreateSession ==
  /\ session.state = "absent"
  /\ session' = [state |-> "assessing", target |-> "none", revision |-> 0]
  /\ UNCHANGED <<assessments, candidates, decisions, attempts, batch>>

RecordAssessment(rev) ==
  /\ Expected(rev, {"assessing"})
  /\ assessments' = assessments \cup {rev + 1}
  /\ Transition("awaiting_sufficiency", "none")
  /\ UNCHANGED <<candidates, decisions, attempts, batch>>

PartiallyRetryable(a) ==
  /\ a \in WithStatus("completed")
  /\ ~HasOutcome(a, {"pending"})
  /\ HasOutcome(a, {"failed_retryable"})
  /\ HasOutcome(a, Ready)

RecordPartialAssessment(rev, a) ==
  /\ Expected(rev, {"assessing"})
  /\ PartiallyRetryable(a)
  /\ assessments' = assessments \cup {rev + 1}
  /\ SetStatus(a, "failed_retryable")
  /\ Transition("awaiting_sufficiency", "none")
  /\ UNCHANGED <<candidates, decisions, batch>>

\* A key that is already in the table replays its stored result: no step.
DecideSufficiency(k, rev, action) ==
  /\ k \notin DOMAIN decisions
  /\ action \in {"sufficient", "refresh"}
  /\ Expected(rev, {"awaiting_sufficiency"})
  /\ Transition(IF action = "sufficient" THEN "completed" ELSE "discovering", "none")
  /\ Decide(k, rev, action, {})
  /\ UNCHANGED <<assessments, candidates, attempts, batch>>

\* An empty snapshot inserts no row, so the latest snapshot stays the old one.
RecordCandidates(rev, found) ==
  /\ Expected(rev, {"discovering"})
  /\ candidates' = IF found = {} THEN candidates ELSE [v \in found |-> "candidate"]
  /\ Transition("awaiting_candidates", "none")
  /\ UNCHANGED <<assessments, decisions, attempts, batch>>

ApproveCandidates(k, rev, approved) ==
  /\ approved # {} /\ Cardinality(approved) <= MaxApproved
  /\ k \notin DOMAIN decisions
  /\ Expected(rev, {"awaiting_candidates"})
  /\ approved \subseteq DOMAIN candidates
  /\ candidates' = [v \in DOMAIN candidates |->
                      IF v \in approved THEN "approved" ELSE candidates[v]]
  /\ Transition("acquiring", "none")
  /\ Decide(k, rev, "approve_candidates", approved)
  /\ UNCHANGED <<assessments, attempts, batch>>

Cancel(k, rev) ==
  /\ k \notin DOMAIN decisions
  /\ Expected(rev, {"awaiting_sufficiency", "awaiting_candidates"})
  /\ Transition("cancelled", "none")
  /\ Decide(k, rev, "cancel", {})
  /\ UNCHANGED <<assessments, candidates, attempts, batch>>

RecordFailure(rev, target) ==
  /\ Expected(rev, FailureTargets)
  /\ target = session.state
  /\ Transition("failed_retryable", target)
  /\ UNCHANGED <<assessments, candidates, decisions, attempts, batch>>

CompleteReindexing(rev) ==
  /\ Expected(rev, {"reindexing"})
  /\ Transition("assessing", "none")
  /\ UNCHANGED <<assessments, candidates, decisions, attempts, batch>>

-----------------------------------------------------------------------------
(* Acquisition attempts.                                                   *)

\* A key that already has an attempt returns that attempt: no step.
Startable(k, rev, videos) ==
  /\ videos # {}
  /\ k \notin DOMAIN attempts
  /\ Expected(rev, {"acquiring"})
  /\ WithStatus("running") = {}

StartAttempt(k, rev, videos) ==
  /\ Startable(k, rev, videos)
  /\ attempts' = WithRow(attempts, k,
       [revision |-> rev, status |-> "running",
        outcomes |-> [v \in videos |-> "pending"]])
  /\ UNCHANGED <<session, assessments, candidates, decisions, batch>>

Active(rev, a) ==
  /\ Expected(rev, {"acquiring"})
  /\ a \in WithStatus("running")

\* found is a function from the videos acquired to their outcomes.
Recordable(a, found) ==
  /\ DOMAIN found # {}
  /\ DOMAIN found \subseteq VideosOf(a) \cap DOMAIN candidates
  /\ \A v \in DOMAIN found :
       attempts[a].outcomes[v] \in {"pending", "failed_retryable"}

Overwrite(old, found) ==
  [v \in DOMAIN old |-> IF v \in DOMAIN found THEN found[v] ELSE old[v]]

RecordProgress(rev, a, found) ==
  /\ Active(rev, a)
  /\ Recordable(a, found)
  /\ attempts' = [attempts EXCEPT ![a].outcomes = Overwrite(@, found)]
  /\ candidates' = Overwrite(candidates, found)
  /\ UNCHANGED <<session, assessments, decisions, batch>>

CompleteAttempt(rev, a) ==
  /\ Active(rev, a)
  /\ ~HasOutcome(a, {"pending"})
  /\ SetStatus(a, "completed")
  /\ Transition("reindexing", "none")
  /\ batch' = a
  /\ UNCHANGED <<assessments, candidates, decisions>>

\* record_acquisition_batch: progress and completion in one transaction.
RecordBatch(rev, a, found) ==
  /\ Active(rev, a)
  /\ Recordable(a, found)
  /\ \A v \in VideosOf(a) \ DOMAIN found : attempts[a].outcomes[v] # "pending"
  /\ attempts' = [attempts EXCEPT ![a].outcomes = Overwrite(@, found),
                                  ![a].status = "completed"]
  /\ candidates' = Overwrite(candidates, found)
  /\ Transition("reindexing", "none")
  /\ batch' = a
  /\ UNCHANGED <<assessments, decisions>>

RecordAcquisitionFailure(rev, a) ==
  /\ Active(rev, a)
  /\ SetStatus(a, "failed_retryable")
  /\ Transition("failed_retryable", "acquiring")
  /\ UNCHANGED <<assessments, candidates, decisions, batch>>

-----------------------------------------------------------------------------
(* Retry reservations.                                                     *)

\* store.retry: the older one-transaction retry, which re-enters the target only.
Retry(k, rev) ==
  /\ k \notin DOMAIN decisions
  /\ Expected(rev, {"failed_retryable"})
  /\ Transition(session.target, "none")
  /\ Decide(k, rev, "retry", {})
  /\ UNCHANGED <<assessments, candidates, attempts, batch>>

Retriable == {"failed_retryable", "acquiring", "reindexing", "assessing",
              "awaiting_sufficiency"}

RetryTarget ==
  CASE session.state \in {"acquiring", "reindexing", "assessing"} -> session.state
    [] session.state = "awaiting_sufficiency" -> "acquiring"
    [] OTHER -> session.target

\* The attempt a retry into "acquiring" takes over.
Reclaimed(b) ==
  IsLatest(b, WithStatus(IF session.state = "acquiring" THEN "running"
                                                         ELSE "failed_retryable"))

\* _completed_attempt_for_pipeline
PipelineAttempt(a) == a = batch /\ a \in WithStatus("completed")

\* acquisition_attempt_for_retry: the attempt whose lock a retry must take
\* before it claims ({NoAttempt}: none to lock, {}: the retry is refused).
Pipelined ==
  \/ session.state \in {"reindexing", "assessing"}
  \/ session.target \in {"reindexing", "assessing"}

StageAttempts ==
  IF Pipelined /\ batch # NoAttempt THEN {a \in {batch} : PipelineAttempt(a)}
  ELSE IF Pipelined \/ session.target = "discovering" THEN {NoAttempt}
  ELSE IF session.state = "awaiting_sufficiency"
       THEN {a \in WithStatus("failed_retryable") : IsLatest(a, DOMAIN attempts)}
       ELSE {a \in DOMAIN attempts : Reclaimed(a)}

FreshRetryAttempts(rev) ==
  IF /\ Expected(rev, Retriable)
     /\ session.state \in {"reindexing", "assessing"} =>
          ~\E j \in DOMAIN decisions : Incomplete(j)
  THEN StageAttempts ELSE {}

ReplayedRetryAttempts(k, rev) ==
  LET target == decisions[k].target
      asking == session.state = "awaiting_sufficiency"
  IN IF ~(Incomplete(k) /\ decisions[k].revision = rev) THEN {}
     ELSE IF target = "discovering" THEN {NoAttempt}
     ELSE IF session.state \notin Retriable THEN {}
     ELSE IF asking /\ ~(target = "acquiring" /\ StageAttempts # {}) THEN {NoAttempt}
     ELSE StageAttempts

RetryAttempts(k, rev) ==
  IF k \in DOMAIN decisions THEN ReplayedRetryAttempts(k, rev)
                            ELSE FreshRetryAttempts(rev)

Reserve(k, rev, target) ==
  decisions' = WithRow(decisions, k,
    [action |-> "retry", revision |-> rev, request |-> {},
     claim |-> session.revision + 1, claimed |-> target, result |-> NoResult,
     target |-> target, error |-> "none"])

\* claim_retry with a fresh key; a is NoAttempt when the caller named none.
Acceptable(rev, a) ==
  /\ Expected(rev, IF a = NoAttempt THEN {"failed_retryable"} ELSE Retriable)
  /\ RetryTarget = "acquiring" => \E b \in DOMAIN attempts :
                                     Reclaimed(b) /\ a \in {NoAttempt, b}
  /\ RetryTarget \in {"reindexing", "assessing"} =>
       a = NoAttempt \/ PipelineAttempt(a)

Claimable(k, rev, a) == k \notin DOMAIN decisions /\ Acceptable(rev, a)

ClaimRetry(k, rev, a) ==
  /\ Claimable(k, rev, a)
  /\ \/ /\ RetryTarget = "acquiring"
        /\ \E b \in DOMAIN attempts :
             Reclaimed(b) /\ a \in {NoAttempt, b} /\ SetStatus(b, "running")
     \/ RetryTarget # "acquiring" /\ UNCHANGED attempts
  /\ Transition(RetryTarget, "none")
  /\ Reserve(k, rev, RetryTarget)
  /\ UNCHANGED <<assessments, candidates, batch>>

\* _retry_reservation_from_row, in the order of its tests: an incomplete
\* reservation is first matched against what may already have been finished.
FinishedPartially(k, a) ==
  /\ decisions[k].target = "acquiring" /\ a # NoAttempt
  /\ session.state = "awaiting_sufficiency"

Finished(k) ==
  session.state = IF decisions[k].target = "discovering"
                  THEN "awaiting_candidates" ELSE "awaiting_sufficiency"

FailedAgain(k, a) ==
  /\ decisions[k].target = "acquiring" /\ a # NoAttempt
  /\ session.state = "failed_retryable" /\ session.target = "acquiring"

FinalizesOnly(k, a) == FinishedPartially(k, a) \/ Finished(k) \/ FailedAgain(k, a)

\* finalize_only reservations: only complete_retry is left to do.  A failed
\* attempt is required where one is named; otherwise the call raises.
Finalizable(k, rev, a) ==
  /\ Incomplete(k) /\ decisions[k].revision = rev
  /\ FinalizesOnly(k, a)
  /\ FinishedPartially(k, a) => a \in WithStatus("failed_retryable")
  /\ FailedAgain(k, a) => /\ a \in WithStatus("failed_retryable")
                          /\ HasOutcome(a, {"failed_retryable"})

FinalError(k, a) ==
  IF FinishedPartially(k, a) \/ (FailedAgain(k, a) /\ HasOutcome(a, Ready))
  THEN "partial_acquisition_failed"
  ELSE IF FailedAgain(k, a) THEN "acquisition_unavailable" ELSE "none"

\* An attempt is named: the reservation resumes whatever that attempt is at.
ByAttempt(k, a) == a # NoAttempt /\ decisions[k].target # "discovering"

ResumesPipeline(k, a) ==
  ByAttempt(k, a) /\ session.state \in {"reindexing", "assessing"} /\ PipelineAttempt(a)

RestartsAttempt(k, a) ==
  /\ ByAttempt(k, a) /\ a \in WithStatus("failed_retryable")
  /\ session.state = "failed_retryable" /\ session.target = "acquiring"

ContinuesAttempt(k, a) ==
  ByAttempt(k, a) /\ a \in WithStatus("running") /\ session.state = "acquiring"

\* No attempt is named: only a stage other than acquiring can be re-entered.
RestartsStage(k, a) ==
  /\ ~ByAttempt(k, a) /\ decisions[k].target # "acquiring"
  /\ session.state = "failed_retryable" /\ session.target = decisions[k].target

ContinuesStage(k, a) ==
  /\ ~ByAttempt(k, a) /\ decisions[k].target # "acquiring"
  /\ session.state = decisions[k].target

Reclaimable(k, rev, a) ==
  /\ Incomplete(k) /\ decisions[k].revision = rev
  /\ ~FinalizesOnly(k, a)
  /\ \/ ResumesPipeline(k, a) \/ RestartsAttempt(k, a) \/ ContinuesAttempt(k, a)
     \/ RestartsStage(k, a) \/ ContinuesStage(k, a)

\* The retry_target of the reservation the call returns.
ReclaimTarget(k, a) ==
  IF ResumesPipeline(k, a) THEN session.state
  ELSE IF ByAttempt(k, a) THEN "acquiring" ELSE decisions[k].target

ReclaimRetry(k, rev, a) ==
  /\ Reclaimable(k, rev, a)
  /\ \/ /\ ResumesPipeline(k, a)
        /\ decisions' = [decisions EXCEPT ![k].claim = session.revision,
                                          ![k].claimed = session.state,
                                          ![k].target = session.state]
        /\ UNCHANGED <<session, attempts>>
     \/ /\ RestartsAttempt(k, a)
        /\ SetStatus(a, "running")
        /\ Transition("acquiring", "none")
        /\ decisions' = [decisions EXCEPT ![k].claim = session.revision + 1,
                                          ![k].claimed = "acquiring"]
     \/ /\ RestartsStage(k, a)
        /\ Transition(decisions[k].target, "none")
        /\ decisions' = [decisions EXCEPT ![k].claim = session.revision + 1,
                                          ![k].claimed = decisions[k].target]
        /\ UNCHANGED attempts
     \/ /\ ContinuesAttempt(k, a) \/ ContinuesStage(k, a)
        /\ UNCHANGED <<session, attempts, decisions>>
  /\ UNCHANGED <<assessments, candidates, batch>>

\* Faulty: a stored result is replaced.
CompleteRetry_Overwrites(k, result, error) ==
  /\ k \in DOMAIN decisions /\ decisions[k].action = "retry"
  /\ result >= decisions[k].claim
  /\ decisions' = [decisions EXCEPT ![k].result = result, ![k].error = error]
  /\ UNCHANGED <<session, assessments, candidates, attempts, batch>>

\* A result that is already stored must be repeated exactly: no step.
CompleteRetry(k, result, error) ==
  /\ Incomplete(k)
  /\ result >= decisions[k].claim
  /\ decisions' = [decisions EXCEPT ![k].result = result, ![k].error = error]
  /\ UNCHANGED <<session, assessments, candidates, attempts, batch>>

-----------------------------------------------------------------------------
(* Any caller may send any transaction at any time, with the revision, key, *)
(* attempt and videos it likes.  Both record_failure targets of acquiring   *)
(* and a retry without reclaim_incomplete have no caller in src/.           *)

Init ==
  /\ session = [state |-> "absent", target |-> "none", revision |-> 0]
  /\ assessments = {}
  /\ candidates = [v \in {} |-> "candidate"]
  /\ decisions = [k \in {} |-> {}]
  /\ attempts = [k \in {} |-> {}]
  /\ batch = NoAttempt

\* record_failure is called for these; acquiring has record_acquisition_failure.
CallerFailureTargets == {"assessing", "discovering", "reindexing"}

Found(videos) == [videos -> Settled \cup {"failed_retryable"}]

Decisions(rev) == \E k \in Keys :
  \/ \E action \in {"sufficient", "refresh"} : DecideSufficiency(k, rev, action)
  \/ \E approved \in SUBSET Videos : ApproveCandidates(k, rev, approved)
  \/ Cancel(k, rev)

Pipeline(rev) ==
  \/ RecordAssessment(rev)
  \/ \E a \in DOMAIN attempts : RecordPartialAssessment(rev, a)
  \/ \E found \in SUBSET Videos : RecordCandidates(rev, found)
  \/ \E target \in CallerFailureTargets : RecordFailure(rev, target)
  \/ CompleteReindexing(rev)

Acquisition(rev) ==
  \/ \E k \in Keys, videos \in SUBSET Videos : StartAttempt(k, rev, videos)
  \/ \E a \in DOMAIN attempts :
       \/ \E v \in Videos : \E found \in Found({v}) : RecordProgress(rev, a, found)
       \/ CompleteAttempt(rev, a)
       \/ \E videos \in SUBSET Videos : \E found \in Found(videos) :
            RecordBatch(rev, a, found)
       \/ RecordAcquisitionFailure(rev, a)

Retries(rev) == \E k \in Keys :
  \/ Retry(k, rev)
  \/ \E a \in DOMAIN attempts \cup {NoAttempt} :
       ClaimRetry(k, rev, a) \/ ReclaimRetry(k, rev, a)

RetryErrors == {"none", "partial_acquisition_failed", "acquisition_unavailable",
  "discovery_unavailable", "index_refresh_failed", "local_index_unavailable"}

Completions == \E k \in DOMAIN decisions, error \in RetryErrors :
  \E result \in 1..session.revision : CompleteRetry(k, result, error)

Next ==
  /\ session.revision < MaxRevision
  /\ \/ CreateSession
     \/ \E rev \in 0..MaxRevision :
          Decisions(rev) \/ Pipeline(rev) \/ Acquisition(rev) \/ Retries(rev)
     \/ Completions

Spec == Init /\ [][Next]_storeVars

-----------------------------------------------------------------------------
(* Properties.                                                             *)

AttemptRows ==
  [revision : Nat, status : {"running", "failed_retryable", "completed"},
   outcomes : UNION {[S -> Outcomes] : S \in SUBSET Videos}]

DecisionRows ==
  [action : {"sufficient", "refresh", "approve_candidates", "cancel", "retry"},
   revision : Nat, request : SUBSET Videos, claim : Nat, result : Nat,
   claimed : FailureTargets \cup {"none"}, target : FailureTargets \cup {"none"},
   error : RetryErrors]

SessionOK ==
  /\ session \in [state : States, target : FailureTargets \cup {"none"}, revision : Nat]
  /\ session.state = "failed_retryable" <=> session.target # "none"

CandidatesOK ==
  /\ DOMAIN candidates \subseteq Videos
  /\ \A v \in DOMAIN candidates : candidates[v] \in CandidateStatuses

DecisionsOK ==
  /\ DOMAIN decisions \subseteq Keys
  /\ \A k \in DOMAIN decisions : decisions[k] \in DecisionRows

AttemptsOK ==
  /\ DOMAIN attempts \subseteq Keys
  /\ \A a \in DOMAIN attempts : attempts[a] \in AttemptRows
  /\ batch \in DOMAIN attempts \cup {NoAttempt}

\* Every row holds what its column may hold, and a failed session, and only a
\* failed one, names the stage a retry has to re-enter.
TypeOK ==
  SessionOK /\ assessments \subseteq Nat /\ CandidatesOK /\ DecisionsOK /\ AttemptsOK

\* Running(a) holds exactly while some process may write outcomes of a.
Running(a) == a \in WithStatus("running")

\* An attempt is running only while its session is acquiring, and two attempts
\* never run at once: start_acquisition_attempt, claim_retry and the reclaiming
\* of an old reservation all set rows to running, in different states.
OneRunningAttempt ==
  /\ \A a \in DOMAIN attempts : Running(a) => session.state = "acquiring"
  /\ \A a, b \in DOMAIN attempts : Running(a) /\ Running(b) => a = b

\* expected_revision orders the attempts of a session: the "latest attempt" of
\* ORDER BY expected_revision DESC never depends on clocks or ids.
AttemptsOrdered ==
  \A a, b \in DOMAIN attempts : attempts[a].revision = attempts[b].revision => a = b

\* Whatever stage after acquisition the session is in, or has to re-enter, the
\* attempt that led there is still recorded as completed with every outcome
\* known: _completed_attempt_for_pipeline never raises.
PipelineHasItsAttempt ==
  /\ session.state = "reindexing" \/ session.target = "reindexing" =>
       batch \in WithStatus("completed")
  /\ (session.state = "assessing" \/ session.target = "assessing") /\ batch # NoAttempt =>
       batch \in WithStatus("completed")
  /\ \A a \in WithStatus("completed") : ~HasOutcome(a, {"pending"})

\* A failed acquisition can always be claimed again: the attempt that failed is
\* there, with a status claim_retry accepts.
FailedAcquisitionHasAttempt ==
  session.target = "acquiring" => WithStatus("failed_retryable") # {}

\* Two callers holding the same revision cannot both decide: at most one key is
\* committed at any revision of the session.
OneDecisionPerRevision ==
  \A j, k \in DOMAIN decisions : decisions[j].revision = decisions[k].revision => j = k

KeepsSettled ==
  \A a \in DOMAIN attempts : \A v \in VideosOf(a) :
    attempts[a].outcomes[v] \in Settled =>
      attempts'[a].outcomes[v] = attempts[a].outcomes[v]

\* A recorded outcome other than a retryable failure is final: no retry, replay
\* or later batch overwrites it.
SettledOutcomesKept == [][KeepsSettled]_storeVars

KeepsAnswers ==
  \A k \in DOMAIN decisions :
    /\ k \in DOMAIN decisions'
    /\ decisions'[k].action = decisions[k].action
    /\ decisions'[k].revision = decisions[k].revision
    /\ ~Incomplete(k) => decisions'[k] = decisions[k]

\* A key answers for one request only, and once its result is stored every
\* replay returns that same result.
AnswersKept == [][KeepsAnswers]_storeVars

NamesEvidence ==
  session.state # "absent" /\ session'.revision = session.revision =>
    /\ session' = session /\ assessments' = assessments
    /\ session.state # "acquiring" => UNCHANGED <<candidates, attempts>>

\* Whoever has read a session at some revision knows its state, its assessment and,
\* unless it is acquiring, its candidates and attempts for as long as the revision
\* stands: what a client compares before it commits is enough.
RevisionNamesEvidence == [][NamesEvidence]_storeVars

-----------------------------------------------------------------------------
(* The abstract session.  The store also lets a caller cancel at the        *)
(* sufficiency question, which for the user is a final answer too.          *)

Phase ==
  CASE session.state = "absent" -> "absent"
    [] session.state \in FailureTargets -> "working"
    [] session.state = "awaiting_sufficiency" -> "sufficiency"
    [] session.state = "awaiting_candidates" -> "candidates"
    [] session.state = "failed_retryable" -> "failed"
    [] session.state \in {"completed", "cancelled"} -> "done"

ConsentedVideos == UNION {decisions[k].request : k \in DOMAIN decisions}

=============================================================================
