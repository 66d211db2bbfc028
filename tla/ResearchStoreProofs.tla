------------------------- MODULE ResearchStoreProofs -------------------------
(***************************************************************************)
(* What the rows of a session satisfy whatever the sets of keys and videos  *)
(* and whatever the transactions callers send: proofs for ResearchStore.    *)
(* After type correctness, what the steps do to the session and to the      *)
(* attempts is reduced to nine effects, and every invariant is then shown   *)
(* to survive the effects.                                                 *)
(***************************************************************************)
EXTENDS ResearchStore, TLAPS

-----------------------------------------------------------------------------
(* The building blocks of the transactions keep the rows well formed.      *)

\* A transition leaves a session row that holds legal values.
LEMMA TransitionOK ==
  ASSUME SessionOK, NEW to \in States, NEW t \in FailureTargets \cup {"none"},
         to = "failed_retryable" <=> t # "none", Transition(to, t)
  PROVE  SessionOK' /\ session'.revision = session.revision + 1
BY DEF SessionOK, Transition

\* Adding or replacing one row of research_decisions keeps the others.
LEMMA DecisionAdded ==
  ASSUME DecisionsOK, NEW k \in Keys, NEW row \in DecisionRows,
         decisions' = WithRow(decisions, k, row)
  PROVE  DecisionsOK'
BY DEF DecisionsOK, WithRow

\* The row of a user decision is well formed.
LEMMA DecideOK ==
  ASSUME TypeOK, NEW k \in Keys, NEW rev \in Nat, NEW request \in SUBSET Videos,
         NEW action \in {"sufficient", "refresh", "approve_candidates", "cancel", "retry"},
         Decide(k, rev, action, request)
  PROVE  DecisionsOK'
<1> DEFINE row == [action |-> action, revision |-> rev, request |-> request,
                   claim |-> NoResult, claimed |-> "none",
                   result |-> session.revision + 1, target |-> "none", error |-> "none"]
<1>1. row \in DecisionRows
  BY DEF TypeOK, SessionOK, DecisionRows, NoResult, RetryErrors
<1>2. decisions' = WithRow(decisions, k, row)
  BY DEF Decide
<1> QED
  BY <1>1, <1>2, DecisionAdded DEF TypeOK

\* The row of a retry reservation is well formed.
LEMMA ReserveOK ==
  ASSUME TypeOK, NEW k \in Keys, NEW rev \in Nat, NEW target \in FailureTargets,
         Reserve(k, rev, target)
  PROVE  DecisionsOK'
<1> DEFINE row == [action |-> "retry", revision |-> rev, request |-> {},
                   claim |-> session.revision + 1, claimed |-> target,
                   result |-> NoResult, target |-> target, error |-> "none"]
<1>1. row \in DecisionRows
  BY DEF TypeOK, SessionOK, DecisionRows, NoResult, RetryErrors
<1>2. decisions' = WithRow(decisions, k, row)
  BY DEF Reserve
<1> QED
  BY <1>1, <1>2, DecisionAdded DEF TypeOK

\* Changing the status of an attempt keeps the rows well formed.
LEMMA SetStatusOK ==
  ASSUME AttemptsOK, NEW a \in DOMAIN attempts,
         NEW status \in {"running", "failed_retryable", "completed"},
         SetStatus(a, status), batch' \in {batch, a}
  PROVE  AttemptsOK'
BY DEF AttemptsOK, SetStatus, AttemptRows

\* Saved outcomes stay functions from the reserved videos to outcomes.
LEMMA OverwriteOK ==
  ASSUME NEW S \in SUBSET Videos, NEW old \in [S -> Outcomes],
         NEW found, DOMAIN found \subseteq S,
         \A v \in DOMAIN found : found[v] \in Outcomes
  PROVE  Overwrite(old, found) \in [S -> Outcomes]
BY DEF Overwrite

LEMMA OutcomesOK ==
  ASSUME AttemptsOK, NEW a \in DOMAIN attempts,
         NEW found, DOMAIN found \subseteq VideosOf(a),
         \A v \in DOMAIN found : found[v] \in Outcomes
  PROVE  Overwrite(attempts[a].outcomes, found)
           \in UNION {[S -> Outcomes] : S \in SUBSET Videos}
<1>1. PICK S \in SUBSET Videos : attempts[a].outcomes \in [S -> Outcomes]
  BY DEF AttemptsOK, AttemptRows
<1>2. Overwrite(attempts[a].outcomes, found) \in [S -> Outcomes]
  BY <1>1, OverwriteOK DEF VideosOf
<1> QED
  BY <1>2

\* The outcomes recorded for candidates are statuses a candidate may have.
LEMMA CandidatesOverwritten ==
  ASSUME CandidatesOK, NEW found, DOMAIN found \subseteq DOMAIN candidates,
         \A v \in DOMAIN found : found[v] \in Settled \cup {"failed_retryable"},
         candidates' = Overwrite(candidates, found)
  PROVE  CandidatesOK'
BY DEF CandidatesOK, Overwrite, CandidateStatuses

\* claim_retry always finds a stage to resume.
LEMMA RetryTargetOK ==
  ASSUME SessionOK, session.state \in Retriable
  PROVE  RetryTarget \in FailureTargets
BY DEF SessionOK, Retriable, RetryTarget, FailureTargets

-----------------------------------------------------------------------------
(* Type correctness.                                                       *)

LEMMA InitTypeOK == Init => TypeOK
BY DEF Init, TypeOK, SessionOK, CandidatesOK, DecisionsOK, AttemptsOK, States,
       FailureTargets

\* Every disjunct of Next, with the type facts its parameters bring.
LEMMA DecisionsTypeOK ==
  ASSUME TypeOK, NEW rev \in Nat, Decisions(rev)
  PROVE  TypeOK'
<1>1. PICK k \in Keys :
        \/ \E action \in {"sufficient", "refresh"} : DecideSufficiency(k, rev, action)
        \/ \E approved \in SUBSET Videos : ApproveCandidates(k, rev, approved)
        \/ Cancel(k, rev)
  BY DEF Decisions
<1>2. ASSUME NEW action \in {"sufficient", "refresh"}, DecideSufficiency(k, rev, action)
      PROVE  TypeOK'
  <2> DEFINE to == IF action = "sufficient" THEN "completed" ELSE "discovering"
  <2>1. to \in States /\ to # "failed_retryable" /\ Transition(to, "none")
    BY <1>2 DEF DecideSufficiency, States, FailureTargets
  <2>2. SessionOK'
    BY <2>1, TransitionOK DEF TypeOK
  <2>3. DecisionsOK'
    BY <1>2, DecideOK DEF DecideSufficiency
  <2> QED
    BY <1>2, <2>2, <2>3 DEF DecideSufficiency, TypeOK, CandidatesOK, AttemptsOK
<1>3. ASSUME NEW approved \in SUBSET Videos, ApproveCandidates(k, rev, approved)
      PROVE  TypeOK'
  <2>1. SessionOK'
    BY <1>3, TransitionOK DEF ApproveCandidates, TypeOK, States, FailureTargets
  <2>2. DecisionsOK'
    BY <1>3, DecideOK DEF ApproveCandidates
  <2>3. CandidatesOK'
    BY <1>3 DEF ApproveCandidates, TypeOK, CandidatesOK, CandidateStatuses
  <2> QED
    BY <1>3, <2>1, <2>2, <2>3 DEF ApproveCandidates, TypeOK, AttemptsOK
<1>4. ASSUME Cancel(k, rev)
      PROVE  TypeOK'
  <2>1. SessionOK'
    BY <1>4, TransitionOK DEF Cancel, TypeOK, States, FailureTargets
  <2>2. DecisionsOK'
    BY <1>4, DecideOK DEF Cancel
  <2> QED
    BY <1>4, <2>1, <2>2 DEF Cancel, TypeOK, CandidatesOK, AttemptsOK
<1> QED
  BY <1>1, <1>2, <1>3, <1>4

LEMMA PipelineTypeOK ==
  ASSUME TypeOK, NEW rev \in Nat, Pipeline(rev)
  PROVE  TypeOK'
<1>1. ASSUME RecordAssessment(rev)
      PROVE  TypeOK'
  <2>1. SessionOK'
    BY <1>1, TransitionOK DEF RecordAssessment, TypeOK, States, FailureTargets
  <2> QED
    BY <1>1, <2>1 DEF RecordAssessment, TypeOK, CandidatesOK, DecisionsOK, AttemptsOK
<1>2. ASSUME NEW a \in DOMAIN attempts, RecordPartialAssessment(rev, a)
      PROVE  TypeOK'
  <2>1. SessionOK'
    BY <1>2, TransitionOK DEF RecordPartialAssessment, TypeOK, States, FailureTargets
  <2>2. AttemptsOK'
    BY <1>2, SetStatusOK DEF RecordPartialAssessment, TypeOK
  <2> QED
    BY <1>2, <2>1, <2>2 DEF RecordPartialAssessment, TypeOK, CandidatesOK, DecisionsOK
<1>3. ASSUME NEW found \in SUBSET Videos, RecordCandidates(rev, found)
      PROVE  TypeOK'
  <2>1. SessionOK'
    BY <1>3, TransitionOK DEF RecordCandidates, TypeOK, States, FailureTargets
  <2>2. CandidatesOK'
    BY <1>3 DEF RecordCandidates, TypeOK, CandidatesOK, CandidateStatuses
  <2> QED
    BY <1>3, <2>1, <2>2 DEF RecordCandidates, TypeOK, DecisionsOK, AttemptsOK
<1>4. ASSUME NEW target \in CallerFailureTargets, RecordFailure(rev, target)
      PROVE  TypeOK'
  <2>1. SessionOK'
    BY <1>4, TransitionOK
       DEF RecordFailure, TypeOK, States, CallerFailureTargets, FailureTargets
  <2> QED
    BY <1>4, <2>1 DEF RecordFailure, TypeOK, CandidatesOK, DecisionsOK, AttemptsOK
<1>5. ASSUME CompleteReindexing(rev)
      PROVE  TypeOK'
  <2>1. SessionOK'
    BY <1>5, TransitionOK DEF CompleteReindexing, TypeOK, States, FailureTargets
  <2> QED
    BY <1>5, <2>1 DEF CompleteReindexing, TypeOK, CandidatesOK, DecisionsOK, AttemptsOK
<1> QED
  BY <1>1, <1>2, <1>3, <1>4, <1>5 DEF Pipeline

LEMMA AcquisitionTypeOK ==
  ASSUME TypeOK, NEW rev \in Nat, Acquisition(rev)
  PROVE  TypeOK'
<1>1. ASSUME NEW k \in Keys, NEW videos \in SUBSET Videos, StartAttempt(k, rev, videos)
      PROVE  TypeOK'
  <2>1. [v \in videos |-> "pending"] \in UNION {[S -> Outcomes] : S \in SUBSET Videos}
    <3>1. [v \in videos |-> "pending"] \in [videos -> Outcomes]
      BY DEF Outcomes
    <3> QED
      BY <3>1
  <2>2. AttemptsOK'
    BY <1>1, <2>1 DEF StartAttempt, TypeOK, AttemptsOK, AttemptRows, WithRow
  <2> QED
    BY <1>1, <2>2 DEF StartAttempt, TypeOK, SessionOK, CandidatesOK, DecisionsOK
<1>2. ASSUME NEW a \in DOMAIN attempts, NEW v \in Videos, NEW found \in Found({v}),
             RecordProgress(rev, a, found)
      PROVE  TypeOK'
  <2>1. DOMAIN found \subseteq VideosOf(a) \cap DOMAIN candidates
    BY <1>2 DEF RecordProgress, Recordable
  <2>2. \A w \in DOMAIN found : found[w] \in Settled \cup {"failed_retryable"}
    BY <1>2 DEF Found
  <2>3. Overwrite(attempts[a].outcomes, found)
          \in UNION {[S -> Outcomes] : S \in SUBSET Videos}
    BY <2>1, <2>2, OutcomesOK DEF TypeOK, Outcomes
  <2>4. AttemptsOK'
    BY <1>2, <2>3 DEF RecordProgress, TypeOK, AttemptsOK, AttemptRows
  <2>5. CandidatesOK'
    BY <1>2, <2>1, <2>2, CandidatesOverwritten DEF RecordProgress, TypeOK
  <2> QED
    BY <1>2, <2>4, <2>5 DEF RecordProgress, TypeOK, SessionOK, DecisionsOK
<1>3. ASSUME NEW a \in DOMAIN attempts, CompleteAttempt(rev, a)
      PROVE  TypeOK'
  <2>1. SessionOK'
    BY <1>3, TransitionOK DEF CompleteAttempt, TypeOK, States, FailureTargets
  <2>2. AttemptsOK'
    BY <1>3, SetStatusOK DEF CompleteAttempt, TypeOK
  <2> QED
    BY <1>3, <2>1, <2>2 DEF CompleteAttempt, TypeOK, CandidatesOK, DecisionsOK
<1>4. ASSUME NEW a \in DOMAIN attempts, NEW videos \in SUBSET Videos,
             NEW found \in Found(videos), RecordBatch(rev, a, found)
      PROVE  TypeOK'
  <2>1. DOMAIN found \subseteq VideosOf(a) \cap DOMAIN candidates
    BY <1>4 DEF RecordBatch, Recordable
  <2>2. \A w \in DOMAIN found : found[w] \in Settled \cup {"failed_retryable"}
    BY <1>4 DEF Found
  <2>3. Overwrite(attempts[a].outcomes, found)
          \in UNION {[S -> Outcomes] : S \in SUBSET Videos}
    BY <2>1, <2>2, OutcomesOK DEF TypeOK, Outcomes
  <2>4. AttemptsOK'
    BY <1>4, <2>3 DEF RecordBatch, TypeOK, AttemptsOK, AttemptRows
  <2>5. CandidatesOK'
    BY <1>4, <2>1, <2>2, CandidatesOverwritten DEF RecordBatch, TypeOK
  <2>6. SessionOK'
    BY <1>4, TransitionOK DEF RecordBatch, TypeOK, States, FailureTargets
  <2> QED
    BY <1>4, <2>4, <2>5, <2>6 DEF RecordBatch, TypeOK, DecisionsOK
<1>5. ASSUME NEW a \in DOMAIN attempts, RecordAcquisitionFailure(rev, a)
      PROVE  TypeOK'
  <2>1. SessionOK'
    BY <1>5, TransitionOK DEF RecordAcquisitionFailure, TypeOK, States, FailureTargets
  <2>2. AttemptsOK'
    BY <1>5, SetStatusOK DEF RecordAcquisitionFailure, TypeOK
  <2> QED
    BY <1>5, <2>1, <2>2 DEF RecordAcquisitionFailure, TypeOK, CandidatesOK, DecisionsOK
<1> QED
  BY <1>1, <1>2, <1>3, <1>4, <1>5 DEF Acquisition

LEMMA RetriesTypeOK ==
  ASSUME TypeOK, NEW rev \in Nat, Retries(rev)
  PROVE  TypeOK'
<1>1. ASSUME NEW k \in Keys, Retry(k, rev)
      PROVE  TypeOK'
  <2>1. session.target \in FailureTargets
    BY <1>1 DEF Retry, Expected, TypeOK, SessionOK
  <2>2. SessionOK'
    BY <1>1, <2>1, TransitionOK DEF Retry, TypeOK, States, FailureTargets
  <2>3. DecisionsOK'
    BY <1>1, DecideOK DEF Retry
  <2> QED
    BY <1>1, <2>2, <2>3 DEF Retry, TypeOK, CandidatesOK, AttemptsOK
<1>2. ASSUME NEW k \in Keys, NEW a \in DOMAIN attempts \cup {NoAttempt},
             ClaimRetry(k, rev, a)
      PROVE  TypeOK'
  <2>1. session.state \in Retriable
    BY <1>2 DEF ClaimRetry, Claimable, Acceptable, Expected, Retriable
  <2>2. RetryTarget \in FailureTargets
    BY <2>1, RetryTargetOK DEF TypeOK
  <2>3. SessionOK'
    BY <1>2, <2>2, TransitionOK DEF ClaimRetry, TypeOK, States, FailureTargets
  <2>4. DecisionsOK'
    BY <1>2, <2>2, ReserveOK DEF ClaimRetry
  <2>5. AttemptsOK'
    <3>1. batch' = batch
      BY <1>2 DEF ClaimRetry
    <3>2. CASE UNCHANGED attempts
      BY <3>1, <3>2 DEF TypeOK, AttemptsOK
    <3>3. ASSUME NEW b \in DOMAIN attempts, SetStatus(b, "running")
          PROVE  AttemptsOK'
      BY <3>1, <3>3, SetStatusOK DEF TypeOK
    <3> QED
      BY <1>2, <3>2, <3>3 DEF ClaimRetry
  <2> QED
    BY <1>2, <2>3, <2>4, <2>5 DEF ClaimRetry, TypeOK, CandidatesOK
<1>3. ASSUME NEW k \in Keys, NEW a \in DOMAIN attempts \cup {NoAttempt},
             ReclaimRetry(k, rev, a)
      PROVE  TypeOK'
  <2>1. k \in DOMAIN decisions /\ decisions[k] \in DecisionRows
    BY <1>3 DEF ReclaimRetry, Reclaimable, Incomplete, TypeOK, DecisionsOK
  <2>2. CASE ResumesPipeline(k, a) /\ UNCHANGED <<session, attempts>>
             /\ decisions' = [decisions EXCEPT ![k].claim = session.revision,
                                               ![k].claimed = session.state,
                                               ![k].target = session.state]
    <3>1. DecisionsOK'
      BY <2>1, <2>2 DEF TypeOK, DecisionsOK, DecisionRows, SessionOK, ResumesPipeline,
                        FailureTargets
    <3> QED
      BY <1>3, <2>2, <3>1 DEF ReclaimRetry, TypeOK, SessionOK, CandidatesOK, AttemptsOK
  <2>3. CASE RestartsAttempt(k, a) /\ SetStatus(a, "running")
             /\ Transition("acquiring", "none")
             /\ decisions' = [decisions EXCEPT ![k].claim = session.revision + 1,
                                               ![k].claimed = "acquiring"]
    <3>1. DecisionsOK'
      BY <2>1, <2>3 DEF TypeOK, DecisionsOK, DecisionRows, SessionOK, FailureTargets
    <3>2. SessionOK'
      BY <2>3, TransitionOK DEF TypeOK, States, FailureTargets
    <3>3. AttemptsOK'
      BY <1>3, <2>3, SetStatusOK DEF ReclaimRetry, RestartsAttempt, WithStatus, TypeOK
    <3> QED
      BY <1>3, <3>1, <3>2, <3>3 DEF ReclaimRetry, TypeOK, CandidatesOK
  <2>4. CASE RestartsStage(k, a) /\ Transition(decisions[k].target, "none")
             /\ UNCHANGED attempts
             /\ decisions' = [decisions EXCEPT ![k].claim = session.revision + 1,
                                               ![k].claimed = decisions[k].target]
    <3>1. decisions[k].target \in FailureTargets
      BY <2>1, <2>4 DEF RestartsStage, TypeOK, SessionOK, DecisionRows
    <3>2. DecisionsOK'
      BY <2>1, <2>4, <3>1 DEF TypeOK, DecisionsOK, DecisionRows, SessionOK
    <3>3. SessionOK'
      BY <2>4, <3>1, TransitionOK DEF TypeOK, States, FailureTargets
    <3> QED
      BY <1>3, <2>4, <3>2, <3>3 DEF ReclaimRetry, TypeOK, CandidatesOK, AttemptsOK
  <2>5. CASE UNCHANGED <<session, attempts, decisions>>
    BY <1>3, <2>5 DEF ReclaimRetry, TypeOK, SessionOK, CandidatesOK, DecisionsOK, AttemptsOK
  <2> QED
    BY <1>3, <2>2, <2>3, <2>4, <2>5 DEF ReclaimRetry
<1> QED
  BY <1>1, <1>2, <1>3 DEF Retries

LEMMA CompletionTypeOK ==
  ASSUME TypeOK, NEW k \in DOMAIN decisions, NEW error \in RetryErrors, NEW result \in Nat,
         CompleteRetry(k, result, error)
  PROVE  TypeOK'
<1>1. DecisionsOK'
  BY DEF CompleteRetry, TypeOK, DecisionsOK, DecisionRows
<1> QED
  BY <1>1 DEF CompleteRetry, TypeOK, SessionOK, CandidatesOK, AttemptsOK

LEMMA CreateTypeOK ==
  ASSUME TypeOK, CreateSession
  PROVE  TypeOK'
BY DEF CreateSession, TypeOK, SessionOK, CandidatesOK, DecisionsOK, AttemptsOK, States,
       FailureTargets

\* A transaction at any revision: the bound of Next is of no matter to what
\* follows, and the processes of ResearchWorkflow run transactions too.
Transaction ==
  \/ CreateSession
  \/ \E rev \in Nat : Decisions(rev) \/ Pipeline(rev) \/ Acquisition(rev) \/ Retries(rev)
  \/ \E k \in DOMAIN decisions, error \in RetryErrors, result \in Nat :
       CompleteRetry(k, result, error)
  \/ UNCHANGED storeVars

LEMMA NextTransaction ==
  ASSUME TypeOK, [Next]_storeVars
  PROVE  Transaction
<1>1. 0..MaxRevision \subseteq Nat
  OBVIOUS
<1>2. session.revision \in Nat /\ 1..session.revision \subseteq Nat
  BY DEF TypeOK, SessionOK
<1>3. Completions => Transaction
  BY <1>2 DEF Completions, Transaction
<1> QED
  BY <1>1, <1>3 DEF Next, Transaction

LEMMA TransactionTypeOK ==
  ASSUME TypeOK, Transaction
  PROVE  TypeOK'
<1>1. CASE UNCHANGED storeVars
  BY <1>1 DEF storeVars, TypeOK, SessionOK, CandidatesOK, DecisionsOK, AttemptsOK
<1> QED
  BY <1>1, CreateTypeOK, DecisionsTypeOK, PipelineTypeOK, AcquisitionTypeOK,
     RetriesTypeOK, CompletionTypeOK DEF Transaction

LEMMA NextTypeOK == TypeOK /\ [Next]_storeVars => TypeOK'
BY NextTransaction, TransactionTypeOK

\* Whatever callers do, the rows keep legal values: in particular the session
\* names a stage to retry exactly while it has failed.
THEOREM TypeCorrect == Spec => []TypeOK
BY InitTypeOK, NextTypeOK, PTL DEF Spec

-----------------------------------------------------------------------------
(* Effects of a step on the session row and on the attempts.               *)

\* The stage the session is in or, after a failure, has to re-enter.
Stage == IF session.state = "failed_retryable" THEN session.target ELSE session.state

\* Attempt a gets a status, and outcomes of its own that were not yet settled.
Changes(a, status) ==
  /\ DOMAIN attempts' = DOMAIN attempts
  /\ \A b \in DOMAIN attempts :
       /\ attempts'[b].revision = attempts[b].revision
       /\ b # a => attempts'[b] = attempts[b]
  /\ attempts'[a].status = status
  /\ DOMAIN attempts'[a].outcomes = VideosOf(a)
  /\ \A v \in VideosOf(a) : attempts[a].outcomes[v] \in Settled =>
       attempts'[a].outcomes[v] = attempts[a].outcomes[v]

\* The session goes on outside acquiring, or enters it with nothing running.
Advances(to, t) ==
  /\ session.state \notin {"absent", "acquiring"}
  /\ Transition(to, t)
  /\ to # "absent" /\ t # "acquiring"
  /\ "reindexing" \in {to, t} => Stage = "reindexing"
  /\ "assessing" \in {to, t} => Stage \in {"assessing", "reindexing"}
  /\ to = "awaiting_sufficiency" => Stage = "assessing"
  /\ Stage = "acquiring" => to = "acquiring"
  /\ UNCHANGED <<attempts, batch>>

Resumes(b) ==
  /\ \/ /\ attempts[b].status = "failed_retryable" /\ session.state # "acquiring"
        /\ session.target = "acquiring" \/ session.state = "awaiting_sufficiency"
     \/ attempts[b].status = "running" /\ session.state = "acquiring"
  /\ Transition("acquiring", "none")
  /\ Changes(b, "running")
  /\ batch' = batch

Starts(k) ==
  /\ session.state = "acquiring"
  /\ WithStatus("running") = {}
  /\ DOMAIN attempts' = DOMAIN attempts \cup {k} /\ k \notin DOMAIN attempts
  /\ \A b \in DOMAIN attempts : attempts'[b] = attempts[b]
  /\ attempts'[k].status = "running" /\ attempts'[k].revision = session.revision
  /\ UNCHANGED <<session, batch>>

Progresses(a) ==
  /\ attempts[a].status = "running"
  /\ Changes(a, "running")
  /\ UNCHANGED <<session, batch>>

Completes(a) ==
  /\ session.state = "acquiring" /\ attempts[a].status = "running"
  /\ Transition("reindexing", "none")
  /\ Changes(a, "completed")
  /\ \A v \in VideosOf(a) : attempts'[a].outcomes[v] # "pending"
  /\ batch' = a

Fails(a) ==
  /\ session.state = "acquiring" /\ attempts[a].status = "running"
  /\ Transition("failed_retryable", "acquiring")
  /\ Changes(a, "failed_retryable")
  /\ batch' = batch

PartlyFails(a) ==
  /\ session.state = "assessing" /\ attempts[a].status = "completed"
  /\ Transition("awaiting_sufficiency", "none")
  /\ Changes(a, "failed_retryable")
  /\ batch' = batch

Effect ==
  \/ UNCHANGED <<session, attempts, batch>>
  \/ CreateSession
  \/ \E to \in States, t \in FailureTargets \cup {"none"} : Advances(to, t)
  \/ \E k \in Keys : Starts(k)
  \/ \E a \in DOMAIN attempts :
       Resumes(a) \/ Progresses(a) \/ Completes(a) \/ Fails(a) \/ PartlyFails(a)

\* SetStatus changes nothing but a status.
LEMMA SetStatusChanges ==
  ASSUME AttemptsOK, NEW a \in DOMAIN attempts, NEW status, SetStatus(a, status)
  PROVE  Changes(a, status) /\ attempts'[a].outcomes = attempts[a].outcomes
BY DEF AttemptsOK, AttemptRows, SetStatus, Changes, VideosOf

\* Recorded outcomes replace pending or failed ones only.
LEMMA RecordedChanges ==
  ASSUME AttemptsOK, NEW a \in DOMAIN attempts, NEW found, Recordable(a, found),
         NEW row, row.revision = attempts[a].revision,
         row.outcomes = Overwrite(attempts[a].outcomes, found),
         attempts' = [attempts EXCEPT ![a] = row]
  PROVE  /\ Changes(a, row.status)
         /\ \A v \in VideosOf(a) : v \notin DOMAIN found =>
              attempts'[a].outcomes[v] = attempts[a].outcomes[v]
         /\ \A v \in VideosOf(a) : v \in DOMAIN found =>
              attempts'[a].outcomes[v] = found[v]
BY DEF AttemptsOK, AttemptRows, Changes, VideosOf, Recordable, Overwrite, Settled, Ready

\* Decisions move a waiting session on.
LEMMA DecisionsEffect ==
  ASSUME TypeOK, NEW rev \in Nat, Decisions(rev)
  PROVE  Effect
<1>1. PICK k \in Keys :
        \/ \E action \in {"sufficient", "refresh"} : DecideSufficiency(k, rev, action)
        \/ \E approved \in SUBSET Videos : ApproveCandidates(k, rev, approved)
        \/ Cancel(k, rev)
  BY DEF Decisions
<1>2. \E to \in {"completed", "discovering", "acquiring", "cancelled"} : Advances(to, "none")
  BY <1>1 DEF DecideSufficiency, ApproveCandidates, Cancel, Expected, Advances, Stage
<1> QED
  BY <1>2 DEF Effect, States, FailureTargets

LEMMA PipelineEffect ==
  ASSUME TypeOK, NEW rev \in Nat, Pipeline(rev)
  PROVE  Effect
<1>1. ASSUME RecordAssessment(rev) PROVE Advances("awaiting_sufficiency", "none")
  BY <1>1 DEF RecordAssessment, Expected, Advances, Stage
<1>2. ASSUME NEW a \in DOMAIN attempts, RecordPartialAssessment(rev, a)
      PROVE  PartlyFails(a)
  BY <1>2, SetStatusChanges
     DEF RecordPartialAssessment, PartiallyRetryable, WithStatus, Expected, PartlyFails, TypeOK
<1>3. ASSUME NEW found \in SUBSET Videos, RecordCandidates(rev, found)
      PROVE  Advances("awaiting_candidates", "none")
  BY <1>3 DEF RecordCandidates, Expected, Advances, Stage
<1>4. ASSUME NEW target \in CallerFailureTargets, RecordFailure(rev, target)
      PROVE  Advances("failed_retryable", target)
  BY <1>4 DEF RecordFailure, Expected, Advances, Stage, CallerFailureTargets
<1>5. ASSUME CompleteReindexing(rev) PROVE Advances("assessing", "none")
  BY <1>5 DEF CompleteReindexing, Expected, Advances, Stage
<1> QED
  BY <1>1, <1>2, <1>3, <1>4, <1>5
     DEF Pipeline, Effect, States, FailureTargets, CallerFailureTargets

LEMMA AcquisitionEffect ==
  ASSUME TypeOK, NEW rev \in Nat, Acquisition(rev)
  PROVE  Effect
<1>1. ASSUME NEW k \in Keys, NEW videos \in SUBSET Videos, StartAttempt(k, rev, videos)
      PROVE  Starts(k)
  BY <1>1 DEF StartAttempt, Startable, Expected, WithRow, Starts
<1>2. ASSUME NEW a \in DOMAIN attempts, NEW found, RecordProgress(rev, a, found)
      PROVE  Progresses(a)
  <2> DEFINE row == [attempts[a] EXCEPT !.outcomes = Overwrite(@, found)]
  <2>1. /\ row.revision = attempts[a].revision /\ row.status = "running"
        /\ row.outcomes = Overwrite(attempts[a].outcomes, found)
        /\ attempts' = [attempts EXCEPT ![a] = row]
    BY <1>2 DEF RecordProgress, Active, WithStatus, TypeOK, AttemptsOK, AttemptRows
  <2>2. Changes(a, row.status)
    BY <1>2, <2>1, RecordedChanges DEF RecordProgress, TypeOK
  <2> QED
    BY <1>2, <2>1, <2>2 DEF RecordProgress, Active, WithStatus, Progresses
<1>3. ASSUME NEW a \in DOMAIN attempts, CompleteAttempt(rev, a)
      PROVE  Completes(a)
  BY <1>3, SetStatusChanges
     DEF CompleteAttempt, Active, Expected, WithStatus, HasOutcome, VideosOf, Completes, TypeOK
<1>4. ASSUME NEW a \in DOMAIN attempts, NEW videos \in SUBSET Videos,
             NEW found \in Found(videos), RecordBatch(rev, a, found)
      PROVE  Completes(a)
  <2> DEFINE row == [attempts[a] EXCEPT !.outcomes = Overwrite(@, found),
                                        !.status = "completed"]
  <2>1. /\ row.revision = attempts[a].revision /\ row.status = "completed"
        /\ row.outcomes = Overwrite(attempts[a].outcomes, found)
        /\ attempts' = [attempts EXCEPT ![a] = row]
    BY <1>4 DEF RecordBatch, TypeOK, AttemptsOK, AttemptRows
  <2> HIDE DEF row
  <2>2. AttemptsOK /\ Recordable(a, found)
    BY <1>4 DEF RecordBatch, TypeOK
  <2>3. /\ Changes(a, "completed")
        /\ \A v \in VideosOf(a) : v \notin DOMAIN found =>
             attempts'[a].outcomes[v] = attempts[a].outcomes[v]
        /\ \A v \in VideosOf(a) : v \in DOMAIN found =>
             attempts'[a].outcomes[v] = found[v]
    <3>1. /\ Changes(a, row.status)
          /\ \A v \in VideosOf(a) : v \notin DOMAIN found =>
               attempts'[a].outcomes[v] = attempts[a].outcomes[v]
          /\ \A v \in VideosOf(a) : v \in DOMAIN found =>
               attempts'[a].outcomes[v] = found[v]
      BY <2>1, <2>2, RecordedChanges
    <3> QED
      BY <2>1, <3>1
  <2>4. \A v \in DOMAIN found : found[v] # "pending"
    BY <1>4 DEF Found, Settled, Ready
  <2>5. /\ Expected(rev, {"acquiring"}) /\ a \in WithStatus("running")
        /\ Transition("reindexing", "none") /\ batch' = a
        /\ \A v \in VideosOf(a) \ DOMAIN found : attempts[a].outcomes[v] # "pending"
    BY <1>4 DEF RecordBatch, Active
  <2>6. session.state = "acquiring" /\ attempts[a].status = "running"
    BY <2>5 DEF Expected, WithStatus
  <2>7. \A v \in VideosOf(a) : attempts'[a].outcomes[v] # "pending"
    BY <2>3, <2>4, <2>5
  <2> QED
    BY <2>3, <2>5, <2>6, <2>7 DEF Completes
<1>5. ASSUME NEW a \in DOMAIN attempts, RecordAcquisitionFailure(rev, a)
      PROVE  Fails(a)
  BY <1>5, SetStatusChanges
     DEF RecordAcquisitionFailure, Active, Expected, WithStatus, Fails, TypeOK
<1> QED
  BY <1>1, <1>2, <1>3, <1>4, <1>5 DEF Acquisition, Effect

LEMMA RetriesEffect ==
  ASSUME TypeOK, NEW rev \in Nat, Retries(rev)
  PROVE  Effect
<1>1. ASSUME NEW k \in Keys, Retry(k, rev)
      PROVE  Effect
  <2>1. session.target \in FailureTargets
    BY <1>1 DEF Retry, Expected, TypeOK, SessionOK
  <2>2. Advances(session.target, "none")
    BY <1>1, <2>1 DEF Retry, Expected, Advances, Stage, FailureTargets
  <2> QED
    BY <2>1, <2>2 DEF Effect, States
<1>2. ASSUME NEW k \in Keys, NEW a \in DOMAIN attempts \cup {NoAttempt},
             ClaimRetry(k, rev, a)
      PROVE  Effect
  <2>1. session.state \in Retriable /\ Transition(RetryTarget, "none") /\ batch' = batch
    BY <1>2 DEF ClaimRetry, Claimable, Acceptable, Expected, Retriable
  <2>2. CASE RetryTarget = "acquiring"
    <3>1. PICK b \in DOMAIN attempts : Reclaimed(b) /\ SetStatus(b, "running")
      BY <1>2, <2>2 DEF ClaimRetry
    <3>2. \/ attempts[b].status = "failed_retryable" /\ session.state # "acquiring"
          \/ attempts[b].status = "running" /\ session.state = "acquiring"
      BY <3>1 DEF Reclaimed, IsLatest, WithStatus
    <3>3. \/ session.state = "acquiring"
          \/ session.target = "acquiring" \/ session.state = "awaiting_sufficiency"
      BY <2>1, <2>2 DEF RetryTarget, Retriable
    <3>4. Resumes(b)
      BY <2>1, <2>2, <3>1, <3>2, <3>3, SetStatusChanges DEF Resumes, TypeOK
    <3> QED
      BY <3>4 DEF Effect
  <2>3. CASE RetryTarget # "acquiring"
    <3>1. RetryTarget \in FailureTargets
      BY <2>1, RetryTargetOK DEF TypeOK
    <3>2. UNCHANGED attempts /\ Stage = RetryTarget
          /\ session.state \notin {"absent", "acquiring"}
      BY <1>2, <2>1, <2>3 DEF ClaimRetry, RetryTarget, Retriable, Stage
    <3>3. Advances(RetryTarget, "none")
      BY <2>1, <3>1, <3>2 DEF Advances, FailureTargets
    <3> QED
      BY <3>1, <3>3 DEF Effect, States
  <2> QED
    BY <2>2, <2>3
<1>3. ASSUME NEW k \in Keys, NEW a \in DOMAIN attempts \cup {NoAttempt},
             ReclaimRetry(k, rev, a)
      PROVE  Effect
  <2>1. batch' = batch /\ k \in DOMAIN decisions /\ decisions[k] \in DecisionRows
    BY <1>3 DEF ReclaimRetry, Reclaimable, Incomplete, TypeOK, DecisionsOK
  <2>2. CASE UNCHANGED <<session, attempts>>
    BY <2>1, <2>2 DEF Effect
  <2>3. CASE RestartsAttempt(k, a) /\ SetStatus(a, "running")
             /\ Transition("acquiring", "none")
    <3>1. a \in DOMAIN attempts /\ attempts[a].status = "failed_retryable"
      BY <2>3 DEF RestartsAttempt, WithStatus
    <3>2. Resumes(a)
      BY <2>1, <2>3, <3>1, SetStatusChanges DEF Resumes, RestartsAttempt, TypeOK
    <3> QED
      BY <3>1, <3>2 DEF Effect
  <2>4. CASE RestartsStage(k, a) /\ Transition(decisions[k].target, "none")
             /\ UNCHANGED attempts
    <3>1. session.target \in FailureTargets /\ session.target = decisions[k].target
      BY <2>4 DEF RestartsStage, TypeOK, SessionOK
    <3>2. Advances(session.target, "none")
      BY <2>1, <2>4, <3>1 DEF Advances, RestartsStage, Stage, FailureTargets
    <3> QED
      BY <3>1, <3>2 DEF Effect, States
  <2> QED
    BY <1>3, <2>2, <2>3, <2>4 DEF ReclaimRetry
<1> QED
  BY <1>1, <1>2, <1>3 DEF Retries

\* Every step has one of the nine effects.
LEMMA TransactionEffect ==
  ASSUME TypeOK, Transaction
  PROVE  Effect
<1>1. ASSUME NEW k, NEW result, NEW error, CompleteRetry(k, result, error)
      PROVE  Effect
  BY <1>1 DEF CompleteRetry, Effect
<1>2. UNCHANGED storeVars => Effect
  BY DEF storeVars, Effect
<1>3. CreateSession => Effect
  BY DEF Effect
<1> QED
  BY <1>1, <1>2, <1>3, DecisionsEffect, PipelineEffect, AcquisitionEffect, RetriesEffect
     DEF Transaction

LEMMA StepEffect ==
  ASSUME TypeOK, [Next]_storeVars
  PROVE  Effect
BY NextTransaction, TransactionEffect

-----------------------------------------------------------------------------
(* Attempts.                                                               *)

\* With no attempt running outside acquiring, the only steps that set an
\* attempt to running are those that leave no other running.
LEMMA OneRunningStep ==
  ASSUME TypeOK, OneRunningAttempt, Effect
  PROVE  OneRunningAttempt'
<1> USE DEF OneRunningAttempt, Running, WithStatus
<1>1. CASE UNCHANGED <<session, attempts, batch>>
  BY <1>1
<1>2. CASE CreateSession
  BY <1>2 DEF CreateSession
<1>3. ASSUME NEW to \in States, NEW t \in FailureTargets \cup {"none"}, Advances(to, t)
      PROVE  OneRunningAttempt'
  BY <1>3 DEF Advances
<1>4. ASSUME NEW k \in Keys, Starts(k)
      PROVE  OneRunningAttempt'
  BY <1>4 DEF Starts
<1>5. ASSUME NEW a \in DOMAIN attempts, Resumes(a)
      PROVE  OneRunningAttempt'
  BY <1>5 DEF Resumes, Changes, Transition
<1>6. ASSUME NEW a \in DOMAIN attempts, Progresses(a)
      PROVE  OneRunningAttempt'
  BY <1>6 DEF Progresses, Changes
<1>7. ASSUME NEW a \in DOMAIN attempts, Completes(a) \/ Fails(a) \/ PartlyFails(a)
      PROVE  OneRunningAttempt'
  BY <1>7 DEF Completes, Fails, PartlyFails, Changes
<1> QED
  BY <1>1, <1>2, <1>3, <1>4, <1>5, <1>6, <1>7 DEF Effect

\* However start, retry and reclaiming are interleaved, an attempt runs only
\* while its session is acquiring and no second one runs beside it.
THEOREM OneRunning == Spec => []OneRunningAttempt
<1>1. Init => OneRunningAttempt
  BY DEF Init, OneRunningAttempt, Running, WithStatus
<1>2. TypeOK /\ OneRunningAttempt /\ [Next]_storeVars => OneRunningAttempt'
  BY StepEffect, OneRunningStep
<1> QED
  BY <1>1, <1>2, TypeCorrect, PTL DEF Spec

\* Inductive form of AttemptsOrdered: the attempts of a session lie at earlier
\* revisions, except the one running at the present revision.
AttemptsBefore ==
  /\ session.state = "absent" => DOMAIN attempts = {}
  /\ \A a \in DOMAIN attempts :
       /\ attempts[a].revision <= session.revision
       /\ attempts[a].revision = session.revision => attempts[a].status = "running"

OrderInv == OneRunningAttempt /\ AttemptsOrdered /\ AttemptsBefore

LEMMA OrderStep ==
  ASSUME TypeOK, OrderInv, Effect
  PROVE  OrderInv'
<1> USE DEF OrderInv, AttemptsOrdered, AttemptsBefore
<1>1. OneRunningAttempt'
  BY OneRunningStep
<1>2. /\ session.revision \in Nat
      /\ \A a \in DOMAIN attempts : attempts[a].revision \in Nat
  BY DEF TypeOK, SessionOK, AttemptsOK, AttemptRows
<1>3. CASE UNCHANGED <<session, attempts, batch>>
  BY <1>1, <1>3
<1>4. CASE CreateSession
  BY <1>1, <1>4 DEF CreateSession
<1>5. ASSUME NEW to \in States, NEW t \in FailureTargets \cup {"none"}, Advances(to, t)
      PROVE  OrderInv'
  BY <1>1, <1>2, <1>5 DEF Advances, Transition
<1>6. ASSUME NEW k \in Keys, Starts(k)
      PROVE  OrderInv'
  BY <1>1, <1>2, <1>6 DEF Starts, WithStatus
<1>7. ASSUME NEW a \in DOMAIN attempts, Progresses(a)
      PROVE  OrderInv'
  BY <1>1, <1>2, <1>7 DEF Progresses, Changes
<1>8. ASSUME NEW a \in DOMAIN attempts,
             Resumes(a) \/ Completes(a) \/ Fails(a) \/ PartlyFails(a)
      PROVE  OrderInv'
  <2>1. /\ session'.revision = session.revision + 1 /\ session'.state # "absent"
        /\ DOMAIN attempts' = DOMAIN attempts
        /\ \A b \in DOMAIN attempts : attempts'[b].revision = attempts[b].revision
    BY <1>8 DEF Resumes, Completes, Fails, PartlyFails, Transition, Changes
  <2> QED
    BY <1>1, <1>2, <2>1
<1> QED
  BY <1>3, <1>4, <1>5, <1>6, <1>7, <1>8 DEF Effect

\* The inductive invariant behind AttemptsOrdered.
LEMMA OrderInvariant == Spec => []OrderInv
<1>1. Init => OrderInv
  BY DEF Init, OrderInv, OneRunningAttempt, AttemptsOrdered, AttemptsBefore, Running, WithStatus
<1>2. TypeOK /\ OrderInv /\ [Next]_storeVars => OrderInv'
  BY StepEffect, OrderStep
<1> QED
  BY <1>1, <1>2, TypeCorrect, PTL DEF Spec

\* The latest attempt of a session is well defined: no two of its attempts
\* were started at one revision.
THEOREM AttemptsAreOrdered == Spec => []AttemptsOrdered
<1>1. OrderInv => AttemptsOrdered
  BY DEF OrderInv
<1> QED
  BY <1>1, OrderInvariant, PTL

LEMMA PipelineStep ==
  ASSUME TypeOK, OrderInv, PipelineHasItsAttempt, Effect
  PROVE  PipelineHasItsAttempt'
<1> USE DEF PipelineHasItsAttempt, WithStatus, HasOutcome, VideosOf
<1>1. CASE UNCHANGED <<session, attempts, batch>>
  BY <1>1
<1>2. CASE CreateSession
  BY <1>2 DEF CreateSession, TypeOK, AttemptsOK, OrderInv, AttemptsBefore
<1>3. ASSUME NEW to \in States, NEW t \in FailureTargets \cup {"none"}, Advances(to, t)
      PROVE  PipelineHasItsAttempt'
  BY <1>3 DEF Advances, Transition, Stage
<1>4. ASSUME NEW k \in Keys, Starts(k)
      PROVE  PipelineHasItsAttempt'
  BY <1>4 DEF Starts, TypeOK, SessionOK
<1>5. ASSUME NEW a \in DOMAIN attempts, Resumes(a)
      PROVE  PipelineHasItsAttempt'
  BY <1>5 DEF Resumes, Changes, Transition
<1>6. ASSUME NEW a \in DOMAIN attempts, Progresses(a)
      PROVE  PipelineHasItsAttempt'
  BY <1>6 DEF Progresses, Changes
<1>7. ASSUME NEW a \in DOMAIN attempts, Completes(a)
      PROVE  PipelineHasItsAttempt'
  BY <1>7 DEF Completes, Changes, Transition
<1>8. ASSUME NEW a \in DOMAIN attempts, Fails(a) \/ PartlyFails(a)
      PROVE  PipelineHasItsAttempt'
  BY <1>8 DEF Fails, PartlyFails, Changes, Transition
<1> QED
  BY <1>1, <1>2, <1>3, <1>4, <1>5, <1>6, <1>7, <1>8 DEF Effect

\* _completed_attempt_for_pipeline never raises: behind every stage after
\* acquiring there is the completed attempt that led to it.
THEOREM PipelineBacked == Spec => []PipelineHasItsAttempt
<1>1. Init => PipelineHasItsAttempt
  BY DEF Init, PipelineHasItsAttempt, WithStatus
<1>2. TypeOK /\ OrderInv /\ PipelineHasItsAttempt /\ [Next]_storeVars
        => PipelineHasItsAttempt'
  BY StepEffect, PipelineStep
<1> QED
  BY <1>1, <1>2, TypeCorrect, OrderInvariant, PTL DEF Spec

\* Settled outcomes survive every step.
LEMMA SettledStep ==
  ASSUME TypeOK, Effect
  PROVE  KeepsSettled
<1> USE DEF KeepsSettled
<1>1. CASE UNCHANGED attempts
  BY <1>1
<1>2. ASSUME NEW k \in Keys, Starts(k)
      PROVE  KeepsSettled
  BY <1>2 DEF Starts
<1>3. ASSUME NEW a \in DOMAIN attempts, NEW status, Changes(a, status)
      PROVE  KeepsSettled
  BY <1>3 DEF Changes
<1> QED
  BY <1>1, <1>2, <1>3
     DEF Effect, CreateSession, Advances, Resumes, Progresses, Completes, Fails, PartlyFails

\* No retry, replay or later batch overwrites an outcome that is settled.
THEOREM SettledKept == Spec => SettledOutcomesKept
<1>1. TypeOK /\ [Next]_storeVars => [KeepsSettled]_storeVars
  BY StepEffect, SettledStep
<1> QED
  BY <1>1, TypeCorrect, PTL DEF Spec, SettledOutcomesKept

\* A transition takes the next revision; what keeps the revision is a reservation that
\* goes on, a result that is stored, or work of the running acquisition.
LEMMA NamesEvidenceStep ==
  ASSUME TypeOK, Next
  PROVE  NamesEvidence
<1> USE DEF NamesEvidence
<1>1. ASSUME NEW to, NEW target, Transition(to, target) PROVE NamesEvidence
  BY <1>1 DEF Transition, TypeOK, SessionOK
<1>2. CASE CreateSession
  BY <1>2 DEF CreateSession
<1>3. ASSUME NEW rev \in 0..MaxRevision, Decisions(rev) PROVE NamesEvidence
  BY <1>1, <1>3 DEF Decisions, DecideSufficiency, ApproveCandidates, Cancel
<1>4. ASSUME NEW rev \in 0..MaxRevision, Pipeline(rev) PROVE NamesEvidence
  BY <1>1, <1>4
     DEF Pipeline, RecordAssessment, RecordPartialAssessment, RecordCandidates,
         RecordFailure, CompleteReindexing
<1>5. ASSUME NEW rev \in 0..MaxRevision, Acquisition(rev) PROVE NamesEvidence
  <2>1. ASSUME NEW k \in Keys, NEW videos, StartAttempt(k, rev, videos) PROVE NamesEvidence
    BY <2>1 DEF StartAttempt, Startable, Expected
  <2>2. ASSUME NEW a, NEW found, RecordProgress(rev, a, found) PROVE NamesEvidence
    BY <2>2 DEF RecordProgress, Active, Expected
  <2>3. ASSUME NEW a, NEW found,
               CompleteAttempt(rev, a) \/ RecordBatch(rev, a, found)
                 \/ RecordAcquisitionFailure(rev, a)
        PROVE  NamesEvidence
    BY <1>1, <2>3 DEF CompleteAttempt, RecordBatch, RecordAcquisitionFailure
  <2> QED
    BY <1>5, <2>1, <2>2, <2>3 DEF Acquisition
<1>6. ASSUME NEW k \in Keys, NEW rev \in 0..MaxRevision, NEW a,
             Retry(k, rev) \/ ClaimRetry(k, rev, a) \/ ReclaimRetry(k, rev, a)
      PROVE  NamesEvidence
  <2>1. CASE Retry(k, rev) \/ ClaimRetry(k, rev, a)
    BY <1>1, <2>1 DEF Retry, ClaimRetry
  <2>2. CASE ReclaimRetry(k, rev, a)
    BY <1>1, <2>2 DEF ReclaimRetry
  <2> QED
    BY <1>6, <2>1, <2>2
<1>7. CASE Completions
  BY <1>7 DEF Completions, CompleteRetry
<1> QED
  BY <1>2, <1>3, <1>4, <1>5, <1>6, <1>7 DEF Next, Retries

\* While a session keeps its revision it keeps what a client has read of it, except for
\* what an acquisition records.
THEOREM EvidenceNamed == Spec => RevisionNamesEvidence
<1>1. TypeOK /\ [Next]_storeVars => [NamesEvidence]_storeVars
  BY NamesEvidenceStep
<1> QED
  BY <1>1, TypeCorrect, PTL DEF Spec, RevisionNamesEvidence

LEMMA FailedStep ==
  ASSUME TypeOK, FailedAcquisitionHasAttempt, Effect
  PROVE  FailedAcquisitionHasAttempt'
<1> USE DEF FailedAcquisitionHasAttempt, WithStatus
<1>1. CASE UNCHANGED <<session, attempts, batch>>
  BY <1>1
<1>2. CASE CreateSession
  BY <1>2 DEF CreateSession
<1>3. ASSUME NEW to \in States, NEW t \in FailureTargets \cup {"none"}, Advances(to, t)
      PROVE  FailedAcquisitionHasAttempt'
  BY <1>3 DEF Advances, Transition
<1>4. ASSUME NEW k \in Keys, Starts(k)
      PROVE  FailedAcquisitionHasAttempt'
  BY <1>4 DEF Starts
<1>5. ASSUME NEW a \in DOMAIN attempts, Progresses(a)
      PROVE  FailedAcquisitionHasAttempt'
  BY <1>5 DEF Progresses, Changes
<1>6. ASSUME NEW a \in DOMAIN attempts,
             Resumes(a) \/ Completes(a) \/ Fails(a) \/ PartlyFails(a)
      PROVE  FailedAcquisitionHasAttempt'
  BY <1>6 DEF Resumes, Completes, Fails, PartlyFails, Changes, Transition
<1> QED
  BY <1>1, <1>2, <1>3, <1>4, <1>5, <1>6 DEF Effect

\* A failed acquisition always leaves an attempt that claim_retry accepts.
THEOREM FailedAcquisitionRetryable == Spec => []FailedAcquisitionHasAttempt
<1>1. Init => FailedAcquisitionHasAttempt
  BY DEF Init, FailedAcquisitionHasAttempt
<1>2. TypeOK /\ FailedAcquisitionHasAttempt /\ [Next]_storeVars
        => FailedAcquisitionHasAttempt'
  BY StepEffect, FailedStep
<1> QED
  BY <1>1, <1>2, TypeCorrect, PTL DEF Spec

-----------------------------------------------------------------------------
(* Decisions.                                                              *)

\* A key is used for the first time: its row is the revision it was sent with,
\* and that revision is over.
Decides(k) ==
  /\ k \notin DOMAIN decisions
  /\ DOMAIN decisions' = DOMAIN decisions \cup {k}
  /\ \A j \in DOMAIN decisions : decisions'[j] = decisions[j]
  /\ decisions'[k].revision = session.revision
  /\ session'.revision = session.revision + 1
  /\ session'.state # "absent"

\* The reservation of an unfinished retry is renewed or answered.
Answers(k) ==
  /\ Incomplete(k)
  /\ DOMAIN decisions' = DOMAIN decisions
  /\ \A j \in DOMAIN decisions : j # k => decisions'[j] = decisions[j]
  /\ decisions'[k].action = decisions[k].action
  /\ decisions'[k].revision = decisions[k].revision

SessionGoesOn ==
  \/ session' = session
  \/ session'.revision = session.revision + 1 /\ session'.state # "absent"

DecisionEffect ==
  \/ CreateSession
  \/ UNCHANGED decisions /\ SessionGoesOn
  \/ \E k \in Keys : Decides(k) \/ (Answers(k) /\ SessionGoesOn)

\* A transition, and a transaction without one, let the session go on.
LEMMA TransitionGoesOn ==
  ASSUME NEW to, NEW t, to # "absent", Transition(to, t)
  PROVE  SessionGoesOn /\ session'.revision = session.revision + 1
         /\ session'.state # "absent"
BY DEF Transition, SessionGoesOn

LEMMA TransactionDecisionEffect ==
  ASSUME TypeOK, Transaction
  PROVE  DecisionEffect
<1> USE DEF DecisionEffect
<1>1. CASE UNCHANGED storeVars
  BY <1>1 DEF storeVars, SessionGoesOn
<1>2. CASE CreateSession
  BY <1>2
<1>3. ASSUME NEW rev \in Nat, Decisions(rev)
      PROVE  DecisionEffect
  <2>1. PICK k \in Keys :
          \/ \E action \in {"sufficient", "refresh"} : DecideSufficiency(k, rev, action)
          \/ \E approved \in SUBSET Videos : ApproveCandidates(k, rev, approved)
          \/ Cancel(k, rev)
    BY <1>3 DEF Decisions
  <2>2. /\ k \notin DOMAIN decisions /\ session.revision = rev
        /\ session'.revision = session.revision + 1 /\ session'.state # "absent"
    BY <2>1 DEF DecideSufficiency, ApproveCandidates, Cancel, Expected, Transition
  <2>3. \E action, request : Decide(k, rev, action, request)
    BY <2>1 DEF DecideSufficiency, ApproveCandidates, Cancel
  <2>4. Decides(k)
    BY <2>2, <2>3 DEF Decide, WithRow, Decides
  <2> QED
    BY <2>4
<1>4. ASSUME NEW rev \in Nat, Pipeline(rev)
      PROVE  DecisionEffect
  BY <1>4, TransitionGoesOn
     DEF Pipeline, RecordAssessment, RecordPartialAssessment, RecordCandidates, RecordFailure,
         CompleteReindexing
<1>5. ASSUME NEW rev \in Nat, Acquisition(rev)
      PROVE  DecisionEffect
  BY <1>5, TransitionGoesOn
     DEF Acquisition, StartAttempt, RecordProgress, CompleteAttempt, RecordBatch,
         RecordAcquisitionFailure, SessionGoesOn
<1>6. ASSUME NEW rev \in Nat, Retries(rev)
      PROVE  DecisionEffect
  <2>1. ASSUME NEW k \in Keys, Retry(k, rev)
        PROVE  DecisionEffect
    <3>1. Decides(k)
      BY <2>1 DEF Retry, Expected, Transition, Decide, WithRow, Decides, TypeOK, SessionOK,
                  FailureTargets
    <3> QED
      BY <3>1
  <2>2. ASSUME NEW k \in Keys, NEW a \in DOMAIN attempts \cup {NoAttempt},
               ClaimRetry(k, rev, a)
        PROVE  DecisionEffect
    <3>1. session.state \in Retriable /\ session.revision = rev /\ k \notin DOMAIN decisions
      BY <2>2 DEF ClaimRetry, Claimable, Acceptable, Expected, Retriable
    <3>2. RetryTarget # "absent"
      BY <3>1, RetryTargetOK DEF TypeOK, FailureTargets
    <3>3. session'.revision = session.revision + 1 /\ session'.state # "absent"
      BY <2>2, <3>2, TransitionGoesOn DEF ClaimRetry
    <3>4. Decides(k)
      BY <2>2, <3>1, <3>3 DEF ClaimRetry, Reserve, WithRow, Decides
    <3> QED
      BY <3>4
  <2>3. ASSUME NEW k \in Keys, NEW a \in DOMAIN attempts \cup {NoAttempt},
               ReclaimRetry(k, rev, a)
        PROVE  DecisionEffect
    <3>1. Incomplete(k) /\ k \in DOMAIN decisions /\ decisions[k] \in DecisionRows
      BY <2>3 DEF ReclaimRetry, Reclaimable, Incomplete, TypeOK, DecisionsOK
    <3>2. CASE UNCHANGED <<session, decisions>>
      BY <3>2 DEF SessionGoesOn
    <3>3. CASE ResumesPipeline(k, a) /\ UNCHANGED session
               /\ decisions' = [decisions EXCEPT ![k].claim = session.revision,
                                                 ![k].claimed = session.state,
                                                 ![k].target = session.state]
      BY <3>1, <3>3 DEF Answers, SessionGoesOn, DecisionRows
    <3>4. ASSUME NEW to, to # "absent", Transition(to, "none"),
                 decisions' = [decisions EXCEPT ![k].claim = session.revision + 1,
                                                ![k].claimed = to]
          PROVE  DecisionEffect
      <4>1. SessionGoesOn
        BY <3>4, TransitionGoesOn
      <4>2. Answers(k)
        BY <3>1, <3>4 DEF Answers, DecisionRows
      <4> QED
        BY <4>1, <4>2
    <3>5. RestartsStage(k, a) => decisions[k].target # "absent"
      BY DEF RestartsStage, TypeOK, SessionOK, FailureTargets
    <3> QED
      BY <2>3, <3>2, <3>3, <3>4, <3>5 DEF ReclaimRetry
  <2> QED
    BY <1>6, <2>1, <2>2, <2>3 DEF Retries
<1>7. ASSUME NEW k \in DOMAIN decisions, NEW error, NEW result \in Nat,
             CompleteRetry(k, result, error)
      PROVE  DecisionEffect
  <2>1. k \in Keys /\ decisions[k] \in DecisionRows
    BY DEF TypeOK, DecisionsOK
  <2>2. Answers(k) /\ SessionGoesOn
    BY <1>7, <2>1 DEF CompleteRetry, Incomplete, Answers, SessionGoesOn, DecisionRows
  <2> QED
    BY <2>1, <2>2
<1> QED
  BY <1>1, <1>2, <1>3, <1>4, <1>5, <1>6, <1>7 DEF Transaction

LEMMA StepDecisionEffect ==
  ASSUME TypeOK, [Next]_storeVars
  PROVE  DecisionEffect
BY NextTransaction, TransactionDecisionEffect

\* Inductive form of OneDecisionPerRevision: every decision was sent with a
\* revision that is over.
DecisionsBefore ==
  /\ session.state = "absent" => DOMAIN decisions = {}
  /\ \A k \in DOMAIN decisions : decisions[k].revision < session.revision

DecisionInv == DecisionsBefore /\ OneDecisionPerRevision

LEMMA DecisionStep ==
  ASSUME TypeOK, DecisionInv, DecisionEffect
  PROVE  DecisionInv'
<1> USE DEF DecisionInv, DecisionsBefore, OneDecisionPerRevision
<1>1. /\ session.revision \in Nat
      /\ \A k \in DOMAIN decisions : decisions[k].revision \in Nat
  BY DEF TypeOK, SessionOK, DecisionsOK, DecisionRows
<1>2. CASE CreateSession
  BY <1>2 DEF CreateSession
<1>3. CASE UNCHANGED decisions /\ SessionGoesOn
  BY <1>1, <1>3 DEF SessionGoesOn
<1>4. ASSUME NEW k \in Keys, Decides(k)
      PROVE  DecisionInv'
  BY <1>1, <1>4 DEF Decides
<1>5. ASSUME NEW k \in Keys, Answers(k), SessionGoesOn
      PROVE  DecisionInv'
  <2>1. /\ DOMAIN decisions' = DOMAIN decisions
        /\ \A j \in DOMAIN decisions : decisions'[j].revision = decisions[j].revision
    BY <1>5 DEF Answers
  <2> QED
    BY <1>1, <1>5, <2>1 DEF SessionGoesOn
<1> QED
  BY <1>2, <1>3, <1>4, <1>5 DEF DecisionEffect

\* Two callers that hold the same revision cannot both commit a decision.
THEOREM DecisionsExclusive == Spec => []OneDecisionPerRevision
<1>1. Init => DecisionInv
  BY DEF Init, DecisionInv, DecisionsBefore, OneDecisionPerRevision
<1>2. TypeOK /\ DecisionInv /\ [Next]_storeVars => DecisionInv'
  BY StepDecisionEffect, DecisionStep
<1>3. DecisionInv => OneDecisionPerRevision
  BY DEF DecisionInv
<1> QED
  BY <1>1, <1>2, <1>3, TypeCorrect, PTL DEF Spec

\* A key keeps its request, and its result once it has one.
THEOREM AnswersAreKept == Spec => AnswersKept
<1>1. TypeOK /\ DecisionEffect => [KeepsAnswers]_storeVars
  BY DEF DecisionEffect, CreateSession, Decides, Answers, KeepsAnswers
<1>2. TypeOK /\ [Next]_storeVars => [KeepsAnswers]_storeVars
  BY <1>1, StepDecisionEffect
<1> QED
  BY <1>2, TypeCorrect, PTL DEF Spec, AnswersKept

=============================================================================
