------------------------ MODULE ResearchWorkflowProofs ------------------------
(***************************************************************************)
(* What the commands of a session guarantee for any number of processes,    *)
(* attempts, keys and crashes: proofs for ResearchWorkflow.  Every step of a *)
(* process is at most one transaction of ResearchStore, so the lemmas about  *)
(* transactions are used again; what is new is what a process remembers      *)
(* between two of them, and the locks that keep others away meanwhile.      *)
(***************************************************************************)
EXTENDS ResearchWorkflow, ResearchStoreProofs

-----------------------------------------------------------------------------
(* The invariant.                                                          *)

Commands == {"none", "start", "discover", "acquire", "retry"}

Steps == {"idle", "assess", "discover", "reserve", "lock", "continue", "item", "record",
          "refresh", "reindexed", "find", "claim_lock", "claim", "respond", "complete"}

\* Points at which a process is about to acquire, or has acquired, a video.
Acquiring == {"item", "record"}

Memory(m) ==
  /\ DOMAIN m = DOMAIN Idle
  /\ m.command \in Commands /\ m.pc \in Steps
  /\ m.rev \in Nat /\ m.partial \in BOOLEAN /\ m.error \in RetryErrors
  /\ m.key \in Keys \cup {NoAttempt} /\ m.attempt \in Keys \cup {NoAttempt}
  /\ m.todo \subseteq Videos /\ m.known \subseteq Videos
  /\ m.locks \subseteq Locks
  /\ m.command = "none" => m = Idle
  /\ m.pc = "idle" => m = Idle
  /\ m.command \in {"acquire", "retry"} => m.key \in Keys
  /\ m.pc \in {"reserve", "lock"} => m.command = "acquire"
  /\ m.pc \in {"find", "claim_lock", "claim", "respond", "complete"} => m.command = "retry"

Remembers ==
  /\ proc = [p \in Procs |-> proc[p]]
  /\ \A p \in Procs : Memory(proc[p])

CorpusOK ==
  /\ indexed \subseteq corpus /\ corpus \subseteq Videos
  /\ crashes \in 0..MaxCrashes

\* A command runs on a session that exists, and believes in a revision it had.
Believes ==
  /\ session.state = "absent" => session.revision = 0
  /\ \A p \in Procs : /\ ~At(p, "idle") => session.state # "absent"
                      /\ proc[p].rev <= session.revision

LocksExclusive ==
  \A p, q \in Procs : p # q => proc[p].locks \cap proc[q].locks = {}

\* What a process knows of the attempt it works on, and that it holds its lock.
Named(m) == m.attempt \in DOMAIN attempts

Owned(m) == Named(m) /\ AttemptLock(m.attempt) \in m.locks

Unsettled(a, todo) ==
  \A v \in todo : v \in VideosOf(a) /\ attempts[a].outcomes[v] \notin Settled

Obtained(m) ==
  \E v \in m.todo :
    /\ m.got \in [{v} -> Settled \cup {"failed_retryable"}]
    /\ m.got[v] \in Ready => v \in corpus

Works(m) ==
  /\ m.pc \in {"lock", "claim_lock"} => Named(m)
  /\ m.pc = "claim" => m.attempt = NoAttempt \/ Owned(m)
  /\ m.pc \in {"continue"} \cup Acquiring => Owned(m)
  /\ m.pc \in Acquiring => Unsettled(m.attempt, m.todo)
  /\ m.pc = "record" => Obtained(m)
  /\ m.pc = "reserve" => m.todo \subseteq ConsentedVideos

\* A fresh retry that found no attempt to lock does not resume an acquisition.
NothingToLock(m) ==
  m.pc = "claim" /\ m.attempt = NoAttempt /\ m.key \notin DOMAIN decisions
    /\ m.rev = session.revision => RetryTarget # "acquiring"

\* Only videos the user approved are approved candidates or reserved.
OnlyConsented ==
  /\ \A v \in DOMAIN candidates : candidates[v] = "approved" => v \in ConsentedVideos
  /\ \A a \in DOMAIN attempts : VideosOf(a) \subseteq ConsentedVideos

WorkflowInv ==
  /\ TypeOK /\ OrderInv /\ DecisionInv
  /\ Remembers /\ CorpusOK /\ Believes /\ LocksExclusive /\ OnlyConsented
  /\ \A p \in Procs : Works(proc[p]) /\ NothingToLock(proc[p])

\* What AskedOnFreshIndexes rests on.  While an attempt runs, or after it has
\* failed or left for the indexes, the candidates are still those of the latest
\* attempt: an acquisition of it cannot fail for a video that left the snapshot.
LatestAttempt(a) == IsLatest(a, DOMAIN attempts)

SnapshotMatters ==
  \/ WithStatus("running") # {} \/ Pipelined
  \/ session.target = "acquiring" \/ session.state = "awaiting_sufficiency"

LatestInSnapshot ==
  \A a \in DOMAIN attempts : LatestAttempt(a) => VideosOf(a) \subseteq DOMAIN candidates

SnapshotStays == SnapshotMatters => LatestInSnapshot

\* What a process knows of the snapshot, as long as the session has not moved on.
KnowsSnapshot(m) ==
  m.rev = session.revision =>
    /\ m.pc = "reserve" => m.todo \subseteq DOMAIN candidates
    /\ m.pc \in Acquiring => m.known = DOMAIN candidates

ReadyIsHeld ==
  \A a \in DOMAIN attempts : \A v \in VideosOf(a) :
    attempts[a].outcomes[v] \in Ready => v \in corpus

\* Attempts whose transcripts the question is about.
Counts(a) == LatestAttempt(a) \/ attempts[a].status # "failed_retryable"

AllIndexed == \A a \in DOMAIN attempts : Counts(a) => Indexed(a)

\* A process that is about to leave reindexing has refreshed what there is.
Refreshed(m) == m.pc = "reindexed" /\ Expected(m.rev, {"reindexing"}) => AllIndexed

\* What is in the indexes, by the stage of the session.
StagesIndexed ==
  /\ Stage \notin {"acquiring", "reindexing"} => AllIndexed
  /\ Stage = "acquiring" => \A a \in DOMAIN attempts : Counts(a) => Indexed(a) \/ Running(a)

FreshInv ==
  /\ SnapshotStays /\ ReadyIsHeld /\ StagesIndexed
  /\ \A p \in Procs : KnowsSnapshot(proc[p]) /\ Refreshed(proc[p])

-----------------------------------------------------------------------------
(* Every step is at most one transaction.                                  *)

LEMMA WorkflowRefused ==
  ASSUME NEW p \in Procs, Raise(p)
  PROVE  Transaction /\ UNCHANGED storeVars
BY DEF Raise, Transaction

LEMMA UserTransaction ==
  ASSUME TypeOK, DecideCommand \/ ApproveCommand \/ CancelCommand
  PROVE  Transaction
<1> USE WorkflowAssumption DEF Transaction, Decisions
<1>1. session.revision \in Nat /\ SUBSET DOMAIN candidates \subseteq SUBSET Videos
  BY DEF TypeOK, SessionOK, CandidatesOK
<1>2. CASE DecideCommand
  BY <1>1, <1>2 DEF DecideCommand
<1>3. CASE ApproveCommand
  <2>1. PICK k \in DecisionKeys, approved \in SUBSET DOMAIN candidates :
          ApproveCandidates(k, session.revision, approved)
    BY <1>3 DEF ApproveCommand
  <2>2. k \in Keys /\ approved \in SUBSET Videos
    BY <1>1, <2>1
  <2>3. Decisions(session.revision)
    BY <2>1, <2>2
  <2> QED
    BY <1>1, <2>3
<1>4. CASE CancelCommand
  BY <1>1, <1>4 DEF CancelCommand
<1> QED
  BY <1>2, <1>3, <1>4

LEMMA PipelineTransaction ==
  ASSUME TypeOK, NEW p \in Procs, Memory(proc[p]),
         \/ Assess(p) \/ AssessmentFails(p) \/ Discover(p) \/ DiscoveryFails(p)
         \/ RefreshFails(p) \/ Reindexed(p)
  PROVE  Transaction
<1>1. proc[p].rev \in Nat
  BY DEF Memory
<1>2. \/ RecordAssessment(proc[p].rev)
      \/ \E a \in DOMAIN attempts : RecordPartialAssessment(proc[p].rev, a)
      \/ \E found \in SUBSET Videos : RecordCandidates(proc[p].rev, found)
      \/ \E target \in CallerFailureTargets : RecordFailure(proc[p].rev, target)
      \/ CompleteReindexing(proc[p].rev)
  BY DEF Assess, AssessmentFails, Discover, DiscoveryFails, RefreshFails, Reindexed,
         RecordPartialAssessment, PartiallyRetryable, WithStatus, CallerFailureTargets
<1>3. Pipeline(proc[p].rev)
  BY <1>2 DEF Pipeline
<1> QED
  BY <1>1, <1>3 DEF Transaction

LEMMA AcquisitionTransaction ==
  ASSUME TypeOK, CorpusOK, NEW p \in Procs, Memory(proc[p]), Works(proc[p]),
         Reserves(p) \/ Record(p) \/ FailAcquisition(p) \/ FinishAcquisition(p)
  PROVE  Transaction
<1>1. proc[p].rev \in Nat /\ proc[p].todo \in SUBSET Videos
  BY DEF Memory
<1>2. CASE Reserves(p)
  <2>1. proc[p].key \in Keys
    BY <1>2 DEF Reserves, At, Memory
  <2> QED
    BY <1>1, <1>2, <2>1 DEF Reserves, Acquisition, Transaction
<1>3. CASE Record(p)
  <2>1. PICK v \in proc[p].todo : proc[p].got \in [{v} -> Settled \cup {"failed_retryable"}]
    BY <1>3 DEF Record, At, Works, Obtained
  <2>2. v \in Videos /\ proc[p].got \in Found({v})
    BY <1>1, <2>1 DEF Found
  <2>3. proc[p].attempt \in DOMAIN attempts
    BY <1>3 DEF Record, RecordProgress, Active, WithStatus
  <2>4. Acquisition(proc[p].rev)
    BY <1>3, <2>2, <2>3 DEF Record, Acquisition
  <2> QED
    BY <1>1, <2>4 DEF Transaction
<1>4. CASE FailAcquisition(p) \/ FinishAcquisition(p)
  <2>1. proc[p].attempt \in DOMAIN attempts
    BY <1>4 DEF FailAcquisition, FinishAcquisition, RecordAcquisitionFailure, CompleteAttempt,
                Active, WithStatus
  <2>2. Acquisition(proc[p].rev)
    BY <1>4, <2>1 DEF FailAcquisition, FinishAcquisition, Acquisition
  <2> QED
    BY <1>1, <2>2 DEF Transaction
<1> QED
  BY <1>2, <1>3, <1>4

LEMMA RetryTransaction ==
  ASSUME TypeOK, NEW p \in Procs, Memory(proc[p]), Works(proc[p]), Claim(p) \/ Complete(p)
  PROVE  Transaction
<1>1. proc[p].rev \in Nat /\ proc[p].error \in RetryErrors
  BY DEF Memory
<1>2. CASE Claim(p)
  <2>1. proc[p].key \in Keys /\ proc[p].attempt \in DOMAIN attempts \cup {NoAttempt}
    BY <1>2 DEF Claim, At, Memory, Works, Owned, Named
  <2>2. \/ ClaimRetry(proc[p].key, proc[p].rev, proc[p].attempt)
        \/ ReclaimRetry(proc[p].key, proc[p].rev, proc[p].attempt)
        \/ UNCHANGED storeVars
    BY <1>2 DEF Claim, Raise
  <2> QED
    BY <1>1, <2>1, <2>2 DEF Retries, Transaction
<1>3. CASE Complete(p)
  BY <1>1, <1>3 DEF Complete, Incomplete, Transaction
<1> QED
  BY <1>2, <1>3

\* The other steps of a process only read, or do not touch the store at all.
ReadsOnly(p) ==
  \/ BeginDiscover(p) \/ \E k \in AcquireKeys : BeginAcquire(p, k)
  \/ \E k \in RetryKeys : BeginRetry(p, k)
  \/ AssessRefused(p) \/ DiscoverRefused(p) \/ ReserveRefused(p) \/ LockAttempt(p)
  \/ Continue(p) \/ Acquire(p) \/ RecordRefused(p) \/ AcquisitionRefused(p)
  \/ RefreshIndexes(p) \/ ReindexRefused(p) \/ FindAttempt(p) \/ ClaimLock(p)
  \/ Respond(p) \/ Crash(p)

LEMMA ReadsChangeNothing ==
  ASSUME NEW p \in Procs, ReadsOnly(p)
  PROVE  UNCHANGED storeVars
BY DEF ReadsOnly, BeginDiscover, BeginAcquire, BeginRetry, AssessRefused, DiscoverRefused,
       ReserveRefused, LockAttempt, Continue, Acquire, RecordRefused, AcquisitionRefused,
       RefreshIndexes, ReindexRefused, FindAttempt, ClaimLock, Respond, Crash, Raise

\* Steps of a process, by the transactions they run.
Writes(p) ==
  \/ Start(p)
  \/ Assess(p) \/ AssessmentFails(p) \/ Discover(p) \/ DiscoveryFails(p)
  \/ RefreshFails(p) \/ Reindexed(p)
  \/ Reserves(p) \/ Record(p) \/ FailAcquisition(p) \/ FinishAcquisition(p)
  \/ Claim(p) \/ Complete(p)

LEMMA StepCases ==
  ASSUME WorkflowNext
  PROVE  \/ DecideCommand \/ ApproveCommand \/ CancelCommand
         \/ \E p \in Procs : ReadsOnly(p) \/ Writes(p)
BY DEF WorkflowNext, Command, Step, ReadsOnly, Writes

LEMMA StepTransaction ==
  ASSUME WorkflowInv, [WorkflowNext]_workflowVars
  PROVE  Transaction
<1> USE DEF WorkflowInv
<1>1. CASE UNCHANGED workflowVars
  BY <1>1 DEF workflowVars, Transaction
<1>2. CASE DecideCommand \/ ApproveCommand \/ CancelCommand
  BY <1>2, UserTransaction
<1>3. ASSUME NEW p \in Procs, ReadsOnly(p) PROVE Transaction
  BY <1>3, ReadsChangeNothing DEF Transaction
<1>4. ASSUME NEW p \in Procs, Writes(p) PROVE Transaction
  <2>1. Memory(proc[p]) /\ Works(proc[p])
    BY DEF Remembers
  <2>2. CASE Start(p)
    BY <2>2 DEF Start, Transaction
  <2> QED
    BY <1>4, <2>1, <2>2, PipelineTransaction, AcquisitionTransaction, RetryTransaction DEF Writes
<1> QED
  BY <1>1, <1>2, <1>3, <1>4, StepCases

\* Whatever a transaction does, keys and attempts stay, and the session is at a
\* later revision or the same as it was.
Grows ==
  /\ DOMAIN decisions \subseteq DOMAIN decisions'
  /\ \A a \in DOMAIN attempts : a \in DOMAIN attempts' /\ DOMAIN attempts'[a].outcomes = VideosOf(a)
  /\ CreateSession \/ SessionGoesOn

LEMMA TransactionGrows ==
  ASSUME TypeOK, Transaction
  PROVE  Grows
<1>1. Effect /\ DecisionEffect
  BY TransactionEffect, TransactionDecisionEffect
<1>2. DOMAIN decisions \subseteq DOMAIN decisions' /\ (CreateSession \/ SessionGoesOn)
  BY <1>1 DEF DecisionEffect, Decides, Answers, SessionGoesOn, CreateSession
<1>3. ASSUME NEW a \in DOMAIN attempts
      PROVE  a \in DOMAIN attempts' /\ DOMAIN attempts'[a].outcomes = VideosOf(a)
  <2>1. CASE UNCHANGED attempts
    BY <2>1 DEF VideosOf
  <2>2. ASSUME NEW k \in Keys, Starts(k)
        PROVE  a \in DOMAIN attempts' /\ DOMAIN attempts'[a].outcomes = VideosOf(a)
    BY <2>2 DEF Starts, VideosOf
  <2>3. ASSUME NEW b \in DOMAIN attempts, NEW status, Changes(b, status)
        PROVE  a \in DOMAIN attempts' /\ DOMAIN attempts'[a].outcomes = VideosOf(a)
    BY <2>3 DEF Changes, VideosOf
  <2> QED
    BY <1>1, <2>1, <2>2, <2>3
       DEF Effect, CreateSession, Advances, Resumes, Progresses, Completes, Fails, PartlyFails
<1> QED
  BY <1>2, <1>3 DEF Grows

\* How a step writes attempts: it reserves one, records an outcome, or sets the
\* status of one that is there.
LEMMA AttemptWrites ==
  ASSUME [WorkflowNext]_workflowVars
  PROVE  \/ UNCHANGED attempts
         \/ \E p \in Procs : Reserves(p) \/ Record(p)
         \/ \E a \in DOMAIN attempts : \E status : SetStatus(a, status)
<1> DEFINE Kept == \/ UNCHANGED attempts
                   \/ \E a \in DOMAIN attempts : \E status : SetStatus(a, status)
<1>1. CASE DecideCommand \/ ApproveCommand \/ CancelCommand \/ UNCHANGED workflowVars
  BY <1>1 DEF DecideCommand, ApproveCommand, CancelCommand, DecideSufficiency,
              ApproveCandidates, Cancel, workflowVars, storeVars
<1>2. ASSUME NEW p \in Procs, ReadsOnly(p) PROVE Kept
  BY <1>2, ReadsChangeNothing DEF storeVars
<1>3. ASSUME NEW p \in Procs, Writes(p), ~Reserves(p), ~Record(p) PROVE Kept
  <2>1. CASE Claim(p)
    <3>1. \E k, rev, a : ClaimRetry(k, rev, a) \/ ReclaimRetry(k, rev, a) \/ UNCHANGED storeVars
      BY <2>1 DEF Claim, Raise
    <3> QED
      BY <3>1 DEF ClaimRetry, ReclaimRetry, RestartsAttempt, WithStatus, storeVars
  <2> QED
    BY <1>3, <2>1
       DEF Writes, Start, CreateSession, Assess, RecordPartialAssessment, RecordAssessment,
           PartiallyRetryable, AssessmentFails, RecordFailure, Discover, RecordCandidates,
           DiscoveryFails, RefreshFails, Reindexed, CompleteReindexing,
           FailAcquisition, RecordAcquisitionFailure, FinishAcquisition, CompleteAttempt, Active,
           WithStatus, Complete, CompleteRetry, storeVars
<1> QED
  BY <1>1, <1>2, <1>3, StepCases

\* Outcomes are written by the steps that record them, and by no others.
LEMMA OthersKeepOutcomes ==
  ASSUME TypeOK, [WorkflowNext]_workflowVars, NEW a \in DOMAIN attempts,
         \A p \in Procs : Record(p) => proc[p].attempt # a
  PROVE  attempts'[a].outcomes = attempts[a].outcomes
<1>1. ASSUME NEW b \in DOMAIN attempts, NEW status, SetStatus(b, status)
      PROVE  attempts'[a].outcomes = attempts[a].outcomes
  BY <1>1, SetStatusChanges DEF TypeOK, Changes
<1>2. ASSUME NEW p \in Procs, Reserves(p)
      PROVE  attempts'[a].outcomes = attempts[a].outcomes
  BY <1>2 DEF Reserves, StartAttempt, Startable, WithRow
<1>3. ASSUME NEW p \in Procs, Record(p)
      PROVE  attempts'[a].outcomes = attempts[a].outcomes
  BY <1>3 DEF Record, RecordProgress
<1> QED
  BY <1>1, <1>2, <1>3, AttemptWrites

\* How a step writes the candidates.
LEMMA CandidateWrites ==
  ASSUME [WorkflowNext]_workflowVars
  PROVE  \/ UNCHANGED candidates
         \/ ApproveCommand
         \/ \E p \in Procs : Discover(p) \/ Record(p)
<1>1. CASE DecideCommand \/ CancelCommand \/ UNCHANGED workflowVars
  BY <1>1 DEF DecideCommand, CancelCommand, DecideSufficiency, Cancel, workflowVars, storeVars
<1>2. ASSUME NEW p \in Procs, ReadsOnly(p) PROVE UNCHANGED candidates
  BY <1>2, ReadsChangeNothing DEF storeVars
<1>3. ASSUME NEW p \in Procs, Writes(p), ~Discover(p), ~Record(p) PROVE UNCHANGED candidates
  BY <1>3 DEF Writes, Start, CreateSession, Assess, RecordPartialAssessment, RecordAssessment,
       AssessmentFails, RecordFailure, DiscoveryFails, RefreshFails, Reindexed,
       CompleteReindexing, Reserves, StartAttempt, FailAcquisition, RecordAcquisitionFailure,
       FinishAcquisition, CompleteAttempt, Claim, Raise, ClaimRetry, ReclaimRetry, Complete,
       CompleteRetry, storeVars
<1> QED
  BY <1>1, <1>2, <1>3, StepCases

-----------------------------------------------------------------------------
(* What a process remembers.                                               *)

\* Only process p goes on, with memory m.
Becomes(p, m) == proc' = [proc EXCEPT ![p] = m]

LEMMA IdleMemory == Memory(Idle)
BY DEF Memory, Idle, NoOutcome, Commands, Steps, RetryErrors

\* After Go the fields named have the values given, and the others theirs.
LEMMA GoBecomes ==
  ASSUME Remembers, NEW p \in Procs, NEW changes, Go(p, changes)
  PROVE  /\ Becomes(p, proc'[p])
         /\ DOMAIN proc'[p] = DOMAIN Idle
         /\ \A f \in DOMAIN Idle :
              proc'[p][f] = IF f \in DOMAIN changes THEN changes[f] ELSE proc[p][f]
BY DEF Go, Becomes, Remembers

\* The values the fields of a working process may have.
FieldOK(f, x) ==
  /\ f = "command" => x \in Commands \ {"none"}
  /\ f = "pc" => x \in Steps \ {"idle"}
  /\ f = "key" => x \in Keys
  /\ f = "rev" => x \in Nat
  /\ f = "attempt" => x \in Keys \cup {NoAttempt}
  /\ f = "partial" => x \in BOOLEAN
  /\ f \in {"todo", "known"} => x \subseteq Videos
  /\ f = "error" => x \in RetryErrors
  /\ f = "locks" => x \subseteq Locks

Fits(command, pc) ==
  /\ pc \in {"reserve", "lock"} => command = "acquire"
  /\ pc \in {"find", "claim_lock", "claim", "respond", "complete"} => command = "retry"

\* A command that is under way goes on.
LEMMA GoesOn ==
  ASSUME Remembers, NEW p \in Procs, ~At(p, "idle"), NEW changes, Go(p, changes),
         "pc" \in DOMAIN changes, {"command", "key"} \cap DOMAIN changes = {},
         \A f \in DOMAIN changes : FieldOK(f, changes[f]),
         Fits(proc[p].command, changes["pc"])
  PROVE  /\ Memory(proc'[p]) /\ proc'[p].pc = changes["pc"]
         /\ proc'[p].command = proc[p].command /\ proc'[p].key = proc[p].key
<1> DEFINE m == proc'[p]
<1>1. Memory(proc[p])
  BY DEF Remembers
<1>2. /\ DOMAIN m = DOMAIN Idle
      /\ \A f \in DOMAIN Idle : m[f] = IF f \in DOMAIN changes THEN changes[f] ELSE proc[p][f]
  BY GoBecomes
<1> HIDE DEF m
<1>3. m.command = proc[p].command /\ m.key = proc[p].key /\ m.pc = changes["pc"]
  BY <1>2 DEF Idle
<1>4. m.pc \in Steps \ {"idle"} /\ m.command \in Commands \ {"none"}
  BY <1>1, <1>3 DEF FieldOK, Memory, At, Idle
<1>5. m.rev \in Nat /\ m.partial \in BOOLEAN /\ m.error \in RetryErrors
  BY <1>1, <1>2 DEF Idle, FieldOK, Memory
<1>6. m.attempt \in Keys \cup {NoAttempt} /\ m.locks \subseteq Locks
  BY <1>1, <1>2 DEF Idle, FieldOK, Memory
<1>7. m.todo \subseteq Videos /\ m.known \subseteq Videos
  BY <1>1, <1>2 DEF Idle, FieldOK, Memory
<1> QED
  BY <1>1, <1>2, <1>3, <1>4, <1>5, <1>6, <1>7 DEF Memory, Fits, m

\* An idle process begins a command.
LEMMA Begins ==
  ASSUME Remembers, NEW p \in Procs, At(p, "idle"), NEW changes, Go(p, changes),
         {"command", "pc"} \subseteq DOMAIN changes,
         \A f \in DOMAIN changes : FieldOK(f, changes[f]),
         changes["command"] \in {"acquire", "retry"} => "key" \in DOMAIN changes,
         Fits(changes["command"], changes["pc"])
  PROVE  /\ Memory(proc'[p]) /\ proc'[p].pc = changes["pc"]
         /\ proc'[p].command = changes["command"]
<1> DEFINE m == proc'[p]
<1>1. Memory(proc[p]) /\ proc[p] = Idle
  BY DEF Remembers, At, Memory
<1>2. /\ DOMAIN m = DOMAIN Idle
      /\ \A f \in DOMAIN Idle : m[f] = IF f \in DOMAIN changes THEN changes[f] ELSE Idle[f]
  BY <1>1, GoBecomes
<1> HIDE DEF m
<1>3. m.command = changes["command"] /\ m.pc = changes["pc"]
  BY <1>2 DEF Idle
<1>4. m.pc \in Steps \ {"idle"} /\ m.command \in Commands \ {"none"}
  BY <1>3 DEF FieldOK
<1>5. m.rev \in Nat /\ m.partial \in BOOLEAN /\ m.error \in RetryErrors
  BY <1>2, IdleMemory DEF Idle, FieldOK, Memory
<1>6. m.attempt \in Keys \cup {NoAttempt} /\ m.locks \subseteq Locks
  BY <1>2, IdleMemory DEF Idle, FieldOK, Memory
<1>7. m.todo \subseteq Videos /\ m.known \subseteq Videos
  BY <1>2, IdleMemory DEF Idle, FieldOK, Memory
<1>8. /\ m.key \in Keys \cup {NoAttempt}
      /\ m.command \in {"acquire", "retry"} => m.key \in Keys
  BY <1>2, <1>3 DEF Idle, FieldOK
<1> QED
  BY <1>2, <1>3, <1>4, <1>5, <1>6, <1>7, <1>8 DEF Memory, Fits, m

\* What a step of process p leaves in its memory, whatever else it does.
Progress(p, m) ==
  /\ Becomes(p, m) /\ Memory(m)
  /\ m.rev <= session'.revision
  /\ m.pc = "idle" \/ session'.state # "absent"
  /\ \A l \in m.locks \ proc[p].locks : LockFree(l)

\* Points at which nothing is assumed of the attempt.
Plain == {"idle", "assess", "discover", "refresh", "reindexed", "find", "respond", "complete"}

LEMMA PlainWorks ==
  ASSUME NEW m, m.pc \in Plain
  PROVE  Works(m)' /\ NothingToLock(m)'
BY DEF Plain, Works, NothingToLock, Acquiring

LEMMA RevisionsGrow ==
  ASSUME TypeOK, Believes, Transaction
  PROVE  /\ session.revision \in Nat /\ session'.revision \in Nat
         /\ session.revision <= session'.revision
         /\ session.state # "absent" => session'.state # "absent"
<1>1. TypeOK'
  BY TransactionTypeOK
<1>2. CreateSession \/ SessionGoesOn
  BY TransactionGrows DEF Grows
<1>3. session.revision \in Nat /\ session'.revision \in Nat
  BY <1>1 DEF TypeOK, SessionOK
<1> QED
  BY <1>2, <1>3 DEF Believes, CreateSession, SessionGoesOn

LEMMA EndsProgress ==
  ASSUME WorkflowInv, Transaction, NEW p \in Procs, proc' = [proc EXCEPT ![p] = Idle],
         NEW m, m = proc'[p]
  PROVE  Progress(p, m) /\ m.pc \in Plain
<1>1. m = Idle
  BY DEF WorkflowInv, Remembers
<1>2. Memory(m) /\ Becomes(p, m)
  BY <1>1, IdleMemory DEF Becomes
<1>3. m.pc = "idle" /\ m.rev = 0 /\ m.locks = {}
  BY <1>1 DEF Idle
<1>4. 0 <= session'.revision
  BY RevisionsGrow DEF WorkflowInv
<1> QED
  BY <1>2, <1>3, <1>4 DEF Progress, Plain

LEMMA ReturnProgress ==
  ASSUME WorkflowInv, Transaction, NEW p \in Procs, ~At(p, "idle"),
         NEW rev \in Nat, rev <= session'.revision, NEW error \in RetryErrors,
         Return(p, rev, error), NEW m, m = proc'[p]
  PROVE  Progress(p, m) /\ m.pc \in Plain
<1>1. CASE proc[p].command # "retry"
  BY <1>1, EndsProgress DEF Return
<1>2. CASE proc[p].command = "retry"
  <2> DEFINE changes == [pc |-> "respond", rev |-> rev, error |-> error]
  <2>1. Remembers /\ Go(p, changes)
    BY <1>2 DEF Return, WorkflowInv
  <2>2. Memory(m) /\ m.pc = "respond"
    BY <1>2, <2>1, GoesOn DEF FieldOK, Steps, Fits
  <2>3. m.rev = rev /\ m.locks = proc[p].locks /\ Becomes(p, m)
    BY <2>1, GoBecomes DEF Idle
  <2>4. session'.state # "absent"
    BY RevisionsGrow DEF WorkflowInv, Believes
  <2> QED
    BY <2>2, <2>3, <2>4 DEF Progress, Plain
<1> QED
  BY <1>1, <1>2

\* Transitions of the session count its revisions.
LEMMA TransitionRevision ==
  ASSUME NEW rev, NEW states, Expected(rev, states), NEW to, NEW t, Transition(to, t)
  PROVE  session'.revision = rev + 1
BY DEF Expected, Transition

\* The steps that end a stage or its command.
LEMMA StageSteps ==
  ASSUME WorkflowInv, Transaction, NEW p \in Procs, NEW m, m = proc'[p],
         \/ Assess(p) \/ AssessmentFails(p) \/ Discover(p) \/ DiscoveryFails(p)
         \/ RefreshFails(p) \/ FailAcquisition(p)
  PROVE  Progress(p, m) /\ m.pc \in Plain
<1> DEFINE rev == proc[p].rev + 1
<1>1. rev \in Nat
  BY DEF WorkflowInv, Remembers, Memory
<1>2. session'.revision = rev
  BY TransitionRevision
     DEF Assess, AssessmentFails, Discover, DiscoveryFails, RefreshFails, FailAcquisition,
         RecordAssessment, RecordPartialAssessment, RecordFailure, RecordCandidates,
         RecordAcquisitionFailure, Active
<1>3. ~At(p, "idle")
  BY DEF Assess, AssessmentFails, Discover, DiscoveryFails, RefreshFails, FailAcquisition, At
<1>4. PICK error \in RetryErrors : Return(p, rev, error)
  BY DEF Assess, AssessmentFails, Discover, DiscoveryFails, RefreshFails, FailAcquisition,
         RetryErrors
<1> HIDE DEF rev
<1> QED
  BY <1>1, <1>2, <1>3, <1>4, ReturnProgress

LEMMA EndingSteps ==
  ASSUME WorkflowInv, Transaction, NEW p \in Procs, NEW m, m = proc'[p],
         \/ AssessRefused(p) \/ DiscoverRefused(p) \/ ReserveRefused(p) \/ RecordRefused(p)
         \/ AcquisitionRefused(p) \/ ReindexRefused(p) \/ Complete(p) \/ Crash(p)
  PROVE  Progress(p, m) /\ m.pc \in Plain
<1>1. proc' = [proc EXCEPT ![p] = Idle]
  BY DEF AssessRefused, DiscoverRefused, ReserveRefused, RecordRefused, AcquisitionRefused,
         ReindexRefused, Complete, Crash, Raise
<1> QED
  BY <1>1, EndsProgress

\* Steps that only move on, with a new revision or without one.
LEMMA PlainSteps ==
  ASSUME WorkflowInv, Transaction, NEW p \in Procs, NEW m, m = proc'[p],
         RefreshIndexes(p) \/ Reindexed(p) \/ FinishAcquisition(p) \/ Respond(p)
  PROVE  Progress(p, m) /\ m.pc \in Plain
<1>1. /\ Remembers /\ ~At(p, "idle") /\ Memory(proc[p]) /\ proc[p].rev <= session.revision
      /\ session.state # "absent"
  BY DEF WorkflowInv, Remembers, Believes, RefreshIndexes, Reindexed, FinishAcquisition,
         Respond, At
<1>2. /\ session.revision \in Nat /\ session'.revision \in Nat
      /\ session.revision <= session'.revision /\ session'.state # "absent"
  BY <1>1, RevisionsGrow DEF WorkflowInv
<1>3. proc[p].rev \in Nat /\ proc[p].error \in RetryErrors
  BY <1>1 DEF Memory
<1>4. CASE RefreshIndexes(p)
  <2>1. Go(p, [pc |-> "reindexed"])
    BY <1>4 DEF RefreshIndexes
  <2>2. Memory(m) /\ m.pc = "reindexed"
    BY <1>1, <2>1, GoesOn DEF FieldOK, Steps, Fits
  <2>3. m.rev = proc[p].rev /\ m.locks = proc[p].locks /\ Becomes(p, m)
    BY <1>1, <2>1, GoBecomes DEF Idle
  <2> QED
    BY <1>1, <1>2, <1>3, <2>2, <2>3 DEF Progress, Plain
<1>5. CASE Reindexed(p)
  <2>1. Go(p, [pc |-> "assess", rev |-> proc[p].rev + 1])
    BY <1>5 DEF Reindexed
  <2>2. Memory(m) /\ m.pc = "assess"
    BY <1>1, <1>3, <2>1, GoesOn DEF FieldOK, Steps, Fits
  <2>3. m.rev = proc[p].rev + 1 /\ m.locks = proc[p].locks /\ Becomes(p, m)
    BY <1>1, <2>1, GoBecomes DEF Idle
  <2>4. session'.revision = proc[p].rev + 1
    BY <1>5, TransitionRevision DEF Reindexed, CompleteReindexing
  <2> QED
    BY <1>2, <2>2, <2>3, <2>4 DEF Progress, Plain
<1>6. CASE FinishAcquisition(p)
  <2> DEFINE next == IF HasOutcome(proc[p].attempt, Ready) THEN "refresh" ELSE "reindexed"
             failed == HasOutcome(proc[p].attempt, {"failed_retryable"})
  <2>1. Go(p, [pc |-> next, partial |-> failed, rev |-> proc[p].rev + 1])
    BY <1>6 DEF FinishAcquisition
  <2>2. next \in {"refresh", "reindexed"} /\ failed \in BOOLEAN
    BY DEF HasOutcome
  <2> HIDE DEF next, failed
  <2>3. Memory(m) /\ m.pc = next
    BY <1>1, <1>3, <2>1, <2>2, GoesOn DEF FieldOK, Steps, Fits
  <2>4. m.rev = proc[p].rev + 1 /\ m.locks = proc[p].locks /\ Becomes(p, m)
    BY <1>1, <2>1, GoBecomes DEF Idle
  <2>5. session'.revision = proc[p].rev + 1
    BY <1>6, TransitionRevision DEF FinishAcquisition, CompleteAttempt, Active
  <2> QED
    BY <1>2, <2>2, <2>3, <2>4, <2>5 DEF Progress, Plain
<1>7. CASE Respond(p)
  <2>1. PICK error \in RetryErrors :
          Go(p, [pc |-> "complete", rev |-> session.revision, error |-> error])
    BY <1>3, <1>7 DEF Respond, RetryErrors
  <2>2. Memory(m) /\ m.pc = "complete"
    BY <1>1, <1>2, <1>7, <2>1, GoesOn DEF FieldOK, Steps, Fits, Memory, Respond, At
  <2>3. m.rev = session.revision /\ m.locks = proc[p].locks /\ Becomes(p, m)
    BY <1>1, <2>1, GoBecomes DEF Idle
  <2> QED
    BY <1>2, <2>2, <2>3 DEF Progress, Plain
<1> QED
  BY <1>4, <1>5, <1>6, <1>7

LEMMA CommandSteps ==
  ASSUME WorkflowInv, Transaction, NEW p \in Procs, NEW m, m = proc'[p],
         Start(p) \/ BeginDiscover(p) \/ \E k \in RetryKeys : BeginRetry(p, k)
  PROVE  Progress(p, m) /\ m.pc \in Plain
<1>1. /\ Remembers /\ At(p, "idle") /\ proc[p] = Idle
      /\ session.revision \in Nat /\ session'.revision \in Nat
      /\ session.revision <= session'.revision
  BY RevisionsGrow
     DEF WorkflowInv, Remembers, Memory, At, Start, BeginDiscover, BeginRetry, Free
<1>2. CASE Start(p)
  <2>1. Go(p, [command |-> "start", pc |-> "assess", rev |-> 0])
    BY <1>2 DEF Start
  <2>2. Memory(m) /\ m.pc = "assess"
    BY <1>1, <2>1, Begins DEF FieldOK, Steps, Commands, Fits
  <2>3. m.rev = 0 /\ m.locks = proc[p].locks /\ Becomes(p, m)
    BY <1>1, <2>1, GoBecomes DEF Idle
  <2>4. session'.state # "absent" /\ session'.revision = 0
    BY <1>2 DEF Start, CreateSession
  <2> QED
    BY <1>1, <2>2, <2>3, <2>4 DEF Progress, Plain
<1>3. CASE BeginDiscover(p)
  <2>1. Go(p, [command |-> "discover", pc |-> "discover", rev |-> session.revision])
    BY <1>3 DEF BeginDiscover
  <2>2. Memory(m) /\ m.pc = "discover"
    BY <1>1, <2>1, Begins DEF FieldOK, Steps, Commands, Fits
  <2>3. m.rev = session.revision /\ m.locks = proc[p].locks /\ Becomes(p, m)
    BY <1>1, <2>1, GoBecomes DEF Idle
  <2>4. session'.state # "absent"
    BY <1>3 DEF BeginDiscover, storeVars
  <2> QED
    BY <1>1, <2>2, <2>3, <2>4 DEF Progress, Plain
<1>4. ASSUME NEW k \in RetryKeys, BeginRetry(p, k)
      PROVE  Progress(p, m) /\ m.pc \in Plain
  <2> DEFINE rev == IF k \in DOMAIN decisions THEN decisions[k].revision ELSE session.revision
  <2>1. Go(p, [command |-> "retry", pc |-> "find", key |-> k, rev |-> rev,
               locks |-> {RetryLock(k)}])
    BY <1>4 DEF BeginRetry
  <2>2. rev \in Nat /\ rev <= session.revision
    BY <1>1 DEF WorkflowInv, DecisionInv, DecisionsBefore, TypeOK, DecisionsOK, DecisionRows
  <2> HIDE DEF rev
  <2>3. k \in Keys /\ {RetryLock(k)} \subseteq Locks
    BY WorkflowAssumption DEF RetryLock, Locks
  <2>4. Memory(m) /\ m.pc = "find"
    BY <1>1, <2>1, <2>2, <2>3, Begins DEF FieldOK, Steps, Commands, Fits
  <2>5. m.rev = rev /\ m.locks = {RetryLock(k)} /\ Becomes(p, m)
    BY <1>1, <2>1, GoBecomes DEF Idle
  <2>6. session'.state # "absent"
    BY <1>4 DEF BeginRetry, storeVars
  <2>7. LockFree(RetryLock(k))
    BY <1>4 DEF BeginRetry
  <2> QED
    BY <1>1, <2>2, <2>4, <2>5, <2>6, <2>7 DEF Progress, Plain
<1> QED
  BY <1>2, <1>3, <1>4

LEMMA ReserveStep ==
  ASSUME WorkflowInv, Transaction, NEW p \in Procs, NEW m, m = proc'[p],
         \E k \in AcquireKeys : BeginAcquire(p, k)
  PROVE  Progress(p, m) /\ Works(m)' /\ NothingToLock(m)'
<1>1. PICK k \in AcquireKeys : BeginAcquire(p, k)
  OBVIOUS
<1>2. /\ Remembers /\ At(p, "idle") /\ proc[p] = Idle /\ k \in Keys
      /\ session' = session /\ decisions' = decisions
      /\ session.revision \in Nat /\ session.state # "absent"
  BY <1>1, RevisionsGrow, WorkflowAssumption
     DEF WorkflowInv, Remembers, Memory, At, BeginAcquire, Free, storeVars
<1>3. Approved \subseteq Videos /\ Approved \subseteq ConsentedVideos
  BY DEF WorkflowInv, OnlyConsented, Approved, TypeOK, CandidatesOK
<1>4. Go(p, [command |-> "acquire", pc |-> "reserve", key |-> k,
             rev |-> session.revision, todo |-> Approved])
  BY <1>1 DEF BeginAcquire
<1>5. Memory(m) /\ m.pc = "reserve"
  BY <1>2, <1>3, <1>4, Begins DEF FieldOK, Steps, Commands, Fits
<1>6. m.rev = session.revision /\ m.locks = proc[p].locks /\ m.todo = Approved /\ Becomes(p, m)
  BY <1>2, <1>4, GoBecomes DEF Idle
<1>7. Works(m)'
  BY <1>2, <1>3, <1>5, <1>6 DEF Works, ConsentedVideos, Acquiring
<1> QED
  BY <1>2, <1>5, <1>6, <1>7 DEF Progress, NothingToLock

\* The attempt that was reserved exists, and its lock is taken.
LEMMA LockSteps ==
  ASSUME WorkflowInv, Transaction, NEW p \in Procs, NEW m, m = proc'[p],
         Reserves(p) \/ LockAttempt(p)
  PROVE  Progress(p, m) /\ Works(m)' /\ NothingToLock(m)'
<1>1. /\ Remembers /\ ~At(p, "idle") /\ Memory(proc[p]) /\ proc[p].rev <= session.revision
      /\ session.state # "absent" /\ Works(proc[p])
  BY DEF WorkflowInv, Remembers, Believes, Reserves, LockAttempt, At
<1>2. /\ session.revision \in Nat /\ session'.revision \in Nat
      /\ session.revision <= session'.revision /\ session'.state # "absent"
  BY <1>1, RevisionsGrow DEF WorkflowInv
<1>3. CASE Reserves(p)
  <2>1. Go(p, [pc |-> "lock", attempt |-> proc[p].key])
    BY <1>3 DEF Reserves
  <2>2. proc[p].key \in Keys /\ proc[p].command = "acquire"
    BY <1>1, <1>3 DEF Memory, Reserves, At
  <2>3. Memory(m) /\ m.pc = "lock"
    BY <1>1, <2>1, <2>2, GoesOn DEF FieldOK, Steps, Fits
  <2>4. /\ m.rev = proc[p].rev /\ m.locks = proc[p].locks /\ m.attempt = proc[p].key
        /\ Becomes(p, m)
    BY <1>1, <2>1, GoBecomes DEF Idle
  <2>5. m.attempt \in DOMAIN attempts'
    BY <1>3, <2>4 DEF Reserves, StartAttempt, WithRow
  <2>6. Works(m)' /\ NothingToLock(m)'
    BY <2>3, <2>5 DEF Works, Named, Acquiring, NothingToLock
  <2> QED
    BY <1>1, <1>2, <2>3, <2>4, <2>6 DEF Progress, Memory
<1>4. CASE LockAttempt(p) /\ LockFree(AttemptLock(proc[p].attempt))
  <2>1. Go(p, [pc |-> "continue", rev |-> session.revision,
               locks |-> {AttemptLock(proc[p].attempt)}])
    BY <1>4 DEF LockAttempt
  <2>2. proc[p].attempt \in DOMAIN attempts /\ attempts' = attempts
    BY <1>1, <1>4 DEF Works, Named, LockAttempt, At, storeVars
  <2>3. {AttemptLock(proc[p].attempt)} \subseteq Locks
    BY <2>2 DEF WorkflowInv, TypeOK, AttemptsOK, AttemptLock, Locks
  <2>4. Memory(m) /\ m.pc = "continue"
    BY <1>1, <1>2, <2>1, <2>3, GoesOn DEF FieldOK, Steps, Fits
  <2>5. /\ m.rev = session.revision /\ m.locks = {AttemptLock(proc[p].attempt)}
        /\ m.attempt = proc[p].attempt /\ Becomes(p, m)
    BY <1>1, <2>1, GoBecomes DEF Idle
  <2>6. Works(m)' /\ NothingToLock(m)'
    BY <2>2, <2>4, <2>5 DEF Works, Named, Owned, Acquiring, NothingToLock
  <2> QED
    BY <1>2, <1>4, <2>4, <2>5, <2>6 DEF Progress
<1>5. CASE LockAttempt(p) /\ ~LockFree(AttemptLock(proc[p].attempt))
  <2>1. Progress(p, m) /\ m.pc \in Plain
    BY <1>5, EndsProgress DEF LockAttempt
  <2> QED
    BY <2>1, PlainWorks
<1> QED
  BY <1>3, <1>4, <1>5

\* Under the lock: what is not settled is acquired and recorded, one by one.
LEMMA ContinueStep ==
  ASSUME WorkflowInv, Transaction, NEW p \in Procs, NEW m, m = proc'[p], Continue(p)
  PROVE  Progress(p, m) /\ Works(m)' /\ NothingToLock(m)'
<1>0. PICK a, todo : /\ a = proc[p].attempt
                     /\ todo = {v \in VideosOf(a) : attempts[a].outcomes[v] \notin Settled}
  OBVIOUS
<1>1. /\ Remembers /\ ~At(p, "idle") /\ Memory(proc[p]) /\ proc[p].rev <= session.revision
      /\ session.state # "absent" /\ Owned(proc[p]) /\ UNCHANGED storeVars
  BY DEF WorkflowInv, Remembers, Believes, Continue, At, Works
<1>2. todo \subseteq Videos /\ DOMAIN candidates \subseteq Videos
  BY <1>0, <1>1
     DEF WorkflowInv, TypeOK, CandidatesOK, AttemptsOK, AttemptRows, Owned, Named, VideosOf
<1>3. Go(p, [pc |-> "item", known |-> DOMAIN candidates, todo |-> todo])
  BY <1>0 DEF Continue
<1>4. Unsettled(a, todo)'
  BY <1>0, <1>1 DEF Unsettled, VideosOf, storeVars
<1>5. Memory(m) /\ m.pc = "item"
  BY <1>1, <1>2, <1>3, GoesOn DEF FieldOK, Steps, Fits
<1>6. /\ m.rev = proc[p].rev /\ m.locks = proc[p].locks /\ m.todo = todo
      /\ m.attempt = a /\ Becomes(p, m)
  BY <1>0, <1>1, <1>3, GoBecomes DEF Idle
<1>7. Owned(m)'
  BY <1>0, <1>1, <1>6 DEF Owned, Named, storeVars
<1>8. Works(m)' /\ NothingToLock(m)'
  BY <1>4, <1>5, <1>6, <1>7 DEF Works, Acquiring, NothingToLock
<1> QED
  BY <1>1, <1>5, <1>6, <1>8 DEF Progress, storeVars

LEMMA AcquireStep ==
  ASSUME WorkflowInv, Transaction, NEW p \in Procs, NEW m, m = proc'[p], Acquire(p)
  PROVE  Progress(p, m) /\ Works(m)' /\ NothingToLock(m)'
<1>1. /\ Remembers /\ ~At(p, "idle") /\ Memory(proc[p]) /\ proc[p].rev <= session.revision
      /\ session.state # "absent" /\ Owned(proc[p]) /\ Unsettled(proc[p].attempt, proc[p].todo)
      /\ UNCHANGED storeVars
  BY DEF WorkflowInv, Remembers, Believes, Acquire, At, Works, Acquiring
<1>2. PICK v \in proc[p].todo \cap proc[p].known,
           outcome \in Settled \cup {"failed_retryable"} :
        /\ outcome = "already_present" => v \in corpus
        /\ corpus' = IF outcome = "acquired" THEN corpus \cup {v} ELSE corpus
        /\ Go(p, [pc |-> "record", got |-> [w \in {v} |-> outcome]])
  BY DEF Acquire, Settled, Ready
<1> DEFINE got == [w \in {v} |-> outcome]
<1>3. Go(p, [pc |-> "record", got |-> got])
  BY <1>2
<1>4. got \in [{v} -> Settled \cup {"failed_retryable"}] /\ got[v] = outcome
  OBVIOUS
<1> HIDE DEF got
<1>5. Memory(m) /\ m.pc = "record"
  BY <1>1, <1>3, GoesOn DEF FieldOK, Steps, Fits
<1>6. /\ m.rev = proc[p].rev /\ m.locks = proc[p].locks /\ m.todo = proc[p].todo
      /\ m.attempt = proc[p].attempt /\ m.got = got /\ Becomes(p, m)
  BY <1>1, <1>3, GoBecomes DEF Idle
<1>7. Obtained(m)'
  BY <1>2, <1>4, <1>6 DEF Obtained, Ready
<1>8. Works(m)' /\ NothingToLock(m)'
  BY <1>1, <1>5, <1>6, <1>7
     DEF Works, Owned, Named, Acquiring, NothingToLock, storeVars, Unsettled, VideosOf
<1> QED
  BY <1>1, <1>5, <1>6, <1>8 DEF Progress, storeVars

LEMMA RecordStep ==
  ASSUME WorkflowInv, Transaction, NEW p \in Procs, NEW m, m = proc'[p], Record(p)
  PROVE  Progress(p, m) /\ Works(m)' /\ NothingToLock(m)'
<1>0. PICK a, got, todo : /\ a = proc[p].attempt /\ got = proc[p].got
                          /\ todo = proc[p].todo \ DOMAIN got
  OBVIOUS
<1>1. /\ Remembers /\ ~At(p, "idle") /\ Memory(proc[p]) /\ proc[p].rev <= session.revision
      /\ session.state # "absent" /\ Owned(proc[p]) /\ Unsettled(a, proc[p].todo)
      /\ session' = session
  BY <1>0 DEF WorkflowInv, Remembers, Believes, Record, RecordProgress, At, Works, Acquiring
<1>2. attempts' = [attempts EXCEPT ![a].outcomes = Overwrite(@, got)]
  BY <1>0 DEF Record, RecordProgress
<1>3. Go(p, [pc |-> "item", todo |-> todo, got |-> NoOutcome])
  BY <1>0 DEF Record
<1>4. a \in DOMAIN attempts' /\ attempts'[a].outcomes = Overwrite(attempts[a].outcomes, got)
  BY <1>0, <1>1, <1>2 DEF WorkflowInv, TypeOK, AttemptsOK, AttemptRows, Owned, Named
<1>5. Unsettled(a, todo)'
  BY <1>0, <1>1, <1>4 DEF Unsettled, VideosOf, Overwrite
<1>6. todo \subseteq Videos
  BY <1>0, <1>1 DEF Memory
<1>7. Memory(m) /\ m.pc = "item"
  BY <1>1, <1>3, <1>6, GoesOn DEF FieldOK, Steps, Fits
<1>8. /\ m.rev = proc[p].rev /\ m.locks = proc[p].locks /\ m.todo = todo
      /\ m.attempt = a /\ Becomes(p, m)
  BY <1>0, <1>1, <1>3, GoBecomes DEF Idle
<1>9. Works(m)' /\ NothingToLock(m)'
  BY <1>0, <1>1, <1>4, <1>5, <1>7, <1>8 DEF Works, Owned, Named, Acquiring, NothingToLock
<1> QED
  BY <1>1, <1>7, <1>8, <1>9 DEF Progress

\* A retry finds the attempt whose lock it must take, or that there is none.
LEMMA FoundAttempts ==
  ASSUME TypeOK, NEW k, NEW rev, NEW a \in RetryAttempts(k, rev)
  PROVE  a = NoAttempt \/ a \in DOMAIN attempts
<1>1. \A b \in StageAttempts : b = NoAttempt \/ b \in DOMAIN attempts
  BY DEF StageAttempts, PipelineAttempt, WithStatus
<1> QED
  BY <1>1 DEF RetryAttempts, FreshRetryAttempts, ReplayedRetryAttempts

LEMMA NothingFound ==
  ASSUME TypeOK, NEW k, k \notin DOMAIN decisions, NEW rev,
         NoAttempt \in RetryAttempts(k, rev)
  PROVE  RetryTarget # "acquiring"
<1>1. NoAttempt \in StageAttempts /\ session.state \in Retriable
  BY DEF RetryAttempts, FreshRetryAttempts, Expected
<1>2. NoAttempt \notin DOMAIN attempts
  BY StoreAssumption DEF TypeOK, AttemptsOK
<1>3. session.state = "failed_retryable" <=> session.target # "none"
  BY DEF TypeOK, SessionOK
<1> QED
  BY <1>1, <1>2, <1>3
     DEF StageAttempts, Pipelined, PipelineAttempt, WithStatus, IsLatest, Reclaimed, RetryTarget,
         Retriable

LEMMA FindSteps ==
  ASSUME WorkflowInv, Transaction, NEW p \in Procs, NEW m, m = proc'[p],
         FindAttempt(p) \/ ClaimLock(p)
  PROVE  Progress(p, m) /\ Works(m)' /\ NothingToLock(m)'
<1>1. /\ Remembers /\ ~At(p, "idle") /\ Memory(proc[p]) /\ proc[p].rev <= session.revision
      /\ session.state # "absent" /\ UNCHANGED storeVars /\ TypeOK
      /\ proc[p].command = "retry"
  BY DEF WorkflowInv, Remembers, Believes, FindAttempt, ClaimLock, At, Memory
<1>2. ASSUME proc' = [proc EXCEPT ![p] = Idle]
      PROVE  Progress(p, m) /\ Works(m)' /\ NothingToLock(m)'
  BY <1>2, EndsProgress, PlainWorks
<1>3. ASSUME NEW a \in RetryAttempts(proc[p].key, proc[p].rev),
             Go(p, [pc |-> IF a = NoAttempt THEN "claim" ELSE "claim_lock", attempt |-> a])
      PROVE  Progress(p, m) /\ Works(m)' /\ NothingToLock(m)'
  <2> DEFINE next == IF a = NoAttempt THEN "claim" ELSE "claim_lock"
  <2>1. a = NoAttempt \/ a \in DOMAIN attempts
    BY <1>1, FoundAttempts
  <2>2. a \in Keys \cup {NoAttempt}
    BY <1>1, <2>1 DEF TypeOK, AttemptsOK
  <2>3. Go(p, [pc |-> next, attempt |-> a]) /\ next \in {"claim", "claim_lock"}
    BY <1>3
  <2> HIDE DEF next
  <2>4. Memory(m) /\ m.pc = next /\ m.key = proc[p].key
    BY <1>1, <2>2, <2>3, GoesOn DEF FieldOK, Steps, Fits
  <2>5. m.rev = proc[p].rev /\ m.locks = proc[p].locks /\ m.attempt = a /\ Becomes(p, m)
    BY <1>1, <2>3, GoBecomes DEF Idle
  <2>6. Works(m)'
    BY <1>1, <2>1, <2>3, <2>4, <2>5 DEF Works, Named, Owned, Acquiring, next, storeVars
  <2>7. NothingToLock(m)
    BY <1>1, <1>3, <2>4, <2>5, NothingFound DEF NothingToLock
  <2>8. NothingToLock(m)'
    BY <1>1, <2>7 DEF NothingToLock, RetryTarget, storeVars
  <2> QED
    BY <1>1, <2>4, <2>5, <2>6, <2>8 DEF Progress, storeVars
<1>4. CASE ClaimLock(p) /\ LockFree(AttemptLock(proc[p].attempt))
  <2> DEFINE locks == proc[p].locks \cup {AttemptLock(proc[p].attempt)}
  <2>1. Go(p, [pc |-> "claim", locks |-> locks])
    BY <1>4 DEF ClaimLock
  <2>2. proc[p].attempt \in DOMAIN attempts
    BY <1>4 DEF WorkflowInv, Works, Named, ClaimLock, At
  <2>3. locks \subseteq Locks
    BY <1>1, <2>2 DEF Memory, TypeOK, AttemptsOK, AttemptLock, Locks
  <2>4. AttemptLock(proc[p].attempt) \in locks
    OBVIOUS
  <2>5. \A l \in locks \ proc[p].locks : LockFree(l)
    BY <1>4
  <2> HIDE DEF locks
  <2>6. Memory(m) /\ m.pc = "claim"
    BY <1>1, <2>1, <2>3, GoesOn DEF FieldOK, Steps, Fits
  <2>7. m.rev = proc[p].rev /\ m.locks = locks /\ m.attempt = proc[p].attempt /\ Becomes(p, m)
    BY <1>1, <2>1, GoBecomes DEF Idle
  <2>8. m.attempt # NoAttempt
    BY <1>1, <2>2, <2>7, StoreAssumption DEF TypeOK, AttemptsOK
  <2>9. Works(m)' /\ NothingToLock(m)'
    BY <1>1, <2>2, <2>4, <2>6, <2>7, <2>8 DEF Works, Owned, Named, Acquiring, NothingToLock, storeVars
  <2> QED
    BY <1>1, <2>5, <2>6, <2>7, <2>9 DEF Progress, storeVars
<1> QED
  BY <1>2, <1>3, <1>4 DEF FindAttempt, ClaimLock

\* A resumed stage acquires only under the lock of the attempt it named.
LEMMA ReclaimTargetOK ==
  ASSUME TypeOK, NEW k, NEW rev, NEW a, ReclaimRetry(k, rev, a)
  PROVE  /\ ReclaimTarget(k, a) \in FailureTargets
         /\ ReclaimTarget(k, a) = "acquiring" => a # NoAttempt
<1>1. k \in DOMAIN decisions /\ decisions[k] \in DecisionRows
  BY DEF ReclaimRetry, Reclaimable, Incomplete, TypeOK, DecisionsOK
<1>2. session.state = "failed_retryable" <=> session.target # "none"
  BY DEF TypeOK, SessionOK
<1>3. session.state \in States
  BY DEF TypeOK, SessionOK
<1>4. CASE ResumesPipeline(k, a)
  BY <1>4 DEF ResumesPipeline, ReclaimTarget, FailureTargets
<1>5. CASE ~ResumesPipeline(k, a) /\ ByAttempt(k, a)
  BY <1>5 DEF ByAttempt, ReclaimTarget, FailureTargets
<1>6. CASE ~ResumesPipeline(k, a) /\ ~ByAttempt(k, a)
  <2>1. RestartsStage(k, a) \/ ContinuesStage(k, a)
    BY <1>6 DEF ReclaimRetry, Reclaimable, RestartsAttempt, ContinuesAttempt
  <2>2. decisions[k].target \in FailureTargets \cup {"none"} /\ decisions[k].target # "acquiring"
    BY <1>1, <2>1 DEF DecisionRows, RestartsStage, ContinuesStage
  <2>3. decisions[k].target # "none"
    BY <1>2, <1>3, <2>1 DEF RestartsStage, ContinuesStage, States, FailureTargets
  <2> QED
    BY <1>6, <2>2, <2>3 DEF ReclaimTarget
<1> QED
  BY <1>4, <1>5, <1>6

LEMMA ClaimStep ==
  ASSUME WorkflowInv, Transaction, NEW p \in Procs, NEW m, m = proc'[p], Claim(p)
  PROVE  Progress(p, m) /\ Works(m)' /\ NothingToLock(m)'
<1>0. PICK k, rev, a : k = proc[p].key /\ rev = proc[p].rev /\ a = proc[p].attempt
  OBVIOUS
<1>1. /\ Remembers /\ ~At(p, "idle") /\ Memory(proc[p]) /\ proc[p].rev <= session.revision
      /\ session.state # "absent" /\ TypeOK /\ proc[p].pc = "claim"
      /\ a = NoAttempt \/ Owned(proc[p])
      /\ NothingToLock(proc[p])
  BY <1>0 DEF WorkflowInv, Remembers, Believes, Claim, At, Works
<1>2. /\ session.revision \in Nat /\ session'.revision \in Nat
      /\ session.revision <= session'.revision /\ session'.state # "absent"
  BY <1>1, RevisionsGrow DEF WorkflowInv
<1>3. ASSUME NEW target \in FailureTargets, Resume(p, target, session'.revision),
             target = "acquiring" => a # NoAttempt
      PROVE  Progress(p, m) /\ Works(m)' /\ NothingToLock(m)'
  <2>0. PICK next, partial : next = StageOf(target) /\ partial = PartlyFailed(a)
    OBVIOUS
  <2>1. Go(p, [pc |-> next, rev |-> session'.revision, partial |-> partial])
    BY <1>0, <1>3, <2>0 DEF Resume
  <2>2. partial \in BOOLEAN
    BY <2>0 DEF PartlyFailed
  <2>3. /\ next \in {"continue", "refresh", "assess", "discover"}
        /\ next = "continue" => target = "acquiring"
    BY <2>0 DEF StageOf, FailureTargets
  <2>4. Memory(m) /\ m.pc = next
    BY <1>1, <1>2, <2>1, <2>2, <2>3, GoesOn DEF FieldOK, Steps, Fits
  <2>5. /\ m.rev = session'.revision /\ m.locks = proc[p].locks /\ m.attempt = a
        /\ Becomes(p, m)
    BY <1>0, <1>1, <2>1, GoBecomes DEF Idle
  <2>6. Progress(p, m)
    BY <1>2, <2>4, <2>5 DEF Progress
  <2>7. CASE next = "continue"
    <3>1. a \in DOMAIN attempts /\ AttemptLock(a) \in m.locks
      BY <1>0, <1>1, <1>3, <2>3, <2>5, <2>7 DEF Owned, Named
    <3>2. a \in DOMAIN attempts'
      BY <1>1, <3>1, TransactionGrows DEF Grows
    <3> QED
      BY <2>4, <2>5, <2>6, <2>7, <3>1, <3>2 DEF Works, Owned, Named, Acquiring, NothingToLock
  <2>8. CASE next # "continue"
    <3>1. m.pc \in Plain
      BY <2>3, <2>4, <2>8 DEF Plain
    <3> QED
      BY <2>6, <3>1, PlainWorks
  <2> QED
    BY <2>7, <2>8
<1>4. CASE ClaimRetry(k, rev, a) /\ Resume(p, RetryTarget, session'.revision)
  <2>1. session.state \in Retriable /\ session.revision = rev /\ k \notin DOMAIN decisions
    BY <1>4 DEF ClaimRetry, Claimable, Acceptable, Expected, Retriable
  <2>2. RetryTarget \in FailureTargets
    BY <1>1, <2>1, RetryTargetOK DEF TypeOK
  <2>3. RetryTarget = "acquiring" => a # NoAttempt
    BY <1>0, <1>1, <2>1 DEF NothingToLock, WorkflowInv
  <2> QED
    BY <1>3, <1>4, <2>2, <2>3
<1>5. CASE ReclaimRetry(k, rev, a) /\ Resume(p, ReclaimTarget(k, a), session'.revision)
  BY <1>1, <1>3, <1>5, ReclaimTargetOK
<1>6. CASE Return(p, session.revision, FinalError(k, a))
  <2>1. FinalError(k, a) \in RetryErrors
    BY DEF FinalError, RetryErrors
  <2> QED
    BY <1>1, <1>2, <1>6, <2>1, ReturnProgress, PlainWorks
<1>7. CASE Raise(p)
  BY <1>7, EndsProgress, PlainWorks DEF Raise
<1> QED
  BY <1>0, <1>4, <1>5, <1>6, <1>7 DEF Claim

\* Every step of a process.
LEMMA ProcessStep ==
  ASSUME WorkflowInv, Transaction, NEW p \in Procs, ReadsOnly(p) \/ Writes(p),
         NEW m, m = proc'[p]
  PROVE  Progress(p, m) /\ Works(m)' /\ NothingToLock(m)'
<1>1. ASSUME m.pc \in Plain, Progress(p, m)
      PROVE  Progress(p, m) /\ Works(m)' /\ NothingToLock(m)'
  BY <1>1, PlainWorks
<1> QED
  BY <1>1, StageSteps, EndingSteps, PlainSteps, CommandSteps, ReserveStep, LockSteps,
     ContinueStep, AcquireStep, RecordStep, FindSteps, ClaimStep DEF ReadsOnly, Writes

-----------------------------------------------------------------------------
(* What the user has approved.                                             *)

LEMMA ConsentKept ==
  ASSUME DOMAIN decisions' = DOMAIN decisions,
         \A k \in DOMAIN decisions : decisions'[k].request = decisions[k].request
  PROVE  ConsentedVideos' = ConsentedVideos
BY DEF ConsentedVideos

LEMMA ConsentAdded ==
  ASSUME NEW k, k \notin DOMAIN decisions, NEW request,
         DOMAIN decisions' = DOMAIN decisions \cup {k},
         \A j \in DOMAIN decisions : decisions'[j] = decisions[j],
         decisions'[k].request = request
  PROVE  ConsentedVideos' = ConsentedVideos \cup request
<1>1. ASSUME NEW v \in ConsentedVideos' PROVE v \in ConsentedVideos \cup request
  BY <1>1 DEF ConsentedVideos
<1>2. ASSUME NEW v \in ConsentedVideos PROVE v \in ConsentedVideos'
  <2>1. PICK j \in DOMAIN decisions : v \in decisions[j].request
    BY <1>2 DEF ConsentedVideos
  <2>2. j \in DOMAIN decisions' /\ v \in decisions'[j].request
    BY <2>1
  <2> QED
    BY <2>2 DEF ConsentedVideos
<1>3. ASSUME NEW v \in request PROVE v \in ConsentedVideos'
  <2>1. k \in DOMAIN decisions' /\ v \in decisions'[k].request
    BY <1>3
  <2> QED
    BY <2>1 DEF ConsentedVideos
<1> QED
  BY <1>1, <1>2, <1>3

LEMMA DecideConsents ==
  ASSUME NEW k, k \notin DOMAIN decisions, NEW rev, NEW action, NEW request,
         Decide(k, rev, action, request)
  PROVE  ConsentedVideos' = ConsentedVideos \cup request
<1>1. /\ DOMAIN decisions' = DOMAIN decisions \cup {k}
      /\ \A j \in DOMAIN decisions : decisions'[j] = decisions[j]
      /\ decisions'[k].request = request
  BY DEF Decide, WithRow
<1> QED
  BY <1>1, ConsentAdded

\* The reservation of a retry approves nothing, new or renewed.
LEMMA RetryConsents ==
  ASSUME TypeOK, NEW rev, Retries(rev)
  PROVE  ConsentedVideos' = ConsentedVideos
<1>1. PICK k \in Keys :
        \/ Retry(k, rev)
        \/ \E a \in DOMAIN attempts \cup {NoAttempt} :
             ClaimRetry(k, rev, a) \/ ReclaimRetry(k, rev, a)
  BY DEF Retries
<1>2. CASE Retry(k, rev)
  <2>1. k \notin DOMAIN decisions /\ Decide(k, rev, "retry", {})
    BY <1>2 DEF Retry
  <2> QED
    BY <2>1, DecideConsents
<1>3. ASSUME NEW a, ClaimRetry(k, rev, a)
      PROVE  ConsentedVideos' = ConsentedVideos
  <2>1. k \notin DOMAIN decisions /\ Reserve(k, rev, RetryTarget)
    BY <1>3 DEF ClaimRetry, Claimable
  <2>2. /\ DOMAIN decisions' = DOMAIN decisions \cup {k}
        /\ \A j \in DOMAIN decisions : decisions'[j] = decisions[j]
        /\ decisions'[k].request = {}
    BY <2>1 DEF Reserve, WithRow
  <2>3. ConsentedVideos' = ConsentedVideos \cup {}
    BY <2>1, <2>2, ConsentAdded
  <2> QED
    BY <2>3
<1>4. ASSUME NEW a, ReclaimRetry(k, rev, a)
      PROVE  ConsentedVideos' = ConsentedVideos
  <2>1. /\ DOMAIN decisions' = DOMAIN decisions
        /\ \A j \in DOMAIN decisions : decisions'[j].request = decisions[j].request
    BY <1>4 DEF ReclaimRetry, TypeOK, DecisionsOK, DecisionRows
  <2> QED
    BY <2>1, ConsentKept
<1> QED
  BY <1>1, <1>2, <1>3, <1>4

\* Only approve_candidates adds to what the user consented to.
LEMMA TransactionConsents ==
  ASSUME TypeOK, Transaction
  PROVE  \/ ConsentedVideos' = ConsentedVideos
         \/ \E k \in Keys : \E approved \in SUBSET Videos : \E rev \in Nat :
              /\ ApproveCandidates(k, rev, approved)
              /\ ConsentedVideos' = ConsentedVideos \cup approved
<1>1. CASE UNCHANGED decisions
  BY <1>1, ConsentKept
<1>2. ASSUME NEW rev \in Nat, Decisions(rev)
      PROVE  \/ ConsentedVideos' = ConsentedVideos
             \/ \E k \in Keys : \E approved \in SUBSET Videos :
                  /\ ApproveCandidates(k, rev, approved)
                  /\ ConsentedVideos' = ConsentedVideos \cup approved
  <2>1. PICK k \in Keys :
          \/ \E action \in {"sufficient", "refresh"} : DecideSufficiency(k, rev, action)
          \/ \E approved \in SUBSET Videos : ApproveCandidates(k, rev, approved)
          \/ Cancel(k, rev)
    BY <1>2 DEF Decisions
  <2>2. ASSUME NEW action, Decide(k, rev, action, {}), k \notin DOMAIN decisions
        PROVE  ConsentedVideos' = ConsentedVideos
    BY <2>2, DecideConsents
  <2>3. ASSUME NEW approved \in SUBSET Videos, ApproveCandidates(k, rev, approved)
        PROVE  ConsentedVideos' = ConsentedVideos \cup approved
    BY <2>3, DecideConsents DEF ApproveCandidates
  <2> QED
    BY <2>1, <2>2, <2>3 DEF DecideSufficiency, Cancel
<1>3. ASSUME NEW k, NEW result, NEW error, CompleteRetry(k, result, error)
      PROVE  ConsentedVideos' = ConsentedVideos
  <2>1. /\ DOMAIN decisions' = DOMAIN decisions
        /\ \A j \in DOMAIN decisions : decisions'[j].request = decisions[j].request
    BY <1>3 DEF CompleteRetry, TypeOK, DecisionsOK, DecisionRows
  <2> QED
    BY <2>1, ConsentKept
<1>4. ASSUME NEW rev, Pipeline(rev) \/ Acquisition(rev)
      PROVE  UNCHANGED decisions
  BY <1>4 DEF Pipeline, Acquisition, RecordAssessment, RecordPartialAssessment,
       RecordCandidates, RecordFailure, CompleteReindexing, StartAttempt, RecordProgress,
       CompleteAttempt, RecordBatch, RecordAcquisitionFailure
<1>5. CreateSession \/ UNCHANGED storeVars => UNCHANGED decisions
  BY DEF CreateSession, storeVars
<1> QED
  BY <1>1, <1>2, <1>3, <1>4, <1>5, RetryConsents DEF Transaction

-----------------------------------------------------------------------------
(* The invariant is inductive.                                             *)

\* Transcripts are only added to the corpus, and indexes built from it.
LEMMA CorpusStep ==
  ASSUME WorkflowInv, [WorkflowNext]_workflowVars
  PROVE  CorpusOK' /\ corpus \subseteq corpus'
<1> USE DEF CorpusOK
<1>1. CorpusOK
  BY DEF WorkflowInv
<1>2. CASE Quiet \/ UNCHANGED workflowVars
  BY <1>1, <1>2 DEF Quiet, workflowVars
<1>3. ASSUME NEW p \in Procs, Acquire(p)
      PROVE  CorpusOK' /\ corpus \subseteq corpus'
  <2>1. proc[p].todo \subseteq Videos
    BY DEF WorkflowInv, Remembers, Memory
  <2>2. PICK v \in proc[p].todo : corpus' \in {corpus, corpus \cup {v}}
    BY <1>3 DEF Acquire
  <2> QED
    BY <1>1, <1>3, <2>1, <2>2 DEF Acquire
<1>4. ASSUME NEW p \in Procs, RefreshIndexes(p)
      PROVE  CorpusOK' /\ corpus \subseteq corpus'
  BY <1>1, <1>4 DEF RefreshIndexes
<1>5. ASSUME NEW p \in Procs, Crash(p)
      PROVE  CorpusOK' /\ corpus \subseteq corpus'
  BY <1>1, <1>5, WorkflowAssumption DEF Crash
<1>6. CASE DecideCommand \/ ApproveCommand \/ CancelCommand
  BY <1>2, <1>6 DEF DecideCommand, ApproveCommand, CancelCommand, Answerable
<1>7. ASSUME NEW p \in Procs, ReadsOnly(p), ~Acquire(p), ~RefreshIndexes(p), ~Crash(p)
      PROVE  Quiet
  BY <1>7 DEF ReadsOnly, BeginDiscover, BeginAcquire, BeginRetry, Free, AssessRefused,
       DiscoverRefused, ReserveRefused, LockAttempt, Continue, RecordRefused, AcquisitionRefused,
       ReindexRefused, FindAttempt, ClaimLock, Respond
<1>8. ASSUME NEW p \in Procs, Writes(p)
      PROVE  Quiet
  BY <1>8 DEF Writes, Start, Free, Assess, AssessmentFails, Discover, DiscoveryFails,
       RefreshFails, Reindexed, Reserves, Record, FailAcquisition, FinishAcquisition, Claim,
       Complete
<1> QED
  BY <1>2, <1>3, <1>4, <1>5, <1>6, <1>7, <1>8, StepCases

\* What a process knows is not taken from it by the steps of others: it is the
\* only one that records outcomes of the attempt whose lock it holds.
LEMMA OthersWork ==
  ASSUME WorkflowInv, [WorkflowNext]_workflowVars, Transaction,
         NEW q \in Procs, ~Record(q), NEW n, n = proc[q]
  PROVE  Works(n)' /\ NothingToLock(n)'
<1>1. /\ Works(n) /\ NothingToLock(n) /\ TypeOK /\ LocksExclusive
      /\ \A p \in Procs : Works(proc[p])
  BY DEF WorkflowInv
<1>2. Grows
  BY <1>1, TransactionGrows
<1>3. corpus \subseteq corpus'
  BY CorpusStep
<1>4. ConsentedVideos \subseteq ConsentedVideos'
  BY <1>1, TransactionConsents
<1>5. Named(n) => Named(n)'
  BY <1>2 DEF Named, Grows
<1>6. Owned(n) => Owned(n)'
  BY <1>5 DEF Owned, Named
<1>7. ASSUME Owned(n), NEW p \in Procs, Record(p)
      PROVE  proc[p].attempt # n.attempt
  <2>1. p # q /\ proc[p].locks \cap n.locks = {}
    BY <1>1, <1>7 DEF LocksExclusive
  <2>2. AttemptLock(proc[p].attempt) \in proc[p].locks
    BY <1>1, <1>7 DEF Record, At, Works, Acquiring, Owned
  <2> QED
    BY <1>7, <2>1, <2>2 DEF Owned
<1>8. ASSUME Owned(n), Unsettled(n.attempt, n.todo)
      PROVE  Unsettled(n.attempt, n.todo)'
  <2>1. attempts'[n.attempt].outcomes = attempts[n.attempt].outcomes
    BY <1>1, <1>7, <1>8, OthersKeepOutcomes DEF Owned, Named
  <2> QED
    BY <1>8, <2>1 DEF Unsettled, VideosOf
<1>9. Obtained(n) => Obtained(n)'
  BY <1>3 DEF Obtained
<1>10. Works(n)'
  BY <1>1, <1>4, <1>5, <1>6, <1>8, <1>9 DEF Works, Acquiring
<1>11. NothingToLock(n)'
  <2>1. /\ session.revision \in Nat /\ n.rev \in Nat /\ n.rev <= session.revision
        /\ n.pc = "claim" => session.state # "absent"
        /\ DOMAIN decisions \subseteq DOMAIN decisions'
    BY <1>2 DEF WorkflowInv, Believes, Remembers, Memory, At, TypeOK, SessionOK, Grows
  <2>2. SUFFICES ASSUME n.pc = "claim", n.attempt = NoAttempt, n.key \notin DOMAIN decisions',
                        n.rev = session'.revision
                 PROVE  RetryTarget' # "acquiring"
    BY DEF NothingToLock
  <2>3. session' = session
    BY <1>2, <2>1, <2>2 DEF Grows, CreateSession, SessionGoesOn
  <2>4. RetryTarget # "acquiring"
    BY <1>1, <2>1, <2>2, <2>3 DEF NothingToLock
  <2> QED
    BY <2>3, <2>4 DEF RetryTarget
<1> QED
  BY <1>10, <1>11

\* A process takes only locks that nobody holds.
LEMMA LocksStep ==
  ASSUME Remembers, LocksExclusive, NEW p \in Procs, NEW m, Progress(p, m)
  PROVE  LocksExclusive'
<1>1. \A q \in Procs : proc'[q] = IF q = p THEN m ELSE proc[q]
  BY DEF Progress, Becomes, Remembers
<1>2. ASSUME NEW q \in Procs, q # p PROVE m.locks \cap proc[q].locks = {}
  BY <1>2 DEF LocksExclusive, Progress, LockFree
<1> QED
  BY <1>1, <1>2 DEF LocksExclusive

\* What is approved, or reserved, the user has consented to.
LEMMA ConsentStep ==
  ASSUME WorkflowInv, [WorkflowNext]_workflowVars, Transaction
  PROVE  OnlyConsented'
<1>1. /\ TypeOK /\ OnlyConsented /\ Grows
      /\ \A p \in Procs : Works(proc[p])
  BY TransactionGrows DEF WorkflowInv
<1>2. ConsentedVideos \subseteq ConsentedVideos'
  BY <1>1, TransactionConsents
<1>3. ASSUME NEW v \in DOMAIN candidates', candidates'[v] = "approved"
      PROVE  v \in ConsentedVideos'
  <2>1. CASE UNCHANGED candidates
    BY <1>1, <1>2, <1>3, <2>1 DEF OnlyConsented
  <2>2. CASE ApproveCommand
    <3>1. PICK k \in DecisionKeys, approved \in SUBSET DOMAIN candidates :
            ApproveCandidates(k, session.revision, approved)
      BY <2>2 DEF ApproveCommand
    <3>2. ConsentedVideos' = ConsentedVideos \cup approved
      BY <3>1, DecideConsents DEF ApproveCandidates
    <3> QED
      BY <1>1, <1>3, <3>1, <3>2 DEF ApproveCandidates, OnlyConsented
  <2>3. ASSUME NEW p \in Procs, Discover(p)
        PROVE  v \in ConsentedVideos'
    BY <1>3, <2>3 DEF Discover, RecordCandidates
  <2>4. ASSUME NEW p \in Procs, Record(p)
        PROVE  v \in ConsentedVideos'
    <3>1. PICK w \in proc[p].todo : proc[p].got \in [{w} -> Settled \cup {"failed_retryable"}]
      BY <1>1, <2>4 DEF Record, At, Works, Obtained
    <3>2. candidates' = Overwrite(candidates, proc[p].got)
      BY <2>4 DEF Record, RecordProgress
    <3> QED
      BY <1>1, <1>2, <1>3, <3>1, <3>2 DEF Overwrite, Settled, Ready, OnlyConsented
  <2> QED
    BY <2>1, <2>2, <2>3, <2>4, CandidateWrites
<1>4. ASSUME NEW a \in DOMAIN attempts
      PROVE  DOMAIN attempts'[a].outcomes \subseteq ConsentedVideos'
  BY <1>1, <1>2 DEF Grows, OnlyConsented
<1>5. ASSUME NEW a \in DOMAIN attempts' \ DOMAIN attempts
      PROVE  DOMAIN attempts'[a].outcomes \subseteq ConsentedVideos'
  <2>1. PICK p \in Procs : Reserves(p)
    <3>1. ASSUME NEW b \in DOMAIN attempts, NEW status, SetStatus(b, status) PROVE FALSE
      BY <1>5, <3>1 DEF SetStatus
    <3>2. ASSUME NEW p \in Procs, Record(p) PROVE FALSE
      BY <1>5, <3>2 DEF Record, RecordProgress
    <3> QED
      BY <1>5, <3>1, <3>2, AttemptWrites
  <2>2. proc[p].todo \subseteq ConsentedVideos
    BY <1>1, <2>1 DEF Reserves, At, Works
  <2>3. attempts'[a].outcomes = [v \in proc[p].todo |-> "pending"]
    BY <1>5, <2>1 DEF Reserves, StartAttempt, WithRow
  <2> QED
    BY <1>2, <2>2, <2>3
<1> QED
  BY <1>3, <1>4, <1>5 DEF OnlyConsented, VideosOf

\* A process that records an outcome is the one that takes the step.
LEMMA RecordMoves ==
  ASSUME Remembers, NEW p \in Procs, Record(p)
  PROVE  proc'[p] # proc[p]
<1>1. Go(p, [pc |-> "item", todo |-> proc[p].todo \ DOMAIN proc[p].got, got |-> NoOutcome])
  BY DEF Record
<1>2. proc'[p].pc = "item"
  BY <1>1, GoBecomes DEF Idle
<1> QED
  BY <1>2 DEF Record, At

LEMMA StillWorks ==
  ASSUME NEW p \in Procs, NEW n, n = proc'[p], Works(n)', NothingToLock(n)'
  PROVE  Works(proc[p])' /\ NothingToLock(proc[p])'
BY DEF Works, NothingToLock, Owned, Named, Unsettled, Obtained

\* What the processes remember, whoever takes the step.
LEMMA MemoryStep ==
  ASSUME WorkflowInv, [WorkflowNext]_workflowVars, Transaction
  PROVE  /\ Remembers' /\ LocksExclusive'
         /\ \A p \in Procs : /\ proc'[p].rev <= session'.revision
                             /\ proc'[p].pc = "idle" \/ session'.state # "absent"
                             /\ Works(proc[p])' /\ NothingToLock(proc[p])'
<1>1. /\ Remembers /\ LocksExclusive /\ TypeOK /\ Believes
      /\ session.revision \in Nat /\ session'.revision \in Nat
      /\ session.revision <= session'.revision
      /\ session.state # "absent" => session'.state # "absent"
  BY RevisionsGrow DEF WorkflowInv
<1>2. ASSUME NEW p \in Procs
      PROVE  /\ proc[p].rev <= session'.revision
             /\ proc[p].pc = "idle" \/ session'.state # "absent"
  BY <1>1 DEF Believes, At, Remembers, Memory
<1>3. CASE UNCHANGED proc
  <2>1. \A p \in Procs : ~Record(p)
    BY <1>1, <1>3, RecordMoves
  <2>2. ASSUME NEW p \in Procs, NEW n, n = proc[p]
        PROVE  Works(n)' /\ NothingToLock(n)'
    BY <2>1, <2>2, OthersWork
  <2>3. \A p \in Procs : Works(proc[p])' /\ NothingToLock(proc[p])'
    BY <1>3, <2>2, StillWorks
  <2> QED
    BY <1>1, <1>2, <1>3, <2>3 DEF Remembers, LocksExclusive
<1>4. ASSUME NEW p \in Procs, ReadsOnly(p) \/ Writes(p)
      PROVE  /\ Remembers' /\ LocksExclusive'
             /\ \A q \in Procs : /\ proc'[q].rev <= session'.revision
                                 /\ proc'[q].pc = "idle" \/ session'.state # "absent"
                                 /\ Works(proc[q])' /\ NothingToLock(proc[q])'
  <2>1. PICK m : m = proc'[p]
    OBVIOUS
  <2>2. Progress(p, m) /\ Works(m)' /\ NothingToLock(m)'
    BY <1>4, <2>1, ProcessStep
  <2>3. /\ proc' = [q \in Procs |-> IF q = p THEN m ELSE proc[q]]
        /\ Memory(m) /\ m.rev <= session'.revision
        /\ m.pc = "idle" \/ session'.state # "absent"
    BY <1>1, <2>2 DEF Progress, Becomes, Remembers
  <2>4. Remembers'
    BY <1>1, <2>3 DEF Remembers
  <2>5. LocksExclusive'
    BY <1>1, <2>2, LocksStep
  <2>6. ASSUME NEW q \in Procs, NEW n, n = proc'[q]
        PROVE  /\ n.rev <= session'.revision /\ (n.pc = "idle" \/ session'.state # "absent")
               /\ Works(n)' /\ NothingToLock(n)'
    <3>1. CASE q = p
      BY <2>1, <2>2, <2>3, <2>6, <3>1
    <3>2. CASE q # p
      <4>1. n = proc[q]
        BY <2>3, <2>6, <3>2
      <4>2. ~Record(q)
        BY <1>1, <2>3, <3>2, RecordMoves
      <4> QED
        BY <1>2, <4>1, <4>2, OthersWork
    <3> QED
      BY <3>1, <3>2
  <2> QED
    BY <2>4, <2>5, <2>6, StillWorks
<1>5. CASE DecideCommand \/ ApproveCommand \/ CancelCommand \/ UNCHANGED workflowVars
  BY <1>3, <1>5 DEF DecideCommand, ApproveCommand, CancelCommand, Answerable, workflowVars
<1> QED
  BY <1>4, <1>5, StepCases

\* Nothing runs before the first command.
LEMMA InitWorks == WorkflowInit => WorkflowInv
<1> SUFFICES ASSUME WorkflowInit PROVE WorkflowInv
  OBVIOUS
<1>1. TypeOK /\ OrderInv /\ DecisionInv
  BY InitTypeOK DEF WorkflowInit, Init, OrderInv, OneRunningAttempt, AttemptsOrdered,
     AttemptsBefore, Running, WithStatus, DecisionInv, DecisionsBefore, OneDecisionPerRevision
<1>2. \A p \in Procs : proc[p] = Idle
  BY DEF WorkflowInit
<1>3. Remembers
  BY <1>2, IdleMemory DEF WorkflowInit, Remembers
<1>4. CorpusOK
  BY WorkflowAssumption DEF WorkflowInit, CorpusOK
<1>5. Believes /\ LocksExclusive
  BY <1>2 DEF WorkflowInit, Init, Believes, LocksExclusive, At, Idle
<1>6. OnlyConsented
  BY DEF WorkflowInit, Init, OnlyConsented
<1>7. \A p \in Procs : Works(proc[p]) /\ NothingToLock(proc[p])
  BY <1>2 DEF Works, NothingToLock, Idle, Acquiring
<1> QED
  BY <1>1, <1>3, <1>4, <1>5, <1>6, <1>7 DEF WorkflowInv

LEMMA WorkflowStep == WorkflowInv /\ [WorkflowNext]_workflowVars => WorkflowInv'
<1> SUFFICES ASSUME WorkflowInv, [WorkflowNext]_workflowVars PROVE WorkflowInv'
  OBVIOUS
<1>1. Transaction
  BY StepTransaction
<1>2. TypeOK' /\ OrderInv' /\ DecisionInv'
  BY <1>1, TransactionTypeOK, TransactionEffect, TransactionDecisionEffect, OrderStep,
     DecisionStep DEF WorkflowInv
<1>3. CorpusOK' /\ OnlyConsented'
  BY <1>1, CorpusStep, ConsentStep
<1>4. Believes'
  <2>1. session'.state = "absent" => session'.revision = 0
    BY <1>1, TransactionGrows DEF WorkflowInv, Believes, Grows, CreateSession, SessionGoesOn
  <2> QED
    BY <1>1, <2>1, MemoryStep DEF Believes, At
<1> QED
  BY <1>1, <1>2, <1>3, <1>4, MemoryStep DEF WorkflowInv

\* Whatever processes run, die and retry, at every moment each of them knows of
\* the session what it needs, and holds the locks, to go on.
THEOREM WorkflowInvariant == WorkflowSpec => []WorkflowInv
BY InitWorks, WorkflowStep, PTL DEF WorkflowSpec

\* No saved outcome is acquired a second time: what a process is about to
\* acquire under the lock of an attempt has no settled outcome, though the list
\* was read in an earlier step and other processes came and went since.
THEOREM SettledNeverRepeated == WorkflowSpec => []NeverRepeatsSettled
<1>1. WorkflowInv => NeverRepeatsSettled
  BY DEF WorkflowInv, Works, Acquiring, Unsettled, NeverRepeatsSettled, At
<1> QED
  BY <1>1, WorkflowInvariant, PTL

\* An attempt has one process at a time that acquires for it and records.
OneProcessPerAttempt ==
  \A p, q \in Procs :
    /\ proc[p].pc \in {"continue", "item", "record"}
    /\ proc[q].pc \in {"continue", "item", "record"}
    /\ proc[p].attempt = proc[q].attempt
    => p = q

\* The flock of an attempt keeps a second process away from it, whether it
\* comes from acquire or from a retry, with the same key or with another.
THEOREM AttemptsNotShared == WorkflowSpec => []OneProcessPerAttempt
<1>1. WorkflowInv => OneProcessPerAttempt
  <2>1. SUFFICES ASSUME WorkflowInv, NEW p \in Procs, NEW q \in Procs,
                        proc[p].pc \in {"continue", "item", "record"},
                        proc[q].pc \in {"continue", "item", "record"},
                        proc[p].attempt = proc[q].attempt, p # q
                 PROVE  FALSE
    BY DEF OneProcessPerAttempt
  <2>2. Owned(proc[p]) /\ Owned(proc[q])
    BY <2>1 DEF WorkflowInv, Works, Acquiring
  <2>3. proc[p].locks \cap proc[q].locks = {}
    BY <2>1 DEF WorkflowInv, LocksExclusive
  <2> QED
    BY <2>1, <2>2, <2>3 DEF Owned
<1> QED
  BY <1>1, WorkflowInvariant, PTL

\* What a process remembers between two transactions keeps its shape, and the
\* published indexes are never ahead of the corpus.
THEOREM MemoryTypeCorrect == WorkflowSpec => []WorkflowTypeOK
<1>1. WorkflowInv => WorkflowTypeOK
  BY DEF WorkflowInv, Remembers, Memory, Commands, CorpusOK, WorkflowTypeOK
<1> QED
  BY <1>1, WorkflowInvariant, PTL

-----------------------------------------------------------------------------
(* Refinement of ResearchSession.  A step of the processes is one step of   *)
(* the session the user sees, or none.                                     *)

SessionMoves == [Promised!SessionNext]_(Promised!sessionVars)

LEMMA SessionMoved ==
  ASSUME UNCHANGED corpus, ConsentedVideos' = ConsentedVideos,
         \/ Phase' = Phase
         \/ Phase = "absent" /\ Phase' = "working"
         \/ Phase = "working" /\ Phase' \in {"sufficiency", "candidates", "failed"}
         \/ Phase \in {"failed", "sufficiency"} /\ Phase' = "working"
         \/ Phase \in {"sufficiency", "candidates"} /\ Phase' = "done"
  PROVE  SessionMoves
BY DEF SessionMoves, Promised!SessionNext, Promised!sessionVars, Promised!Move,
       Promised!Begin, Promised!Ask, Promised!Offer, Promised!Fail, Promised!Again,
       Promised!Answer, Promised!Decline

LEMMA DecisionsMove ==
  ASSUME TypeOK, NEW rev \in Nat, Decisions(rev), UNCHANGED corpus
  PROVE  SessionMoves
<1>1. PICK k \in Keys :
        \/ \E action \in {"sufficient", "refresh"} : DecideSufficiency(k, rev, action)
        \/ \E approved \in SUBSET Videos : ApproveCandidates(k, rev, approved)
        \/ Cancel(k, rev)
  BY DEF Decisions
<1>2. ASSUME NEW action \in {"sufficient", "refresh"}, DecideSufficiency(k, rev, action)
      PROVE  SessionMoves
  <2>1. ConsentedVideos' = ConsentedVideos
    BY <1>2, DecideConsents DEF DecideSufficiency
  <2>2. Phase = "sufficiency" /\ Phase' \in {"working", "done"}
    BY <1>2 DEF DecideSufficiency, Expected, Transition, Phase, FailureTargets
  <2> QED
    BY <2>1, <2>2, SessionMoved
<1>3. ASSUME NEW approved \in SUBSET Videos, ApproveCandidates(k, rev, approved)
      PROVE  SessionMoves
  <2>1. ConsentedVideos' = ConsentedVideos \cup approved
    BY <1>3, DecideConsents DEF ApproveCandidates
  <2>2. Phase = "candidates" /\ Phase' = "working"
    BY <1>3 DEF ApproveCandidates, Expected, Transition, Phase, FailureTargets
  <2> QED
    BY <2>1, <2>2 DEF SessionMoves, Promised!SessionNext, Promised!Consent, Promised!Move
<1>4. ASSUME Cancel(k, rev)
      PROVE  SessionMoves
  <2>1. ConsentedVideos' = ConsentedVideos
    BY <1>4, DecideConsents DEF Cancel
  <2>2. Phase \in {"sufficiency", "candidates"} /\ Phase' = "done"
    BY <1>4 DEF Cancel, Expected, Transition, Phase, FailureTargets
  <2> QED
    BY <2>1, <2>2, SessionMoved
<1> QED
  BY <1>1, <1>2, <1>3, <1>4

LEMMA PipelineMoves ==
  ASSUME NEW rev, Pipeline(rev) \/ Acquisition(rev), UNCHANGED corpus
  PROVE  SessionMoves
<1>1. UNCHANGED decisions
  BY DEF Pipeline, Acquisition, RecordAssessment, RecordPartialAssessment,
       RecordCandidates, RecordFailure, CompleteReindexing, StartAttempt, RecordProgress,
       CompleteAttempt, RecordBatch, RecordAcquisitionFailure
<1>2. ConsentedVideos' = ConsentedVideos
  BY <1>1, ConsentKept
<1>3. CASE Pipeline(rev)
  <2>1. Phase = "working" /\ Phase' \in {"working", "sufficiency", "candidates", "failed"}
    BY <1>3 DEF Pipeline, RecordAssessment, RecordPartialAssessment, RecordCandidates,
         RecordFailure, CompleteReindexing, Expected, Transition, Phase, FailureTargets
  <2> QED
    BY <1>2, <2>1, SessionMoved
<1>4. CASE Acquisition(rev)
  <2>1. /\ session.state = "acquiring"
        /\ \/ session' = session
           \/ \E to \in {"reindexing", "failed_retryable"} : \E t : Transition(to, t)
    BY <1>4 DEF Acquisition, StartAttempt, Startable, RecordProgress, CompleteAttempt,
         RecordBatch, RecordAcquisitionFailure, Active, Expected
  <2>2. Phase = "working" /\ Phase' \in {"working", "failed"}
    BY <2>1 DEF Transition, Phase, FailureTargets
  <2> QED
    BY <1>2, <2>2, SessionMoved
<1> QED
  BY <1>3, <1>4

LEMMA RetriesMove ==
  ASSUME TypeOK, NEW rev, Retries(rev), UNCHANGED corpus
  PROVE  SessionMoves
<1>1. ConsentedVideos' = ConsentedVideos
  BY RetryConsents
<1>2. SessionOK /\ DecisionsOK
  BY DEF TypeOK
<1>3. PICK k \in Keys :
        \/ Retry(k, rev)
        \/ \E a \in DOMAIN attempts \cup {NoAttempt} :
             ClaimRetry(k, rev, a) \/ ReclaimRetry(k, rev, a)
  BY DEF Retries
<1>4. CASE Retry(k, rev)
  <2>1. Phase = "failed" /\ Phase' = "working"
    BY <1>2, <1>4 DEF Retry, Expected, Transition, Phase, FailureTargets, SessionOK
  <2> QED
    BY <1>1, <2>1, SessionMoved
<1>5. ASSUME NEW a, ClaimRetry(k, rev, a)
      PROVE  SessionMoves
  <2>1. session.state \in Retriable /\ Transition(RetryTarget, "none")
    BY <1>5 DEF ClaimRetry, Claimable, Acceptable, Expected, Retriable
  <2>2. RetryTarget \in FailureTargets
    BY <1>2, <2>1, RetryTargetOK
  <2>3. Phase \in {"failed", "sufficiency", "working"} /\ Phase' = "working"
    BY <2>1, <2>2 DEF Retriable, Transition, Phase, FailureTargets
  <2> QED
    BY <1>1, <2>3, SessionMoved
<1>6. ASSUME NEW a, ReclaimRetry(k, rev, a)
      PROVE  SessionMoves
  <2>1. \/ session' = session
        \/ /\ session.state = "failed_retryable"
           /\ \/ Transition("acquiring", "none")
              \/ decisions[k].target = session.target /\ Transition(decisions[k].target, "none")
    BY <1>6 DEF ReclaimRetry, RestartsAttempt, RestartsStage
  <2>2. CASE session' = session
    BY <1>1, <2>2, SessionMoved DEF Phase
  <2>3. CASE session' # session
    <3>1. /\ session.state = "failed_retryable"
          /\ \E to \in FailureTargets : Transition(to, "none")
      BY <1>2, <2>1, <2>3 DEF SessionOK, FailureTargets
    <3>2. Phase = "failed" /\ Phase' = "working"
      BY <3>1 DEF Transition, Phase, FailureTargets
    <3> QED
      BY <1>1, <3>2, SessionMoved
  <2> QED
    BY <2>2, <2>3
<1> QED
  BY <1>3, <1>4, <1>5, <1>6

LEMMA TransactionMoves ==
  ASSUME TypeOK, Transaction, UNCHANGED corpus
  PROVE  SessionMoves
<1>1. CASE CreateSession
  <2>1. ConsentedVideos' = ConsentedVideos
    BY <1>1, ConsentKept DEF CreateSession
  <2>2. Phase = "absent" /\ Phase' = "working"
    BY <1>1 DEF CreateSession, Phase, FailureTargets
  <2> QED
    BY <2>1, <2>2, SessionMoved
<1>2. ASSUME NEW k, NEW result, NEW error, CompleteRetry(k, result, error)
      PROVE  SessionMoves
  <2>1. /\ DOMAIN decisions' = DOMAIN decisions
        /\ \A j \in DOMAIN decisions : decisions'[j].request = decisions[j].request
    BY <1>2 DEF CompleteRetry, TypeOK, DecisionsOK, DecisionRows
  <2>2. ConsentedVideos' = ConsentedVideos
    BY <2>1, ConsentKept
  <2>3. Phase' = Phase
    BY <1>2 DEF CompleteRetry, Phase
  <2> QED
    BY <2>2, <2>3, SessionMoved
<1>3. CASE UNCHANGED storeVars
  BY <1>3, SessionMoved DEF storeVars, ConsentedVideos, Phase
<1> QED
  BY <1>1, <1>2, <1>3, DecisionsMove, PipelineMoves, RetriesMove DEF Transaction

\* The corpus grows by one video the user consented to.
LEMMA AcquireMoves ==
  ASSUME WorkflowInv, NEW p \in Procs, Acquire(p)
  PROVE  SessionMoves
<1>1. PICK v \in proc[p].todo : corpus' \in {corpus, corpus \cup {v}}
  BY DEF Acquire
<1>2. Phase' = Phase /\ ConsentedVideos' = ConsentedVideos
  BY DEF Acquire, storeVars, Phase, ConsentedVideos
<1>3. CASE corpus' = corpus
  BY <1>2, <1>3, SessionMoved
<1>4. CASE corpus' = corpus \cup {v}
  <2>1. proc[p].pc = "item"
    BY DEF Acquire, At
  <2>2. v \in VideosOf(proc[p].attempt) /\ proc[p].attempt \in DOMAIN attempts
    BY <1>1, <2>1 DEF WorkflowInv, Works, Acquiring, Owned, Named, Unsettled
  <2>3. v \in ConsentedVideos /\ v \in Videos
    BY <1>1, <2>2 DEF WorkflowInv, OnlyConsented, Remembers, Memory
  <2>4. Phase # "absent"
    BY <2>1 DEF WorkflowInv, Believes, At, Phase, TypeOK, SessionOK, States
  <2> QED
    BY <1>2, <1>4, <2>3, <2>4 DEF SessionMoves, Promised!SessionNext, Promised!Hold
<1> QED
  BY <1>1, <1>3, <1>4

\* Nobody but an acquiring process touches the corpus.
LEMMA CorpusUntouched ==
  ASSUME [WorkflowNext]_workflowVars, \A p \in Procs : ~Acquire(p)
  PROVE  UNCHANGED corpus
<1>1. CASE DecideCommand \/ ApproveCommand \/ CancelCommand \/ UNCHANGED workflowVars
  BY <1>1 DEF DecideCommand, ApproveCommand, CancelCommand, Answerable, Quiet, workflowVars
<1>2. ASSUME NEW p \in Procs, ReadsOnly(p) PROVE UNCHANGED corpus
  BY <1>2 DEF ReadsOnly, BeginDiscover, BeginAcquire, BeginRetry, Free, AssessRefused,
       DiscoverRefused, ReserveRefused, LockAttempt, Continue, RecordRefused, AcquisitionRefused,
       ReindexRefused, FindAttempt, ClaimLock, Respond, RefreshIndexes, Crash, Quiet
<1>3. ASSUME NEW p \in Procs, Writes(p) PROVE UNCHANGED corpus
  BY <1>3 DEF Writes, Start, Free, Assess, AssessmentFails, Discover, DiscoveryFails,
       RefreshFails, Reindexed, Reserves, Record, FailAcquisition, FinishAcquisition, Claim,
       Complete, Quiet
<1> QED
  BY <1>1, <1>2, <1>3, StepCases

\* The commands, with everything that may go wrong between them, implement the
\* session promised to the user: the questions come in the promised order, a
\* final answer is final, and nothing is acquired that was not approved.
THEOREM PromiseKept == WorkflowSpec => KeepsPromise
<1>1. WorkflowInit => Promised!SessionInit
  <2>1. SUFFICES ASSUME WorkflowInit PROVE Promised!SessionInit
    OBVIOUS
  <2>2. session.state = "absent" /\ DOMAIN decisions = {} /\ corpus = {}
    BY <2>1 DEF WorkflowInit, Init
  <2>3. Phase = "absent"
    BY <2>2 DEF Phase, FailureTargets
  <2>4. \A v : v \notin ConsentedVideos
    BY <2>2 DEF ConsentedVideos
  <2> QED
    BY <2>2, <2>3, <2>4 DEF Promised!SessionInit
<1>2. WorkflowInv /\ [WorkflowNext]_workflowVars => SessionMoves
  BY AcquireMoves, CorpusUntouched, StepTransaction, TransactionMoves DEF WorkflowInv
<1>3. WorkflowInv /\ [WorkflowNext]_workflowVars
        => [Promised!SessionNext]_(Promised!sessionVars)
  BY <1>2 DEF SessionMoves
<1> QED
  BY <1>1, <1>3, WorkflowInvariant, PTL DEF WorkflowSpec, KeepsPromise, Promised!SessionSpec

-----------------------------------------------------------------------------
(* The question is asked on fresh indexes.                                 *)

\* Where a step leaves a process.
LEMMA GoPc ==
  ASSUME Remembers, NEW p \in Procs, NEW changes, Go(p, changes), "pc" \in DOMAIN changes
  PROVE  proc'[p].pc = changes.pc
BY GoBecomes DEF Idle

LEMMA ReturnPc ==
  ASSUME Remembers, NEW p \in Procs, NEW rev, NEW error, Return(p, rev, error)
  PROVE  proc'[p].pc \in {"idle", "respond"}
<1>1. CASE proc[p].command = "retry"
  <2>1. Go(p, [pc |-> "respond", rev |-> rev, error |-> error])
    BY <1>1 DEF Return
  <2> QED
    BY <2>1, GoPc
<1>2. CASE proc[p].command # "retry"
  BY <1>2 DEF Return, Remembers, Idle
<1> QED
  BY <1>1, <1>2

\* There is one way to each of these places.
LEMMA WaysThere ==
  ASSUME TypeOK, Remembers, NEW p \in Procs, ReadsOnly(p) \/ Writes(p),
         NEW pc, pc = proc'[p].pc
  PROVE  /\ pc = "reserve" => \E k \in AcquireKeys : BeginAcquire(p, k)
         /\ pc \in Acquiring => Continue(p) \/ Acquire(p) \/ Record(p)
         /\ pc = "reindexed" => RefreshIndexes(p) \/ FinishAcquisition(p)
         /\ pc = "refresh" => FinishAcquisition(p) \/ Claim(p)
         /\ pc = "assess" => Start(p) \/ Reindexed(p) \/ Claim(p)
         /\ pc = "claim" => FindAttempt(p) \/ ClaimLock(p)
<1> DEFINE Elsewhere == pc \notin {"reserve", "item", "record", "reindexed", "refresh", "assess",
                                    "claim"}
           Ways == /\ pc = "reserve" => \E k \in AcquireKeys : BeginAcquire(p, k)
                   /\ pc \in Acquiring => Continue(p) \/ Acquire(p) \/ Record(p)
                   /\ pc = "reindexed" => RefreshIndexes(p) \/ FinishAcquisition(p)
                   /\ pc = "refresh" => FinishAcquisition(p) \/ Claim(p)
                   /\ pc = "assess" => Start(p) \/ Reindexed(p) \/ Claim(p)
                   /\ pc = "claim" => FindAttempt(p) \/ ClaimLock(p)
<1>0. Elsewhere => Ways
  BY DEF Acquiring
<1> SUFFICES Ways
  OBVIOUS
<1> HIDE DEF Ways
<1>1. ASSUME proc' = [proc EXCEPT ![p] = Idle] PROVE Elsewhere
  BY <1>1 DEF Remembers, Idle
<1>2. CASE \/ Assess(p) \/ AssessmentFails(p) \/ Discover(p) \/ DiscoveryFails(p)
           \/ RefreshFails(p) \/ FailAcquisition(p)
  <2>1. \E rev, error : Return(p, rev, error)
    BY <1>2 DEF Assess, AssessmentFails, Discover, DiscoveryFails, RefreshFails, FailAcquisition
  <2>2. Elsewhere
    BY <2>1, ReturnPc
  <2> QED
    BY <1>0, <2>2
<1>3. CASE \/ AssessRefused(p) \/ DiscoverRefused(p) \/ ReserveRefused(p) \/ RecordRefused(p)
           \/ AcquisitionRefused(p) \/ ReindexRefused(p) \/ Complete(p) \/ Crash(p)
  <2>1. Elsewhere
    BY <1>1, <1>3 DEF AssessRefused, DiscoverRefused, ReserveRefused, RecordRefused,
       AcquisitionRefused, ReindexRefused, Complete, Crash, Raise
  <2> QED
    BY <1>0, <2>1
<1>4. CASE Start(p)
  <2>1. Go(p, [command |-> "start", pc |-> "assess", rev |-> 0])
    BY <1>4 DEF Start
  <2>2. pc = "assess"
    BY <2>1, GoPc
  <2> QED
    BY <1>4, <2>2 DEF Ways, Acquiring
<1>5. CASE BeginDiscover(p)
  <2>1. Go(p, [command |-> "discover", pc |-> "discover", rev |-> session.revision])
    BY <1>5 DEF BeginDiscover
  <2> QED
    BY <1>0, <2>1, GoPc
<1>6. ASSUME NEW k \in RetryKeys, BeginRetry(p, k)
      PROVE  Elsewhere
  <2>1. PICK rev : Go(p, [command |-> "retry", pc |-> "find", key |-> k, rev |-> rev,
                          locks |-> {RetryLock(k)}])
    BY <1>6 DEF BeginRetry
  <2> QED
    BY <2>1, GoPc
<1>7. CASE Reserves(p)
  <2>1. Go(p, [pc |-> "lock", attempt |-> proc[p].key])
    BY <1>7 DEF Reserves
  <2> QED
    BY <1>0, <2>1, GoPc
<1>8. CASE LockAttempt(p)
  <2>1. ASSUME Go(p, [pc |-> "continue", rev |-> session.revision,
                      locks |-> {AttemptLock(proc[p].attempt)}])
        PROVE  Elsewhere
    BY <2>1, GoPc
  <2>2. Elsewhere
    BY <1>1, <1>8, <2>1 DEF LockAttempt
  <2> QED
    BY <1>0, <2>2
<1>9. CASE Reindexed(p)
  <2>1. Go(p, [pc |-> "assess", rev |-> proc[p].rev + 1])
    BY <1>9 DEF Reindexed
  <2>2. pc = "assess"
    BY <2>1, GoPc
  <2> QED
    BY <1>9, <2>2 DEF Ways, Acquiring
<1>10. CASE FindAttempt(p)
  <2>1. ASSUME NEW a, Go(p, [pc |-> IF a = NoAttempt THEN "claim" ELSE "claim_lock",
                             attempt |-> a])
        PROVE  pc \in {"claim", "claim_lock"}
    <3>1. PICK next \in {"claim", "claim_lock"} : Go(p, [pc |-> next, attempt |-> a])
      BY <2>1
    <3> QED
      BY <3>1, GoPc
  <2>2. Elsewhere \/ pc = "claim"
    BY <1>1, <1>10, <2>1 DEF FindAttempt
  <2> QED
    BY <1>0, <1>10, <2>2 DEF Ways, Acquiring
<1>11. CASE ClaimLock(p)
  <2>1. ASSUME NEW locks, Go(p, [pc |-> "claim", locks |-> locks])
        PROVE  pc = "claim"
    BY <2>1, GoPc
  <2>2. Elsewhere \/ pc = "claim"
    BY <1>1, <1>11, <2>1 DEF ClaimLock
  <2> QED
    BY <1>0, <1>11, <2>2 DEF Ways, Acquiring
<1>12. CASE Claim(p)
  <2>1. ASSUME NEW target \in FailureTargets, NEW rev, Resume(p, target, rev)
        PROVE  pc \in {"continue", "refresh", "assess", "discover"}
    <3>0. PICK next, partial : next = StageOf(target) /\ partial = PartlyFailed(proc[p].attempt)
      OBVIOUS
    <3>1. Go(p, [pc |-> next, rev |-> rev, partial |-> partial])
      BY <2>1, <3>0 DEF Resume
    <3>2. next \in {"continue", "refresh", "assess", "discover"}
      BY <3>0 DEF StageOf, FailureTargets
    <3> QED
      BY <3>1, <3>2, GoPc
  <2>2. ASSUME NEW k, NEW rev, NEW a, ClaimRetry(k, rev, a)
        PROVE  RetryTarget \in FailureTargets
    <3>1. session.state \in Retriable
      BY <2>2 DEF ClaimRetry, Claimable, Acceptable, Expected, Retriable
    <3> QED
      BY <3>1, RetryTargetOK DEF TypeOK
  <2>3. \/ \E target \in FailureTargets : Resume(p, target, session'.revision)
        \/ \E rev, error : Return(p, rev, error)
        \/ proc' = [proc EXCEPT ![p] = Idle]
    BY <1>12, <2>2, ReclaimTargetOK DEF Claim, Raise
  <2>4. Elsewhere \/ pc \in {"refresh", "assess"}
    BY <1>1, <2>1, <2>3, ReturnPc
  <2> QED
    BY <1>0, <1>12, <2>4 DEF Ways, Acquiring
<1>13. CASE Respond(p)
  <2>1. PICK error : Go(p, [pc |-> "complete", rev |-> session.revision, error |-> error])
    BY <1>13 DEF Respond
  <2> QED
    BY <1>0, <2>1, GoPc
<1>14. ASSUME NEW k \in AcquireKeys, BeginAcquire(p, k)
       PROVE  Ways
  <2>1. Go(p, [command |-> "acquire", pc |-> "reserve", key |-> k,
               rev |-> session.revision, todo |-> Approved])
    BY <1>14 DEF BeginAcquire
  <2>2. pc = "reserve"
    BY <2>1, GoPc
  <2> QED
    BY <1>14, <2>2 DEF Ways, Acquiring
<1>15. CASE Continue(p)
  <2>1. PICK known, todo : Go(p, [pc |-> "item", known |-> known, todo |-> todo])
    BY <1>15 DEF Continue
  <2>2. pc = "item"
    BY <2>1, GoPc
  <2> QED
    BY <1>15, <2>2 DEF Ways, Acquiring
<1>16. CASE Acquire(p)
  <2>1. PICK got : Go(p, [pc |-> "record", got |-> got])
    BY <1>16 DEF Acquire
  <2>2. pc = "record"
    BY <2>1, GoPc
  <2> QED
    BY <1>16, <2>2 DEF Ways, Acquiring
<1>17. CASE Record(p)
  <2>1. PICK todo : Go(p, [pc |-> "item", todo |-> todo, got |-> NoOutcome])
    BY <1>17 DEF Record
  <2>2. pc = "item"
    BY <2>1, GoPc
  <2> QED
    BY <1>17, <2>2 DEF Ways, Acquiring
<1>18. CASE RefreshIndexes(p)
  <2>1. Go(p, [pc |-> "reindexed"])
    BY <1>18 DEF RefreshIndexes
  <2>2. pc = "reindexed"
    BY <2>1, GoPc
  <2> QED
    BY <1>18, <2>2 DEF Ways, Acquiring
<1>19. CASE FinishAcquisition(p)
  <2>0. PICK next, partial :
          /\ next = IF HasOutcome(proc[p].attempt, Ready) THEN "refresh" ELSE "reindexed"
          /\ partial = HasOutcome(proc[p].attempt, {"failed_retryable"})
    OBVIOUS
  <2>1. Go(p, [pc |-> next, partial |-> partial, rev |-> proc[p].rev + 1])
    BY <1>19, <2>0 DEF FinishAcquisition
  <2>2. pc = next
    BY <2>1, GoPc
  <2> QED
    BY <1>19, <2>0, <2>2 DEF Ways, Acquiring
<1> QED
  BY <1>0, <1>2, <1>3, <1>4, <1>5, <1>6, <1>7, <1>8, <1>9, <1>10, <1>11, <1>12, <1>13,
     <1>14, <1>15, <1>16, <1>17, <1>18, <1>19 DEF ReadsOnly, Writes

\* The candidates are replaced only with the session.
LEMMA SnapshotKept ==
  ASSUME TypeOK, [WorkflowNext]_workflowVars, session' = session
  PROVE  DOMAIN candidates' = DOMAIN candidates
<1>1. CASE ApproveCommand
  BY <1>1 DEF ApproveCommand, ApproveCandidates
<1>2. ASSUME NEW p \in Procs, Discover(p) PROVE FALSE
  <2>1. PICK found : RecordCandidates(proc[p].rev, found)
    BY <1>2 DEF Discover
  <2> QED
    BY <2>1 DEF RecordCandidates, Expected, Transition
<1>3. ASSUME NEW p \in Procs, Record(p) PROVE DOMAIN candidates' = DOMAIN candidates
  BY <1>3 DEF Record, RecordProgress, Overwrite
<1> QED
  BY <1>1, <1>2, <1>3, CandidateWrites

\* The session leaves reindexing by the command that has refreshed the indexes.
LEMMA LeavesReindexing ==
  ASSUME TypeOK, [WorkflowNext]_workflowVars, Stage = "reindexing", Stage' # "reindexing"
  PROVE  \E p \in Procs : Reindexed(p)
<1>1. CASE DecideCommand \/ ApproveCommand \/ CancelCommand
  BY <1>1 DEF DecideCommand, ApproveCommand, CancelCommand, DecideSufficiency,
     ApproveCandidates, Cancel, Expected, Stage
<1>2. UNCHANGED storeVars => FALSE
  BY DEF storeVars, Stage
<1>3. ASSUME NEW p \in Procs, Writes(p), ~Reindexed(p), ~Claim(p)
      PROVE  FALSE
  BY <1>3 DEF Writes, Start, CreateSession, Assess, RecordPartialAssessment, RecordAssessment,
       AssessmentFails, RecordFailure, Discover, RecordCandidates, DiscoveryFails, RefreshFails,
       Reserves, StartAttempt, Record, RecordProgress, FailAcquisition,
       RecordAcquisitionFailure, FinishAcquisition, CompleteAttempt, Active, Complete,
       CompleteRetry, storeVars, Expected, Transition, Stage
<1>4. ASSUME NEW p \in Procs, Claim(p)
      PROVE  FALSE
  <2>1. \/ \E k, rev, a : ClaimRetry(k, rev, a) \/ ReclaimRetry(k, rev, a)
        \/ UNCHANGED storeVars
    BY <1>4 DEF Claim, Raise
  <2>2. ASSUME NEW k, NEW rev, NEW a, ClaimRetry(k, rev, a) PROVE FALSE
    BY <2>2 DEF ClaimRetry, RetryTarget, Transition, Stage
  <2>3. ASSUME NEW k, NEW rev, NEW a, ReclaimRetry(k, rev, a) PROVE FALSE
    BY <2>3 DEF ReclaimRetry, RestartsAttempt, RestartsStage, Transition, Stage
  <2> QED
    BY <1>2, <2>1, <2>2, <2>3
<1>5. ASSUME NEW p \in Procs, ReadsOnly(p) PROVE FALSE
  BY <1>2, <1>5, ReadsChangeNothing
<1> QED
  BY <1>1, <1>2, <1>3, <1>4, <1>5, StepCases DEF workflowVars

\* An acquisition fails by the process that works on it.
LEMMA FailsAcquisition ==
  ASSUME TypeOK, [WorkflowNext]_workflowVars, session.target # "acquiring",
         session'.target = "acquiring"
  PROVE  \E p \in Procs : FailAcquisition(p)
<1>1. CASE DecideCommand \/ ApproveCommand \/ CancelCommand
  BY <1>1 DEF DecideCommand, ApproveCommand, CancelCommand, DecideSufficiency,
     ApproveCandidates, Cancel, Transition
<1>2. UNCHANGED storeVars => FALSE
  BY DEF storeVars
<1>3. ASSUME NEW p \in Procs, Writes(p), ~FailAcquisition(p), ~Claim(p)
      PROVE  FALSE
  BY <1>3 DEF Writes, Start, CreateSession, Assess, RecordPartialAssessment, RecordAssessment,
       AssessmentFails, RecordFailure, Discover, RecordCandidates, DiscoveryFails, RefreshFails,
       Reindexed, CompleteReindexing, Reserves, StartAttempt, Record, RecordProgress,
       FinishAcquisition, CompleteAttempt, Active, Complete, CompleteRetry, storeVars, Transition
<1>4. ASSUME NEW p \in Procs, Claim(p)
      PROVE  FALSE
  <2>1. \/ \E k, rev, a : ClaimRetry(k, rev, a) \/ ReclaimRetry(k, rev, a)
        \/ UNCHANGED storeVars
    BY <1>4 DEF Claim, Raise
  <2>2. ASSUME NEW k, NEW rev, NEW a, ClaimRetry(k, rev, a) \/ ReclaimRetry(k, rev, a)
        PROVE  FALSE
    BY <2>2 DEF ClaimRetry, ReclaimRetry, Transition
  <2> QED
    BY <1>2, <2>1, <2>2
<1>5. ASSUME NEW p \in Procs, ReadsOnly(p) PROVE FALSE
  BY <1>2, <1>5, ReadsChangeNothing
<1> QED
  BY <1>1, <1>2, <1>3, <1>4, <1>5, StepCases DEF workflowVars

\* The published indexes are only replaced by newer ones.
LEMMA IndexesGrow ==
  ASSUME WorkflowInv, [WorkflowNext]_workflowVars
  PROVE  indexed \subseteq indexed' /\ corpus \subseteq corpus'
<1>1. corpus \subseteq corpus' /\ indexed \subseteq corpus
  BY CorpusStep DEF WorkflowInv, CorpusOK
<1>2. CASE DecideCommand \/ ApproveCommand \/ CancelCommand \/ UNCHANGED workflowVars
  BY <1>1, <1>2 DEF DecideCommand, ApproveCommand, CancelCommand, Answerable, Quiet, workflowVars
<1>3. ASSUME NEW p \in Procs, ReadsOnly(p) PROVE indexed' \in {indexed, corpus}
  BY <1>3 DEF ReadsOnly, BeginDiscover, BeginAcquire, BeginRetry, Free, AssessRefused, Acquire,
       DiscoverRefused, ReserveRefused, LockAttempt, Continue, RecordRefused, AcquisitionRefused,
       ReindexRefused, FindAttempt, ClaimLock, Respond, RefreshIndexes, Crash, Quiet
<1>4. ASSUME NEW p \in Procs, Writes(p) PROVE UNCHANGED indexed
  BY <1>4 DEF Writes, Start, Free, Assess, AssessmentFails, Discover, DiscoveryFails,
       RefreshFails, Reindexed, Reserves, Record, FailAcquisition, FinishAcquisition, Claim,
       Complete, Quiet
<1> QED
  BY <1>1, <1>2, <1>3, <1>4, StepCases

\* A transaction that moves the session records no outcome.
LEMMA MovesKeepOutcomes ==
  ASSUME TypeOK, [WorkflowNext]_workflowVars, session' # session, NEW a \in DOMAIN attempts
  PROVE  attempts'[a].outcomes = attempts[a].outcomes
<1>1. \A p \in Procs : ~Record(p)
  BY DEF Record, RecordProgress
<1> QED
  BY <1>1, OthersKeepOutcomes

\* Without a new attempt the latest one stays the latest.
LEMMA LatestStays ==
  ASSUME DOMAIN attempts' = DOMAIN attempts,
         \A a \in DOMAIN attempts : attempts'[a].revision = attempts[a].revision,
         NEW a \in DOMAIN attempts
  PROVE  LatestAttempt(a)' <=> LatestAttempt(a)
BY DEF LatestAttempt, IsLatest

\* An attempt that starts is the latest.
LEMMA NewestIsLatest ==
  ASSUME TypeOK, OrderInv, NEW k \in Keys, Starts(k), NEW a \in DOMAIN attempts
  PROVE  ~LatestAttempt(a)'
<1>1. attempts[a].revision \in Nat /\ session.revision \in Nat
  BY DEF TypeOK, SessionOK, AttemptsOK, AttemptRows
<1>2. attempts[a].revision < session.revision
  BY <1>1 DEF OrderInv, AttemptsBefore, Starts, WithStatus
<1>3. attempts'[k].revision = session.revision /\ attempts'[a].revision = attempts[a].revision
      /\ k \in DOMAIN attempts'
  BY DEF Starts
<1> QED
  BY <1>1, <1>2, <1>3 DEF LatestAttempt, IsLatest

\* A new row of the attempts table is the reservation of a process.
LEMMA ReservedBy ==
  ASSUME [WorkflowNext]_workflowVars, NEW k \in DOMAIN attempts', k \notin DOMAIN attempts
  PROVE  \E p \in Procs : Reserves(p) /\ proc[p].key = k
<1>1. ASSUME NEW b \in DOMAIN attempts, NEW status, SetStatus(b, status) PROVE FALSE
  BY <1>1 DEF SetStatus
<1>2. ASSUME NEW p \in Procs, Record(p) PROVE FALSE
  BY <1>2 DEF Record, RecordProgress
<1>3. PICK p \in Procs : Reserves(p)
  BY <1>1, <1>2, AttemptWrites
<1> QED
  BY <1>3 DEF Reserves, StartAttempt, WithRow

\* Nothing but a discovery changes whose candidates are shown.
LEMMA SnapshotReplaced ==
  ASSUME [WorkflowNext]_workflowVars, \A p \in Procs : ~Discover(p)
  PROVE  DOMAIN candidates' = DOMAIN candidates
<1>1. ApproveCommand => DOMAIN candidates' = DOMAIN candidates
  BY DEF ApproveCommand, ApproveCandidates
<1>2. ASSUME NEW p \in Procs, Record(p) PROVE DOMAIN candidates' = DOMAIN candidates
  BY <1>2 DEF Record, RecordProgress, Overwrite
<1> QED
  BY <1>1, <1>2, CandidateWrites

LEMMA SnapshotStep ==
  ASSUME WorkflowInv, FreshInv, [WorkflowNext]_workflowVars
  PROVE  SnapshotStays'
<1>1. /\ TypeOK /\ OrderInv /\ SnapshotStays /\ Effect /\ TypeOK' /\ OrderInv'
      /\ \A p \in Procs : KnowsSnapshot(proc[p])
  BY StepTransaction, TransactionEffect, TransactionTypeOK, OrderStep DEF WorkflowInv, FreshInv
<1>2. ASSUME NEW p \in Procs, Discover(p)
      PROVE  SnapshotStays'
  <2>1. /\ session.state = "discovering"
        /\ session'.state = "awaiting_candidates" /\ session'.target = "none"
    BY <1>2 DEF Discover, RecordCandidates, Expected, Transition
  <2>2. WithStatus("running")' = {}
    BY <1>1, <2>1 DEF OrderInv, OneRunningAttempt, Running, WithStatus
  <2> QED
    BY <2>1, <2>2 DEF SnapshotStays, SnapshotMatters, Pipelined
<1>3. CASE \A p \in Procs : ~Discover(p)
  <2>1. DOMAIN candidates' = DOMAIN candidates
    BY <1>3, SnapshotReplaced
  <2>2. ASSUME SnapshotMatters, DOMAIN attempts' = DOMAIN attempts,
               \A a \in DOMAIN attempts : /\ attempts'[a].revision = attempts[a].revision
                                          /\ DOMAIN attempts'[a].outcomes = VideosOf(a)
        PROVE  SnapshotStays'
    <3>1. \A a \in DOMAIN attempts : LatestAttempt(a)' => LatestAttempt(a)
      BY <2>2, LatestStays
    <3> QED
      BY <1>1, <2>1, <2>2, <3>1 DEF SnapshotStays, LatestInSnapshot, VideosOf
  <2>3. ASSUME NEW a \in DOMAIN attempts, NEW status, Changes(a, status), SnapshotMatters
        PROVE  SnapshotStays'
    BY <2>2, <2>3 DEF Changes, VideosOf
  <2>4. CASE UNCHANGED <<session, attempts, batch>>
    <3>1. SnapshotMatters' => SnapshotMatters
      BY <2>4 DEF SnapshotMatters, WithStatus, Pipelined
    <3> QED
      BY <2>2, <2>4, <3>1 DEF SnapshotStays, VideosOf
  <2>5. CASE CreateSession
    BY <1>1, <2>5 DEF CreateSession, OrderInv, AttemptsBefore, SnapshotStays, LatestInSnapshot
  <2>6. ASSUME NEW to \in States, NEW t \in FailureTargets \cup {"none"}, Advances(to, t)
        PROVE  SnapshotStays'
    <3>1. session.state # "acquiring" /\ attempts' = attempts
          /\ session'.state = to /\ session'.target = t
      BY <2>6 DEF Advances, Transition
    <3>2. WithStatus("running")' = {}
      BY <1>1, <3>1 DEF OrderInv, OneRunningAttempt, Running, WithStatus
    <3>3. SnapshotMatters' => SnapshotMatters
      BY <2>6, <3>1, <3>2 DEF Advances, SnapshotMatters, Pipelined, Stage
    <3> QED
      BY <2>2, <3>1, <3>3 DEF SnapshotStays, VideosOf
  <2>7. ASSUME NEW k \in Keys, Starts(k)
        PROVE  SnapshotStays'
    <3>1. k \in DOMAIN attempts' /\ k \notin DOMAIN attempts
          /\ DOMAIN attempts' = DOMAIN attempts \cup {k}
      BY <2>7 DEF Starts
    <3>2. PICK p \in Procs : Reserves(p) /\ proc[p].key = k
      BY <3>1, ReservedBy
    <3>3. attempts'[k].outcomes = [v \in proc[p].todo |-> "pending"]
          /\ At(p, "reserve") /\ proc[p].rev = session.revision
      BY <3>1, <3>2 DEF Reserves, StartAttempt, Startable, Expected, WithRow
    <3>4. proc[p].todo \subseteq DOMAIN candidates
      BY <1>1, <3>3 DEF KnowsSnapshot, At
    <3>5. DOMAIN attempts'[k].outcomes \subseteq DOMAIN candidates'
      BY <2>1, <3>3, <3>4
    <3>6. \A a \in DOMAIN attempts : ~LatestAttempt(a)'
      BY <1>1, <2>7, NewestIsLatest
    <3> QED
      BY <3>1, <3>5, <3>6 DEF SnapshotStays, LatestInSnapshot, VideosOf
  <2>8. ASSUME NEW a \in DOMAIN attempts,
               Resumes(a) \/ Progresses(a) \/ Completes(a) \/ Fails(a) \/ PartlyFails(a)
        PROVE  SnapshotStays'
    <3>1. SnapshotMatters
      BY <2>8 DEF Resumes, Progresses, Completes, Fails, PartlyFails, SnapshotMatters,
                  WithStatus, Pipelined
    <3>2. \E status : Changes(a, status)
      BY <2>8 DEF Resumes, Progresses, Completes, Fails, PartlyFails
    <3> QED
      BY <2>3, <3>1, <3>2
  <2> QED
    BY <1>1, <2>4, <2>5, <2>6, <2>7, <2>8 DEF Effect
<1> QED
  BY <1>2, <1>3

\* A belief that is still right was right before the step.
LEMMA StillBelieved ==
  ASSUME WorkflowInv, [WorkflowNext]_workflowVars,
         NEW p \in Procs, ~At(p, "idle"), proc[p].rev = session'.revision
  PROVE  session' = session
<1>1. Grows /\ TypeOK
  BY StepTransaction, TransactionGrows DEF WorkflowInv
<1>2. /\ proc[p].rev \in Nat /\ session.revision \in Nat /\ proc[p].rev <= session.revision
      /\ session.state # "absent"
  BY <1>1 DEF WorkflowInv, Remembers, Memory, Believes, TypeOK, SessionOK
<1> QED
  BY <1>1, <1>2 DEF Grows, CreateSession, SessionGoesOn

\* What the others know stays true.
LEMMA OthersKnow ==
  ASSUME WorkflowInv, [WorkflowNext]_workflowVars, NEW q \in Procs, NEW n, n = proc[q],
         KnowsSnapshot(n)
  PROVE  KnowsSnapshot(n)'
<1>1. CASE At(q, "idle")
  BY <1>1 DEF KnowsSnapshot, Acquiring, At
<1>2. CASE ~At(q, "idle") /\ n.rev = session'.revision
  <2>1. session' = session
    BY <1>2, StillBelieved
  <2>2. DOMAIN candidates' = DOMAIN candidates
    BY <2>1, SnapshotKept DEF WorkflowInv
  <2> QED
    BY <2>1, <2>2 DEF KnowsSnapshot
<1>3. CASE n.rev # session'.revision
  BY <1>3 DEF KnowsSnapshot
<1> QED
  BY <1>1, <1>2, <1>3

\* What the process that takes the step knows after it.
LEMMA ActorKnows ==
  ASSUME WorkflowInv, [WorkflowNext]_workflowVars, NEW p \in Procs,
         ReadsOnly(p) \/ Writes(p), KnowsSnapshot(proc[p]), NEW m, m = proc'[p]
  PROVE  KnowsSnapshot(m)'
<1>1. /\ m.pc = "reserve" => \E k \in AcquireKeys : BeginAcquire(p, k)
      /\ m.pc \in Acquiring => Continue(p) \/ Acquire(p) \/ Record(p)
  BY WaysThere DEF WorkflowInv
<1>2. Remembers
  BY DEF WorkflowInv
<1>3. ASSUME NEW k \in AcquireKeys, BeginAcquire(p, k)
      PROVE  KnowsSnapshot(m)'
  <2>1. Go(p, [command |-> "acquire", pc |-> "reserve", key |-> k,
               rev |-> session.revision, todo |-> Approved]) /\ UNCHANGED candidates
    BY <1>3 DEF BeginAcquire, storeVars
  <2>2. m.pc = "reserve" /\ m.todo = Approved
    BY <1>2, <2>1, GoBecomes DEF Idle
  <2> QED
    BY <2>1, <2>2 DEF KnowsSnapshot, Acquiring, Approved
<1>4. CASE Continue(p)
  <2>1. PICK todo : Go(p, [pc |-> "item", known |-> DOMAIN candidates, todo |-> todo])
    BY <1>4 DEF Continue
  <2>2. m.pc = "item" /\ m.known = DOMAIN candidates /\ UNCHANGED candidates
    BY <1>2, <1>4, <2>1, GoBecomes DEF Idle, Continue, storeVars
  <2> QED
    BY <2>2 DEF KnowsSnapshot
<1>5. CASE Acquire(p)
  <2>1. PICK got : Go(p, [pc |-> "record", got |-> got])
    BY <1>5 DEF Acquire
  <2>2. m.pc = "record" /\ m.known = proc[p].known /\ m.rev = proc[p].rev
    BY <1>2, <2>1, GoBecomes DEF Idle
  <2>3. UNCHANGED <<session, candidates>> /\ proc[p].pc = "item"
    BY <1>5 DEF Acquire, storeVars, At
  <2> QED
    BY <2>2, <2>3 DEF KnowsSnapshot, Acquiring
<1>6. CASE Record(p)
  <2>1. PICK todo : Go(p, [pc |-> "item", todo |-> todo, got |-> NoOutcome])
    BY <1>6 DEF Record
  <2>2. m.pc = "item" /\ m.known = proc[p].known /\ m.rev = proc[p].rev
    BY <1>2, <2>1, GoBecomes DEF Idle
  <2>3. session' = session /\ DOMAIN candidates' = DOMAIN candidates /\ proc[p].pc = "record"
    BY <1>6 DEF Record, RecordProgress, Overwrite, At
  <2> QED
    BY <2>2, <2>3 DEF KnowsSnapshot, Acquiring
<1> QED
  BY <1>1, <1>3, <1>4, <1>5, <1>6 DEF KnowsSnapshot

\* Nothing touches the attempts while the session stays in reindexing.
LEMMA StillIndexed ==
  ASSUME WorkflowInv, [WorkflowNext]_workflowVars, session' = session,
         session.state = "reindexing", AllIndexed
  PROVE  AllIndexed'
<1>1. TypeOK /\ OrderInv /\ Effect /\ session.revision \in Nat
  BY StepTransaction, TransactionEffect DEF WorkflowInv, TypeOK, SessionOK
<1>2. \A a \in DOMAIN attempts : attempts[a].status # "running"
  BY <1>1 DEF OrderInv, OneRunningAttempt, Running, WithStatus
<1>3. attempts' = attempts
  BY <1>1, <1>2 DEF Effect, CreateSession, Advances, Starts, Resumes, Progresses, Completes, Fails,
     PartlyFails, Transition
<1>4. indexed \subseteq indexed'
  BY IndexesGrow
<1> QED
  BY <1>3, <1>4 DEF AllIndexed, Counts, LatestAttempt, IsLatest, Indexed, VideosOf

LEMMA OthersRefreshed ==
  ASSUME WorkflowInv, [WorkflowNext]_workflowVars, NEW q \in Procs, NEW n, n = proc[q],
         Refreshed(n)
  PROVE  Refreshed(n)'
<1>1. SUFFICES ASSUME n.pc = "reindexed", n.rev = session'.revision,
                      session'.state = "reindexing"
               PROVE  AllIndexed'
  BY DEF Refreshed, Expected
<1>2. session' = session
  BY <1>1, StillBelieved DEF At
<1>3. AllIndexed
  BY <1>1, <1>2 DEF Refreshed, Expected
<1> QED
  BY <1>1, <1>2, <1>3, StillIndexed

\* Whoever is about to leave reindexing has refreshed the indexes, or finished
\* an attempt that obtained nothing.
LEMMA ActorRefreshed ==
  ASSUME WorkflowInv, FreshInv, [WorkflowNext]_workflowVars, NEW p \in Procs,
         ReadsOnly(p) \/ Writes(p), NEW m, m = proc'[p]
  PROVE  Refreshed(m)'
<1>1. SUFFICES ASSUME m.pc = "reindexed"
               PROVE  AllIndexed'
  BY DEF Refreshed
<1>2. TypeOK /\ OrderInv /\ Remembers
  BY DEF WorkflowInv
<1>3. RefreshIndexes(p) \/ FinishAcquisition(p)
  BY <1>1, <1>2, WaysThere
<1>4. CASE RefreshIndexes(p)
  <2>1. indexed' = corpus /\ attempts' = attempts
    BY <1>4 DEF RefreshIndexes, storeVars
  <2> QED
    BY <2>1 DEF FreshInv, ReadyIsHeld, AllIndexed, Indexed, VideosOf
<1>5. CASE FinishAcquisition(p)
  <2>1. PICK a : a = proc[p].attempt
    OBVIOUS
  <2>2. /\ session.state = "acquiring" /\ a \in DOMAIN attempts /\ attempts[a].status = "running"
        /\ SetStatus(a, "completed")
    BY <1>5, <2>1 DEF FinishAcquisition, CompleteAttempt, Active, Expected, WithStatus
  <2>3. ~HasOutcome(a, Ready)
    <3>1. PICK next, partial :
            /\ next = IF HasOutcome(a, Ready) THEN "refresh" ELSE "reindexed"
            /\ partial = HasOutcome(a, {"failed_retryable"})
      OBVIOUS
    <3>2. Go(p, [pc |-> next, partial |-> partial, rev |-> proc[p].rev + 1])
      BY <1>5, <2>1, <3>1 DEF FinishAcquisition
    <3> QED
      BY <1>1, <1>2, <3>1, <3>2, GoPc
  <2>4. Changes(a, "completed") /\ attempts'[a].outcomes = attempts[a].outcomes
    BY <1>2, <2>2, SetStatusChanges DEF TypeOK
  <2>5. indexed \subseteq indexed'
    BY IndexesGrow
  <2>6. Indexed(a)'
    BY <2>3, <2>4 DEF Indexed, HasOutcome, VideosOf
  <2>7. ASSUME NEW b \in DOMAIN attempts, b # a, Counts(b)'
        PROVE  Indexed(b)'
    <3>1. attempts'[b] = attempts[b]
      BY <2>4, <2>7 DEF Changes
    <3>2. Counts(b)
      BY <2>4, <2>7, <3>1, LatestStays DEF Changes, Counts
    <3>3. ~Running(b)
      BY <1>2, <2>2, <2>7 DEF OrderInv, OneRunningAttempt, Running, WithStatus
    <3>4. Indexed(b)
      BY <2>2, <3>2, <3>3 DEF FreshInv, StagesIndexed, Stage
    <3> QED
      BY <2>5, <3>1, <3>4 DEF Indexed, VideosOf
  <2> QED
    BY <2>4, <2>6, <2>7 DEF AllIndexed, Changes
<1> QED
  BY <1>3, <1>4, <1>5

\* A transcript that is reported ready is in the corpus.
LEMMA ReadyStep ==
  ASSUME WorkflowInv, ReadyIsHeld, [WorkflowNext]_workflowVars
  PROVE  ReadyIsHeld'
<1>1. TypeOK /\ Grows /\ corpus \subseteq corpus' /\ \A p \in Procs : Works(proc[p])
  BY StepTransaction, TransactionGrows, IndexesGrow DEF WorkflowInv
<1>2. ASSUME NEW a \in DOMAIN attempts' \ DOMAIN attempts, NEW v \in DOMAIN attempts'[a].outcomes
      PROVE  attempts'[a].outcomes[v] \notin Ready
  <2>1. PICK p \in Procs : Reserves(p) /\ proc[p].key = a
    BY <1>2, ReservedBy
  <2>2. attempts'[a].outcomes = [w \in proc[p].todo |-> "pending"]
    BY <1>2, <2>1 DEF Reserves, StartAttempt, WithRow
  <2> QED
    BY <1>2, <2>2 DEF Ready
<1>3. ASSUME NEW a \in DOMAIN attempts, NEW v \in DOMAIN attempts'[a].outcomes,
             attempts'[a].outcomes[v] \in Ready
      PROVE  v \in corpus'
  <2>1. v \in VideosOf(a)
    BY <1>1, <1>3 DEF Grows
  <2>2. CASE attempts'[a].outcomes = attempts[a].outcomes
    BY <1>1, <1>3, <2>1, <2>2 DEF ReadyIsHeld
  <2>3. ASSUME NEW p \in Procs, Record(p), proc[p].attempt = a
        PROVE  v \in corpus'
    <3>1. PICK w \in proc[p].todo : /\ proc[p].got \in [{w} -> Settled \cup {"failed_retryable"}]
                                    /\ proc[p].got[w] \in Ready => w \in corpus
      BY <1>1, <2>3 DEF Record, At, Works, Obtained
    <3>2. attempts'[a].outcomes = Overwrite(attempts[a].outcomes, proc[p].got)
      BY <1>1, <1>3, <2>3 DEF Record, RecordProgress, TypeOK, AttemptsOK, AttemptRows
    <3> QED
      BY <1>1, <1>3, <2>1, <3>1, <3>2 DEF Overwrite, ReadyIsHeld, VideosOf
  <2> QED
    BY <1>1, <2>2, <2>3, OthersKeepOutcomes
<1> QED
  BY <1>2, <1>3 DEF ReadyIsHeld, VideosOf

\* An acquisition of the latest attempt fails only if it obtained nothing: its
\* videos are still in the snapshot.
LEMMA FailsWithNothing ==
  ASSUME WorkflowInv, FreshInv, [WorkflowNext]_workflowVars,
         NEW a \in DOMAIN attempts, Fails(a), LatestAttempt(a)
  PROVE  ~HasOutcome(a, Ready)
<1>1. TypeOK /\ OrderInv /\ \A p \in Procs : Works(proc[p])
  BY DEF WorkflowInv
<1>2. /\ session.state = "acquiring" /\ Running(a)
      /\ session.target # "acquiring" /\ session'.target = "acquiring"
  BY <1>1 DEF Fails, Transition, TypeOK, SessionOK, Running, WithStatus
<1>3. PICK p \in Procs : FailAcquisition(p)
  BY <1>1, <1>2, FailsAcquisition
<1>4. /\ proc[p].rev = session.revision /\ proc[p].pc = "item" /\ NothingReady(p)
      /\ proc[p].attempt \in DOMAIN attempts /\ Running(proc[p].attempt)
  BY <1>3 DEF FailAcquisition, RecordAcquisitionFailure, Active, Expected, At, Running, WithStatus
<1>5. proc[p].attempt = a
  BY <1>1, <1>2, <1>4 DEF OrderInv, OneRunningAttempt
<1>6. proc[p].known = DOMAIN candidates
  BY <1>4 DEF FreshInv, KnowsSnapshot, Acquiring
<1>7. proc[p].todo \subseteq VideosOf(a)
  BY <1>1, <1>4, <1>5 DEF Works, Acquiring, Unsettled
<1>8. VideosOf(a) \subseteq DOMAIN candidates
  BY <1>2 DEF FreshInv, SnapshotStays, SnapshotMatters, LatestInSnapshot, Running
<1> QED
  BY <1>4, <1>5, <1>6, <1>7, <1>8 DEF NothingReady

LEMMA StagesStep ==
  ASSUME WorkflowInv, FreshInv, [WorkflowNext]_workflowVars
  PROVE  StagesIndexed'
<1>1. /\ TypeOK /\ OrderInv /\ Effect /\ OrderInv' /\ indexed \subseteq indexed'
      /\ StagesIndexed /\ session.revision \in Nat
  BY StepTransaction, TransactionEffect, OrderStep, IndexesGrow
     DEF WorkflowInv, FreshInv, TypeOK, SessionOK
<1>2. ASSUME NEW a \in DOMAIN attempts, Indexed(a),
             attempts'[a].outcomes = attempts[a].outcomes
      PROVE  Indexed(a)'
  BY <1>1, <1>2 DEF Indexed, VideosOf
<1>3. CASE UNCHANGED <<session, attempts, batch>>
  BY <1>1, <1>3 DEF StagesIndexed, AllIndexed, Stage, Counts, LatestAttempt, IsLatest, Running,
     WithStatus, Indexed, VideosOf
<1>4. CASE CreateSession
  BY <1>1, <1>4 DEF CreateSession, OrderInv, AttemptsBefore, StagesIndexed, AllIndexed
<1>5. ASSUME NEW to \in States, NEW t \in FailureTargets \cup {"none"}, Advances(to, t)
      PROVE  StagesIndexed'
  <2>1. /\ attempts' = attempts /\ session.state # "acquiring"
        /\ Stage = "acquiring" => Stage' = "acquiring"
        /\ Stage' = "acquiring" => to = "acquiring"
    BY <1>5 DEF Advances, Transition, Stage
  <2>2. AllIndexed => AllIndexed'
    BY <1>1, <2>1 DEF AllIndexed, Counts, LatestAttempt, IsLatest, Indexed, VideosOf
  <2>3. CASE Stage = "acquiring"
    BY <1>1, <2>1, <2>3
       DEF StagesIndexed, Counts, LatestAttempt, IsLatest, Running, WithStatus, Indexed, VideosOf
  <2>4. CASE Stage = "reindexing" /\ Stage' # "reindexing"
    <3>1. PICK p \in Procs : Reindexed(p)
      BY <1>1, <2>4, LeavesReindexing
    <3>2. AllIndexed
      BY <3>1 DEF Reindexed, CompleteReindexing, At, FreshInv, Refreshed
    <3> QED
      BY <2>2, <3>2 DEF StagesIndexed, AllIndexed
  <2>5. CASE Stage \notin {"acquiring", "reindexing"}
    BY <1>1, <2>2, <2>5 DEF StagesIndexed, AllIndexed
  <2> QED
    BY <2>3, <2>4, <2>5 DEF StagesIndexed
<1>6. ASSUME NEW k \in Keys, Starts(k)
      PROVE  StagesIndexed'
  <2>1. /\ Stage = "acquiring" /\ Stage' = "acquiring"
        /\ DOMAIN attempts' = DOMAIN attempts \cup {k} /\ Running(k)'
    BY <1>6 DEF Starts, Stage, Running, WithStatus
  <2>2. ASSUME NEW a \in DOMAIN attempts, Counts(a)'
        PROVE  Indexed(a)'
    <3>1. attempts'[a] = attempts[a] /\ ~Running(a)
      BY <1>6 DEF Starts, Running
    <3>2. Counts(a)
      BY <1>1, <1>6, <2>2, <3>1, NewestIsLatest DEF Counts
    <3> QED
      BY <1>1, <1>2, <2>1, <3>1, <3>2 DEF StagesIndexed
  <2> QED
    BY <2>1, <2>2 DEF StagesIndexed
\* The attempt that changes, and all the others.
<1>7. ASSUME NEW a \in DOMAIN attempts, NEW status, Changes(a, status),
             NEW b \in DOMAIN attempts, b # a, Counts(b)',
             Stage = "acquiring" \/ Stage \notin {"acquiring", "reindexing"}
      PROVE  Indexed(b)' \/ (Running(b) /\ Running(b)')
  <2>1. attempts'[b] = attempts[b]
    BY <1>7 DEF Changes
  <2>2. Counts(b)
    BY <1>7, <2>1, LatestStays DEF Changes, Counts
  <2>3. Indexed(b) \/ Running(b)
    BY <1>1, <1>7, <2>2 DEF StagesIndexed, AllIndexed
  <2>4. Running(b) => Running(b)'
    BY <1>7, <2>1 DEF Running, WithStatus, Changes
  <2> QED
    BY <1>2, <2>1, <2>3, <2>4
<1>8. ASSUME NEW a \in DOMAIN attempts, Resumes(a) \/ Progresses(a)
      PROVE  StagesIndexed'
  <2>1. Changes(a, "running") /\ DOMAIN attempts' = DOMAIN attempts /\ Running(a)'
    BY <1>8 DEF Resumes, Progresses, Changes, Running, WithStatus
  <2>2. Stage' = "acquiring" /\ Stage # "reindexing"
    BY <1>1, <1>8 DEF Resumes, Progresses, Transition, Stage, OrderInv, OneRunningAttempt,
       Running, WithStatus, TypeOK, SessionOK
  <2>3. ASSUME NEW b \in DOMAIN attempts, Counts(b)'
        PROVE  Indexed(b)' \/ Running(b)'
    BY <1>7, <2>1, <2>2, <2>3
  <2> QED
    BY <2>1, <2>2, <2>3 DEF StagesIndexed
<1>9. ASSUME NEW a \in DOMAIN attempts, Completes(a)
      PROVE  StagesIndexed'
  BY <1>9 DEF Completes, Transition, Stage, StagesIndexed
<1>10. ASSUME NEW a \in DOMAIN attempts, Fails(a) \/ PartlyFails(a)
       PROVE  AllIndexed'
  <2>1. /\ Changes(a, "failed_retryable") /\ DOMAIN attempts' = DOMAIN attempts
        /\ session' # session
    BY <1>1, <1>10 DEF Fails, PartlyFails, Changes, Transition
  <2>2. attempts'[a].outcomes = attempts[a].outcomes
    BY <1>1, <2>1, MovesKeepOutcomes
  <2>3. Stage # "reindexing" /\ \A b \in DOMAIN attempts : Running(b) => b = a
    BY <1>1, <1>10 DEF Fails, PartlyFails, Stage, OrderInv, OneRunningAttempt, Running, WithStatus
  <2>4. ASSUME NEW b \in DOMAIN attempts, b # a, Counts(b)'
        PROVE  Indexed(b)'
    BY <1>7, <2>1, <2>3, <2>4
  <2>5. ASSUME Counts(a)'
        PROVE  Indexed(a)'
    <3>1. CASE PartlyFails(a)
      BY <1>1, <1>2, <2>2, <3>1 DEF PartlyFails, Stage, StagesIndexed, AllIndexed, Counts
    <3>2. CASE Fails(a)
      <4>1. LatestAttempt(a)
        BY <2>1, <2>5, LatestStays DEF Counts, Changes
      <4>2. ~HasOutcome(a, Ready)
        BY <3>2, <4>1, FailsWithNothing
      <4> QED
        BY <2>2, <4>2 DEF HasOutcome, Indexed, VideosOf
    <3> QED
      BY <1>10, <3>1, <3>2
  <2> QED
    BY <2>1, <2>4, <2>5 DEF AllIndexed
<1> QED
  BY <1>1, <1>3, <1>4, <1>5, <1>6, <1>8, <1>9, <1>10 DEF Effect, StagesIndexed, AllIndexed

LEMMA FreshStep == WorkflowInv /\ FreshInv /\ [WorkflowNext]_workflowVars => FreshInv'
<1> SUFFICES ASSUME WorkflowInv, FreshInv, [WorkflowNext]_workflowVars PROVE FreshInv'
  OBVIOUS
<1>1. SnapshotStays' /\ ReadyIsHeld' /\ StagesIndexed'
  BY SnapshotStep, ReadyStep, StagesStep DEF FreshInv
<1>2. ASSUME NEW q \in Procs, NEW n, n = proc[q]
      PROVE  KnowsSnapshot(n)' /\ Refreshed(n)'
  BY <1>2, OthersKnow, OthersRefreshed DEF FreshInv
<1>3. ASSUME NEW q \in Procs, NEW n, n = proc'[q]
      PROVE  KnowsSnapshot(n)' /\ Refreshed(n)'
  <2>1. CASE n = proc[q]
    BY <1>2, <2>1
  <2>2. CASE ReadsOnly(q) \/ Writes(q)
    BY <1>3, <2>2, ActorKnows, ActorRefreshed DEF FreshInv
  <2>3. CASE DecideCommand \/ ApproveCommand \/ CancelCommand \/ UNCHANGED workflowVars
    BY <1>3, <2>1, <2>3 DEF DecideCommand, ApproveCommand, CancelCommand, Answerable, workflowVars
  <2>4. ASSUME NEW p \in Procs, p # q, ReadsOnly(p) \/ Writes(p)
        PROVE  n = proc[q]
    <3>1. PICK m : m = proc'[p]
      OBVIOUS
    <3>2. Progress(p, m)
      BY <2>4, <3>1, StepTransaction, ProcessStep
    <3> QED
      BY <1>3, <2>4, <3>2 DEF Progress, Becomes, WorkflowInv, Remembers
  <2> QED
    BY <2>1, <2>2, <2>3, <2>4, StepCases
<1>4. ASSUME NEW q \in Procs
      PROVE  KnowsSnapshot(proc[q])' /\ Refreshed(proc[q])'
  <2>1. PICK n : n = proc'[q]
    OBVIOUS
  <2> QED
    BY <1>3, <2>1 DEF KnowsSnapshot, Refreshed, Expected
<1> QED
  BY <1>1, <1>4 DEF FreshInv

LEMMA FreshInit == WorkflowInit => FreshInv
<1> SUFFICES ASSUME WorkflowInit PROVE FreshInv
  OBVIOUS
<1>1. DOMAIN attempts = {} /\ \A p \in Procs : proc[p].pc = "idle"
  BY DEF WorkflowInit, Init, Idle
<1> QED
  BY <1>1 DEF FreshInv, SnapshotStays, LatestInSnapshot, ReadyIsHeld, StagesIndexed, AllIndexed,
     KnowsSnapshot, Refreshed, Acquiring

\* When a session comes back to the sufficiency question, the indexes the answer
\* is looked up in hold every transcript of the latest batch, and of every batch
\* that ran through, whatever failed, died and was retried in between.
THEOREM AskedFresh == WorkflowSpec => []AskedOnFreshIndexes
<1>1. WorkflowSpec => []FreshInv
  BY FreshInit, FreshStep, WorkflowInvariant, PTL DEF WorkflowSpec
<1>2. FreshInv => AskedOnFreshIndexes
  BY DEF FreshInv, StagesIndexed, AllIndexed, Counts, LatestAttempt, AskedOnFreshIndexes, Stage
<1> QED
  BY <1>1, <1>2, PTL

-----------------------------------------------------------------------------
(* The store, as the commands use it.                                      *)

StoreHolds ==
  /\ TypeOK /\ OneRunningAttempt /\ AttemptsOrdered /\ OneDecisionPerRevision
  /\ PipelineHasItsAttempt /\ FailedAcquisitionHasAttempt

\* What ResearchStore guarantees to callers that send single transactions it
\* guarantees to commands that act on what they read earlier: settled outcomes
\* and stored answers are kept, and every stage has the attempt it needs.
THEOREM CommandsKeepStore == WorkflowSpec => []StoreHolds /\ SettledOutcomesKept /\ AnswersKept
<1> DEFINE Backed == PipelineHasItsAttempt /\ FailedAcquisitionHasAttempt
<1>1. WorkflowInit => Backed
  BY DEF WorkflowInit, Init, PipelineHasItsAttempt, FailedAcquisitionHasAttempt, WithStatus
<1>2. WorkflowInv /\ [WorkflowNext]_workflowVars
        => Effect /\ DecisionEffect /\ TypeOK /\ OrderInv
  BY StepTransaction, TransactionEffect, TransactionDecisionEffect DEF WorkflowInv
<1>3. WorkflowInv /\ Backed /\ [WorkflowNext]_workflowVars => Backed'
  BY <1>2, PipelineStep, FailedStep
<1>4. WorkflowInv /\ Backed => StoreHolds
  BY DEF StoreHolds, WorkflowInv, OrderInv, DecisionInv
<1>5. WorkflowInv /\ [WorkflowNext]_workflowVars => [KeepsSettled]_storeVars
  BY <1>2, SettledStep
<1>6. WorkflowInv /\ [WorkflowNext]_workflowVars => [KeepsAnswers]_storeVars
  <2>1. DecisionEffect => [KeepsAnswers]_storeVars
    BY DEF DecisionEffect, CreateSession, Decides, Answers, KeepsAnswers
  <2> QED
    BY <1>2, <2>1
<1> HIDE DEF Backed
<1> QED
  BY <1>1, <1>3, <1>4, <1>5, <1>6, WorkflowInvariant, PTL
     DEF WorkflowSpec, SettledOutcomesKept, AnswersKept

-----------------------------------------------------------------------------
(* A partial failure stays visible, if the commands of the session run one  *)
(* after the other.  A delayed retry of a second process can lose it, so    *)
(* the theorem is about one process, with its crashes and the user's        *)
(* decisions at any moment.                                                *)

InPipeline == Stage \in {"reindexing", "assessing"}

HalfDone(a) ==
  a \in WithStatus("completed") /\ HasOutcome(a, {"failed_retryable"}) /\ HasOutcome(a, Ready)

\* A process that may end the pipeline knows that its batch failed in part.
KnowsPartial(m) ==
  m.pc \in {"refresh", "reindexed", "assess"} /\ HalfDone(batch)
    => m.partial /\ m.attempt = batch

\* A retry that found no attempt to name does not resume the pipeline.
NamesBatch(m) ==
  m.pc = "claim" /\ m.attempt = NoAttempt /\ HalfDone(batch)
    => Incomplete(m.key) /\ decisions[m.key].target = "discovering"

PartialInv ==
  /\ \A a \in DOMAIN attempts : HalfDone(a) => a = batch /\ InPipeline
  /\ \A p \in Procs : KnowsPartial(proc[p]) /\ NamesBatch(proc[p])

OneAtATime == \A p, q \in Procs : p = q

\* Only an assessment takes a session out of the pipeline.
LEMMA LeavesPipeline ==
  ASSUME TypeOK, [WorkflowNext]_workflowVars, InPipeline, ~InPipeline'
  PROVE  \E p \in Procs : Assess(p)
<1> USE DEF InPipeline
<1>1. CASE DecideCommand \/ ApproveCommand \/ CancelCommand
  BY <1>1 DEF DecideCommand, ApproveCommand, CancelCommand, DecideSufficiency,
     ApproveCandidates, Cancel, Expected, Stage
<1>2. UNCHANGED storeVars => FALSE
  BY DEF storeVars, Stage
<1>3. ASSUME NEW p \in Procs, Writes(p), ~Assess(p), ~Claim(p)
      PROVE  FALSE
  BY <1>3 DEF Writes, Start, CreateSession, AssessmentFails, RecordFailure, Discover,
       RecordCandidates, DiscoveryFails, RefreshFails, Reindexed, CompleteReindexing,
       Reserves, StartAttempt, Record, RecordProgress, FailAcquisition,
       RecordAcquisitionFailure, FinishAcquisition, CompleteAttempt, Active, Complete,
       CompleteRetry, storeVars, Expected, Transition, Stage
<1>4. ASSUME NEW p \in Procs, Claim(p)
      PROVE  FALSE
  <2>1. \/ \E k, rev, a : ClaimRetry(k, rev, a) \/ ReclaimRetry(k, rev, a)
        \/ UNCHANGED storeVars
    BY <1>4 DEF Claim, Raise
  <2>2. ASSUME NEW k, NEW rev, NEW a, ClaimRetry(k, rev, a) PROVE FALSE
    BY <2>2 DEF ClaimRetry, RetryTarget, Transition, Stage
  <2>3. ASSUME NEW k, NEW rev, NEW a, ReclaimRetry(k, rev, a) PROVE FALSE
    BY <2>3 DEF ReclaimRetry, RestartsAttempt, RestartsStage, Transition, Stage
  <2> QED
    BY <1>2, <2>1, <2>2, <2>3
<1>5. ASSUME NEW p \in Procs, ReadsOnly(p) PROVE FALSE
  BY <1>2, <1>5, ReadsChangeNothing
<1> QED
  BY <1>1, <1>2, <1>3, <1>4, <1>5, StepCases DEF workflowVars

\* A half-done batch that is assessed becomes retryable.
LEMMA AssessSettles ==
  ASSUME WorkflowInv, PartialInv, [WorkflowNext]_workflowVars, NEW p \in Procs, Assess(p),
         NEW a \in DOMAIN attempts
  PROVE  ~HalfDone(a)'
<1>1. TypeOK /\ proc[p].pc = "assess" /\ (HalfDone(a) => a = batch)
  BY DEF WorkflowInv, Assess, At, PartialInv
<1>2. CASE proc[p].partial
  <2>1. PICK b : b = proc[p].attempt
    OBVIOUS
  <2>2. b \in DOMAIN attempts /\ SetStatus(b, "failed_retryable")
    BY <1>2, <2>1 DEF Assess, RecordPartialAssessment, PartiallyRetryable, WithStatus
  <2>3. Changes(b, "failed_retryable")
    BY <1>1, <2>2, SetStatusChanges DEF TypeOK
  <2>4. a = b => ~HalfDone(a)'
    BY <2>3 DEF Changes, HalfDone, WithStatus
  <2>5. a # b => (HalfDone(a)' => HalfDone(a))
    BY <2>3 DEF Changes, HalfDone, WithStatus, HasOutcome, VideosOf
  <2>6. HalfDone(a) => a = b
    BY <1>1, <2>1 DEF PartialInv, KnowsPartial
  <2> QED
    BY <2>4, <2>5, <2>6
<1>3. CASE ~proc[p].partial
  <2>1. attempts' = attempts
    BY <1>3 DEF Assess, RecordAssessment
  <2>2. ~HalfDone(a)
    BY <1>1, <1>3 DEF PartialInv, KnowsPartial
  <2> QED
    BY <2>1, <2>2 DEF HalfDone, WithStatus, HasOutcome, VideosOf
<1> QED
  BY <1>2, <1>3

LEMMA HalfDoneStep ==
  ASSUME WorkflowInv, PartialInv, [WorkflowNext]_workflowVars,
         NEW a \in DOMAIN attempts', HalfDone(a)'
  PROVE  a = batch' /\ InPipeline'
<1>1. /\ TypeOK /\ OrderInv /\ Effect
      /\ \A b \in DOMAIN attempts : HalfDone(b) => b = batch /\ InPipeline
  BY StepTransaction, TransactionEffect DEF WorkflowInv, PartialInv
<1>2. ASSUME NEW b \in DOMAIN attempts, NEW status, Changes(b, status), a # b
      PROVE  a = batch /\ InPipeline
  BY <1>1, <1>2 DEF Changes, HalfDone, WithStatus, HasOutcome, VideosOf
<1>3. CASE UNCHANGED attempts
  <2>1. HalfDone(a) /\ a \in DOMAIN attempts
    BY <1>3 DEF HalfDone, WithStatus, HasOutcome, VideosOf
  <2>2. InPipeline /\ a = batch
    BY <1>1, <2>1
  <2>3. batch' = batch
    BY <1>1, <1>3, <2>2 DEF Effect, CreateSession, Advances, Starts, Resumes, Progresses,
       Completes, Fails, PartlyFails, InPipeline, Stage
  <2>4. \A p \in Procs : ~Assess(p)
    BY <2>1, AssessSettles
  <2> QED
    BY <1>1, <2>2, <2>3, <2>4, LeavesPipeline
<1>4. ASSUME NEW k \in Keys, Starts(k)
      PROVE  FALSE
  <2>1. a # k
    BY <1>4 DEF Starts, HalfDone, WithStatus
  <2>2. HalfDone(a) /\ a \in DOMAIN attempts
    BY <1>4, <2>1 DEF Starts, HalfDone, WithStatus, HasOutcome, VideosOf
  <2> QED
    BY <1>1, <1>4, <2>2 DEF Starts, InPipeline, Stage
<1>5. ASSUME NEW b \in DOMAIN attempts, Resumes(b) \/ Progresses(b) \/ Fails(b)
      PROVE  FALSE
  <2>1. ~InPipeline
    BY <1>1, <1>5 DEF Resumes, Progresses, Fails, InPipeline, Stage, OrderInv,
       OneRunningAttempt, Running, WithStatus, TypeOK, SessionOK
  <2>2. PICK status \in {"running", "failed_retryable"} : Changes(b, status)
    BY <1>5 DEF Resumes, Progresses, Fails
  <2>3. a # b
    BY <2>2 DEF Changes, HalfDone, WithStatus
  <2> QED
    BY <1>2, <2>1, <2>2, <2>3
<1>6. ASSUME NEW b \in DOMAIN attempts, Completes(b)
      PROVE  a = batch' /\ InPipeline'
  <2>1. ~InPipeline /\ InPipeline' /\ batch' = b
    BY <1>6 DEF Completes, Transition, InPipeline, Stage
  <2> QED
    BY <1>2, <1>6, <2>1 DEF Completes
<1>7. ASSUME NEW b \in DOMAIN attempts, PartlyFails(b)
      PROVE  FALSE
  <2>1. InPipeline /\ ~InPipeline' /\ DOMAIN attempts' = DOMAIN attempts
    BY <1>7 DEF PartlyFails, Transition, InPipeline, Stage, Changes
  <2>2. PICK p \in Procs : Assess(p)
    BY <1>1, <2>1, LeavesPipeline
  <2> QED
    BY <2>1, <2>2, AssessSettles
<1> QED
  BY <1>1, <1>3, <1>4, <1>5, <1>6, <1>7 DEF Effect, CreateSession, Advances

\* A retry that resumes the pipeline resumes it for its batch.
LEMMA ClaimNamesBatch ==
  ASSUME WorkflowInv, PartialInv, NEW p \in Procs, Claim(p), HalfDone(batch),
         NEW k, k = proc[p].key, NEW rev, NEW a, a = proc[p].attempt,
         NEW target \in {"reindexing", "assessing"},
         \/ ClaimRetry(k, rev, a) /\ target = RetryTarget
         \/ ReclaimRetry(k, rev, a) /\ target = ReclaimTarget(k, a)
  PROVE  a = batch /\ UNCHANGED <<attempts, batch>>
<1>1. /\ TypeOK /\ batch \in DOMAIN attempts /\ InPipeline /\ proc[p].pc = "claim"
      /\ NamesBatch(proc[p])
  BY DEF WorkflowInv, PartialInv, HalfDone, WithStatus, Claim, At
<1>2. a = NoAttempt => Incomplete(k) /\ decisions[k].target = "discovering"
  BY <1>1 DEF NamesBatch
<1>3. CASE ClaimRetry(k, rev, a) /\ target = RetryTarget
  <2>1. k \notin DOMAIN decisions
    BY <1>3 DEF ClaimRetry, Claimable
  <2>2. a # NoAttempt
    BY <1>2, <2>1 DEF Incomplete
  <2> QED
    BY <1>3, <2>2 DEF ClaimRetry, Claimable, Acceptable, PipelineAttempt
<1>4. CASE ReclaimRetry(k, rev, a) /\ target = ReclaimTarget(k, a)
  <2>1. /\ \/ ResumesPipeline(k, a) \/ RestartsAttempt(k, a) \/ ContinuesAttempt(k, a)
           \/ RestartsStage(k, a) \/ ContinuesStage(k, a)
        /\ UNCHANGED batch
    BY <1>4 DEF ReclaimRetry, Reclaimable
  <2>2. ResumesPipeline(k, a) \/ ~ByAttempt(k, a)
    BY <1>4 DEF ReclaimTarget
  <2>3. CASE ~ByAttempt(k, a)
    <3>1. decisions[k].target = "discovering"
      BY <1>2, <2>3 DEF ByAttempt
    <3> QED
      BY <1>4, <2>1, <2>2, <2>3, <3>1
         DEF ReclaimTarget, ResumesPipeline, RestartsAttempt, ContinuesAttempt
  <2>4. CASE ResumesPipeline(k, a)
    <3>1. a = batch
      BY <2>4 DEF ResumesPipeline, PipelineAttempt
    <3>2. ~RestartsAttempt(k, a) /\ session.state # "failed_retryable"
      BY <2>4 DEF ResumesPipeline, RestartsAttempt
    <3> QED
      BY <1>4, <2>1, <3>1, <3>2 DEF ReclaimRetry, RestartsStage
  <2> QED
    BY <2>2, <2>3, <2>4
<1> QED
  BY <1>3, <1>4

LEMMA ActorKnowsPartial ==
  ASSUME WorkflowInv, PartialInv, [WorkflowNext]_workflowVars, NEW p \in Procs,
         ReadsOnly(p) \/ Writes(p), NEW m, m = proc'[p]
  PROVE  KnowsPartial(m)'
<1>1. SUFFICES ASSUME m.pc \in {"refresh", "reindexed", "assess"}, HalfDone(batch)'
               PROVE  m.partial /\ m.attempt = batch'
  BY DEF KnowsPartial
<1>2. /\ TypeOK /\ OrderInv /\ Remembers /\ KnowsPartial(proc[p])
  BY DEF WorkflowInv, PartialInv
<1>3. \/ RefreshIndexes(p) \/ FinishAcquisition(p) \/ Claim(p) \/ Start(p) \/ Reindexed(p)
  BY <1>1, <1>2, WaysThere
<1>4. ASSUME UNCHANGED <<attempts, batch>> PROVE HalfDone(batch)
  BY <1>1, <1>4 DEF HalfDone, WithStatus, HasOutcome, VideosOf
<1>5. CASE Start(p)
  BY <1>1, <1>2, <1>5
     DEF Start, CreateSession, OrderInv, AttemptsBefore, HalfDone, WithStatus
<1>6. CASE RefreshIndexes(p)
  <2>1. Go(p, [pc |-> "reindexed"]) /\ UNCHANGED <<attempts, batch>> /\ proc[p].pc = "refresh"
    BY <1>6 DEF RefreshIndexes, storeVars, At
  <2>2. m.partial = proc[p].partial /\ m.attempt = proc[p].attempt
    BY <1>2, <2>1, GoBecomes DEF Idle
  <2> QED
    BY <1>2, <1>4, <2>1, <2>2 DEF KnowsPartial
<1>7. CASE Reindexed(p)
  <2>1. /\ Go(p, [pc |-> "assess", rev |-> proc[p].rev + 1])
        /\ UNCHANGED <<attempts, batch>> /\ proc[p].pc = "reindexed"
    BY <1>7 DEF Reindexed, CompleteReindexing, At
  <2>2. m.partial = proc[p].partial /\ m.attempt = proc[p].attempt
    BY <1>2, <2>1, GoBecomes DEF Idle
  <2> QED
    BY <1>2, <1>4, <2>1, <2>2 DEF KnowsPartial
<1>8. CASE FinishAcquisition(p)
  <2>0. PICK a, next, partial :
          /\ a = proc[p].attempt
          /\ next = IF HasOutcome(a, Ready) THEN "refresh" ELSE "reindexed"
          /\ partial = HasOutcome(a, {"failed_retryable"})
    OBVIOUS
  <2>1. /\ Go(p, [pc |-> next, partial |-> partial, rev |-> proc[p].rev + 1])
        /\ a \in DOMAIN attempts /\ SetStatus(a, "completed") /\ batch' = a
    BY <1>8, <2>0 DEF FinishAcquisition, CompleteAttempt, Active, WithStatus
  <2>2. m.partial = partial /\ m.attempt = a
    BY <1>2, <2>0, <2>1, GoBecomes DEF Idle
  <2>3. attempts'[a].outcomes = attempts[a].outcomes
    BY <1>2, <2>1, SetStatusChanges DEF TypeOK
  <2>4. HasOutcome(a, {"failed_retryable"})
    BY <1>1, <2>1, <2>3 DEF HalfDone, HasOutcome, VideosOf
  <2> QED
    BY <2>0, <2>1, <2>2, <2>4
<1>9. CASE Claim(p)
  <2>0. PICK k, rev, a : k = proc[p].key /\ rev = proc[p].rev /\ a = proc[p].attempt
    OBVIOUS
  <2>1. PICK target :
          /\ \/ ClaimRetry(k, rev, a) /\ target = RetryTarget
             \/ ReclaimRetry(k, rev, a) /\ target = ReclaimTarget(k, a)
          /\ Resume(p, target, session'.revision)
    <3>1. ~\E r, error : Return(p, r, error)
      BY <1>1, <1>2, ReturnPc
    <3>2. ~Raise(p)
      BY <1>1, <1>2 DEF Raise, Remembers, Idle
    <3> QED
      BY <1>9, <2>0, <3>1, <3>2 DEF Claim
  <2>2. PICK next, partial : next = StageOf(target) /\ partial = PartlyFailed(a)
    OBVIOUS
  <2>3. Go(p, [pc |-> next, rev |-> session'.revision, partial |-> partial])
    BY <2>0, <2>1, <2>2 DEF Resume
  <2>4. m.pc = next /\ m.partial = partial /\ m.attempt = a
    BY <1>2, <2>0, <2>3, GoBecomes DEF Idle
  <2>5. target \in FailureTargets
    <3>1. ClaimRetry(k, rev, a) => session.state \in Retriable
      BY DEF ClaimRetry, Claimable, Acceptable, Expected, Retriable
    <3> QED
      BY <1>2, <2>1, <3>1, RetryTargetOK, ReclaimTargetOK DEF TypeOK
  <2>6. target \in {"reindexing", "assessing"}
    BY <1>1, <2>2, <2>4, <2>5 DEF StageOf, FailureTargets
  <2>7. UNCHANGED <<attempts, batch>>
    BY <1>1, <2>1, <2>6 DEF ClaimRetry, ReclaimRetry, RestartsAttempt, ReclaimTarget,
       ResumesPipeline
  <2>8. HalfDone(batch)
    BY <1>4, <2>7
  <2>9. a = batch
    BY <1>9, <2>0, <2>1, <2>6, <2>8, ClaimNamesBatch
  <2>10. a # NoAttempt
    BY <1>2, <2>8, <2>9, StoreAssumption DEF HalfDone, WithStatus, TypeOK, AttemptsOK
  <2>11. partial
    BY <2>2, <2>8, <2>9, <2>10 DEF PartlyFailed, HalfDone
  <2> QED
    BY <2>4, <2>7, <2>9, <2>11
<1> QED
  BY <1>3, <1>5, <1>6, <1>7, <1>8, <1>9

LEMMA ActorNamesBatch ==
  ASSUME WorkflowInv, PartialInv, NEW p \in Procs, ReadsOnly(p) \/ Writes(p), NEW m, m = proc'[p]
  PROVE  NamesBatch(m)'
<1>1. SUFFICES ASSUME m.pc = "claim", m.attempt = NoAttempt, HalfDone(batch)'
               PROVE  (Incomplete(m.key) /\ decisions[m.key].target = "discovering")'
  BY DEF NamesBatch
<1>2. TypeOK /\ Remembers
  BY DEF WorkflowInv
<1>3. FindAttempt(p) \/ ClaimLock(p)
  BY <1>1, <1>2, WaysThere
<1>4. UNCHANGED <<session, decisions, attempts, batch>>
  BY <1>3 DEF FindAttempt, ClaimLock, storeVars
<1>5. HalfDone(batch) /\ batch \in DOMAIN attempts /\ InPipeline
  BY <1>1, <1>4 DEF HalfDone, WithStatus, HasOutcome, VideosOf, PartialInv
<1>6. NoAttempt \notin DOMAIN attempts
  BY <1>2, StoreAssumption DEF TypeOK, AttemptsOK
<1>7. CASE FindAttempt(p)
  <2>1. PICK a \in RetryAttempts(proc[p].key, proc[p].rev) :
          Go(p, [pc |-> IF a = NoAttempt THEN "claim" ELSE "claim_lock", attempt |-> a])
    <3>1. proc' # [proc EXCEPT ![p] = Idle]
      BY <1>1, <1>2 DEF Remembers, Idle
    <3> QED
      BY <1>7, <3>1 DEF FindAttempt
  <2>2. m.attempt = a /\ m.key = proc[p].key
    BY <1>2, <2>1, GoBecomes DEF Idle
  <2>3. NoAttempt \notin StageAttempts
    <3>1. Pipelined /\ batch # NoAttempt
      BY <1>5, <1>6 DEF Pipelined, InPipeline, Stage
    <3>2. StageAttempts \subseteq {batch}
      BY <3>1 DEF StageAttempts
    <3> QED
      BY <3>1, <3>2
  <2>4. session.state # "awaiting_sufficiency"
    BY <1>5 DEF InPipeline, Stage
  <2>5. Incomplete(m.key) /\ decisions[m.key].target = "discovering"
    <3>1. NoAttempt \in RetryAttempts(m.key, proc[p].rev)
      BY <1>1, <2>2
    <3>2. NoAttempt \notin FreshRetryAttempts(proc[p].rev)
      BY <2>3 DEF FreshRetryAttempts
    <3>3. NoAttempt \in ReplayedRetryAttempts(m.key, proc[p].rev)
      BY <3>1, <3>2 DEF RetryAttempts
    <3> QED
      BY <2>3, <2>4, <3>3 DEF ReplayedRetryAttempts
  <2> QED
    BY <1>4, <2>5 DEF Incomplete
<1>8. CASE ClaimLock(p)
  <2>1. \E locks : Go(p, [pc |-> "claim", locks |-> locks])
    <3>1. proc' # [proc EXCEPT ![p] = Idle]
      BY <1>1, <1>2 DEF Remembers, Idle
    <3> QED
      BY <1>8, <3>1 DEF ClaimLock
  <2>2. m.attempt = proc[p].attempt
    BY <1>2, <2>1, GoBecomes DEF Idle
  <2>3. proc[p].attempt \in DOMAIN attempts
    BY <1>8 DEF ClaimLock, At, WorkflowInv, Works, Named
  <2> QED
    BY <1>1, <1>6, <2>2, <2>3
<1> QED
  BY <1>3, <1>7, <1>8

\* The user's decisions are taken when no pipeline is under way.
LEMMA UserLeavesPartial ==
  ASSUME WorkflowInv, PartialInv, NEW p \in Procs,
         DecideCommand \/ ApproveCommand \/ CancelCommand \/ UNCHANGED workflowVars
  PROVE  KnowsPartial(proc[p])' /\ NamesBatch(proc[p])'
<1>1. KnowsPartial(proc[p]) /\ NamesBatch(proc[p])
  BY DEF PartialInv
<1>2. UNCHANGED <<proc, attempts, batch>>
  BY DEF DecideCommand, ApproveCommand, CancelCommand, Answerable, DecideSufficiency,
     ApproveCandidates, Cancel, workflowVars, storeVars
<1>3. HalfDone(batch)' <=> HalfDone(batch)
  BY <1>2 DEF HalfDone, WithStatus, HasOutcome, VideosOf
<1>4. CASE UNCHANGED workflowVars
  BY <1>1, <1>3, <1>4 DEF workflowVars, storeVars, KnowsPartial, NamesBatch, Incomplete
<1>5. CASE DecideCommand \/ ApproveCommand \/ CancelCommand
  <2>1. ~InPipeline
    BY <1>5 DEF DecideCommand, ApproveCommand, CancelCommand, DecideSufficiency,
       ApproveCandidates, Cancel, Expected, InPipeline, Stage
  <2>2. ~HalfDone(batch)
    BY <2>1 DEF PartialInv, HalfDone, WithStatus
  <2> QED
    BY <1>3, <2>2 DEF KnowsPartial, NamesBatch
<1> QED
  BY <1>4, <1>5

LEMMA PartialStep ==
  OneAtATime => (WorkflowInv /\ PartialInv /\ [WorkflowNext]_workflowVars => PartialInv')
<1> SUFFICES ASSUME OneAtATime, WorkflowInv, PartialInv, [WorkflowNext]_workflowVars
             PROVE  PartialInv'
  OBVIOUS
<1>1. \A a \in DOMAIN attempts' : HalfDone(a)' => a = batch' /\ InPipeline'
  BY HalfDoneStep
<1>2. ASSUME NEW q \in Procs
      PROVE  KnowsPartial(proc[q])' /\ NamesBatch(proc[q])'
  <2>1. CASE DecideCommand \/ ApproveCommand \/ CancelCommand \/ UNCHANGED workflowVars
    BY <2>1, UserLeavesPartial
  <2>2. CASE ReadsOnly(q) \/ Writes(q)
    <3>1. PICK m : m = proc'[q]
      OBVIOUS
    <3>2. KnowsPartial(m)' /\ NamesBatch(m)'
      BY <2>2, <3>1, ActorKnowsPartial, ActorNamesBatch
    <3> QED
      BY <3>1, <3>2 DEF KnowsPartial, NamesBatch, Incomplete
  <2> QED
    BY <2>1, <2>2, StepCases DEF OneAtATime
<1> QED
  BY <1>1, <1>2 DEF PartialInv

\* With one process at a time, a batch that failed in part never ends as a
\* success, whenever the process dies, whatever retries the failure and
\* whatever the user decides meanwhile.
THEOREM PartialFailureKept ==
  ASSUME OneAtATime
  PROVE  WorkflowSpec => []PartialFailureStaysRetryable
<1>1. WorkflowInit => PartialInv
  <2>1. SUFFICES ASSUME WorkflowInit PROVE PartialInv
    OBVIOUS
  <2>2. DOMAIN attempts = {} /\ \A p \in Procs : proc[p].pc = "idle"
    BY <2>1 DEF WorkflowInit, Init, Idle
  <2> QED
    BY <2>2 DEF PartialInv, KnowsPartial, NamesBatch
<1>2. WorkflowInv /\ PartialInv /\ [WorkflowNext]_workflowVars => PartialInv'
  BY PartialStep
<1>3. PartialInv => PartialFailureStaysRetryable
  BY DEF PartialInv, HalfDone, InPipeline, Stage, PartialFailureStaysRetryable, Pipelined,
     WithStatus
<1> QED
  BY <1>1, <1>2, <1>3, WorkflowInvariant, PTL DEF WorkflowSpec

=============================================================================
