----------------------------- MODULE ResearchPage -----------------------------
(***************************************************************************)
(* The page of one research session (web/src/lib/pages/research-workspace   *)
(* .ts): the evidence a user looks at while others -- another tab, the      *)
(* command line, an agent, a job -- move the session on, the decisions and  *)
(* jobs sent on the strength of it, and the job the page follows.           *)
(*                                                                         *)
(* The server is seen through its answers: a session is read in several     *)
(* transactions, each of which sees the store as it is then.  The store may *)
(* change the evidence of a session without a new revision only while it is *)
(* acquiring (RevisionNamesEvidence of ResearchStore).  Which generation of *)
(* an attempt is current is the matter of BrowserAttempts: here it is any.  *)
(***************************************************************************)
EXTENDS Naturals

CONSTANTS
  SessionStates,
  Acquiring,      \* the state in which outcomes are recorded without a revision
  Deciding,       \* states in which the page offers a decision, a synchronous POST
  Starting,       \* states in which the page offers to start a job
  Replayed,       \* those whose command the store recognises by its key
  Materials,      \* what assessment, candidates and acquisition history can be
  Works,          \* identities of jobs
  Nothing,
  MaxRevision     \* bound: no command commits on a session at this revision

ASSUME PageAssumption ==
  /\ Acquiring \in SessionStates
  /\ Deciding \subseteq SessionStates \ {Acquiring}
  /\ Starting \subseteq SessionStates
  /\ Nothing \notin Works \cup Nat
  /\ MaxRevision \in Nat

VARIABLES
  durable,   \* the session in the store
  started,   \* history: revisions on which a job has begun the page's command
  work,      \* jobs this page was told of: their status, basis and result
  post,      \* the request that changes something: a decision or an admission
  reading,   \* the request for a snapshot, as far as the server is with it
  page,      \* what the page shows, offers and waits for
  stored       \* sessionStorage: the job and the admission of this session

workspaceVars == <<durable, started, work, post, reading, page, stored>>

serverSide == <<durable, started, work>>

Evidence == [revision : Nat, state : SessionStates, material : Materials]

Snapshots == [evidence : Evidence, timeline : Nat \cup {Nothing}]

-----------------------------------------------------------------------------
(* The session moves on.                                                   *)

\* One more transition of the session, whoever asked for it.
Move ==
  /\ durable.revision < MaxRevision
  /\ \E s \in SessionStates, m \in Materials :
       durable' = [revision |-> durable.revision + 1, state |-> s, material |-> m]

\* record_acquisition_progress, start of an attempt: no new revision.
Progress ==
  /\ durable.state = Acquiring
  /\ \E m \in Materials : durable' = [durable EXCEPT !.material = m]

\* Somebody else's command, or the next step of a job.
Elsewhere ==
  /\ Move \/ Progress
  /\ UNCHANGED <<started, work, post, reading, page, stored>>

-----------------------------------------------------------------------------
(* GET of the session: four reads, one after the other.                    *)

Unread == [stage |-> "none", revision |-> 0, seen |-> Nothing]

Asked == [Unread EXCEPT !.stage = "asked"]

Seen(timeline) == [evidence |-> durable, timeline |-> timeline]

\* Faulty: no read is compared with the one before.
Unmoved_Never(r) == TRUE

\* The store is still at the revision the first read saw.
Unmoved(r) == durable.revision = r

ReadTo(next) ==
  /\ reading' = next
  /\ UNCHANGED <<serverSide, post, page, stored>>

RefuseRead == ReadTo([Unread EXCEPT !.stage = "refused"])

\* _require_session
ReadSession ==
  /\ reading.stage = "asked"
  /\ ReadTo([reading EXCEPT !.stage = "found", !.revision = durable.revision])

\* status: session, assessment, candidates and attempts in one transaction.
ReadSnapshot ==
  /\ reading.stage = "found"
  /\ IF Unmoved(reading.revision)
     THEN ReadTo([reading EXCEPT !.stage = "read", !.seen = Seen(Nothing)])
     ELSE RefuseRead

\* get_public_timeline, in a transaction of its own.
ReadTimeline ==
  /\ reading.stage = "read"
  /\ IF Unmoved(reading.revision)
     THEN ReadTo([reading EXCEPT !.stage = "timed", !.seen.timeline = durable.revision])
     ELSE RefuseRead

\* _require_session_revision, and the answer.
ReadAgain ==
  /\ reading.stage = "timed"
  /\ IF Unmoved(reading.revision)
     THEN ReadTo([reading EXCEPT !.stage = "answered"])
     ELSE RefuseRead

Reads == ReadSession \/ ReadSnapshot \/ ReadTimeline \/ ReadAgain

-----------------------------------------------------------------------------
(* POSTs at the server.                                                    *)

Unsent == [kind |-> "none", basis |-> Nothing, stage |-> "none", seen |-> Nothing,
           job |-> Nothing, mine |-> FALSE]

\* A request with the expected_revision of the evidence the user chose on.  One
\* that the page gave up may be served until the next is sent (a bound).
Sent(kind, basis) ==
  [Unsent EXCEPT !.kind = kind, !.basis = basis, !.stage = "sent", !.mine = TRUE]

PostTo(next) == post' = next /\ UNCHANGED <<reading, page, stored>>

\* The answer, if the page still waits for it.
Answer(next) == PostTo(IF post.mine THEN next ELSE Unsent)

\* The page waits no longer.
GivenUp ==
  IF post.stage \in {"sent", "committed"} THEN [post EXCEPT !.mine = FALSE] ELSE Unsent

\* Faulty: the state is compared, the revision is not.
Expects_State(basis, states) == durable.state \in states

\* The transaction of a command compares revision and state.
Expects(basis, states) ==
  durable.revision = basis.revision /\ durable.state \in states

\* decide, approve, cancel: the command is one transaction.
ServeDecision ==
  /\ post.kind = "decision" /\ post.stage = "sent"
  /\ Expects(post.basis, Deciding)
  /\ Move /\ PostTo([post EXCEPT !.stage = "committed"])
  /\ UNCHANGED <<started, work>>

\* _response reads a snapshot of its own, perhaps of a later revision.
AnswerDecision ==
  /\ post.stage = "committed"
  /\ Answer([post EXCEPT !.stage = "answered", !.seen = Seen(Nothing)])
  /\ UNCHANGED serverSide

\* The command is queued, or is one that the store knows to have begun.
Admissible(basis) ==
  \/ Expects(basis, Starting)
  \/ basis.revision \in started /\ basis.state \in Replayed

\* The key of a job names the revision, not what was shown of it.
Keyed(w, basis) == work[w].status # "unused" /\ work[w].basis.revision = basis.revision

\* A new identity; that of a lost job nobody names any more may stand for one.
Fresh(w) ==
  \/ work[w].status = "unused"
  \/ work[w].status = "gone" /\ w \notin {post.job, page.job, page.attempt, stored.job}

\* _queue_research
ServeAdmission(w) ==
  /\ post.kind = "admission" /\ post.stage = "sent"
  /\ Fresh(w)
  /\ Admissible(post.basis)
  /\ work' = [work EXCEPT ![w] = [status |-> "queued", basis |-> post.basis, result |-> 0]]
  /\ Answer([post EXCEPT !.stage = "accepted", !.job = w])
  /\ UNCHANGED <<durable, started>>

\* The replay registry still holds the answer to the same key.
RepeatAdmission(w) ==
  /\ post.kind = "admission" /\ post.stage = "sent"
  /\ Keyed(w, post.basis)
  /\ Answer([post EXCEPT !.stage = "accepted", !.job = w])
  /\ UNCHANGED serverSide

\* stale_revision, and workflow_conflict in the same revision.
ServeStale ==
  /\ post.stage = "sent"
  /\ IF post.kind = "decision" THEN durable.revision # post.basis.revision
                               ELSE ~Admissible(post.basis)
  /\ Answer([post EXCEPT !.stage = "stale"])
  /\ UNCHANGED serverSide

\* Any other error: the server is busy, the session is gone, a key conflicts.
ServeError ==
  /\ post.stage = "sent"
  /\ Answer([post EXCEPT !.stage = "refused"])
  /\ UNCHANGED serverSide

\* guarded_operation and the first transaction of the command.
BeginWork(w) ==
  /\ work[w].status = "queued" /\ Admissible(work[w].basis)
  /\ Move \/ Progress
  /\ started' = started \cup {work[w].basis.revision}
  /\ work' = [work EXCEPT ![w].status = "begun"]
  /\ UNCHANGED <<post, reading, page, stored>>

\* Its last transaction is done, or it could not begin.
EndWork(w) ==
  /\ work[w].status \in {"queued", "begun"}
  /\ work' = [work EXCEPT ![w].status = "ended", ![w].result = durable.revision]
  /\ UNCHANGED <<durable, started, post, reading, page, stored>>

\* The record of a job is evicted, or the server restarts.
LoseWork(w) ==
  /\ work[w].status \in {"queued", "begun", "ended"}
  /\ work' = [work EXCEPT ![w].status = "gone"]
  /\ UNCHANGED <<durable, started, post, reading, page, stored>>

Serves ==
  \/ ServeDecision \/ AnswerDecision \/ ServeStale \/ ServeError
  \/ \E w \in Works : ServeAdmission(w) \/ RepeatAdmission(w)
  \/ \E w \in Works : BeginWork(w) \/ EndWork(w) \/ LoseWork(w)

-----------------------------------------------------------------------------
(* The page reads.                                                         *)

Gone ==
  [pc |-> "gone", after |-> "none", shown |-> Nothing, enabled |-> FALSE,
   job |-> Nothing, attempt |-> Nothing, admission |-> Nothing,
   canContinue |-> FALSE, canRetry |-> FALSE, hidden |-> FALSE]

Turn(next) == page' = next

\* attachResearchWorkspace: a job that was stored is followed before anything is
\* read; an admission beside it is dropped.
Attach ==
  LET job == stored.job
      admission == IF job = Nothing THEN stored.admission ELSE Nothing
      opened == [Gone EXCEPT !.job = job, !.attempt = job, !.admission = admission]
  IN
    /\ page.pc = "gone"
    /\ stored' = [stored EXCEPT !.admission = admission]
    /\ IF job # Nothing
       THEN Turn([opened EXCEPT !.pc = "polling"]) /\ UNCHANGED reading
       ELSE Turn([opened EXCEPT !.pc = "loading", !.after = "initial"]) /\ reading' = Asked
    /\ UNCHANGED <<serverSide, post>>

\* The page is left or reloaded: its requests are aborted, not undone.
Leave ==
  /\ page.pc # "gone"
  /\ Turn(Gone) /\ reading' = Unread /\ post' = GivenUp
  /\ UNCHANGED <<serverSide, stored>>

\* loadSnapshot; `next` is the page while it waits.
Load(next, after) ==
  /\ Turn([next EXCEPT !.pc = "loading", !.after = after])
  /\ reading' = Asked

\* renderSnapshot puts fresh controls in place of the disabled ones.
Show(next, seen) == [next EXCEPT !.shown = seen, !.enabled = TRUE]

\* clearAdmissionForJob: an admission of the kind of the job that was followed.
OfAttempt(admission) ==
  /\ admission # Nothing /\ page.attempt # Nothing
  /\ work[page.attempt].basis.state = admission.state

Resting == [page EXCEPT !.pc = "idle", !.after = "none", !.attempt = Nothing]

\* What follows a load, when it has worked.
Loaded ==
  LET read == Show(Resting, reading.seen)
      clears == page.after = "job" /\ OfAttempt(page.admission)
  IN
    /\ page.pc = "loading" /\ reading.stage = "answered"
    /\ Turn([read EXCEPT !.admission = IF clears THEN Nothing ELSE @,
                         !.canRetry = @ \/ (page.after = "initial" /\ page.admission # Nothing)])
    /\ stored' = IF clears THEN [stored EXCEPT !.admission = Nothing] ELSE stored
    /\ reading' = Unread
    /\ UNCHANGED <<serverSide, post>>

\* A refused read, a lost connection: what was shown stays.  Controls are given
\* back after an admission (setDecisionButtonsDisabled), and only then.
LoadFailed ==
  /\ page.pc = "loading"
  /\ Turn([Resting EXCEPT !.enabled = @ \/ (page.after = "admission")])
  /\ reading' = Unread
  /\ UNCHANGED <<serverSide, post, stored>>

-----------------------------------------------------------------------------
(* Decisions: syncMutation, createExport.                                  *)

Idle == page.pc = "idle" /\ ~page.hidden

Offers(states) ==
  /\ Idle /\ page.shown # Nothing /\ page.enabled
  /\ page.shown.evidence.state \in states

Decide ==
  /\ Offers(Deciding)
  /\ Turn([page EXCEPT !.pc = "deciding", !.enabled = FALSE])
  /\ post' = Sent("decision", page.shown.evidence)
  /\ UNCHANGED <<serverSide, reading, stored>>

Decided ==
  /\ page.pc = "deciding" /\ post.mine /\ post.stage = "answered"
  /\ Turn(Show([page EXCEPT !.pc = "idle"], post.seen))
  /\ post' = Unsent
  /\ UNCHANGED <<serverSide, reading, stored>>

\* handleStale
DecisionStale ==
  /\ page.pc = "deciding" /\ post.mine /\ post.stage = "stale"
  /\ Load(page, "decision")
  /\ post' = Unsent
  /\ UNCHANGED <<serverSide, stored>>

\* Refused, or no answer: the command may yet be served.
DecisionFailed ==
  /\ page.pc = "deciding"
  /\ Turn([page EXCEPT !.pc = "idle", !.enabled = TRUE])
  /\ post' = GivenUp
  /\ UNCHANGED <<serverSide, reading, stored>>

Export ==
  /\ Offers(SessionStates)
  /\ Turn([page EXCEPT !.pc = "exporting", !.enabled = FALSE])
  /\ UNCHANGED <<serverSide, post, reading, stored>>

Exported ==
  /\ page.pc = "exporting"
  /\ Turn([page EXCEPT !.pc = "idle", !.enabled = TRUE])
  /\ UNCHANGED <<serverSide, post, reading, stored>>

-----------------------------------------------------------------------------
(* Jobs: submitAdmission.                                                  *)

\* startJob: the page asks the coordinator for the generation.
StartJob ==
  /\ Offers(Starting) /\ page.job = Nothing /\ page.admission = Nothing
  /\ Turn([page EXCEPT !.pc = "admitting", !.enabled = FALSE, !.canRetry = FALSE])
  /\ UNCHANGED <<serverSide, post, reading, stored>>

\* onRetryAdmission: on the revision of the admission, not of what is shown.
RetryAdmission ==
  /\ Idle /\ page.canRetry /\ page.job = Nothing /\ page.admission # Nothing
  /\ Turn([page EXCEPT !.pc = "admitting", !.enabled = FALSE, !.canRetry = FALSE])
  /\ UNCHANGED <<serverSide, post, reading, stored>>

Basis == IF page.admission # Nothing THEN page.admission ELSE page.shown.evidence

\* admit's task: the admission is stored, then sent.
SendAdmission ==
  /\ page.pc = "admitting"
  /\ Turn([page EXCEPT !.pc = "submitting", !.admission = Basis])
  /\ stored' = [stored EXCEPT !.admission = Basis]
  /\ post' = Sent("admission", Basis)
  /\ UNCHANGED <<serverSide, reading>>

\* clearDefinitiveAdmission
Cleared == [page EXCEPT !.admission = Nothing, !.canContinue = FALSE, !.canRetry = FALSE]

ClearStored == stored' = [stored EXCEPT !.admission = Nothing]

\* attempt_storage_unavailable, attempt_coordination_unavailable.
NotSent ==
  /\ page.pc = "admitting"
  /\ Turn([Cleared EXCEPT !.pc = "idle", !.enabled = TRUE])
  /\ ClearStored
  /\ UNCHANGED <<serverSide, post, reading>>

\* The coordinator finds the generation of a retried attempt over.
AttemptOver ==
  /\ page.pc = "admitting" /\ page.admission # Nothing
  /\ Load(Cleared, "admission")
  /\ ClearStored
  /\ UNCHANGED <<serverSide, post>>

Answered(stage) == page.pc = "submitting" /\ post.mine /\ post.stage = stage

\* The identity of the job replaces the admission, unless it cannot be stored.
Admitted ==
  LET following == [page EXCEPT !.pc = "polling", !.job = post.job, !.attempt = post.job,
                                !.canContinue = FALSE]
  IN
    /\ Answered("accepted")
    /\ \/ /\ Turn([following EXCEPT !.admission = Nothing])
          /\ stored' = [job |-> post.job, admission |-> Nothing]
       \/ Turn(following) /\ UNCHANGED stored
    /\ post' = Unsent
    /\ UNCHANGED <<serverSide, reading>>

\* stale_revision, workflow_conflict: the evidence is loaded again.
AdmissionStale ==
  /\ Answered("stale")
  /\ Load(Cleared, "admission") /\ ClearStored
  /\ post' = Unsent
  /\ UNCHANGED serverSide

\* not_found, invalid_request, a conflicting key that could be retired.
AdmissionRefused ==
  /\ Answered("refused")
  /\ Turn([Cleared EXCEPT !.pc = "idle", !.enabled = TRUE]) /\ ClearStored
  /\ post' = Unsent
  /\ UNCHANGED <<serverSide, reading>>

\* A conflicting key that could not be retired locks the page.
AdmissionLocked ==
  /\ Answered("refused")
  /\ Turn([page EXCEPT !.pc = "idle"])
  /\ post' = Unsent
  /\ UNCHANGED <<serverSide, reading, stored>>

\* shouldRetainAdmission: no answer within 15 s, or none that decides.
AdmissionUnknown ==
  /\ page.pc = "submitting"
  /\ Turn([page EXCEPT !.pc = "idle", !.enabled = TRUE, !.canRetry = TRUE])
  /\ post' = GivenUp
  /\ UNCHANGED <<serverSide, reading, stored>>

-----------------------------------------------------------------------------
(* The job that is followed: checkJob and pollResearchJob.                 *)

PageTurns(next) == Turn(next) /\ UNCHANGED <<serverSide, post, reading, stored>>

\* Faulty: a job that has begun counts as over.
Over_Begun(w) == work[w].status \in {"begun", "ended"}

Over(w) == work[w].status = "ended"

\* The job's generation is completed under the lock of its scope.
PollEnded ==
  /\ page.pc = "polling" /\ ~page.hidden /\ Over(page.job)
  /\ PageTurns([page EXCEPT !.pc = "completing"])

\* The job is dropped and the session is loaded.
Dropped ==
  /\ stored' = [stored EXCEPT !.job = Nothing]
  /\ Load([page EXCEPT !.job = Nothing], "job")
  /\ UNCHANGED <<serverSide, post>>

Completed == page.pc = "completing" /\ Dropped

\* The server does not know the job any more.
PollMissing ==
  /\ page.pc = "polling" /\ ~page.hidden /\ work[page.job].status = "gone"
  /\ Dropped

\* The polls are used up, a read fails, the page is hidden, complete fails.
Pause ==
  /\ page.pc \in {"polling", "completing"}
  /\ PageTurns([page EXCEPT !.pc = "idle", !.canContinue = TRUE])

\* onContinue
Continue ==
  /\ Idle /\ page.job # Nothing /\ page.canContinue
  /\ PageTurns([page EXCEPT !.pc = "polling", !.canContinue = FALSE])

\* Hiding the page aborts the polls; a read that is aborted offers nothing.
Hide ==
  /\ page.pc # "gone" /\ ~page.hidden
  /\ \E offered \in BOOLEAN :
       PageTurns(IF page.pc # "polling" THEN [page EXCEPT !.hidden = TRUE]
                 ELSE [page EXCEPT !.hidden = TRUE, !.pc = "idle", !.canContinue = offered])

\* onVisibility
Unhide ==
  /\ page.hidden
  /\ PageTurns(IF page.job # Nothing /\ page.pc = "idle"
               THEN [page EXCEPT !.hidden = FALSE, !.pc = "polling", !.canContinue = FALSE]
               ELSE [page EXCEPT !.hidden = FALSE])

-----------------------------------------------------------------------------

PageInit ==
  /\ durable \in [revision : {0}, state : SessionStates, material : Materials]
  /\ started = {}
  /\ work = [w \in Works |-> [status |-> "unused", basis |-> Nothing, result |-> 0]]
  /\ post = Unsent /\ reading = Unread
  /\ page = Gone
  /\ stored = [job |-> Nothing, admission |-> Nothing]

PageSteps ==
  \/ Attach \/ Leave \/ Loaded \/ LoadFailed
  \/ Decide \/ Decided \/ DecisionStale \/ DecisionFailed \/ Export \/ Exported
  \/ StartJob \/ RetryAdmission \/ SendAdmission \/ NotSent \/ AttemptOver
  \/ Admitted \/ AdmissionStale \/ AdmissionRefused \/ AdmissionLocked \/ AdmissionUnknown
  \/ PollEnded \/ Completed \/ PollMissing \/ Pause \/ Continue \/ Hide \/ Unhide

PageNext == Elsewhere \/ Reads \/ Serves \/ PageSteps

PageSpec == PageInit /\ [][PageNext]_workspaceVars

-----------------------------------------------------------------------------
(* Properties.                                                             *)

DurableOK == durable \in Evidence /\ started \subseteq Nat

WorkOK ==
  /\ work \in [Works -> [status : {"unused", "queued", "begun", "ended", "gone"},
                         basis : Evidence \cup {Nothing}, result : Nat]]
  /\ \A w \in Works : work[w].status # "unused" => work[w].basis \in Evidence

PostOK ==
  /\ post \in [kind : {"none", "decision", "admission"}, basis : Evidence \cup {Nothing},
               stage : {"none", "sent", "committed", "answered", "accepted", "stale", "refused"},
               seen : Snapshots \cup {Nothing}, job : Works \cup {Nothing}, mine : BOOLEAN]
  /\ post.stage # "none" => post.basis \in Evidence
  /\ post.stage = "answered" => post.seen \in Snapshots
  /\ post.stage = "accepted" => post.job \in Works

ReadingOK ==
  /\ reading \in [stage : {"none", "asked", "found", "read", "timed", "answered", "refused"},
                  revision : Nat, seen : Snapshots \cup {Nothing}]
  /\ reading.stage \in {"read", "timed", "answered"} => reading.seen \in Snapshots

PageShapes ==
  [pc : {"gone", "loading", "idle", "deciding", "exporting", "admitting", "submitting",
         "polling", "completing"},
   after : {"none", "initial", "decision", "admission", "job"},
   shown : Snapshots \cup {Nothing}, enabled : BOOLEAN,
   job : Works \cup {Nothing}, attempt : Works \cup {Nothing},
   admission : Evidence \cup {Nothing},
   canContinue : BOOLEAN, canRetry : BOOLEAN, hidden : BOOLEAN]

PageOK == page \in PageShapes

StoredOK ==
  stored \in [job : Works \cup {Nothing}, admission : Evidence \cup {Nothing}]

\* Every variable keeps its shape, and an answer holds what its kind promises.
PageTypeOK == DurableOK /\ WorkOK /\ PostOK /\ ReadingOK /\ PageOK /\ StoredOK

\* The evidence the user sees, where it is of the session's present revision.
Current(e) ==
  e.revision = durable.revision =>
    /\ e.state = durable.state
    /\ e.state # Acquiring => e.material = durable.material

\* What the page shows of a revision is what the session was at that revision:
\* the parts of a snapshot, read one after the other while others command, never
\* come from two revisions, and so while the revision stands the user sees the
\* session as it is.
EvidenceIsOfItsRevision ==
  page.shown # Nothing =>
    /\ Current(page.shown.evidence)
    /\ page.shown.evidence.revision <= durable.revision
    /\ page.shown.timeline \in {Nothing, page.shown.evidence.revision}

AcceptsOnEvidence ==
  /\ post.stage = "sent" /\ post'.stage = "committed" => post.basis = durable
  /\ \A w \in Works :
       work[w].status = "queued" /\ work'[w].status = "begun" /\ started' # started =>
         work[w].basis.revision = durable.revision /\ Current(work[w].basis)

\* A decision is committed, and a job begins what it was started for, only on a
\* session that is still as the user saw it when choosing -- however late the
\* request arrives, and whatever the page shows by then.
AcceptedOnItsEvidence == [][AcceptsOnEvidence]_workspaceVars

\* While the page follows a job of the session, or waits for anything, it offers
\* no decision on the evidence that the job is about to change.
NoChoiceWhileFollowing ==
  page.job # Nothing \/ page.pc # "idle" => ~page.enabled

\* A job that is followed and not polled can be continued by the user who sees
\* the page, whatever became of hiding, failing polls and failing completion.
JobIsFollowed ==
  page.pc = "idle" /\ page.job # Nothing /\ ~page.hidden => page.canContinue

ShowsResult ==
  /\ page.job # Nothing /\ page'.job # page.job =>
       page'.pc = "gone" \/ work[page.job].status \in {"ended", "gone"}
  /\ page.pc = "loading" /\ page.after = "job" /\ page'.enabled =>
       work[page.attempt].result <= page'.shown.evidence.revision

\* The page lets go of a job only once it is over, and a session that it loads
\* after that shows at least what the job has left.
JobResultShown == [][ShowsResult]_workspaceVars

=============================================================================
