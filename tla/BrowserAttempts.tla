--------------------------- MODULE BrowserAttempts ---------------------------
(***************************************************************************)
(* The pages that start long work in the browser (web/src/lib) and the      *)
(* server that runs it.  Every request that starts work carries a key made  *)
(* of a scope -- the fingerprint of a source plan, or of a research action  *)
(* -- and a generation, a number kept in localStorage for all tabs and      *)
(* guarded by a Web Lock per scope.  A tab keeps its attempt in its         *)
(* sessionStorage, which survives a reload.                                 *)
(*                                                                         *)
(* The server is what a page can see of it: the replay registry, the job    *)
(* service and the bounded cache of prepared plans (web/api.py).            *)
(***************************************************************************)
EXTENDS JobService, Naturals, Sequences, FiniteSets, SequencesExt

CONSTANTS
  Tabs,
  Plans,            \* scopes of the sources page: fingerprints of plans
  Actions,          \* scopes of the research page: session, kind, revision, language
  Size,             \* bytes of a plan's canonical form
  MaxPlans,         \* max_prepared_plans
  MaxBytes,         \* max_retained_identity_bytes
  MaxReplays,       \* _maximum of the replay registry
  MaxGeneration,    \* bound: no attempt is started beyond this generation
  MaxLate,          \* bound: requests given up that may still arrive
  MaxRestarts,      \* bound: restarts of the server
  Nothing

Scopes == Plans \cup Actions

Keys == Scopes \X (0..MaxGeneration)

ASSUME BrowserAssumption ==
  /\ Nothing \notin Ids \cup Tabs \cup Scopes
  /\ Size \in [Plans -> Nat \ {0}]
  /\ {MaxPlans, MaxBytes, MaxReplays, MaxGeneration, MaxLate, MaxRestarts} \subseteq Nat
  /\ \A p \in Plans : Size[p] <= MaxBytes

VARIABLES
  plans,        \* _prepared_plans, oldest first
  retained,     \* _retained_identity_bytes
  registry,     \* the replay registry: jobs of its records, oldest first
  work,         \* job -> the key it was accepted for, and whether a tab waited
  generation,   \* localStorage, shared by all tabs: scope -> generation
  holder,       \* Web Locks: scope -> tab that holds its lock
  tab,          \* what each tab shows and waits for
  saved,        \* sessionStorage of each tab: its attempt
  requests,     \* POST requests in flight
  restarts

serverVars == <<serviceVars, plans, retained, registry, work, restarts>>
browserVars == <<generation, holder, tab, saved>>
attemptVars == <<serverVars, browserVars, requests>>

NoAttempt == [stage |-> "none", scope |-> Nothing, generation |-> 0, job |-> Nothing]

Attempt(stage, s, g, job) == [stage |-> stage, scope |-> s, generation |-> g, job |-> job]

At(t, pc) == tab[t].pc = pc

Idle == [pc |-> "ready", attempt |-> NoAttempt, approved |-> Nothing]

\* The tab shows its attempt and waits for the user.
Rest(t, attempt) == [tab EXCEPT ![t].pc = "ready", ![t].attempt = attempt]

\* sessionStorage.setItem may fail; what was stored before stays.
Store(t, attempt) == saved' \in {[saved EXCEPT ![t] = attempt], saved}

Release(t) == [s \in Scopes |-> IF holder[s] = t THEN Nothing ELSE holder[s]]

Late == {r \in requests : r.tab = Nothing}

\* The request of a tab that no longer listens was lost, or stays under way.
GiveUp(t) ==
  LET mine == {r \in requests : r.tab = t} IN
    \/ requests' = requests \ mine
    \/ /\ Cardinality(Late) < MaxLate
       /\ requests' = (requests \ mine) \cup
                        {[r EXCEPT !.tab = Nothing] : r \in {q \in mine : q.answer = "none"}}

-----------------------------------------------------------------------------
(* Previews fill the cache of prepared plans.                              *)

Others(p) == SelectSeq(plans, LAMBDA q : q # p)

Bytes(seq) == FoldSeq(LAMBDA p, n : n + Size[p], 0, seq)

\* preview: the plan is cached anew, after the n oldest others have made room.
Evicted(p, n) ==
  LET rest == Others(p)
      prior == IF Contains(plans, p) THEN Size[p] ELSE 0
  IN
    /\ n \in 0..Len(rest)
    /\ LET kept == SubSeq(rest, n + 1, Len(rest))
           fits(i) == \/ i = Len(rest)
                      \/ /\ Len(rest) - i < MaxPlans
                         /\ retained - prior - Bytes(SubSeq(rest, 1, i)) + Size[p] <= MaxBytes
       IN /\ fits(n) /\ \A i \in 0..n - 1 : ~fits(i)
          /\ plans' = Append(kept, p)
          /\ retained' = retained - prior - Bytes(SubSeq(rest, 1, n)) + Size[p]

\* runPreview, its job and the poll that shows the plan: the tab may approve it.
Preview(t, p) ==
  /\ At(t, "ready") /\ tab[t].attempt = NoAttempt
  /\ \E n \in 0..Len(plans) : Evicted(p, n)
  /\ tab' = [tab EXCEPT ![t].approved = p]
  /\ UNCHANGED <<serviceVars, registry, work, restarts, generation, holder, saved, requests>>

-----------------------------------------------------------------------------
(* Admission: one request, sent and awaited under the lock of its scope.   *)

\* onAcquire, startJob.  generation 0 of `attempt` is not looked at yet.
Confirm(t, s) ==
  /\ At(t, "ready") /\ tab[t].attempt = NoAttempt
  /\ s \in Plans => tab[t].approved = s
  /\ generation[s] < MaxGeneration
  /\ tab' = [tab EXCEPT ![t].pc = "locking", ![t].attempt = Attempt("new", s, 0, Nothing)]
  /\ UNCHANGED <<serverVars, generation, holder, saved, requests>>

\* onRetryAdmission, with the attempt that was stored.
Retry(t) ==
  /\ At(t, "ready") /\ tab[t].attempt.stage = "admitting"
  /\ tab' = [tab EXCEPT ![t].pc = "locking"]
  /\ UNCHANGED <<serverVars, generation, holder, saved, requests>>

\* admit finds that the generation of the stored attempt is over.
Stale(t) ==
  LET a == tab[t].attempt IN
    /\ At(t, "locking") /\ a.stage = "admitting"
    /\ holder[a.scope] = Nothing
    /\ generation[a.scope] # a.generation
    /\ tab' = [tab EXCEPT ![t] = Idle]
    /\ saved' = [saved EXCEPT ![t] = NoAttempt]
    /\ UNCHANGED <<serverVars, generation, holder, requests>>

\* Faulty: the attempt is not compared with the generation under the lock.
Admit_Unchecked(t) ==
  LET a == tab[t].attempt
      g == IF a.stage = "new" THEN generation[a.scope] ELSE a.generation
  IN
    /\ At(t, "locking") /\ holder[a.scope] = Nothing
    /\ saved' = [saved EXCEPT ![t] = Attempt("admitting", a.scope, g, Nothing)]
    /\ requests' = requests \cup {[tab |-> t, scope |-> a.scope, generation |-> g,
                                   answer |-> "none", job |-> Nothing]}
    /\ holder' = [holder EXCEPT ![a.scope] = t]
    /\ tab' = [tab EXCEPT ![t] = [pc |-> "sending", approved |-> Nothing,
                                  attempt |-> Attempt("admitting", a.scope, g, Nothing)]]
    /\ UNCHANGED <<serverVars, generation>>

\* admit's task: the attempt is stored before its request is sent.
Admit(t) ==
  LET a == tab[t].attempt
      g == generation[a.scope]
  IN
    /\ At(t, "locking") /\ holder[a.scope] = Nothing
    /\ a.stage = "admitting" => a.generation = g
    /\ saved' = [saved EXCEPT ![t] = Attempt("admitting", a.scope, g, Nothing)]
    /\ requests' = requests \cup {[tab |-> t, scope |-> a.scope, generation |-> g,
                                   answer |-> "none", job |-> Nothing]}
    /\ holder' = [holder EXCEPT ![a.scope] = t]
    /\ tab' = [tab EXCEPT ![t] = [pc |-> "sending", approved |-> Nothing,
                                  attempt |-> Attempt("admitting", a.scope, g, Nothing)]]
    /\ UNCHANGED <<serverVars, generation>>

\* attempt_storage_unavailable: nothing is sent.
AdmitUnstored(t) ==
  /\ At(t, "locking") /\ holder[tab[t].attempt.scope] = Nothing
  /\ tab[t].attempt.stage = "admitting" =>
       tab[t].attempt.generation = generation[tab[t].attempt.scope]
  /\ tab' = Rest(t, NoAttempt)
  /\ saved' \in IF tab[t].attempt.scope \in Actions
                THEN {[saved EXCEPT ![t] = NoAttempt]} ELSE {saved}
  /\ UNCHANGED <<serverVars, generation, holder, requests>>

\* attempt_coordination_unavailable while the lock or the generation is asked
\* for: the research page drops its admission, the sources page keeps a retry.
Unavailable(t) ==
  LET a == tab[t].attempt
      kept == a.stage = "admitting" /\ a.scope \in Plans
  IN
    /\ At(t, "locking")
    /\ tab' = Rest(t, IF kept THEN a ELSE NoAttempt)
    /\ saved' = IF a.scope \in Actions THEN [saved EXCEPT ![t] = NoAttempt] ELSE saved
    /\ UNCHANGED <<serverVars, generation, holder, requests>>

-----------------------------------------------------------------------------
(* The server handles one POST at a time (LoopbackServer).                 *)

Recorded(r) ==
  {id \in ToSet(registry) :
     work[id].scope = r.scope /\ work[id].generation = r.generation}

Answer(r, answer, job) ==
  requests' = (requests \ {r}) \cup
    (IF r.tab = Nothing THEN {} ELSE {[r EXCEPT !.answer = answer, !.job = job]})

Replay(r) ==
  /\ r.answer = "none"
  /\ \E id \in Recorded(r) : Answer(r, "accepted", id)
  /\ UNCHANGED <<serverVars, browserVars>>

\* Where the oldest record is whose job has ended.
Oldest ==
  {i \in DOMAIN registry :
     /\ jobs[registry[i]] # "pending"
     /\ \A j \in 1..i - 1 : jobs[registry[j]] = "pending"}

\* The registry with a free place.
Room ==
  IF Len(registry) < MaxReplays THEN {registry}
  ELSE {RemoveAt(registry, i) : i \in Oldest}

\* prepare_acquisition finds the plan and the executor takes the job.
Run(r, id) ==
  /\ r.answer = "none" /\ Recorded(r) = {}
  /\ r.scope \in Plans => Contains(plans, r.scope)
  /\ registry' \in {Append(reg, id) : reg \in Room}
  /\ \E old \in SUBSET Done : Accept(id, old)
  /\ work' = [work EXCEPT ![id] = [scope |-> r.scope, generation |-> r.generation,
                                   late |-> r.tab = Nothing]]
  /\ Answer(r, "accepted", id)
  /\ UNCHANGED <<plans, retained, restarts, browserVars>>

\* plan_changed, or a research session that has moved on: the key is freed.
Refuse(r) ==
  /\ r.answer = "none" /\ Recorded(r) = {}
  /\ r.scope \in Plans => ~Contains(plans, r.scope)
  /\ registry' \in Room
  /\ Answer(r, "refused", Nothing)
  /\ UNCHANGED <<serviceVars, plans, retained, work, restarts, browserVars>>

\* job_queue_full, of the registry or of the executor.
Busy(r) ==
  /\ r.answer = "none" /\ Recorded(r) = {}
  /\ registry' \in IF Room = {} THEN {registry} ELSE Room
  /\ Answer(r, "busy", Nothing)
  /\ UNCHANGED <<serviceVars, plans, retained, work, restarts, browserVars>>

\* The executor goes on, and forgets jobs that are done.
Work ==
  /\ \/ \E id \in Ids : Finish(id)
     \/ \E id \in Done : Forget({id})
  /\ UNCHANGED <<plans, retained, registry, work, restarts, browserVars, requests>>

\* Everything the server kept in memory is gone, with the requests it had.
Restart ==
  /\ restarts < MaxRestarts /\ restarts' = restarts + 1
  /\ plans' = <<>> /\ retained' = 0 /\ registry' = <<>>
  /\ jobs' = [id \in Ids |-> IF jobs[id] = "unknown" THEN "unknown" ELSE "forgotten"]
  /\ requests' = {}
  /\ UNCHANGED <<open, work, browserVars>>

-----------------------------------------------------------------------------
(* The answer, or none of it.                                              *)

\* The lock is released with the task; what follows is stored without it.
Receive(t) ==
  \E r \in requests :
    /\ r.tab = t /\ At(t, "sending") /\ r.answer # "none"
    /\ requests' = requests \ {r}
    /\ holder' = Release(t)
    /\ LET a == tab[t].attempt IN
         \/ /\ r.answer = "accepted"
            /\ LET polling == [a EXCEPT !.stage = "polling", !.job = r.job] IN
                 /\ tab' = [tab EXCEPT ![t].pc = "polling", ![t].attempt = polling]
                 /\ Store(t, polling)
         \/ /\ r.answer = "refused" /\ a.scope \in Plans
            /\ LET finalizing == [a EXCEPT !.stage = "finalizing"] IN
                 /\ tab' = [tab EXCEPT ![t].pc = "completing", ![t].attempt = finalizing]
                 /\ Store(t, finalizing)
         \/ /\ r.answer = "refused" /\ a.scope \in Actions
            /\ tab' = [tab EXCEPT ![t] = Idle]
            /\ saved' = [saved EXCEPT ![t] = NoAttempt]
         \/ /\ r.answer = "busy"
            /\ tab' = Rest(t, a) /\ UNCHANGED saved
    /\ UNCHANGED <<serverVars, generation>>

\* Faulty: the lock stays with the request that timed out.
Abandon_Locked(t) ==
  /\ At(t, "sending")
  /\ GiveUp(t)
  /\ tab' = Rest(t, tab[t].attempt)
  /\ UNCHANGED <<serverVars, generation, saved, holder>>

\* admission_timeout, or the connection is lost: the attempt waits for a retry
\* while its request may still be on its way.
Abandon(t) ==
  /\ At(t, "sending")
  /\ GiveUp(t)
  /\ holder' = Release(t)
  /\ tab' = Rest(t, tab[t].attempt)
  /\ UNCHANGED <<serverVars, generation, saved>>

-----------------------------------------------------------------------------
(* Polling and the end of an attempt.                                      *)

Ended(t) ==
  \/ jobs[tab[t].attempt.job] = "done"
  \/ jobs[tab[t].attempt.job] = "forgotten" /\ tab[t].attempt.scope \in Plans

\* pollJob, pollResearchJob see the end, or (sources) that the job is gone.
Poll(t) ==
  /\ At(t, "polling") /\ Ended(t)
  /\ tab' = [tab EXCEPT ![t].pc = "completing"]
  /\ UNCHANGED <<serverVars, generation, holder, saved, requests>>

\* The research page finds the job gone: its generation is not completed.
NotFound(t) ==
  /\ At(t, "polling") /\ tab[t].attempt.scope \in Actions
  /\ jobs[tab[t].attempt.job] = "forgotten"
  /\ tab' = [tab EXCEPT ![t] = Idle]
  /\ saved' = [saved EXCEPT ![t] = NoAttempt]
  /\ UNCHANGED <<serverVars, generation, holder, requests>>

\* A read fails, the polls are used up, the page is hidden, or complete fails.
Pause(t) ==
  /\ tab[t].pc \in {"polling", "completing"}
  /\ tab' = Rest(t, tab[t].attempt)
  /\ UNCHANGED <<serverVars, generation, holder, saved, requests>>

\* onContinue, onVisibility; onRetryAdmission of an attempt that is finalizing.
Continue(t) ==
  /\ At(t, "ready") /\ tab[t].attempt.stage \in {"polling", "finalizing"}
  /\ tab' = [tab EXCEPT ![t].pc = IF tab[t].attempt.stage = "polling"
                                  THEN "polling" ELSE "completing"]
  /\ UNCHANGED <<serverVars, generation, holder, saved, requests>>

\* complete, under the lock.
Complete(t) ==
  LET a == tab[t].attempt
      next == IF generation[a.scope] > a.generation THEN generation[a.scope]
              ELSE a.generation + 1
  IN
    /\ At(t, "completing") /\ holder[a.scope] = Nothing
    /\ generation' = [generation EXCEPT ![a.scope] = next]
    /\ tab' = [tab EXCEPT ![t] = Idle]
    /\ saved' = [saved EXCEPT ![t] = NoAttempt]
    /\ UNCHANGED <<serverVars, holder, requests>>

\* The stored attempt is shown again; polling goes on by itself.
Reload(t) ==
  /\ tab' = [tab EXCEPT ![t] = [Idle EXCEPT !.attempt = saved[t],
                                !.pc = IF saved[t].stage = "polling" THEN "polling" ELSE "ready"]]
  /\ GiveUp(t)
  /\ holder' = Release(t)
  /\ UNCHANGED <<serverVars, generation, saved>>

\* A closed tab loses its sessionStorage; a fresh one takes its place.
Close(t) ==
  /\ tab' = [tab EXCEPT ![t] = Idle]
  /\ saved' = [saved EXCEPT ![t] = NoAttempt]
  /\ GiveUp(t)
  /\ holder' = Release(t)
  /\ UNCHANGED <<serverVars, generation>>

-----------------------------------------------------------------------------

\* localStorage keeps the generations of earlier sessions.
AttemptsInitFrom(before) ==
  /\ ServiceInit
  /\ plans = <<>> /\ retained = 0 /\ registry = <<>> /\ restarts = 0
  /\ work = [id \in Ids |-> [scope |-> Nothing, generation |-> 0, late |-> FALSE]]
  /\ generation = before
  /\ holder = [s \in Scopes |-> Nothing]
  /\ tab = [t \in Tabs |-> Idle]
  /\ saved = [t \in Tabs |-> NoAttempt]
  /\ requests = {}

AttemptsInit == \E before \in [Scopes -> 0..MaxGeneration] : AttemptsInitFrom(before)

TabStep(t) ==
  \/ (\E p \in Plans : Preview(t, p)) \/ (\E s \in Scopes : Confirm(t, s)) \/ Retry(t)
  \/ Stale(t) \/ Admit(t) \/ AdmitUnstored(t) \/ Unavailable(t) \/ Receive(t) \/ Abandon(t)
  \/ Poll(t) \/ NotFound(t) \/ Pause(t) \/ Continue(t) \/ Complete(t) \/ Reload(t) \/ Close(t)

Deliver(r) == Replay(r) \/ (\E id \in Ids : Run(r, id)) \/ Refuse(r) \/ Busy(r)

AttemptsNext ==
  \/ \E t \in Tabs : TabStep(t)
  \/ \E r \in requests : Deliver(r)
  \/ Work \/ Restart

\* A request ends by its timeout at the latest, and Web Locks serve the tabs
\* that wait in turn; nothing is assumed of the server or the user.
AttemptsFairness ==
  \A t \in Tabs :
    WF_attemptVars(Receive(t) \/ Abandon(t)) /\ SF_attemptVars(Stale(t) \/ Admit(t))

AttemptsSpec == AttemptsInit /\ [][AttemptsNext]_attemptVars /\ AttemptsFairness

-----------------------------------------------------------------------------
(* Properties.                                                             *)

\* The bytes counted for the cache of prepared plans are those of the plans it
\* holds, in any order of previews that repeat and evict, and within the limits.
PlansAccounted ==
  /\ retained = Bytes(plans) /\ retained <= MaxBytes
  /\ Len(plans) <= MaxPlans

Found(id) ==
  /\ generation[work[id].scope] = work[id].generation
  /\ id \in ToSet(registry)

Wanted(id) == jobs[id] = "pending" /\ ~work[id].late

\* While work runs that a page asked for and waited for, the generation of its
\* scope and the replay registry lead to it, so that every tab that confirms the
\* same plan or action uses its identity and starts no second job.
PendingWorkIsFound == \A id \in Ids : Wanted(id) => Found(id)

\* Reloads, closed tabs, lost answers, late requests, failing storage and locks,
\* and tabs that share a scope never make running work unfindable.  One step can:
\* a tab retires a generation under which it got another answer -- a refusal, or
\* a job whose record has been evicted -- after it has released the lock.
WorkStaysFound ==
  [][\A id \in Ids :
       Wanted(id)' /\ ~Found(id)' =>
         \/ Wanted(id) /\ ~Found(id)
         \/ \E t \in Tabs : /\ At(t, "completing") /\ tab[t].attempt.job # id
                            /\ tab[t].attempt.scope = work[id].scope
                            /\ tab[t].attempt.generation = work[id].generation]_attemptVars

\* A tab that waits for the lock of its scope gets on, although the tab that
\* holds it waits for a server that may never answer.
AdmissionsProceed == \A t \in Tabs : At(t, "locking") ~> ~At(t, "locking")

=============================================================================
