---------------------------- MODULE ReplayRegistry ----------------------------
(***************************************************************************)
(* _ReplayRegistry (src/yt_insights/web/application.py): requests with an   *)
(* idempotency key are executed once and answered alike, by threads that    *)
(* hold the registry's condition only for bookkeeping.  The operation of a  *)
(* request runs outside it, and may submit a job to the JobService.         *)
(*                                                                         *)
(* A record is named by the call that inserted it.                          *)
(***************************************************************************)
EXTENDS JobService, Naturals, Sequences, FiniteSets

CONSTANTS
  Calls,        \* calls of run
  Queued,       \* (route, key) pairs of routes that submit a job
  Started,      \* those of the route that starts a session
  Cancelled,    \* those of the route that cancels one
  Payloads,
  Maximum,      \* _maximum
  None

ASSUME RegistryAssumption ==
  /\ Maximum \in Nat \ {0} /\ IsFiniteSet(Calls)
  /\ None \notin Ids \cup Calls \cup Payloads

VARIABLES
  registry,     \* _records, oldest insertion first
  answer,       \* response and job_id of each call's record
  call          \* what each thread executes

registryVars == <<serviceVars, registry, answer, call>>

Identities == Queued \cup Started \cup Cancelled

\* failure_response is given by the route that starts a session only.
RecordsFailure(c) == call[c].identity \in Started

Unanswered == [status |-> "none", job |-> None]

At(c, pc) == call[c].pc = pc

Reply(c, reply) == call' = [call EXCEPT ![c].pc = "done", ![c].reply = reply]

Refuse(c, status) == Reply(c, [status |-> status, job |-> None])

In(s) == {s[i] : i \in DOMAIN s}

\* A record that is there is there once.
Without(s, d) ==
  IF d \notin In(s) THEN s
  ELSE LET k == CHOOSE i \in DOMAIN s : s[i] = d
       IN [i \in 1..Len(s) - 1 |-> s[IF i < k THEN i ELSE i + 1]]

-----------------------------------------------------------------------------
(* The first block under the condition.                                    *)

Send(c, identity, payload) ==
  /\ At(c, "new")
  /\ call' = [call EXCEPT ![c].pc = "look", ![c].identity = identity, ![c].payload = payload]
  /\ UNCHANGED <<serviceVars, registry, answer>>

\* Faulty: an answered record is evicted although its job still runs.
Evictable_Running(d) == answer[d].status # "none"

\* _terminal: JobNotFound counts as terminal.
Evictable(d) ==
  /\ answer[d].status # "none"
  /\ answer[d].job # None => jobs[answer[d].job] # "pending"

Same(c, d) == call[c].identity = call[d].identity

\* Faulty: only a record that has its answer is found.
Prior_Answered(c) == {d \in In(registry) : Same(c, d) /\ answer[d].status # "none"}

Prior(c) == {d \in In(registry) : Same(c, d)}

\* _reserve_slot removes the oldest terminal record when the registry is full.
Oldest(d) == \E i \in DOMAIN registry :
  /\ registry[i] = d /\ Evictable(d)
  /\ \A j \in 1..i - 1 : ~Evictable(registry[j])

Insert(c) ==
  /\ At(c, "look") /\ Prior(c) = {}
  /\ \/ Len(registry) < Maximum /\ registry' = Append(registry, c)
     \/ /\ Len(registry) >= Maximum
        /\ \E d \in In(registry) : Oldest(d) /\ registry' = Append(Without(registry, d), c)
  /\ answer' = [answer EXCEPT ![c] = Unanswered]
  /\ call' = [call EXCEPT ![c].pc = "operation"]
  /\ UNCHANGED serviceVars

Full(c) ==
  /\ At(c, "look") /\ Prior(c) = {}
  /\ Len(registry) >= Maximum
  /\ \A d \in In(registry) : ~Evictable(d)
  /\ Refuse(c, "job_queue_full")
  /\ UNCHANGED <<serviceVars, registry, answer>>

Agrees(c, d) == call[c].payload = call[d].payload

Conflict(c) ==
  /\ At(c, "look")
  /\ \E d \in Prior(c) : ~Agrees(c, d)
  /\ Refuse(c, "idempotency_conflict")
  /\ UNCHANGED <<serviceVars, registry, answer>>

Replay(c) ==
  /\ At(c, "look")
  /\ \E d \in Prior(c) :
       Agrees(c, d) /\ answer[d].status # "none" /\ Reply(c, answer[d])
  /\ UNCHANGED <<serviceVars, registry, answer>>

\* The other request is executing: wait for it, or give up at the deadline.
Wait(c) ==
  /\ At(c, "look")
  /\ \E d \in Prior(c) :
       /\ Agrees(c, d) /\ answer[d].status = "none"
       /\ \/ call' = [call EXCEPT ![c].pc = "waiting", ![c].prior = d]
          \/ Refuse(c, "request_in_progress")
  /\ UNCHANGED <<serviceVars, registry, answer>>

\* Notified, or the wait timed out: the record it waited for is read, which may
\* have left the registry since.
Wake(c) ==
  /\ At(c, "waiting")
  /\ IF answer[call[c].prior].status # "none"
     THEN Reply(c, answer[call[c].prior])
     ELSE call' = [call EXCEPT ![c].pc = "look", ![c].prior = None]
  /\ UNCHANGED <<serviceVars, registry, answer>>

-----------------------------------------------------------------------------
(* The operation and its completion.                                       *)

Succeed(c, status, job) ==
  call' = [call EXCEPT ![c].pc = "complete", ![c].reply = [status |-> status, job |-> job]]

\* _queued: the session was found fit, and the job executor has accepted.
Queue(c, id) ==
  /\ At(c, "operation") /\ call[c].identity \in Queued
  /\ \E old \in SUBSET Done : Accept(id, old)
  /\ Succeed(c, "accepted", id)
  /\ UNCHANGED <<registry, answer>>

Execute(c) ==
  /\ At(c, "operation") /\ call[c].identity \in Started \cup Cancelled
  /\ Succeed(c, "ok", None)
  /\ UNCHANGED <<serviceVars, registry, answer>>

\* The session has moved on, the executor is full or closed, a database fails.
Fail(c) ==
  /\ At(c, "operation")
  /\ call' = [call EXCEPT ![c].pc = IF RecordsFailure(c) THEN "complete" ELSE "discard",
                          ![c].reply = [status |-> "error", job |-> None]]
  /\ UNCHANGED <<serviceVars, registry, answer>>

\* _complete; a record that is gone raises and leaves the registry alone.
Complete(c) ==
  /\ At(c, "complete")
  /\ IF c \in In(registry)
     THEN answer' = [answer EXCEPT ![c] = call[c].reply] /\ Reply(c, call[c].reply)
     ELSE Refuse(c, "internal_error") /\ UNCHANGED answer
  /\ UNCHANGED <<serviceVars, registry>>

Discard(c) ==
  /\ At(c, "discard")
  /\ registry' = Without(registry, c)
  /\ Reply(c, call[c].reply)
  /\ UNCHANGED <<serviceVars, answer>>

\* The job service goes on by itself; submissions that are not replayed
\* (source previews) also make it forget jobs.
Jobs ==
  /\ \/ \E id \in Ids : Finish(id)
     \/ \E old \in (SUBSET Done) \ {{}} : Forget(old)
     \/ Shut
  /\ UNCHANGED <<registry, answer, call>>

Run(c) ==
  \/ Insert(c) \/ Full(c) \/ Conflict(c) \/ Replay(c) \/ Wait(c) \/ Wake(c)
  \/ (\E id \in Ids : Queue(c, id)) \/ Execute(c) \/ Fail(c)
  \/ Complete(c) \/ Discard(c)

RegistryInit ==
  /\ ServiceInit
  /\ registry = <<>>
  /\ answer = [c \in Calls |-> Unanswered]
  /\ call = [c \in Calls |-> [pc |-> "new", identity |-> None, payload |-> None,
                              prior |-> None, reply |-> Unanswered]]

RegistryNext ==
  \/ \E c \in Calls, identity \in Identities, payload \in Payloads : Send(c, identity, payload)
  \/ \E c \in Calls : Run(c)
  \/ Jobs

RegistrySpec == RegistryInit /\ [][RegistryNext]_registryVars

-----------------------------------------------------------------------------
(* Properties.                                                             *)

Statuses == {"none", "ok", "accepted", "error", "idempotency_conflict",
             "job_queue_full", "request_in_progress", "internal_error"}

Replies == [status : Statuses, job : Ids \cup {None}]

RegistryTypeOK ==
  /\ jobs \in [Ids -> {"unknown", "pending", "done", "forgotten"}] /\ open \in BOOLEAN
  /\ registry \in Seq(Calls) /\ Len(registry) <= Maximum
  /\ \A c \in Calls :
       /\ answer[c] \in Replies /\ call[c].reply \in Replies
       /\ call[c].identity \in Identities \cup {None}
       /\ call[c].payload \in Payloads \cup {None}
       /\ call[c].prior \in Calls \cup {None}
       /\ call[c].pc \in {"new", "look", "waiting", "operation", "complete", "discard", "done"}
       /\ At(c, "waiting") => call[c].prior \in Calls

Executing(c) == call[c].pc \in {"operation", "complete", "discard"}

\* Requests that execute and reservations in the registry are the same: eviction
\* takes no reservation, so _complete does not raise and no second request with
\* the key starts beside the first; and a key whose operation failed is free.
ReservationKept ==
  \A c \in Calls :
    /\ Executing(c) <=> c \in In(registry) /\ answer[c] = Unanswered
    /\ call[c].reply.status # "internal_error"

\* While a key's operation executes or its job is pending, no other request
\* with that key executes: eviction at the limit, failures that discard the
\* reservation and waiters that look again included.
Working(c) ==
  \/ Executing(c)
  \/ call[c].reply.job # None /\ jobs[call[c].reply.job] = "pending"

OneWorkPerKey ==
  \A c, d \in Calls :
    Same(c, d) /\ Executing(c) /\ Working(d) => c = d

\* Requests that are given one job asked for the same thing with the same key.
SharedJobsAgree ==
  \A c, d \in Calls :
    call[c].reply.job = call[d].reply.job /\ call[c].reply.job # None =>
      Same(c, d) /\ call[c].payload = call[d].payload

\* As long as callers use no more keys than the registry holds, a key submits at
\* most one job, however requests, failures and the end of jobs interleave.
OneJobPerKey ==
  Cardinality({call[c].identity : c \in {d \in Calls : ~At(d, "new")}}) <= Maximum =>
    \A c, d \in Calls :
      Same(c, d) /\ None \notin {call[c].reply.job, call[d].reply.job} =>
        call[c].reply.job = call[d].reply.job

=============================================================================
