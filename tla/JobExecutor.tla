----------------------------- MODULE JobExecutor -----------------------------
(***************************************************************************)
(* JobExecutor (src/yt_insights/web/jobs.py): submissions from the request  *)
(* threads, one worker thread, a capacity semaphore and bounded records.    *)
(* Every action but the two marked external is one block under _lock.       *)
(***************************************************************************)
EXTENDS Naturals, Sequences, FiniteSets

CONSTANTS
  Ids,          \* the ids the factory can return; it never repeats one
  MaxQueued,    \* max_queued
  MaxRecords,   \* max_records
  NoJob

ASSUME ExecutorAssumption ==
  /\ MaxQueued \in Nat /\ MaxRecords \in Nat \ {0}
  /\ NoJob \notin Ids /\ IsFiniteSet(Ids)

VARIABLES
  records,      \* _records: job id -> status
  order,        \* _terminal_ids
  permits,      \* permits left in _capacity
  closed,       \* _closed
  queue,        \* work queue of the ThreadPoolExecutor
  thread,       \* its single worker thread
  job, pc,      \* what the worker thread executes
  issued,       \* ids the factory has returned
  accepted,     \* history: jobs whose submission succeeded, in order
  begun         \* history: jobs whose operation was started, in order

executorVars ==
  <<records, order, permits, closed, queue, thread, job, pc, issued, accepted, begun>>

historyVars == <<issued, accepted, begun>>

Terminal == {"succeeded", "failed"}

Unfinished == {id \in DOMAIN records : records[id] \notin Terminal}

In(s) == {s[i] : i \in DOMAIN s}

-----------------------------------------------------------------------------
(* _evict_terminal_records_locked on given records and terminal ids.        *)

Rest(terminal, n) == SubSeq(terminal, n + 1, Len(terminal))

Left(ids, terminal, n) == ids \ In(SubSeq(terminal, 1, n))

Enough(ids, terminal, n, reserve) ==
  n = Len(terminal) \/ Cardinality(Left(ids, terminal, n)) + reserve <= MaxRecords

\* The loop ends after n evictions.
Evicts(ids, terminal, n, reserve) ==
  /\ n \in 0..Len(terminal)
  /\ Enough(ids, terminal, n, reserve)
  /\ \A m \in 0..n - 1 : ~Enough(ids, terminal, m, reserve)

Keep(table, ids) == [id \in ids |-> table[id]]

-----------------------------------------------------------------------------
(* submit.                                                                 *)

Reservable(n) == ~closed /\ permits > 0 /\ Evicts(DOMAIN records, order, n, 1)

Room(n) == Cardinality(Left(DOMAIN records, order, n)) < MaxRecords

\* The executor starts its thread with the first work item.
Submit(id) == \E n \in 0..Len(order) :
  /\ Reservable(n) /\ Room(n)
  /\ id \notin issued
  /\ order' = Rest(order, n)
  /\ records' = [j \in Left(DOMAIN records, order, n) \cup {id} |->
                   IF j = id THEN "queued" ELSE records[j]]
  /\ permits' = permits - 1
  /\ queue' = Append(queue, id)
  /\ thread' = "alive"
  /\ issued' = issued \cup {id} /\ accepted' = Append(accepted, id)
  /\ UNCHANGED <<closed, job, pc, begun>>

\* Faulty: the record of a failed submission is not removed.
SubmitFails_KeepsRecord(id) == \E n \in 0..Len(order) :
  /\ Reservable(n) /\ Room(n)
  /\ id \notin issued
  /\ order' = Rest(order, n)
  /\ records' = [j \in Left(DOMAIN records, order, n) \cup {id} |->
                   IF j = id THEN "queued" ELSE records[j]]
  /\ issued' = issued \cup {id}
  /\ queue' \in {queue} \cup (IF thread = "none" THEN {Append(queue, id)} ELSE {})
  /\ UNCHANGED <<permits, closed, thread, job, pc, accepted, begun>>

\* Evictions stay; record and permit are given back.  The executor may raise
\* before it queues the item or, when the item is queued, because it cannot
\* start its thread: then an item without a record stays in the queue.
SubmitFails(id) == \E n \in 0..Len(order) :
  /\ Reservable(n) /\ Room(n)
  /\ id \notin issued
  /\ order' = Rest(order, n)
  /\ records' = Keep(records, Left(DOMAIN records, order, n))
  /\ issued' = issued \cup {id}
  /\ queue' \in {queue} \cup (IF thread = "none" THEN {Append(queue, id)} ELSE {})
  /\ UNCHANGED <<permits, closed, thread, job, pc, accepted, begun>>

\* Faulty: work that has not begun is cancelled.
Close_Cancels ==
  /\ ~closed
  /\ closed' = TRUE
  /\ queue' = <<>>
  /\ UNCHANGED <<records, order, permits, thread, job, pc, historyVars>>

Close ==
  /\ ~closed
  /\ closed' = TRUE
  /\ UNCHANGED <<records, order, permits, queue, thread, job, pc, historyVars>>

-----------------------------------------------------------------------------
(* The worker thread.                                                      *)

\* External: the thread takes the next item, before it runs _run.
Dequeue ==
  /\ thread = "alive" /\ pc = "idle" /\ queue # <<>>
  /\ job' = Head(queue) /\ pc' = "taken"
  /\ queue' = Tail(queue)
  /\ UNCHANGED <<records, order, permits, closed, thread, historyVars>>

\* Faulty: the job is listed for eviction when it begins.
Begin_MarksTerminal ==
  /\ pc = "taken"
  /\ job \in DOMAIN records
  /\ records' = [records EXCEPT ![job] = "running"]
  /\ begun' = Append(begun, job)
  /\ pc' = "operation" /\ job' = job
  /\ order' = Append(order, job)
  /\ UNCHANGED <<permits, closed, queue, thread, issued, accepted>>

\* A job without a record raises KeyError before its operation.
Begin ==
  /\ pc = "taken"
  /\ IF job \in DOMAIN records
     THEN /\ records' = [records EXCEPT ![job] = "running"]
          /\ begun' = Append(begun, job)
          /\ pc' = "operation" /\ job' = job
     ELSE pc' = "idle" /\ job' = NoJob /\ UNCHANGED <<records, begun>>
  /\ UNCHANGED <<order, permits, closed, queue, thread, issued, accepted>>

\* The operation returned or raised.
End(status) ==
  /\ pc = "operation"
  /\ IF job \in DOMAIN records
     THEN \E n \in 0..Len(order) + 1 :
            LET terminal == Append(order, job) IN
            /\ Evicts(DOMAIN records, terminal, n, 0)
            /\ order' = Rest(terminal, n)
            /\ records' = Keep([records EXCEPT ![job] = status],
                               Left(DOMAIN records, terminal, n))
     ELSE UNCHANGED <<records, order>>
  /\ permits' = permits + 1
  /\ pc' = "idle" /\ job' = NoJob
  /\ UNCHANGED <<closed, queue, thread, historyVars>>

\* External: after shutdown the thread ends when nothing is queued.
Exit ==
  /\ thread = "alive" /\ pc = "idle" /\ queue = <<>> /\ closed
  /\ thread' = "ended"
  /\ UNCHANGED <<records, order, permits, closed, queue, job, pc, historyVars>>

Worker == Dequeue \/ Begin \/ (\E status \in Terminal : End(status)) \/ Exit

ExecutorInit ==
  /\ records = [id \in {} |-> "queued"]
  /\ order = <<>> /\ queue = <<>>
  /\ permits = MaxQueued + 1
  /\ closed = FALSE
  /\ thread = "none" /\ job = NoJob /\ pc = "idle"
  /\ issued = {} /\ accepted = <<>> /\ begun = <<>>

ExecutorNext ==
  \/ \E id \in Ids : Submit(id) \/ SubmitFails(id)
  \/ Close
  \/ Worker

ExecutorSpec == ExecutorInit /\ [][ExecutorNext]_executorVars

\* Operations return (their downloads and indexing are bounded), and the
\* interpreter schedules the thread.
ExecutorFairness == WF_executorVars(Worker)

FairExecutor == ExecutorSpec /\ ExecutorFairness

-----------------------------------------------------------------------------
(* Properties.                                                             *)

Statuses == {"queued", "running"} \cup Terminal

ExecutorTypeOK ==
  /\ DOMAIN records \subseteq issued /\ issued \subseteq Ids
  /\ \A id \in DOMAIN records : records[id] \in Statuses
  /\ order \in Seq(Ids) /\ queue \in Seq(Ids)
  /\ accepted \in Seq(Ids) /\ begun \in Seq(Ids)
  /\ permits \in 0..MaxQueued + 1
  /\ closed \in BOOLEAN /\ thread \in {"none", "alive", "ended"}
  /\ pc \in {"idle", "taken", "operation"}
  /\ job \in Ids \cup {NoJob} /\ (pc = "idle" <=> job = NoJob)

\* Records and unfinished jobs stay bounded, and a permit is out for every
\* unfinished job and no other: neither a failed operation, nor a failed
\* submission, nor the orphaned item it may leave behind changes the count.
Bounded ==
  /\ Cardinality(DOMAIN records) <= MaxRecords
  /\ permits + Cardinality(Unfinished) = MaxQueued + 1

\* Work is refused as "queue full" only because of unfinished jobs: records of
\* jobs that ended always make way.
FullOnlyOfUnfinished ==
  ~closed /\ Cardinality(Unfinished) < MaxQueued + 1
          /\ Cardinality(Unfinished) < MaxRecords =>
    \E n \in 0..Len(order) : Reservable(n) /\ Room(n)

\* Jobs begin in the order in which they were accepted, each once, and nothing
\* begins whose submission was reported as failed.
InOrder == begun = SubSeq(accepted, 1, Len(begun))

\* A job that has not ended has its record: no poll answers "not found" for it.
UnfinishedKept ==
  Unfinished = {accepted[i] : i \in Len(begun) + 1..Len(accepted)}
                 \cup (IF pc = "operation" THEN {job} ELSE {})

\* The finished jobs that are remembered are the latest to have finished.
Finished == IF pc = "operation" THEN SubSeq(begun, 1, Len(begun) - 1) ELSE begun

LatestKept ==
  \E n \in 0..Len(Finished) :
    /\ order = Rest(Finished, n)
    /\ DOMAIN records \ Unfinished = In(order)

\* Every accepted job is carried out, also when the executor is closed.
AcceptedJobsEnd == \A id \in Ids : id \in In(accepted) ~> id \in In(Finished)

Service == INSTANCE JobService WITH
  open <- ~closed,
  jobs <- [id \in Ids |->
             IF id \in DOMAIN records
             THEN IF records[id] \in Terminal THEN "done" ELSE "pending"
             ELSE IF id \in In(accepted) THEN "forgotten" ELSE "unknown"]

\* The executor is the service the web application relies on.
KeepsJobs == Service!ServiceSpec

=============================================================================
