# Verification of YT Insights

TLA+ models of the parts of YT Insights (`src/`, the repository) in which
several processes, threads, browser tabs or requests meet, or in which an operation
can stop halfway; TLC configurations that check them on small instances; and theorems,
checked by TLAPS, that hold for every value of the constants.

Paths below are relative to `src/yt_insights/` unless they name another
directory of the repository.

Contents: [1 The system](#1-the-system) · [2 Modules](#2-modules) ·
[3 Runs](#3-runs) · [4 Proofs](#4-proofs) · [5 Findings](#5-findings) ·
[6 Not modelled](#6-not-modelled) · [7 Plan](#7-plan)

To repeat everything, in this directory:

    tlc -workers 2 -config MCResearchStore.cfg MCResearchStore     # one run
    tlapm ResearchStoreProofs.tla                                  # one proof module

## 1 The system

YT Insights keeps a local corpus of YouTube transcripts, analyses it with a
language model, indexes it, and runs "cumulative research": sessions in which
the user asks a question, is told what the corpus already knows, approves up to
five videos, and is asked again once these are in the corpus. A command line, an
MCP server and a loopback web application drive the same services.

| Component | State it keeps | Operations | What is hard about it | What makes it correct |
|---|---|---|---|---|
| Research store (`research/store.py`) | SQLite rows: session, assessments, candidates, decisions, attempts, outcomes, events | 14 write transactions, each guarded by state and revision; keys replay their answer | two processes with the same revision; a key replayed after anything else happened; an attempt claimed from three places | one running attempt, one decision per revision, settled outcomes and answers never change, every stage has the attempt that led to it |
| Research workflow (`research/workflow.py`) | nothing durable of its own: local variables, `flock` locks, the corpus and the index files | start, decide, discover, approve, cancel, acquire, retry | network and index work between transactions; death of the process at any point; locks taken after what they protect was read | no outcome is acquired twice, only approved videos are added, the question is asked on fresh indexes, an interrupted acquisition can be finished, partial failures stay retryable |
| Index publication (`acquisition.py`: `rebuild_and_publish_indexes`) | catalog and search database, receipts | rebuild and publish both, roll back both | two files replaced one after the other while sessions and rebuilds replace them too | no update is lost, the index stays usable, a failed refresh leaves nothing behind |
| Catalog (`catalog.py`) | `index.db` | writing sessions with a staged copy; import, reindexing, discoveries | a corpus that changes under an import; search rows kept up to date only for touched videos | rows agree with what they are made from, nothing known is forgotten |
| Full-text search index (`search/*`, `vtt_parser.py`) | FTS5 database, receipts | scan the corpus, parse captions, cut passages, build, query | files replaced, removed or edited while they are read; a duplicate makes a rebuild fail | every row is a text its file had, every usable file is there, every passage can be found |
| Source acquisition (`acquisition.py`: `execute_acquisition`; `downloader.py`, `analyzer.py`) | the corpus; the report of a run | plan, download, analyse, promote, refresh, report | several runs over one video; a run killed between two files; an error at any item | exit 0 is complete, insights fit their transcripts, reports tell what is there |
| Local assessment and readers (`research/assessment.py`, `search/sqlite_fts.py`) | an open catalog, a memory of validated files | ask the index and the catalog in many calls | files replaced between any two calls | evidence of one pair that was published together |
| Research discovery (`research/discovery.py`) | none | search per query, look into the catalog, choose round the channels | partial failures; channels of very different size | new videos, once, and fairly |
| Research dossier (`research/dossier.py`) | versioned directories | render, publish by rename with a backup | two exports to one destination; a failure between two renames | only a published dossier replaces another |
| Transcript exporter (`exporter.py`) | exported files | resolve, read, publish under a fixed temporary name | a transcript rewritten while it is read; two exports of one transcript | what is published is whole and of one instant |
| Assistant setup (`assistant_setup.py`) | managed files in the user's home, an ownership manifest, registrations with clients | plan, apply, roll back | editors that change a managed file between any two steps; a failure in the middle | no file of somebody else is lost, a failure restores, a killed run can be repeated |
| Web jobs (`web/jobs.py`) | bounded records, one worker thread, capacity semaphore | submit, get, close | capacity freed by the worker while requests submit; eviction of records that are still needed | accepted jobs end, records and queue stay bounded, only finished jobs are forgotten |
| Web application (`web/application.py`) | replay registry of idempotency keys | sixteen routes; queue research commands as jobs | two requests with one key, a key whose job is still running, eviction at the limit; a session read in several transactions | one execution per key, every duplicate gets the first answer; what is read is of one revision |
| Web server (`web/server.py`) | request slots, worker threads, closing flag | accept, dispatch under a lock, shut down | requests that arrive while the server closes | every started request is answered or cut off, shutdown ends |
| Web client coordination (`web/src/lib/*.ts`, the plan cache of `web/api.py`) | attempts in `sessionStorage`, generations in `localStorage`, Web Locks | confirm, admit, retry, poll, complete, reload | several tabs with the same work; requests lost, late or repeated; a server that forgets; a session that moves on while its page shows it | running work stays findable, a tab that waits gets on; nothing is accepted on other evidence than the user saw |
| Web API adapters, backends and text processing, command line, MCP server, web pages, repository scripts | none of their own | parse, render, call the above | | |

Interactions. The CLI, the MCP server and the web application call
`ResearchWorkflow`; several processes may do so at once. The workflow calls the
store (SQLite, `BEGIN IMMEDIATE`), takes `flock` locks that the kernel releases
with the process, downloads transcripts into the data root and calls the index
publication. The web application runs long commands through the job executor's
single worker thread and answers the request with the job's id; the pages poll.
Acquisitions, exports and the assistant setup take no lock at all: they work in
private directories and rely on exclusive links and renames, and on comparing
identities of files before and after. Readers take none either.

## 2 Modules

| Module | Models | Builds on |
|---|---|---|
| `ResearchStore` | every write transaction of one session | |
| `ResearchSession` | what a session promises its user (abstract) | |
| `ResearchWorkflow` | the commands, run by processes that may die | `ResearchStore`, refines `ResearchSession` |
| `JobService` | what the job executor promises its callers (abstract) | |
| `JobExecutor` | submissions, the worker thread, eviction, closing | refines `JobService` |
| `ReplayRegistry` | requests with idempotency keys, run by threads | composed with `JobService` |
| `LoopbackServer` | accept loop, request threads, dispatch lock, shutdown | |
| `IndexPublication` | catalog sessions, index refreshes with their rollbacks, standalone rebuilds | |
| `CatalogContents` | what sessions write: inventory, import, reindexing, discoveries | |
| `TopicDiscovery` | the provider that searches and chooses new videos | `CatalogContents` |
| `LocalAssessment` | readers of the published pair: an assessment, a server that keeps its index object | |
| `CorpusScan` | the scan of a changing corpus, the rows of a rebuild | |
| `PassageChunking` | captions into segments, segments into passages | |
| `SourceAcquisition` | runs that download, analyse, refresh and report | |
| `BrowserAttempts` | tabs that start work by keys, and the server as they see it | `JobService` |
| `ResearchPage` | one page of a research session, and the answers of the server to it | |
| `SetupTransaction` | runs of the assistant setup beside other programs | |
| `DossierPublication` | exports of a dossier to one destination | |
| `TranscriptExport` | exports of a transcript | |
| `ResearchStoreProofs`, `ResearchWorkflowProofs`, `ReplayRegistryProofs` | proofs about the module they are named after | TLAPS |
| `AcquisitionProofs` | proofs about `SourceAcquisition` and `BrowserAttempts` | TLAPS |
| `CatalogProofs` | proofs about `IndexPublication`, `CatalogContents`, `TopicDiscovery` and `PassageChunking` | TLAPS |
| `ServingProofs` | proofs about `JobExecutor`, `LoopbackServer` and `ResearchPage` | TLAPS |
| `SearchIndexProofs` | proofs about `CorpusScan` and `LocalAssessment` | TLAPS |
| `PublishedFilesProofs` | proofs about `DossierPublication`, `TranscriptExport` and `SetupTransaction` | TLAPS |
| `MCCatalog`, `MCPublishedFiles`, `MCSearchIndex`, `MCServing` | several components in one run | see below |
| `MCStaleRestart` | one long behaviour of `ResearchWorkflow`, given step by step | `ResearchWorkflow` |
| other `MC…` | instances for TLC: symmetry sets, bounds | |

`ResearchPage` needs no module of its own for TLC; its configuration gives the constants
their values.

Four MC modules put components side by side that belong together but share no
state: `MCCatalog` the publication of the catalog and what is written into it;
`MCPublishedFiles` the three programs that publish files beside those of others;
`MCSearchIndex` the way from the transcripts to the readers; `MCServing` the jobs and the
server that runs before them. A property there reads
the state of one component only, so that interleavings of two components add
nothing: each is explored while the others rest in one of their initial states.

Operators whose names contain an underscore and are commented "Faulty" are
variants that a plausible bug would produce. They are used to show that each
property of a run can fail; nothing in a specification refers to them.

### ResearchStore

One session of `research/store.py`. `session` is the `research_sessions` row
(state, revision, retry target). A snapshot of a session is named by its
revision, because every transition increments it (`_transition`, line 1418).
`decisions` is `research_decisions`, a function from the idempotency keys used
so far to their rows; `attempts` is `research_acquisition_attempts` joined with
its outcomes, a function from the keys of `acquire`, the column being UNIQUE;
`candidates` is the latest snapshot; `batch` is the attempt that
`_completed_attempt_for_pipeline` reads from the last
`acquisition_batch_recorded` event. A video without an outcome row is
`"pending"`.

Each operator is one `_write` transaction: its guards are the checks that would
raise, and a transaction that raises is rolled back and is therefore no step.
A replay of an answered key returns stored data and is no step either.
`claim_retry` is split by what it does: `ClaimRetry` is a fresh key;
`ReclaimRetry` a key with an unfinished reservation, with the five ways
`_retry_reservation_from_row` resumes it (`ResumesPipeline`, `RestartsAttempt`,
`ContinuesAttempt`, `RestartsStage`, `ContinuesStage`); `Finalizable` are the
reservations for which only `complete_retry` is left. `RetryAttempts` is
`acquisition_attempt_for_retry`, which tells the caller which lock to take.

`Next` lets any caller send any transaction at any time, with any revision, key,
attempt and videos, so what is shown here does not depend on the workflow.

### ResearchWorkflow

`proc` says what each process executes: the command, the place in it (`pc`), the
revision it believes the session has, the attempt, the videos left, and the
locks it holds. Between two store transactions any other process may run. The
network is nondeterministic: an item may be acquired, be found already present,
have no transcript, or fail; discovery returns any nonempty set or fails; the
index refresh and the assessment may fail. `Crash` ends a process after any
step, and its locks with it; a crash is also what an unexpected exception does to
a command. A transaction whose guard does not hold raises and ends the command
(`…Refused`). `corpus` is the set of videos whose transcript is in the data root;
`indexed` is what the published indexes were built from.

Commands read the session's current revision when they begin. That is how the
CLI and the web pages use them, and it is the weaker choice only for the user
decisions, where an older revision would be refused by `Expected`; for those the
stale case is covered by `ResearchStore`. A retry key is replayed with the
revision it was first sent with, as `complete_retry` requires.

### ResearchSession

The promise: the phases a user sees, `consented`, the videos approved so far, and
`held`, the videos the session added to the corpus. `Hold(v)` requires consent.
`KeepsPromise` is the refinement `ResearchWorkflow => Promised!SessionSpec` with
`phase <- Phase, consented <- ConsentedVideos, held <- corpus`.

### JobExecutor and JobService

`records`, `order` (`_terminal_ids`), `permits` (the semaphore) and `closed` are
the executor's fields; every action is one block under `_lock`. What is external
is the `ThreadPoolExecutor`: `queue` is its work queue, `thread` its only worker.
It puts an item into its queue before it starts the thread, so that a submission
that fails because the thread cannot be started leaves an orphan item; `Dequeue`
may take one, and `Begin` then finds no record, which is what the early return of
`_run` is for. `issued`, `accepted` and `begun` are histories.
`_evict_terminal_records_locked` is `Evicts`: the least number of evictions after
which there is room, or all of them. A job's result is its status.

`JobService` is what callers may rely on: a job is pending until it is done, and
only a job that is done may be forgotten. `KeepsJobs` is the refinement.

### ReplayRegistry

`_ReplayRegistry.run` of `web/application.py`, executed by any number of threads;
a record is named by the call that inserted it, and each block under the condition
is one action. The operation runs between two of them: it submits a job (`Queue`),
executes at once (`Execute`) or raises (`Fail`). The jobs behind it are those of
`JobService`, so what holds here holds for any executor that implements it. The
deadline of a waiter is nondeterministic: in `Wait` and `Wake` a call may give up
or look again at any time.

`_LoopbackServer` hands requests to the application one at a time (`_dispatch_lock`),
so that in today's server no two calls of `run` overlap. The registry has a condition,
waiters and a deadline of its own all the same; it is checked against that
contract, with concurrent callers.

### LoopbackServer

The states of a connection are the points of `process_request`,
`process_request_thread` and `dispatch_application` between which another thread
may act. `open` is `_active_sockets`; `CutOff` empties it, after which blocked
reads and writes of the threads fail. The loop ends by an interrupt in its own
thread (`Interrupt`, as `cli_web.serve_command` does; then `server_close`) or because another
thread calls `shutdown` (`ShutDown`, then `server_close`). A request is for the
application (`Parse`) or is answered directly; a read ends with data, with its
time-out or because its socket was cut off.

### IndexPublication

Every process stands for one call: a writing session of `Catalog`, a call of
`rebuild_and_publish_indexes`, or a standalone `SQLiteFtsIndex.rebuild`, which
takes no lock. An action is one change of the published files (a rename or an
exchange), with the checks that come before it. A file has the identity of the
process that put it there, which stands for device and inode: the sessions compare
identities, and a restored file has a new one. A session adds one row, its own;
`corpus` counts the changes of the transcripts, and a catalog or index carries the
version it was built from. `receipts` are the generation receipts beside the
search index.

Failing calls are counted by `MaxFaults`. A rollback may fail for what made it
necessary (`AlsoFails`), before or after it has replaced a file; the call then
ends `"broken"`. A process may die at any point; the kernel releases its lock, and
its files stay where they are.

### CatalogContents and TopicDiscovery

`tables` are the tables of the catalog, `visit` the session under way: a private copy
that `EndSession` publishes and `Abandon` drops, so that there is one at a time (the
lock and the publication are `IndexPublication`'s). An import lists its layout
directories one after the other (`ListLayout`, each in one instant), then takes the
items in their order (`SkipItem`, `FailItem`, `ImportItem`), drops the sources that
nothing is left of, and reindexes the videos it thinks it has touched; a discovery
ingests its videos. `Edit` writes, removes, moves and relabels files between any two
of these. Titles stand for title and date, bytes for what is in a file: readable,
`Broken` (cannot be decoded) or `Incomplete` (imported with an issue).

`TopicDiscovery` extends it with the provider: one search after the other, each with
records that may be invalid or with an error, the look into the published catalog,
and `RoundRobin`, stated as the order in which channels take turns rather than as the
loop of `_round_robin_channels`.

Behaviour of the code that no property claims away: a file that moves between two
listings is imported under both sources, and the first slug lingers until a later
import finds it moved; bytes replaced at one path leave the row of the old bytes
searchable; names without a date are indexed by `scan_corpus` but are no artifacts of
the catalog; the record of an import that fails goes with its stage.

### CorpusScan and PassageChunking

A path leads to an inode, an inode has two parts, each with the stamp of the write
that left it; a removed inode may be given to a new file. `Glob`, `Stat` and `Channel`
are the inventory (the paths that are there, in their order, then one file after the
other); then every candidate is opened, read, parsed, opened again and read
again, and `Compare` is the decision of `_read_stable_source`. `World` replaces,
removes, edits and relabels between any two steps. Every write leaves a stamp of its
own, so a write that restores the very bytes is not told apart. A file that is not
regular is `Symlink`. `Rebuild` writes the rows: two documents with one `document_id`
(a transcript in its channel's directory and beside the directories, say) make it fail,
and go on doing so until one of them is removed.

`PassageChunking` computes `parse_vtt_timestamped` (the first of repeated captions,
in the stable order of their times) and takes one step per turn of the loop of
`build_passages`. A text is its number of words; an empty one is an annotation.

### LocalAssessment

The readers of the pair. A file has an inode, a change time and, when it was written
in place, is `damaged`: `Object` is the identity of four fields the assessment's
generations use, `CatalogIdentity` that of five fields, which also sees that a file
was renamed. A search is five steps (`Inspect`, `OpenIndex`, `Contract`, `Hash`,
`Query`), as `SQLiteFtsIndex.search` makes them; the assessment makes a new object for
every search, the server keeps one and with it `cache`. The publications are those of
`IndexPublication` as a reader sees them: receipts, replaced, exchanged, put back and
removed files. An exchange that is reversed brings the same catalog object back, with
a later change time; the assessment holds an open copy and compares that.

### SourceAcquisition

`Runs` are calls of `execute_acquisition` over one corpus: `transcripts` and
`insights` tell which run's file has a name, `None` that there is none. The actions
follow the loop: `Skip` and `Look` decide what to do with the next video (the circuit
that opens after a refusal is the plan's, not the corpus'), `Download` works alone and
promotes by an exclusive link, `Read` looks at the directory again, `Analyze` and
`Promote` do the same for insights, `Check`, `Refresh`, and the report, whose
`ExitCode` is that of `AcquisitionReport`. The refresh is one instant here. The `.md`
beside an insight is part of it. A video found under two titles has two names; two runs
may then download it twice, which the exporter refuses as ambiguous.

### BrowserAttempts

A tab's stages are those of both pages' attempts (`sources.ts`, `research-workspace.ts`,
`source-attempt-coordinator.ts`): an attempt is stored before its request is sent,
the request is sent and awaited under the Web Lock of its scope, and what comes after
(`Poll`, `Pause`, `Complete`) is stored without it. A request that times out may still
arrive (`Late`). The server is what a page can see: the registry of keys, the jobs of
`JobService`, the cache of prepared plans with its two limits, and a `Restart` that
forgets all of them. A key determines its payload, so `idempotency_conflict` cannot
occur. The research page drops a job it does not find without completing its
generation (`NotFound`); the sources page completes it.

### ResearchPage

One page of a session (`research-workspace.ts`) from the moment it is opened until it is
left, any number of times, and what the server does for it. `durable` is the session in the
store: revision, state, and as `material` what is shown of it beside. Others move it
on at any time (`Elsewhere`): with a new revision, or without one while it is acquiring,
which is what `RevisionNamesEvidence` shows of the store. `reading` is the GET of the
session, in the four transactions in which the server reads it (`ReadSession`,
`ReadSnapshot`, `ReadTimeline`, `ReadAgain`), each of which compares the revision. `post` is
a decision (one transaction, `ServeDecision`, whose answer is read in another,
`AnswerDecision`) or the admission of a job; `mine` is false once the page does not
wait for it any more, and it may be served all the same. `work` are the jobs this page was told
of: `Admissible` is what is compared when a job is queued and again when it begins; a
command the store knows by its key (`started`) passes at any revision. A lost job is `"gone"`.

`page.pc` is the place of the page in its handlers: `"loading"` with `after`, what waits for
the load, `"deciding"`, `"exporting"`, `"admitting"` (the coordinator is asked), `"submitting"`
(the request is sent), `"polling"`, `"completing"` and `"idle"`; the code is `busy` in all of
them but `"idle"` and the first load. `enabled` is whether the controls of `renderDecision`
can be used, which is no function of the rest: they are disabled when something is sent, new ones
replace them when a snapshot is rendered, and some of the ways to fail give them back
(`setDecisionButtonsDisabled`). `canContinue` and `canRetry` are the two buttons of the job
panel. `stored` is `sessionStorage`.

The generations of attempts are the matter of `BrowserAttempts`; here the coordinator may
find an attempt over at any time (`AttemptOver`), and the identity of a job names the revision it
was admitted on. At most one POST is on its way: one that was given up may be served until
the next is sent.

### SetupTransaction

One run at a time of `setup assistants --apply`, beside programs that edit the same
home. `live` is what is at the path of each file, `aside` what lies under private
names; a file knows who made it and what is in it. `Start` is the whole plan; the
files are then staged, moved away, compared, published by an exclusive rename and
looked at again (`Stage`, `Check`, `Move`, `Publish`, `Verify`), with the rechecks
between them in one instant; `Register` is `mcp add`. `created` and `replaced` are the two
lists of `AssetTransaction`. `undo` is the list of what a rollback has still to take back
(the restoration of a backup follows the removal of what replaced it, `Rest`), `Keep` the
recovery directory, `reported` what the report names. `edited` is a history variable: when
others changed a file in this run, what they left there last, and all they ever left.

`RollbackRestores` claims for a file that others only edited that their last version is
there. For one that they removed it claims less: a version they had left earlier may be
aside for inspection when they remove its successor, and is then put back.

Not claimed, because the code does otherwise: a special file (a directory, a link)
that appears between the check and the rename is taken away and neither restored nor
reported (lines 1203–1225); a kill between the two renames of the manifest loses the
record of ownership; after a killed upgrade a run of another package version is
blocked, and after a kill behind `mcp add` so is every run that registers; a rollback
removes a registration that somebody else made at the same time.

### DossierPublication

`at` maps the entries of the parent directory (the destination, and a staging, a
backup and a cleanup name for each writer) to directories, `content` says whether a
directory holds both files, one, or none. The steps are the renames of `_publish_stage`
with the comparisons before and after each, and the steps back. `Intrude` is another
program that creates the destination.

### TranscriptExport

The corpus is two shelves with a transcript per language and a metadata file; texts
and inodes are counted by the change that made them, as the modification time does.
`Resolve` is one instant; the guarded read is six steps, in which the file may be
rewritten, replaced or removed; the temporary name is fixed by the output's, created
exclusively and unlinked on every path. `room` is the exports directory, which may be
moved away. Formats, references and links are left out.

## 3 Runs

All runs use `CHECK_DEADLOCK FALSE`, because the users stop: sessions end at
`MaxRevision`, and ids, calls, requests, edits and processes are used up. Symmetry is used
in safety runs only; the runs with a liveness property have none.

| Run | Instance | States | Shows |
|---|---|---|---|
| `research_store` | 3 keys, 2 videos, `MaxRevision` 9 | 456 k | answers that stay, and evidence named by its revision, under arbitrary callers |
| `research_commands` | 2 processes, 1 crash, 2 decision keys, 2 retry keys, 1 acquire key, `MaxRevision` 12 | 706 k | the commands' safety and the refinement of `ResearchSession` |
| `research_answered` | 1 process, 1 crash, the same keys, `MaxRevision` 12, `FairSpec` | 227 k | an acquisition is answered; partial failures stay retryable |
| `replays` | 4 calls, 4 keys on three routes, 2 payloads, 2 jobs, `_maximum` 2 | 692 k | one execution per key, and answers that agree |
| `serving` | jobs: 4 ids, `max_queued` 2, `max_records` 2; server: 3 requests, 2 slots; `ExecutorFairness`, `ServerFairness` | 45.5 k | order and end of jobs, and the refinement of `JobService`; quiescence, and that closing ends |
| `indexes` | publication: 2 sessions, 2 refreshes, 1 rebuild, 1 change of the corpus, 1 fault, 1 crash; contents: 2 layouts, 4 artifacts, 2 edits, 3 sessions; discovery: 2 queries, `Limit` 3 | 5.37 M | the files after any interleaving with a fault and a crash; the rows; what discovery offers |
| `acquisition` | 2 runs, 2 videos, 2 faults, 1 crash | 4.83 M | completeness behind exit 0; insights and reports that fit the corpus |
| `assessment` | 2 queries, 2 languages, 4 publications; scan of 3 transcripts, 4 inodes, 2 writes, 1 trouble; 5 captions | 1.21 M | evidence of one pair, validated answers, faithful rows, passages that can be found |
| `attempts` | 2 tabs, 2 plans, 1 research action, 2 jobs, 1 late request, 1 restart, `AttemptsFairness` | 366 k | running work stays findable; a tab that waits gets on |
| `research_page` | 3 states, 2 materials, 1 job identity, `MaxRevision` 2 | 2.18 M | evidence of one revision; nothing accepted on other evidence; the result of a job shown after it |
| `published_files` | setup: 2 runs, 1 edit, 1 fault, 1 kill each; 3 dossier exports, 1 error, 1 kill; 2 transcript exports, 2 disturbances | 2.09 M | no file lost, failures restore, killed runs can be repeated |
| `refresh_removes_catalog` | as the publication of `indexes`, ends with a counterexample | 24 k | finding 1 of section 5 |

Why the bounds are enough.

- *Research.* One cycle of a session (assess, answer, discover, approve, acquire,
  reindex, assess) commits seven revisions; 9 leaves room for two failures inside
  it, 12 for a failed or interrupted cycle and the beginning of the second cycle
  after it. Two videos are needed for a batch that fails in part and for a
  snapshot larger than the approved set. Three keys let one key be in each of the
  roles "answered", "reserved" and "fresh". Two retry keys are needed for an old
  reservation beside a fresh one. A second crash would repeat what one crash does
  to a process whose durable effects are the same; the configurations of section 5
  allow two because they need one to leave a reservation and one to need it. `MaxRevision`
  bounds the commands users send; commands in progress may finish. `MaxApproved`
  (5) is the code's own limit and is never reached with two videos.
- *Jobs.* With `max_records` 2 and `max_queued` 2, records and permits are
  each the scarcer resource in some state, and four ids let a job that ended be
  evicted while one runs, one waits and one is refused.
- *Replays.* Four calls are two duplicates of each of two keys, or a duplicate
  beside two keys that fill the registry of two and a third that evicts. Started,
  cancelled and queued routes differ in whether a failure is stored and whether
  a record waits for a job.
- *Server.* Three requests for two slots: one is refused for lack of a slot while
  one is handled and one waits for the dispatch lock.
- *Indexes.* Losing an update takes a session between two others' read and write of the catalog;
  undoing another's publication takes two refreshes and somebody who publishes without the lock.
  One fault begins a rollback and, by `AlsoFails`, may break it too; one crash
  can come before, in or after it.
- *Contents.* A video's row goes wrong when one session records it, an edit moves or
  replaces what it was made from, and a second session thinks it untouched: two edits
  and two sessions, and a third that should repair what is left. The four artifacts are
  a video's transcript and insight, the transcript again under a new title, and a name
  that is no artifact. The provider reads nothing of the corpus: it begins before any
  edit (`OneAtATime`). Four candidates in two channels with `Limit` 3 leave a channel
  that is crowded out if turns are not taken.
- *Readers.* Four publications are a whole refresh with its rollback, or two exchanges
  and their ends, between two calls of an assessment. The first three are of any kind; the
  fourth is one that comes last in these: it ends an exchange or takes back a receipt
  (`LastTakesBack`). The catalog that is there at first has one of the two contents; the other
  one comes with a publication, before or after the readers have begun. The readers change nothing, so
  one at a time is enough (`OneReader`). The scan has a usable transcript, its
  duplicate, and one with a name it does not know; the second write can restore what
  the first spoilt; one of the two usable files stays untouched (`ScanBound`), to show that
  it is indexed. Five captions make several passages, with captions that repeat,
  are empty, come out of order, or are too long for any passage.
- *Acquisition.* Two runs with different options over two videos: one acquires what the
  other is about to, one analyses what the other promoted; two errors open the circuit
  or spoil an item of each run.
- *Attempts.* Two tabs with one scope, two plans that together exceed `MaxBytes` (the
  bound that binds; the count does not), one place in the registry so that every new
  record evicts, and one generation to retire.
- *Research page.* A read in four parts is mixed by one command between two of them; two
  revisions are needed for an answer that is read by a command's successor. The three states
  are one with a decision, one that starts a job the store does not recognise by its key, and
  one that starts a job it does, which is also the state that changes without a revision. The
  page follows one job at a time; the identity of a lost one may be used again (`Fresh`).
- *Published files.* A setup run that stops at any point and one that finds what it
  left; an edit at any point; in the second run an edit or an error, not both
  (`SetupSide`). Three dossier exports are one that publishes, one that meets what it
  published, and one between the two. Two transcript exports share a temporary name;
  for three the property does not hold (section 5). Exporters are alike and begin in
  their order.

Properties, by hazard:

- `AnswersKept`: two callers with the same revision; a key replayed after its answer
  was lost.
- `RevisionNamesEvidence`: each transaction that changes what a session shows has to
  count, or a client that compares revisions acts on something it has not seen.
- `NeverRepeatsSettled`: retries, replays and crashes do not repeat what was acquired.
- `AskedOnFreshIndexes`, `KeepsPromise`: what the user is asked and promised, although
  it is written by different transactions. The first speaks of the latest batch and of
  every batch that ran through; it does not hold of each earlier batch that failed
  (section 5).
- `PartialFailureStaysRetryable`, `AcquisitionAnswered`: recovery. The first holds
  while one process runs at a time (`research_answered`) and is violated with two
  (section 5).
- `InOrder`, `AcceptedJobsEnd`, `KeepsJobs`: two limits, failing submissions and orphans;
  nothing that is needed is forgotten.
- `OneWorkPerKey`, `OneJobPerKey`: two requests with one key, before, while and after
  the first submits its job; eviction at the limit; keys freed by a failure.
- `QuiescentOnceClosing`, `NothingLeftBehind`, `ClosingEnds`: requests that arrive,
  wait or read while the server closes.
- `UpdatesKept`, `SearchUsable`, `FailedLeavesNothing`: a file replaced while others
  stage, scan, validate or restore it.
- `SearchRowsAgree`, `ImportsAreComplete`, `NothingForgotten`: rows kept up to date by
  sessions that know only what they touched; a corpus that changes under an import; a
  clean-up of sources that discovery also speaks for.
- `FairOffer`: partial failures, repeated and invalid records, channels of different size.
- `AssessmentOfOnePair`, `AnswersAreValidated`: files replaced between two calls of one
  reader; a memory of what was validated.
- `ScanIsFaithful`, `Findable`: files that change while they are read, in parts and under
  reused inodes; cuts of a transcript at their limits.
- `ExitZeroIsComplete`, `InsightOfTranscript`: two runs over one
  video; what a killed run has left half done.
- `WorkStaysFound`, `AdmissionsProceed`: requests lost, late or repeated; tabs closed,
  reloaded and waiting for one lock; evictions and a restart of the server.
- `EvidenceIsOfItsRevision`, `AcceptedOnItsEvidence`: a session read in parts while it moves;
  decisions and admissions that arrive late, or after a reload.
- `JobResultShown`: polls that hiding aborts at any point; a page that lets go of a job before it
  loads what the job left.
- `NoFileIsLost`, `RollbackRestores`, `Resumable`: edits and
  failures between any two renames of a setup.
- `ReplacedOnlyByCommitted`, `FailedExportRestores`: exports that take each other's
  directory for the prior one.
- `ExportIsOneText`, `TwoExportsAreSafe`: a transcript rewritten between two reads; a
  temporary name shared by two exports.

Modules also state properties that no run lists. Most are theorems of section 4, among them
`OneRunningAttempt` (`ResearchStore`: rows become running in three transactions, each in
different states of the session), `ReportedIsPublished` (`SourceAcquisition`),
`FailsForACause` (`LocalAssessment`: a reader that refuses a new generation),
`InstalledIsComplete` (`SetupTransaction`), `NoChoiceWhileFollowing` and `JobIsFollowed`
(`ResearchPage`: controls and buttons that are taken away and given back in some fifteen
handlers). TLC checked each of them on the run of its module before it was proved. Some
properties do not hold (section 5). The others hold in the instance of the run of their module
when they are added to its configuration: the type invariants without a theorem,
`SnapshotShowsOutcomes` and `FreshRetryAccepted` (`ResearchWorkflow`), `ConnectionsEnd`
(`LoopbackServer`), `PlansAccounted` (the bounded cache of plans, `BrowserAttempts`),
`DestinationWhole` and `LeftoversReported` (what exports and setups leave behind).

Fairness. Research (`FairSpec`): a process that is alive goes on with its command,
weak fairness of `Step(p)`; every step is local computation, a transaction with a
busy timeout, or a bounded download. The user sends a retry key again as long as
it has no answer: strong fairness of `BeginRetry(p, k)`, strong because another
process may hold the key's lock now and then. Nothing forces a user to start,
decide, approve, cancel or acquire, and nothing forces or prevents a crash. Jobs
(`ExecutorFairness`): the interpreter schedules the worker thread, and operations
return. Server (`ServerFairness`): the accept loop, each request thread and the closer
are scheduled, weak fairness of each; reads end by the socket's time-out, and the
application returns. Nothing forces a client to connect or anybody to close. Attempts
(`AttemptsFairness`): a request ends by its time-out at the latest, weak fairness of
`Receive \/ Abandon`; Web Locks serve the tabs that wait in turn, strong fairness of
`Stale \/ Admit`, strong because another tab takes the lock again and again. Nothing
is assumed of the server, whose answer may never come.

What the checks of `IndexPublication` do not cover, although the code does it:

- After `ReverseFails` the old catalog is in a stage that the code preserves
  (`catalog.py`:776–794). The next session removes it as a stale stage
  (`_cleanup_stale_catalog_stages`): `Stage` in the model does so, and no property
  claims that the preserved file survives.
- A standalone rebuild takes no lock, so it may publish a scan that is older than
  the index a refresh published meanwhile. `RefreshesKept` excepts it.
- A refresh whose rollback fails may leave the search index without its receipt
  (`SearchUsable` supposes clean rollbacks), and one that cannot open the receipt
  it has published leaves that receipt behind (`FailedLeavesNothing` speaks of the
  receipts a call has pinned). The receipt is harmless; readers look for the
  receipt of the index they have.
- `_replace_regular_file` may raise after it has replaced the search index (its
  `fsync` of the directory, `downloader.py`), and `database_published` is then not set
  (`acquisition.py`:811). The rollback restores the catalog, finds the new index
  valid because its receipt is still there, and then removes the receipt: the published
  index is refused by its readers until the next refresh. `ReplaceUnnoted` models it;
  the history field `unnoted` excepts it in `SearchUsable` and `FailedLeavesNothing`.
  A refresh that fails after such a rollback finds no valid pair and removes the catalog,
  with what the refreshes before had published. `RefreshesKept` therefore supposes clean
  rollbacks (`CleanRollbacks`); with the weaker premise its proof failed, and TLC found this
  behaviour with three refreshes.

## 4 Proofs

Each module of proofs ends in theorems about its specification; the lemmas before
them have one step per action and are named for what they say. The assumptions are
the `ASSUME` of the module proved about and nothing else; sets of keys, videos, jobs
(finite), requests (finite), exports (finite) and processes are arbitrary, and so are all bounds.

**ResearchStore.** `ResearchStoreProofs` proves `Spec => []TypeOK` and
the eight other properties of `ResearchStore`, from
`StoreAssumption`: the bound is a natural number and `NoAttempt` is not a key.

- *TypeOK* is inductive as it stands, by the conjuncts of `TypeOK`, with one lemma
  per transaction. Its interesting part is that a session names a retry target
  exactly while it has failed.
- *Effects.* The remaining proofs would all split `Next` into some twenty
  transactions. `StepEffect` shows once that each (each `Transaction`) has one of a few
  effects on the
  session and the attempts (`Advances`, `Starts`, `Resumes`, `Progresses`,
  `Completes`, `Fails`, `PartlyFails`), and every invariant is then shown to
  survive the effects. `DecisionEffect` does the same for the decisions
  (`Decides`, `Answers`, `SessionGoesOn`).
- *OneRunningAttempt* is inductive. *AttemptsOrdered* is not: two attempts at one
  revision are impossible because a new attempt is started only while nothing runs
  and its revision is newer than that of every attempt that is not running.
  `OrderInv` says so.
- *PipelineHasItsAttempt* and *FailedAcquisitionHasAttempt* rest on the order too:
  the attempt of the last batch can change its status only through the paths
  that leave the pipeline.
- *OneDecisionPerRevision* needs `DecisionInv`: every decision's revision is
  older than the session's.
- *SettledOutcomesKept*, *AnswersKept* are action properties and follow from the
  effects and `TypeOK`. *RevisionNamesEvidence* is shown for each transaction
  (`NamesEvidenceStep`): those that keep the revision are the start and the progress of an
  attempt, while the session is acquiring, and those that write decisions only.

**ResearchWorkflow.** `ResearchWorkflowProofs` proves all safety properties the runs
check, for any processes, videos, keys and numbers of crashes, from `StoreAssumption` and
`WorkflowAssumption`. `StepTransaction` shows first that a step of a command is one
transaction of the store or leaves the store alone; the effects above therefore
describe the steps of all commands, and the store's invariants carry over
(`CommandsKeepStore`). What a process does to its own memory is described by `WaysThere`:
from which points, and with what, it may have come to each point of its program.

- *WorkflowInv* is the inductive invariant. It says that no lock has two holders
  (`LocksExclusive`), that a process between `continue` and `record` holds the lock of its
  attempt (`Owned`), and that the videos it has left have no settled outcome
  (`Unsettled`). A step of somebody else cannot change that: outcomes are
  recorded, and attempts replaced, only by a process that holds the lock, except by a
  retry that names no attempt, which never resumes an acquisition of one that exists
  (`NothingToLock`). `SettledNeverRepeated` and `AttemptsNotShared` follow.
- *PromiseKept* is the refinement of `ResearchSession`. Each step is mapped to a step of
  the session or to a stutter; a video that is acquired is in an attempt, and what is in an
  attempt has been approved (`OnlyConsented`), however long ago.
- *AskedFresh* needs `FreshInv`. A batch may end without a refresh if it brought
  nothing new; that earlier batches are in the indexes then is not obvious, because an
  attempt may fail and be restarted with transcripts it has already recorded. The
  invariant says that the candidates are those of the latest attempt as long as it
  may be resumed (`SnapshotStays`), so that it can fail only before it has anything ready, or
  behind a failed refresh (`StagesIndexed`), and that a process past its refresh has
  refreshed everything that counts (`Refreshed`), although others acquire meanwhile.
- *PartialFailureKept* is proved for one process at a time (`OneAtATime`), and is false for two
  (section 5). `PartialInv` says that only the last batch can be half done, in the pipeline
  only, and that the process which may end the pipeline knows of it: a retry must have found
  the attempt, or resumes discovery.

**JobExecutor.** All safety properties of the module, and the refinement, follow from
one inductive invariant, `ExecutorInv`. None of the properties is inductive alone,
because orphans sit in the queue between the jobs. Seen from its end, however, the
queue lists the accepted jobs that have not begun, and what comes before them has no
record (`QueueOK`); the terminal ids are a suffix of the finished jobs and are
exactly the records that have ended (`OrderOK`). From these, the job the worker
has taken is the next accepted one exactly if it has a record (`TakenJob`), and
the eviction at the end of a job never evicts anything (`EndEffect`): there is
always room for the records that are there, so `max_records` is enforced by
`submit` alone. `ExecutorKeepsJobs` maps `jobs` to a function of records and
histories and each action to `Accept`, `Forget`, `Finish`, `Shut` or a stutter.

**ReplayRegistry.** `RegistryInv` has three parts beside types. *Reserved*: the records
in the registry have different keys, and a request executes exactly while its record is
there without an answer; eviction takes answered records only. *AnswersLast*: an answer is
given when the call is over, and stays. *JobsOwned*: a job that was submitted has one owner, the
call in whose hand or record it is; the owner's record stays in the registry while the job
is pending, because it is not terminal; and whoever was told of the job asked for what the owner
asked for. `OneWorkPerKey` follows: two requests with a key, of which one executes and the other
was told of a pending job, lead to two records with one key. Evicted records and what waiters
still read of them are covered, because answers are kept by call and not by place. What a
submission adds, a job nobody knows of, comes from `JobService`, and so does the fact
that only a job that is done is forgotten; so the theorems hold for every executor that implements it.
`OneJobPerKey` needs `OwnersKept`: as long as the keys in use are no more than the limit, a key
that is not in the registry finds room (`RoomForKey` counts the records by their keys), nothing is
evicted, and the owner of a job keeps its record for good. The requests are a finite set there,
so that their keys can be counted.

**LoopbackServer.** `ServerInv` adds to the accounting of slots (`SlotPerBusy`, a
cardinality) that only the accept loop holds a connection without a thread
(`LoopHolds`), and what each stage of closing has achieved (`Stages`): once the
closer waits for the threads, the loop is dead, so nothing can take a slot or open
a socket any more. `NothingLeftBehind` is the last stage.

**ResearchPage.** `PageInv` is inductive, for any states, materials and jobs, from
`PageAssumption` (the state in which outcomes are recorded offers no decision, and the value for
nothing is no job and no revision). TLC checked it on the run `research_page` before it was proved.
Beside types it has three parts.

- `EvidenceInv` carries what `EvidenceIsOfItsRevision` says of the page to every place where
  evidence is held: what the server has read so far, the answer to a decision, the admission that is
  sent or stored, the basis of a job. It is of a revision no newer than the session's and,
  if of the same, is the session (`Faithful`); a command in between makes the revision a
  newer one, and the comparison before each further read rules out that parts of two are
  put together. `AcceptedOnItsEvidence` follows, however late the request is served, since a
  transaction compares the revision only.
- `FollowInv` is `NoChoiceWhileFollowing` and `JobIsFollowed`, which are not inductive alone:
  they need to know which handlers run with a job and which without one (`Coordinated`).
- `ResultInv` says of a page that loads after a job that the job is over or gone, and that
  what has been read for it was read after its result.

**IndexPublication.** Mutual exclusion by the lock is part of the type invariant,
as a statement on program counters, so a crash that releases the lock preserves
it. `SearchUsable` needs `ReceiptInv`: a refresh's own index is published only
after its receipt and is gone when it takes the receipt back; the index it found
is not its own and keeps its receipt while the refresh holds the lock, because its
publisher, if it was a refresh, has ended; a rebuild's receipt is never removed.
`UpdatesKept` needs `RowsInv`: whatever a process that holds the lock may make the
catalog of (a session's stage, the copy a refresh took) contains the rows that
were committed, and a session that exchanged the files has its row in.
`FailedLeavesNothing` needs `FailureInv`: an index that a rollback may put back was
found under the lock, when every refresh that failed before had taken its own away
(`FoundOfOthers`), and a refresh's new catalog is in place between two points of its
program only (`NoNewCatalog`). `RefreshesKept` (theorem `PublishedIsKept`, in no run) needs
`KeptInv`: a later refresh imports and scans no less than the earlier ones (`NotOlder`), and whatever a process that
holds the lock may put in place or back, catalog and search index, serves every refresh that
has returned (`Serving`). TLC has checked `KeptInv` with three refreshes and a rebuild.

**CatalogContents.** `CatalogKnows` proves the inductive invariant `ContentsInv`, from which
`SearchRowsAgree`, `ImportsAreComplete` and `NothingForgotten` follow, for any files, videos,
layouts and bounds. `ContentsAssumption` says that the table of files names the video of each
supported artifact and that the value for nothing is no value of anything else.
TLC checked `ContentsInv` on the whole run `indexes` before it was proved.

- `RowsBut` and `Owed`: in the session's copy the search row of a video agrees with the tables,
  except for the videos the import thinks it has touched, until it has reindexed them. What
  this rests on is that an item which leaves its video out of `touched` (`TakenIs`) leaves
  its title, its sources and its texts as they were, and that a source that is dropped
  belongs to a touched video, since its row is not the one of any item.
- `Keeps`: the copy knows everything the published tables know, so that publishing it forgets
  nothing; only sources without an address that nothing confirms any more go.
- `VisitComplete`: as long as nobody has edited the corpus since the visit began, each file
  that was listed and is not in the import's list any more is in the tables at a place where
  its bytes are, and its source was seen, so that it is not dropped as stale; or an
  error has been counted. An edit ends the claim and it is never made again for that visit, which
  is what `ImportsAreComplete` promises and no more.
- The listing of a layout appends to the list and the import takes from its front; what this
  means for `Listed` are the lemmas `Appended` and `TakeOne` about sequences.

**TopicDiscovery.** `OffersAreFair` proves `FairOffer`, for any answers of the searches, catalog and limit;
`DiscoveryAssumption` says that an answer is a list of records. `TopicInv` says that what was found has no
video twice, which every record of an answer preserves (`NotedKeeps`).

- An answer is noted by a recursive function. That it is defined (`NotedIsDefined`), and that
  what holds of each step holds of the whole answer (`NotedUpToIs`), is shown with a least
  counterexample, since an induction theorem cannot be cited.
- The order of turns is linear (`TurnsAre`, from `RankIsPlace`), so that the numbers of those
  that come before it give each candidate its turn.
- `TurnsAreFair` is the argument for fairness: the first candidate of a channel that gets no turn
  has as many of its channel before it as got one. If another channel got two turns more, its last
  turn would have come later than that of this candidate.

**PassageChunking.** `PassagesAreFindable` proves `Findable`, for any captions, words and limits that
`ChunkingAssumption` allows, with the invariant `PassageInv`.

- That the segments come by their times is a fact about ranks: counting the captions before it
  gives each caption that counts its place, since the order by time and line is linear
  (`RankIsPlace`, `SegmentsInOrder`).
- `LastOf` and `StartAfter` are chosen; `LastOfIs` and `StartAfterIs` show that there is something
  to choose (a set of numbers has a least one, `LeastOf`), and what is known of it. The number of words of a stretch is nowhere looked
  into: what fits is any predicate of its two ends.
- `CoveredOK` speaks of the segments before the start of the next passage, all of which are in
  passages, together with their successor where the limits and the overlap allow it. When the next
  passage starts right behind its predecessor, the predecessor's last segment
  and the next do not fit into one, or are further apart than the overlap.

**CorpusScan.** `RebuildsAreFaithful` proves all of `ScanIsFaithful`, for any transcripts,
channels and inodes, from `ScanAssumption`, which says of the constants that a path has one place
in the order and that the special values are no inodes and no channels. `CorpusInv`, which TLC
checked first, says what the scan knows of the files beside what happens to them.

- A change touches one path and leaves a stamp nobody has seen (`Disturbance`, shown of every
  change by `WorldIs`). What is known of the other paths therefore stays (`LeftAlone`), and
  the invariant survives every change at any step of the scan by one lemma (`DisturbanceKeeps`).
- That the text of a row was in its file at one instant is `CurrentInv`. When the file is opened
  again its number is the one of the inventory; if both parts are then as they were read before, the
  two parts were together in the file, since no later write brings a stamp back.
- `ManifestInv` counts: each judged candidate is a document or reported, never both, because
  the listing has no path twice (`NotJudged`). So the report is always consistent
  (`Accounted`), and a rebuild fails for a collision only.
- `UsableInv` says that among the files that were left alone exactly the usable ones were
  accepted, which each of the nine ways to reject a candidate must preserve.

**LocalAssessment.** `ReadersKnow` proves the inductive invariant `AssessmentInv`, from which
`EvidenceOfOnePair`, `AnswersValidated` and `FailuresHaveCauses` follow, for any numbers of queries,
languages, generations and publications. `AssessmentAssumption` bounds what a search finds by
its limit and says that a query finds no video twice, which is what the search rows of the
catalog guarantee.

- `FilesInv`: what is at a name is no newer than the last change, so that every new file is another
  one, and the pair that is there has been published together.
- `CallInv` says of each point of a search what it knows of the file it has open: until the
  comparison the file is only a candidate, after it it is the receipt's, and what the
  object remembers is of undamaged bytes, so that skipping the hash loses nothing.
- `SnapshotInv` is the argument for one pair. The assessment opens a catalog after it has taken
  the identities, perhaps in the middle of an exchange: what it holds is the catalog it
  captured, or one of the two is gone for good, or they are the two sides of an exchange that
  is under way (`HeldOrder`). As long as the index of the snapshot is there, the captured
  catalog has been there with it; the comparisons at the end then leave the first case only.
- `EvidenceInv` says that what has been collected is what the two files hold for the queries so
  far; that taking the best of each query's results keeps the best of all is a lemma on `Select`.
- `QuietInv`: while nothing is published no comparison fails, so that a reader that raises was
  disturbed or found files nobody can use.

**SourceAcquisition.** `InsightOfTranscript` is inductive together with what each run
has read (`SnapshotsHold`: what is read stays so, because links replace nothing), in
`CorpusInv`; that no file is ever replaced (`CorpusIsKept`) falls out of the same
lemma. `ReportedIsPublished` adds `ReportInv`: a run that says "already present" looked
before it read (`CachedIsThere`), and nothing is removed in between.
`ExitZeroMeansComplete` needs `ExitInv`: each video that was read was planned
(`PlaceOK`), so that when the report counts as many of them as the plan has, all of them were
read; and a run that has passed the analysis or the refresh without a failure has seen their
effect on each of these videos (`ServedOK`), which other runs cannot take back, since insights
and indexes only grow (`IndexesGrow`, `ServedStays`). That a plan is a list at all is
`PlanIsList`. The set of runs, of videos and of names is arbitrary, and so are the numbers of
faults and crashes.

**BrowserAttempts.** `WorkIsFound` proves the action property `WorkStaysFound`, for any tabs, scopes
and ids, from the inductive invariant `AttemptsInv`.

- `RequestsOK`: a tab that waits for an answer holds the lock of its scope, so that the
  generation its request names is the present one as long as it waits; a request whose tab has
  given up may name any older one. So a job is submitted for a tab that waits under the generation in
  which it is looked for.
- `TabOK`: a tab that completes its attempt with a job has seen that job end (`Over`), and
  what a tab has saved was begun under a generation of its scope (`Valid`). A tab that retires the
  generation of running work therefore got another answer under it, which is the
  step that `WorkStaysFound` excepts.
- The registry forgets ended jobs only: what it evicts for room is the least beginning that is enough
  (`RoomIs`), and none of it is pending.
- `NothingIsLost` puts these together: what tabs do beside completing changes neither jobs
  nor generations; a step of the server leaves wanted work in the registry, and puts new work
  there under the present generation (`Remembered`).

**DossierPublication.** `ReplacedOnlyByCommitted` needs that a writer which retires a
backup is committed and takes no step back (`RetiresCommitted`).
`FailedExportRestores` speaks of an export nobody else disturbs: `AloneShape` says
where the directories are at each of its steps, also after an error, and
`ForeignStays` that a directory of somebody else, once there, still is, so that one
that is absent never was there.

**TranscriptExport.** `ExportIsOneText` rests on the order of times (`ReadsAreOrdered`):
what is read of a descriptor is not older than when it was opened, and what is read
later not older than what was read before, so that equal times at both ends
(`Confirm`) tell that all of it is one text; and nothing is written before the
comparison (`WrittenAfter`). `TwoExportsAreSafe` needs `SharedInv`, stated for an output whose
names at most two exports have used: an export that is about to publish has its own file under
the temporary name, or finds none there because the other, which does not come back, has
taken it away (`OwnTemporary`); and of two that were successful, the one whose file is not
there was displaced by the other (`StaysThere`). The exports are a finite set there, so that
the users of an output can be counted.

**SetupTransaction.** The three properties of the run and `InstalledIsComplete`, for any files, clients, versions,
runs, edits and faults, from `SetupAssumption`.

- `ShapeInv` says where a run is in its program (`Phases`), what it has written so far
  (`ListsOK`), that the private names its next steps use are there (`NamesThere`, for
  each item of `undo` by `ItemReady`) and that no name is taken back twice (`Once`), so that
  an item that was ready stays so while others are done. `CHOOSE` in `Entry` is defined on its
  account. `FilesAreKept` then holds step by step: what leaves a path or a private name has
  another name.
- `InstallIsComplete` needs `CompleteInv`: what the run has looked at after it wrote it is as
  expected until somebody edits it, and such an edit counts as late.
- `RollbackIsComplete` needs `RestoreInv`. Its core is `FileOK`, which follows one file
  through the run: untouched or done with, published, moved away, or taken from its
  path to be looked at. Others may edit it at each of these points, and each time the
  file that the program has aside is the one to return (`Returns`), or what is at the path
  is what its editor is owed (`Owed`, `Welcome`). A file that is not the run's own has
  been written by an editor of this run (`EditsOK`), which is why the comparison with
  what was installed tells the two apart. `ClientsOK` does the same for registrations.
- `RunIsResumable` needs `QuietInv`: without edits and faults no step is surprised, so nothing is
  ever taken back, and at each step the files are those the plan saw or the run's own, also
  when the manifest is behind the assets or is away.

Every invariant, action property and refinement of the passing runs is proved. Model-checked only is
the liveness under fairness (`AcquisitionAnswered`, `AcceptedJobsEnd`, `ClosingEnds`,
`AdmissionsProceed`), which is out of the prover's reach.
What a recursive definition computes is not proved but for the notes of a discovery: the number of
words of a passage, which `Findable` compares with limits, is only computed by TLC.

## 5 Findings

`refresh_removes_catalog` is a run that TLC ends with a counterexample, stated as the
repository's documentation states it (PROJECT.json quotes the lines): a refresh whose
search publication fails, and that found no valid search index, removes the catalog it
found, which may hold discovery rows that no import of the corpus rebuilds.

The other configurations named `Found…` end with a counterexample too. They are not
among the runs; each is repeated with `tlc -config <configuration> <module>`.

| Configuration | Module | Property | What happens |
|---|---|---|---|
| `FoundStartCrash` | `MCResearchWorkflow` | `AssessmentCycleResumable` | `start` commits the session before it is assessed. A process that dies in between leaves it in `assessing`, and no command accepts it. |
| `FoundRefreshStuck` | `MCResearchWorkflow` | `RefreshResumable` | An unfinished reservation of an older retry refuses every fresh key while the session is reindexing, and is itself not recoverable. |
| `FoundReservation` | `MCResearchWorkflow` | `ReservationReadable` | Replaying an old key after a later attempt failed stores a reservation whose claim and target disagree; the reader rejects it. |
| `FoundPartialLost` | `MCResearchWorkflow` | `PartialFailureStaysRetryable` | A delayed retry that names no attempt takes the assessing stage from a running acquisition, and its partial failure is lost. |
| `FoundStaleRestart` | `MCStaleRestart` | `AskedOnAllTranscripts` | A retry that replays an old key finds attempt 1 behind a failed index refresh and is delayed before it takes the lock. Another retry finishes attempt 1, attempt 2 is started and fails. The delayed one now restarts attempt 1, because only the states of the attempt and of the session are compared (`research/store.py`:1841–1872), records a transcript, and fails since another of its videos has left the snapshot. When attempt 2 is retried and brings nothing, no refresh happens, and the question is asked on indexes without that transcript. The behaviour has 64 steps; the module gives who acts at each of them. |
| `FoundAttemptRetired` | `MCBrowserAttempts` | `PendingWorkIsFound` | A tab that got another answer under a generation (a refusal, or a job that has been evicted) retires the generation after it has released the lock; work that another tab has started under it meanwhile is not found any more. `WorkStaysFound` says that this is the only way. |
| `FoundRecoveryUnreported` | `MCPublishedFiles` | `RecoveryFilesReported` | An error after a file was moved into the recovery directory (the look at it, the `fsync`) is reported with the private name the file had before; what is in the recovery directory is in no report (`assistant_setup.py`:972–1012; `tests/test_assistant_setup.py`:1228 expects all of it there). |
| `FoundDossierDisplaced` | `DossierPublication` | `CommittedStays` | Two forced exports validate the same prior dossier. One publishes and ends; the other then renames what it finds at the destination, which is now the first one's dossier, sees that it is not the one it validated, and does not put it back, since it restores only that one: the published dossier stays under a private name (`research/dossier.py`:791, 892–904; compare the repository's `research/README.md`:7 and `tests/research/test_dossier.py`:500). |
| `FoundExportPartial` | `TranscriptExport` | `PublishedIsWhole` | The temporary name is fixed and unlinked on every path (`exporter.py`:600–608): a second export, refused because the name is taken, removes it; a third takes the name; the first publishes what the third has only begun to write. |

Met on the way, without a property:

- The design's state diagram and the code differ in which states a retry re-enters
  (`assessing` is re-entered; a partly failed batch goes from
  `awaiting_sufficiency_confirmation` back to acquiring). The model follows the
  code.
- The research page says that a session was reloaded also when its reload has failed
  (`web/src/lib/pages/research-workspace.ts`:353–399).

## 6 Not modelled

Rendering, argument parsing, texts of errors, network protocols; SQLite itself (its
transactions are the atomic steps) and its schema. In the modelled components:

- *Web application, server*: reads but that of a session (`ResearchPage`); request parsing.
  `ReplayRegistry` leaves out the check of a session's state before a job is queued (it only
  decides between acceptance and failure), which `ResearchPage` has.
- *Search index*: slices with a limit and their choice of representatives, the
  free-space check, query building, excerpts, validation of schema and stored rows.
- *Dossier*: rendering. It reads the store in four transactions
  (`research/dossier.py`:144–151), so that a command in between may put the answers of two
  revisions into one dossier.
- *Setup*: missing parent directories, `dry-run` and `verify`.
- *Acquisition*: classification of URLs, batch files, checks of paths and file
  identities.
- *Client*: parsing of stored data, attempts of older versions, session tokens; in
  `ResearchPage` also a stored job whose identity is invalid, and of a session on display whatever
  is neither evidence nor a control.

Components with status `not_modelled` in PROJECT.json (adapters and readers of the web
API, backends and text processing, command line, MCP server, web pages, repository
scripts) keep no state of their own between calls: what they answer is a
nondeterministic outcome where a modelled component calls them.

## 7 Plan

In this order; the most important behaviour first. Items 1 to 10 are done.

1. Research store, workflow and session, and the store's proofs.
2. Jobs (`JobExecutor`), its abstract service, its proofs.
3. Web application and server: the replay registry on top of the job service, the
   life of a request, the server's proofs.
4. Publication of catalog and search index, with its proofs.
5. Source acquisition (circuit breaker, partial batches), with its proofs, and the
   bounded cache of prepared plans.
6. Web client: the attempts over shared storage, several tabs, polling.
7. File transactions with rollback: dossier publication, transcript export and assistant
   setup, with their proofs.
8. What the databases hold and how they are read: catalog contents, discovery, corpus
   scan, passages, assessment.
9. Proofs: the workflow, the assistant setup, `RefreshesKept` and `TwoExportsAreSafe`,
   `ScanIsFaithful`, the answers of `LocalAssessment`, `CatalogContents`, passages,
   `ExitZeroIsComplete`, `BrowserAttempts` and `FairOffer` (done).
10. The research page: its reads, decisions, jobs and reloads, with their proofs.
11. The reads of a dossier, representatives and excerpts.
