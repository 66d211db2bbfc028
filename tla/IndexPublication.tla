--------------------------- MODULE IndexPublication ---------------------------
(***************************************************************************)
(* Publication of the catalog and of the search index                       *)
(* (src/yt_insights/acquisition.py, catalog.py, search/sqlite_fts.py):       *)
(* catalog sessions and index refreshes under catalog_writer_lock, and       *)
(* standalone rebuilds of the search index, which take no lock.  One action  *)
(* is one change of the published files.                                    *)
(*                                                                         *)
(* Every process stands for one call.  A file replaced by a process has an   *)
(* identity of its own, also when its content was there before.              *)
(***************************************************************************)
EXTENDS Naturals

CONSTANTS
  Writers,      \* sessions of Catalog, each adding a row of its own
  Refreshes,    \* calls of rebuild_and_publish_indexes
  Rebuilds,     \* calls of SQLiteFtsIndex.rebuild on the published index
  First,        \* who published the files that are there initially
  MaxCorpus,    \* bound on the changes of the corpus
  MaxFaults,    \* bound on failing calls of the operating system or SQLite
  MaxCrashes,   \* bound on processes that die
  NoFile, NoOne

Procs == Writers \cup Refreshes \cup Rebuilds

Identities == (Procs \cup {First}) \X {"new", "old"}

Catalogs == [id : Identities, rows : SUBSET Writers, corpus : 0..MaxCorpus]

Indexes == [gen : Refreshes \cup Rebuilds \cup {First}, corpus : 0..MaxCorpus]

ASSUME PublicationAssumption ==
  /\ {MaxCorpus, MaxFaults, MaxCrashes} \subseteq Nat
  /\ NoOne \notin Procs /\ First \notin Procs /\ NoFile \notin Catalogs \cup Indexes
  /\ NoFile \notin Identities
  /\ Writers \cap Refreshes = {} /\ (Writers \cup Refreshes) \cap Rebuilds = {}

VARIABLES
  catalog,      \* the published catalog: its identity, rows and corpus version
  search,       \* the published search index: generation and corpus version
  receipts,     \* generations with a receipt beside the index
  stage,        \* the private stage of each session, beside the catalog
  lock,         \* the holder of catalog_writer_lock
  corpus,       \* version of the transcripts
  pc,
  seen,         \* identity of the catalog each session opened
  scanned,      \* corpus version of the index each process built
  refresh,      \* what each refresh holds in its staging directory and variables, and
                \* two history fields: its rollback has removed a catalog that it found,
                \* and it has replaced the index without noting so
  faults, crashes

publicationVars == <<catalog, search, receipts, stage, lock, corpus, pc, seen, scanned,
                     refresh, faults, crashes>>

files == <<catalog, search, receipts, stage>>

private == <<seen, scanned, refresh, corpus>>

At(p, point) == pc[p] = point

To(p, point) == pc' = [pc EXCEPT ![p] = point]

Calm == UNCHANGED <<faults, crashes>>

Fault == faults < MaxFaults /\ faults' = faults + 1 /\ UNCHANGED crashes

\* A rollback may fail for what made it necessary, a full disk for example.
AlsoFails == Fault \/ (faults > 0 /\ Calm)

\* Faulty: nobody waits for the lock.
LockFree_Unchecked == TRUE

LockFree == lock = NoOne

\* A process raises or returns, and lets the lock go.
Leave(p, result) == To(p, result) /\ lock' = NoOne

Identity == IF catalog = NoFile THEN NoFile ELSE catalog.id

Rows(file) == IF file = NoFile THEN {} ELSE file.rows

Version(file) == IF file = NoFile THEN 0 ELSE file.corpus

Renamed(file, id) == IF file = NoFile THEN NoFile ELSE [file EXCEPT !.id = id]

-----------------------------------------------------------------------------
(* A session of Catalog.                                                   *)

\* A session that has ended remembers nothing.
Close(w, result) == Leave(w, result) /\ seen' = [seen EXCEPT ![w] = NoFile]

Open(w) ==
  /\ At(w, "idle")
  /\ seen' = [seen EXCEPT ![w] = Identity]
  /\ To(w, "waiting")
  /\ Calm /\ UNCHANGED <<files, lock, corpus, scanned, refresh>>

\* Under the lock the stages of dead sessions are removed and a copy is staged;
\* a catalog that was replaced meanwhile is refused.
Stage(w) ==
  /\ At(w, "waiting") /\ LockFree
  /\ IF Identity = seen[w]
     THEN /\ lock' = w /\ To(w, "body")
          /\ stage' = [v \in Writers |-> IF v = w THEN catalog ELSE NoFile]
          /\ UNCHANGED seen
     ELSE Close(w, "failed") /\ UNCHANGED stage
  /\ Calm /\ UNCHANGED <<catalog, search, receipts, corpus, scanned, refresh>>

\* The body, or what comes before publication, raises.
Discard(w) ==
  /\ At(w, "body") /\ Fault
  /\ stage' = [stage EXCEPT ![w] = NoFile]
  /\ Close(w, "failed")
  /\ UNCHANGED <<catalog, search, receipts, corpus, scanned, refresh>>

\* The stage and the catalog exchange their names; a first catalog is only
\* renamed, which leaves no stage.
Exchange(w) ==
  /\ At(w, "body") /\ Identity = seen[w]
  /\ catalog' = [id |-> <<w, "new">>, rows |-> Rows(stage[w]) \cup {w},
                 corpus |-> Version(stage[w])]
  /\ stage' = [stage EXCEPT ![w] = catalog]
  /\ To(w, "exchanged")
  /\ Calm /\ UNCHANGED <<search, receipts, lock, private>>

Commit(w) ==
  /\ At(w, "exchanged")
  /\ stage' = [stage EXCEPT ![w] = NoFile]
  /\ Close(w, "done")
  /\ Calm /\ UNCHANGED <<catalog, search, receipts, corpus, scanned, refresh>>

\* The identities do not match afterwards, or the directory cannot be synced.
Doubt(w) ==
  /\ At(w, "exchanged") /\ Fault
  /\ To(w, "reverse")
  /\ UNCHANGED <<files, lock, private>>

Reverse(w) ==
  /\ At(w, "reverse")
  /\ catalog' = Renamed(stage[w], <<w, "old">>)
  /\ stage' = [stage EXCEPT ![w] = NoFile]
  /\ Close(w, "failed")
  /\ Calm /\ UNCHANGED <<search, receipts, corpus, scanned, refresh>>

\* Both attempts fail: the stage, which is the old catalog, is preserved.
ReverseFails(w) ==
  /\ At(w, "reverse") /\ AlsoFails
  /\ Close(w, "broken")
  /\ UNCHANGED <<files, corpus, scanned, refresh>>

-----------------------------------------------------------------------------
(* rebuild_and_publish_indexes.                                            *)

Old(r) == refresh[r].catalog

\* The staging directory goes with the call.
Return(r, result) ==
  /\ Leave(r, result)
  /\ refresh' = [refresh EXCEPT ![r].catalog = NoFile, ![r].search = NoFile]

Begin(r) ==
  /\ At(r, "idle") /\ LockFree
  /\ lock' = r /\ To(r, "imported")
  /\ refresh' = [refresh EXCEPT ![r].catalog = catalog, ![r].imported = corpus]
  /\ Calm /\ UNCHANGED <<files, corpus, seen, scanned>>

\* _snapshot_valid_search_pair
Snapshot == IF search # NoFile /\ search.gen \in receipts THEN search ELSE NoFile

Scan(r) ==
  /\ At(r, "imported")
  /\ scanned' = [scanned EXCEPT ![r] = corpus]
  /\ refresh' = [refresh EXCEPT ![r].search = Snapshot]
  /\ To(r, "scanned")
  /\ Calm /\ UNCHANGED <<files, lock, corpus, seen>>

Abort(r) ==
  /\ At(r, "imported") \/ At(r, "scanned")
  /\ Fault
  /\ Return(r, "failed")
  /\ UNCHANGED <<files, seen, scanned, corpus>>

\* Faulty: the catalog is built from the corpus alone.
ReplaceCatalog_FromCorpus(r) ==
  /\ At(r, "scanned")
  /\ catalog' = [id |-> <<r, "new">>, rows |-> {}, corpus |-> refresh[r].imported]
  /\ To(r, "catalog")
  /\ Calm /\ UNCHANGED <<search, receipts, stage, lock, private>>

ReplaceCatalog(r) ==
  /\ At(r, "scanned")
  /\ catalog' = [id |-> <<r, "new">>, rows |-> Rows(Old(r)), corpus |-> refresh[r].imported]
  /\ To(r, "catalog")
  /\ Calm /\ UNCHANGED <<search, receipts, stage, lock, private>>

\* Replacing or validating the catalog raises.
CatalogFails(r) ==
  /\ At(r, "scanned") \/ At(r, "catalog")
  /\ Fault
  /\ To(r, "restore")
  /\ UNCHANGED <<files, lock, private>>

RestoreCatalog(r) ==
  /\ At(r, "restore")
  /\ catalog' = Renamed(Old(r), <<r, "old">>)
  /\ Return(r, "failed")
  /\ Calm /\ UNCHANGED <<search, receipts, stage, seen, scanned, corpus>>

\* A rollback that fails, before or after it has replaced the file, raises its
\* own error.
RestoreFails(r) ==
  /\ At(r, "restore") /\ AlsoFails
  /\ catalog' \in {catalog, Renamed(Old(r), <<r, "old">>)}
  /\ Return(r, "broken")
  /\ UNCHANGED <<search, receipts, stage, seen, scanned, corpus>>

\* The catalog is valid; the receipt is published first.
PublishReceipt(r) ==
  /\ At(r, "catalog")
  /\ receipts' = receipts \cup {r}
  /\ refresh' = [refresh EXCEPT ![r].pinned = TRUE]
  /\ To(r, "receipt")
  /\ Calm /\ UNCHANGED <<catalog, search, stage, lock, corpus, seen, scanned>>

\* The receipt is published but cannot be opened: it is not noted.
PinFails(r) ==
  /\ At(r, "catalog") /\ Fault
  /\ receipts' = receipts \cup {r}
  /\ To(r, "undo")
  /\ UNCHANGED <<catalog, search, stage, lock, private>>

\* Faulty: database_published is not set.
ReplaceSearch_Unnoted(r) ==
  /\ At(r, "receipt") /\ r \in receipts
  /\ search' = [gen |-> r, corpus |-> scanned[r]]
  /\ refresh' = refresh
  /\ To(r, "search")
  /\ Calm /\ UNCHANGED <<catalog, receipts, stage, lock, corpus, seen, scanned>>

ReplaceSearch(r) ==
  /\ At(r, "receipt") /\ r \in receipts
  /\ search' = [gen |-> r, corpus |-> scanned[r]]
  /\ refresh' = [refresh EXCEPT ![r].placed = TRUE]
  /\ To(r, "search")
  /\ Calm /\ UNCHANGED <<catalog, receipts, stage, lock, corpus, seen, scanned>>

\* The index is replaced, but the directory cannot be synced: the call raises and
\* database_published is not set.
ReplaceUnnoted(r) ==
  /\ At(r, "receipt") /\ r \in receipts /\ Fault
  /\ search' = [gen |-> r, corpus |-> scanned[r]]
  /\ refresh' = [refresh EXCEPT ![r].unnoted = TRUE]
  /\ To(r, "undo")
  /\ UNCHANGED <<catalog, receipts, stage, lock, corpus, seen, scanned>>

\* _validate_published_search_pair: the index by that name is the one published.
PairValid(r) == search # NoFile /\ search.gen = r /\ r \in receipts

Finish(r) ==
  /\ At(r, "search") /\ PairValid(r)
  /\ Return(r, "done")
  /\ Calm /\ UNCHANGED <<files, seen, scanned, corpus>>

SearchFails(r) ==
  /\ \/ (At(r, "catalog") \/ At(r, "receipt") \/ At(r, "search")) /\ Fault
     \/ At(r, "search") /\ ~PairValid(r) /\ Calm
  /\ To(r, "undo")
  /\ UNCHANGED <<files, lock, private>>

\* Only a pair is restored: if either file was not there, both go.
HadPair(r) == Old(r) # NoFile /\ refresh[r].search # NoFile

UndoCatalog(r) ==
  /\ At(r, "undo")
  /\ catalog' = IF HadPair(r) THEN Renamed(Old(r), <<r, "old">>) ELSE NoFile
  /\ refresh' = [refresh EXCEPT ![r].removed = Old(r) # NoFile /\ ~HadPair(r)]
  /\ To(r, "undo_search")
  /\ Calm /\ UNCHANGED <<search, receipts, stage, lock, seen, scanned, corpus>>

\* Faulty: a new index is left in place when there was none before.
UndoSearch_KeepsNew(r) ==
  /\ At(r, "undo_search")
  /\ search' = IF refresh[r].placed /\ HadPair(r) THEN refresh[r].search ELSE search
  /\ To(r, "unpin")
  /\ Calm /\ UNCHANGED <<catalog, receipts, stage, lock, private>>

UndoSearch(r) ==
  /\ At(r, "undo_search")
  /\ search' = IF ~refresh[r].placed THEN search
               ELSE IF HadPair(r) THEN refresh[r].search ELSE NoFile
  /\ To(r, "unpin")
  /\ Calm /\ UNCHANGED <<catalog, receipts, stage, lock, private>>

UndoFails(r) ==
  /\ At(r, "undo") \/ At(r, "undo_search") \/ At(r, "unpin")
  /\ AlsoFails
  /\ To(r, "unpin_only")
  /\ UNCHANGED <<files, lock, private>>

\* The finally block removes the receipt this call has published.
Unpin(r) ==
  /\ receipts' = IF refresh[r].pinned THEN receipts \ {r} ELSE receipts
  /\ \/ At(r, "unpin") /\ Return(r, "failed")
     \/ At(r, "unpin_only") /\ Return(r, "broken")
  /\ Calm /\ UNCHANGED <<catalog, search, stage, seen, scanned, corpus>>

\* A receipt that cannot be removed stays.
UnpinFails(r) ==
  /\ (At(r, "unpin") \/ At(r, "unpin_only")) /\ refresh[r].pinned /\ AlsoFails
  /\ Return(r, "broken")
  /\ UNCHANGED <<files, seen, scanned, corpus>>

-----------------------------------------------------------------------------
(* SQLiteFtsIndex.rebuild on the published index.                           *)

Build(b) ==
  /\ At(b, "idle")
  /\ scanned' = [scanned EXCEPT ![b] = corpus]
  /\ receipts' = receipts \cup {b}
  /\ To(b, "built")
  /\ Calm /\ UNCHANGED <<catalog, search, stage, lock, corpus, seen, refresh>>

Replace(b) ==
  /\ At(b, "built")
  /\ search' = [gen |-> b, corpus |-> scanned[b]]
  /\ To(b, "done")
  /\ Calm /\ UNCHANGED <<catalog, receipts, stage, lock, private>>

BuildFails(b) ==
  /\ At(b, "built") /\ Fault
  /\ To(b, "failed")
  /\ UNCHANGED <<files, lock, private>>

-----------------------------------------------------------------------------
Ended == {"done", "failed", "broken", "crashed"}

\* The kernel releases the lock of a process that dies; its memory and its staging
\* directory are of no use to anybody.
Crash(p) ==
  /\ pc[p] \notin Ended \cup {"idle"}
  /\ crashes < MaxCrashes /\ crashes' = crashes + 1
  /\ To(p, "crashed")
  /\ lock' = IF lock = p THEN NoOne ELSE lock
  /\ seen' = [w \in Writers |-> IF w = p THEN NoFile ELSE seen[w]]
  /\ refresh' = [r \in Refreshes |->
                   IF r = p THEN [refresh[r] EXCEPT !.catalog = NoFile, !.search = NoFile]
                            ELSE refresh[r]]
  /\ UNCHANGED <<files, scanned, corpus, faults>>

\* Transcripts are added to the corpus.
Grow ==
  /\ corpus < MaxCorpus
  /\ corpus' = corpus + 1
  /\ Calm /\ UNCHANGED <<files, lock, pc, seen, scanned, refresh>>

Session(w) == Open(w) \/ Stage(w) \/ Discard(w) \/ Exchange(w) \/ Commit(w) \/ Doubt(w)
                \/ Reverse(w) \/ ReverseFails(w)

Refresh(r) ==
  \/ Begin(r) \/ Scan(r) \/ Abort(r)
  \/ ReplaceCatalog(r) \/ CatalogFails(r) \/ RestoreCatalog(r) \/ RestoreFails(r)
  \/ PublishReceipt(r) \/ PinFails(r) \/ ReplaceSearch(r) \/ ReplaceUnnoted(r)
  \/ Finish(r) \/ SearchFails(r)
  \/ UndoCatalog(r) \/ UndoSearch(r) \/ UndoFails(r) \/ Unpin(r) \/ UnpinFails(r)

\* Either file may be there already, published by an earlier call.
PublicationInit ==
  /\ catalog \in {NoFile, [id |-> <<First, "new">>, rows |-> {}, corpus |-> 0]}
  /\ search \in {NoFile, [gen |-> First, corpus |-> 0]}
  /\ receipts = IF search = NoFile THEN {} ELSE {First}
  /\ stage = [w \in Writers |-> NoFile]
  /\ lock = NoOne /\ corpus = 0
  /\ pc = [p \in Procs |-> "idle"]
  /\ seen = [w \in Writers |-> NoFile]
  /\ scanned = [p \in Refreshes \cup Rebuilds |-> 0]
  /\ refresh = [r \in Refreshes |-> [catalog |-> NoFile, search |-> NoFile, imported |-> 0,
                                     pinned |-> FALSE, placed |-> FALSE,
                                     removed |-> FALSE, unnoted |-> FALSE]]
  /\ faults = 0 /\ crashes = 0

PublicationNext ==
  \/ \E w \in Writers : Session(w)
  \/ \E r \in Refreshes : Refresh(r)
  \/ \E b \in Rebuilds : Build(b) \/ Replace(b) \/ BuildFails(b)
  \/ \E p \in Procs : Crash(p)
  \/ Grow

PublicationSpec == PublicationInit /\ [][PublicationNext]_publicationVars

-----------------------------------------------------------------------------
(* Properties.                                                             *)

Locked == {"body", "exchanged", "reverse", "imported", "scanned", "catalog", "restore",
           "receipt", "search", "undo", "undo_search", "unpin", "unpin_only"}

Holdings == [catalog : Catalogs \cup {NoFile}, search : Indexes \cup {NoFile},
             imported : 0..MaxCorpus, pinned : BOOLEAN, placed : BOOLEAN,
             removed : BOOLEAN, unnoted : BOOLEAN]

PublicationTypeOK ==
  /\ catalog \in Catalogs \cup {NoFile} /\ search \in Indexes \cup {NoFile}
  /\ receipts \subseteq Refreshes \cup Rebuilds \cup {First}
  /\ stage \in [Writers -> Catalogs \cup {NoFile}]
  /\ corpus \in 0..MaxCorpus /\ scanned \in [Refreshes \cup Rebuilds -> 0..MaxCorpus]
  /\ seen \in [Writers -> Identities \cup {NoFile}]
  /\ refresh \in [Refreshes -> Holdings]
  /\ pc \in [Procs -> Locked \cup Ended \cup {"idle", "waiting", "built"}]
  /\ \A p \in Procs : lock = p <=> pc[p] \in Locked
  /\ faults \in 0..MaxFaults /\ crashes \in 0..MaxCrashes

Committed == {w \in Writers : At(w, "done")}

\* No update is lost: whichever sessions, refreshes and rollbacks replace the
\* catalog, the one that is there holds the rows of every session that returned;
\* unless a failing refresh that found no index has removed the catalog it found.
UpdatesKept ==
  (\A r \in Refreshes : ~refresh[r].removed) => Committed \subseteq Rows(catalog)

RollbacksWorked == \A p \in Procs : ~At(p, "broken")

ReplacesNoted == \A r \in Refreshes : ~refresh[r].unnoted

\* Every rollback worked, and knew what it had to undo.
CleanRollbacks == RollbacksWorked /\ ReplacesNoted

\* Unless a rollback has failed or did not know that the index was replaced, the
\* published index has its receipt, without which readers refuse it: at every step,
\* after a crash at any step, and when a refresh takes its own receipt back while
\* another process publishes.
SearchUsable ==
  CleanRollbacks /\ search # NoFile => search.gen \in receipts

\* A refresh that reports failure, its rollback having worked, leaves nothing of
\* itself that it knows of: no receipt, no index and no new catalog.
FailedLeavesNothing ==
  \A r \in Refreshes : At(r, "failed") /\ ~refresh[r].unnoted =>
    /\ refresh[r].pinned => r \notin receipts
    /\ search # NoFile => search.gen # r
    /\ catalog # NoFile => catalog.id # <<r, "new">>

\* What a refresh has published stays: the catalog and the index exist and are at
\* least as new, whatever later refreshes fail and roll back, or die, as long as
\* rollbacks work and know what to undo.  Only a standalone rebuild, which takes no
\* lock, can publish an index it scanned before.
RefreshesKept ==
  CleanRollbacks => \A r \in Refreshes : At(r, "done") =>
    /\ catalog # NoFile /\ catalog.corpus >= refresh[r].imported
    /\ search # NoFile
    /\ search.gen \in Rebuilds \/ search.corpus >= refresh[r].imported

\* "A failed search-index publication after catalogue publication must restore
\* both the previous search index and the previous catalogue."
RestoresPrevious ==
  [][\A r \in Refreshes : At(r, "unpin") /\ pc'[r] = "failed" =>
       /\ Old(r) # NoFile => catalog' # NoFile
       /\ refresh[r].search # NoFile => search' # NoFile /\ search'.gen # r]_publicationVars

=============================================================================
