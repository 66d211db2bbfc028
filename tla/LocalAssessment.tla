---------------------------- MODULE LocalAssessment ----------------------------
(***************************************************************************)
(* Readers of the published databases: one assessment of a research session *)
(* (src/yt_insights/research/assessment.py), which reads the search index    *)
(* and the catalog in many calls, and a server that keeps one                *)
(* SQLiteFtsIndex object (search/sqlite_fts.py) and with it a memory of what *)
(* it has validated.  No reader takes a lock: sessions, refreshes and        *)
(* rebuilds (module IndexPublication) replace the files between any two      *)
(* steps.                                                                  *)
(*                                                                         *)
(* A file is known by its inode.  Its modification time tells whether it was *)
(* changed in place; its change time also tells that it was renamed, which   *)
(* the identities of SQLiteFtsIndex and ReadOnlyCatalog include and the      *)
(* generations of the assessment do not.                                    *)
(***************************************************************************)
EXTENDS Naturals, Sequences, FiniteSets

CONSTANTS
  Queries,       \* number of queries of the session
  Languages,     \* number of languages the session asks for
  Limit,         \* passages kept for one query
  Contents,      \* contents a catalog may have
  Hits,          \* passages found: by generation, query and language, best first
  VideoHits,     \* videos found: by content of the catalog and query, best first
  MaxChanges,    \* bound on the changes of the published files
  NoFile

Generations == 0..MaxChanges

IndexFiles == [inode : Generations, gen : Generations]

CatalogFiles == [inode : Generations, content : Contents, ctime : Generations]

\* An index is found with the bytes of its receipt, or damaged.
Objects == Generations \X BOOLEAN

\* A search finds no video twice: the catalog has one search row for each video
\* (CatalogContents, SearchRowsAgree).
ASSUME AssessmentAssumption ==
  /\ {Queries, Languages, Limit} \subseteq Nat \ {0} /\ MaxChanges \in Nat
  /\ \A g \in Generations, q \in 1..Queries, l \in 1..Languages :
       \E n \in 0..Limit : DOMAIN Hits[g][q][l] = 1..n
  /\ \A c \in Contents, q \in 1..Queries :
       /\ DOMAIN VideoHits[c][q] \subseteq Nat
       /\ \A i, j \in DOMAIN VideoHits[c][q] : VideoHits[c][q][i] = VideoHits[c][q][j] => i = j
  /\ NoFile \notin Generations \cup Contents \cup IndexFiles \cup CatalogFiles \cup Objects
  /\ NoFile \notin (Generations \X Generations) \cup (Objects \X Objects)

Searchers == {"assessment", "server"}

VARIABLES
  search,        \* the published index: inode and generation
  catalog,       \* the published catalog: inode, content and change time
  displaced,     \* the catalog a session has exchanged for its own and may put back
  receipts,      \* generations with a receipt
  damaged,       \* inodes of indexes changed in place by another program
  changes,       \* number of changes so far; numbers inodes and generations
  together,      \* history: the pairs of objects that were published at one time
  pc,
  call,          \* the search call of each process: identity, connection, rows, start
  cache,         \* what the object of each process has validated: identity and digest
  scope,         \* the assessment: snapshot, held catalog, position, start, and as
                 \* history what the two files of the snapshot hold
  evidence       \* what the assessment has collected

files == <<search, catalog, displaced, receipts, damaged, changes, together>>

readers == <<pc, call, cache, scope, evidence>>

assessmentVars == <<files, readers>>

At(p, point) == pc[p] = point

Moves(p, point) == pc' = [pc EXCEPT ![p] = point]

-----------------------------------------------------------------------------
(* Publication, as readers see it.                                         *)

\* (st_dev, st_ino, st_size, st_mtime_ns) of an index; that of a catalog, which nobody
\* changes in place, is its inode.
Object(file) == IF file = NoFile THEN NoFile ELSE <<file.inode, file.inode \in damaged>>

CatalogObject(file) == IF file = NoFile THEN NoFile ELSE file.inode

CatalogIdentity(file) == IF file = NoFile THEN NoFile ELSE <<file.inode, file.ctime>>

\* Every change is counted, and the pair it leaves is remembered.
Changed ==
  /\ changes < MaxChanges /\ changes' = changes + 1
  /\ together' = together \cup {<<Object(search)', CatalogObject(catalog)'>>}
  /\ UNCHANGED readers

\* _write_generation_receipt: the receipt is there before the index it is for.
WriteReceipt ==
  /\ receipts' = receipts \cup {changes + 1}
  /\ UNCHANGED <<search, catalog, displaced, damaged>> /\ Changed

\* os.replace: a new index, or the copy a rollback puts back.
ReplaceSearch(g) ==
  /\ g \in receipts
  /\ search' = [inode |-> changes + 1, gen |-> g]
  /\ UNCHANGED <<catalog, displaced, receipts, damaged>> /\ Changed

\* A refresh that has failed removes its receipt, and both files, one after the other,
\* if there was no pair before.
RemoveReceipt(g) ==
  /\ g \in receipts /\ displaced = NoFile
  /\ receipts' = receipts \ {g}
  /\ UNCHANGED <<search, catalog, displaced, damaged>> /\ Changed

RemoveFile ==
  /\ displaced = NoFile
  /\ \/ search' = NoFile /\ UNCHANGED catalog
     \/ catalog' = NoFile /\ UNCHANGED search
  /\ UNCHANGED <<displaced, receipts, damaged>> /\ Changed

\* Another program writes into the index.
Damage ==
  /\ search # NoFile
  /\ damaged' = damaged \cup {search.inode}
  /\ UNCHANGED <<search, catalog, displaced, receipts>> /\ Changed

\* A refresh replaces the catalog, or its rollback does.
ReplaceCatalog(content) ==
  /\ displaced = NoFile
  /\ catalog' = [inode |-> changes + 1, content |-> content, ctime |-> changes + 1]
  /\ UNCHANGED <<search, displaced, receipts, damaged>> /\ Changed

\* A session exchanges its stage with the catalog, and then removes the old one or
\* puts it back: the same object, with another change time.
Exchange(content) ==
  /\ catalog # NoFile /\ displaced = NoFile
  /\ catalog' = [inode |-> changes + 1, content |-> content, ctime |-> changes + 1]
  /\ displaced' = catalog
  /\ UNCHANGED <<search, receipts, damaged>> /\ Changed

EndExchange(reverse) ==
  /\ displaced # NoFile
  /\ catalog' = IF reverse THEN [displaced EXCEPT !.ctime = changes + 1] ELSE catalog
  /\ displaced' = NoFile
  /\ UNCHANGED <<search, receipts, damaged>> /\ Changed

Publish ==
  \/ WriteReceipt \/ RemoveFile \/ Damage
  \/ \E g \in Generations : ReplaceSearch(g) \/ RemoveReceipt(g)
  \/ \E content \in Contents : ReplaceCatalog(content) \/ Exchange(content)
  \/ \E reverse \in BOOLEAN : EndExchange(reverse)

-----------------------------------------------------------------------------
(* One call of SQLiteFtsIndex.search.                                      *)

NoCall == [identity |-> NoFile, conn |-> NoFile, rows |-> <<>>, intact |-> TRUE, since |-> 0]

\* Where the process goes when its call raises.
Raise(p) == Moves(p, "failed")

\* The assessment makes an object for every call, which remembers nothing.
Inspect(p) ==
  /\ At(p, "search")
  /\ IF search = NoFile THEN Raise(p) ELSE Moves(p, "connect")
  /\ call' = [call EXCEPT ![p] = [NoCall EXCEPT !.identity = Object(search),
                                                !.since = changes]]
  /\ cache' = IF p = "assessment" THEN [cache EXCEPT ![p] = NoFile] ELSE cache
  /\ UNCHANGED <<files, scope, evidence>>

OpenIndex(p) ==
  /\ At(p, "connect")
  /\ IF search = NoFile THEN Raise(p) ELSE Moves(p, "contract")
  /\ call' = [call EXCEPT ![p].conn = search]
  /\ UNCHANGED <<files, cache, scope, evidence>>

\* The digest of a file's bytes, which hold its generation.
Digest(file) == <<file.gen, file.inode \in damaged>>

Expected(p) == <<call[p].conn.gen, FALSE>>

\* Faulty: the identity of the file is not part of the memory.
Validated_ByDigest(p) == cache[p] # NoFile /\ cache[p][2] = Expected(p)

\* What this object has validated need not be read again.
Validated(p) == cache[p] = <<call[p].identity, Expected(p)>>

\* The generation's receipt, then the bytes if they were not validated before.
Contract(p) ==
  /\ At(p, "contract")
  /\ IF call[p].conn.gen \notin receipts THEN Raise(p)
     ELSE Moves(p, IF Validated(p) THEN "query" ELSE "hash")
  /\ UNCHANGED <<files, call, cache, scope, evidence>>

Hash(p) ==
  /\ At(p, "hash")
  /\ IF Object(search) = call[p].identity /\ Digest(search) = Expected(p)
     THEN /\ cache' = [cache EXCEPT ![p] = <<call[p].identity, Expected(p)>>]
          /\ Moves(p, "query")
     ELSE Raise(p) /\ UNCHANGED cache
  /\ UNCHANGED <<files, call, scope, evidence>>

Position(p) == IF p = "server" THEN <<1, 1>> ELSE <<scope.query, scope.language>>

Query(p) ==
  /\ At(p, "query")
  /\ call' = [call EXCEPT
       ![p].rows = Hits[call[p].conn.gen][Position(p)[1]][Position(p)[2]],
       ![p].intact = call[p].conn.inode \notin damaged]
  /\ Moves(p, "confirm")
  /\ UNCHANGED <<files, cache, scope, evidence>>

\* The file by that name is still the one that was inspected.
Unchanged(p) == Object(search) = call[p].identity

-----------------------------------------------------------------------------
(* The server.                                                             *)

Ask ==
  /\ At("server", "idle") \/ At("server", "answered") \/ At("server", "failed")
  /\ Moves("server", "search")
  /\ call' = [call EXCEPT !["server"] = NoCall]
  /\ UNCHANGED <<files, cache, scope, evidence>>

Answer ==
  /\ At("server", "confirm")
  /\ IF Unchanged("server") THEN Moves("server", "answered") ELSE Raise("server")
  /\ UNCHANGED <<files, call, cache, scope, evidence>>

-----------------------------------------------------------------------------
(* assess_local with SQLiteEvidenceReader.                                 *)

Goto(point) == Moves("assessment", point)

Fails == Raise("assessment")

\* capture_snapshot reads the two generations one after the other.
CaptureSearch ==
  /\ At("assessment", "idle")
  /\ IF search = NoFile THEN Fails ELSE Goto("capture")
  /\ scope' = [scope EXCEPT !.search = Object(search), !.since = changes,
                            !.gen = IF search = NoFile THEN 0 ELSE search.gen]
  /\ UNCHANGED <<files, call, cache, evidence>>

CaptureCatalog ==
  /\ At("assessment", "capture")
  /\ IF catalog = NoFile THEN Fails ELSE Goto("open")
  /\ scope' = [scope EXCEPT !.catalog = CatalogObject(catalog),
                            !.content = IF catalog = NoFile THEN NoFile ELSE catalog.content]
  /\ UNCHANGED <<files, call, cache, evidence>>

\* ReadOnlyCatalog copies what it has opened, and then looks at the name again.
OpenCatalog ==
  /\ At("assessment", "open")
  /\ IF catalog = NoFile THEN Fails ELSE Goto("opened")
  /\ scope' = [scope EXCEPT !.held = catalog]
  /\ UNCHANGED <<files, call, cache, evidence>>

HeldCatalogUnchanged == CatalogIdentity(catalog) = CatalogIdentity(scope.held)

HoldCatalog ==
  /\ At("assessment", "opened")
  /\ IF HeldCatalogUnchanged THEN Goto("validate") ELSE Fails
  /\ UNCHANGED <<files, call, cache, scope, evidence>>

\* Where validate_snapshot goes on: to the first query, or to the end.
Finished == scope.query > Queries

\* Faulty: only the index is compared.
ValidateCatalog_Never ==
  /\ At("assessment", "validate_catalog")
  /\ Goto(IF Finished THEN "done" ELSE "search")
  /\ UNCHANGED <<files, call, cache, scope, evidence>>

ValidateSearch ==
  /\ At("assessment", "validate")
  /\ IF Object(search) = scope.search THEN Goto("validate_catalog") ELSE Fails
  /\ UNCHANGED <<files, call, cache, scope, evidence>>

ValidateCatalog ==
  /\ At("assessment", "validate_catalog")
  /\ IF CatalogObject(catalog) # scope.catalog THEN Fails
     ELSE Goto(IF Finished THEN "done" ELSE "search")
  /\ UNCHANGED <<files, call, cache, scope, evidence>>

Candidates(rows, language) ==
  {[item |-> rows[rank], language |-> language, rank |-> rank] : rank \in DOMAIN rows}

\* The hits of one language; the next language is asked, or the catalog.
Collect ==
  /\ At("assessment", "confirm")
  /\ IF ~Unchanged("assessment") THEN Fails /\ UNCHANGED <<scope, evidence>>
     ELSE /\ evidence' = [evidence EXCEPT !.candidates =
                            @ \cup Candidates(call["assessment"].rows, scope.language)]
          /\ scope' = [scope EXCEPT !.language = @ + 1]
          /\ Goto(IF scope.language = Languages THEN "videos" ELSE "search")
  /\ UNCHANGED <<files, call, cache>>

\* A lower language position or query position goes first if the ranks do not tell.
SoonerLanguage(a, b) ==
  \/ a.language < b.language
  \/ a.language = b.language /\ a.rank < b.rank

Better(a, b) == a.rank < b.rank \/ (a.rank = b.rank /\ a.query < b.query)

BestHits(found) ==
  {a \in found : \A b \in found : b.item = a.item => b = a \/ SoonerLanguage(a, b)}

FirstOf(found, n) == {a \in found : Cardinality({b \in found : SoonerLanguage(b, a)}) < n}

\* search_passages: each passage once, and Limit of them in order.
Passages(candidates) == FirstOf(BestHits(candidates), Limit)

Ranked(found, query) ==
  {[item |-> a.item, rank |-> a.rank, query |-> query] : a \in found}

\* _select_best
Select(selected, found) ==
  {a \in selected \cup found :
     \A b \in selected \cup found : b.item = a.item => b = a \/ Better(a, b)}

\* ReadOnlyCatalog.search_videos asks the copy it holds.
FoundVideos == VideoHits[scope.held.content][scope.query]

Videos ==
  /\ At("assessment", "videos")
  /\ IF ~HeldCatalogUnchanged THEN Fails /\ UNCHANGED <<scope, evidence>>
     ELSE LET passages == Ranked(Passages(evidence.candidates), scope.query)
              videos == Ranked(Candidates(FoundVideos, 1), scope.query)
          IN /\ evidence' = [candidates |-> {},
                             passages |-> Select(evidence.passages, passages),
                             videos |-> Select(evidence.videos, videos),
                             zeros |-> IF passages \cup videos = {}
                                       THEN evidence.zeros \cup {scope.query}
                                       ELSE evidence.zeros]
             /\ scope' = [scope EXCEPT !.query = @ + 1, !.language = 1]
             /\ Goto(IF scope.query = Queries THEN "validate" ELSE "search")
  /\ UNCHANGED <<files, call, cache>>

-----------------------------------------------------------------------------
Call(p) == Inspect(p) \/ OpenIndex(p) \/ Contract(p) \/ Hash(p) \/ Query(p)

Assess ==
  \/ CaptureSearch \/ CaptureCatalog \/ OpenCatalog \/ HoldCatalog
  \/ ValidateSearch \/ ValidateCatalog \/ Collect \/ Videos

AssessmentInit ==
  /\ search = [inode |-> 0, gen |-> 0] /\ receipts = {0} /\ damaged = {}
  /\ \E content \in Contents : catalog = [inode |-> 0, content |-> content, ctime |-> 0]
  /\ displaced = NoFile /\ changes = 0
  /\ together = {<<Object(search), CatalogObject(catalog)>>}
  /\ pc = [p \in Searchers |-> "idle"]
  /\ call = [p \in Searchers |-> NoCall]
  /\ cache = [p \in Searchers |-> NoFile]
  /\ scope = [search |-> NoFile, catalog |-> NoFile, gen |-> 0,
              content |-> NoFile, held |-> NoFile,
              query |-> 1, language |-> 1, since |-> 0]
  /\ evidence = [candidates |-> {}, passages |-> {}, videos |-> {}, zeros |-> {}]

AssessmentNext ==
  \/ Publish
  \/ Assess
  \/ Ask \/ Answer
  \/ \E p \in Searchers : Call(p)

AssessmentSpec == AssessmentInit /\ [][AssessmentNext]_assessmentVars

-----------------------------------------------------------------------------
(* Properties.                                                             *)

AssessmentTypeOK ==
  /\ receipts \subseteq Generations /\ changes \in Generations
  /\ search = NoFile \/ (search.inode \in 0..changes /\ search.gen \in Generations)
  /\ catalog = NoFile \/ (catalog.inode \in 0..changes /\ catalog.content \in Contents)
  /\ scope.query \in 1..(Queries + 1) /\ scope.language \in 1..(Languages + 1)

\* Where a passage comes: before the passages of later languages and of higher rank.
Places == {<<language, rank>> : language \in 1..Languages, rank \in 1..Limit}

Precedes(a, b) == a[1] < b[1] \/ (a[1] = b[1] /\ a[2] < b[2])

At_(g, q, place) == Hits[g][q][place[1]][place[2]]

FirstPlaces(g, q) ==
  LET used == {p \in Places : p[2] \in DOMAIN Hits[g][q][p[1]]}
  IN {p \in used : ~\E o \in used : Precedes(o, p) /\ At_(g, q, o) = At_(g, q, p)}

KeptPlaces(g, q) ==
  {p \in FirstPlaces(g, q) : Cardinality({o \in FirstPlaces(g, q) : Precedes(o, p)}) < Limit}

PassagesOf(g, q) ==
  {[item |-> At_(g, q, p), rank |-> p[2], query |-> q] : p \in KeptPlaces(g, q)}

VideosOf(content, q) ==
  {[item |-> VideoHits[content][q][r], rank |-> r, query |-> q] : r \in DOMAIN VideoHits[content][q]}

\* An item counts once, at its best rank in the earliest query that gives it.
Once(found) ==
  {a \in found : \A b \in found :
     b.item = a.item => a.rank < b.rank \/ (a.rank = b.rank /\ a.query <= b.query)}

\* An assessment that is not told to retry holds exactly what the two files of its
\* snapshot hold, each item once at its best rank, and these files were published at
\* one time, whatever was published while it read (assess_local, validate_snapshot:
\* "mixed-generation evidence").
AssessmentOfOnePair ==
  At("assessment", "done") =>
    /\ <<scope.search, scope.catalog>> \in together
    /\ evidence.passages = Once(UNION {PassagesOf(scope.gen, q) : q \in 1..Queries})
    /\ evidence.videos = Once(UNION {VideosOf(scope.content, q) : q \in 1..Queries})
    /\ evidence.zeros = {q \in 1..Queries : PassagesOf(scope.gen, q) \cup
                                             VideosOf(scope.content, q) = {}}

\* A search answers with rows of the file it inspected, which nobody had changed since
\* its receipt was written, also when the object has validated other files before
\* (SQLiteFtsIndex._load_and_validate_receipt, _require_database_identity).
AnswersAreValidated ==
  \A p \in Searchers :
    At(p, "answered") \/ At(p, "videos") =>
      call[p].identity = <<call[p].conn.inode, FALSE>> /\ call[p].intact

\* Published files that a reader can use.
Usable ==
  /\ search # NoFile /\ catalog # NoFile
  /\ search.gen \in receipts /\ search.inode \notin damaged

\* Readers raise only if something was published since they began or if the files
\* cannot be used: a long-lived server does not refuse a new generation, and an
\* assessment nobody disturbs is completed.
FailsForACause ==
  \A p \in Searchers :
    At(p, "failed") =>
      changes > (IF p = "server" THEN call[p].since ELSE scope.since) \/ ~Usable

================================================================================
