---------------------------- MODULE CatalogContents ----------------------------
(***************************************************************************)
(* What sessions write into the catalog (src/yt_insights/catalog.py): the    *)
(* import of the corpus and the ingestion of discovered videos.  A session   *)
(* works on a private copy of the tables and publishes it when it is done    *)
(* (module IndexPublication), so that at most one is under way; the files of *)
(* the corpus may be added, removed, rewritten and moved between any two of  *)
(* its steps.                                                               *)
(*                                                                         *)
(* Searches read one row per video, which the sessions keep up to date only   *)
(* for the videos they think they have touched.                             *)
(***************************************************************************)
EXTENDS Naturals, Sequences, FiniteSets

CONSTANTS
  Layouts,     \* source directories in the order they are listed, the flat inbox first
  Artifacts,   \* artifact names in the order they are listed: video, title, kind
  Videos,
  Titles,      \* a title stands for the title and the date of a video
  Kinds,
  Contents,    \* bytes a file may hold
  Broken,      \* those that cannot be decoded
  Incomplete,  \* insights that lack required keys
  Slugs,       \* names of sources
  Feeds,       \* results of a discovery: source, videos, and whether there were errors
  MaxEdits,    \* bound on changes of the corpus
  MaxVisits,   \* bound on sessions
  None

Directories == {Layouts[i] : i \in DOMAIN Layouts}

Inbox == Layouts[1]

Places == Directories \X DOMAIN Artifacts

ASSUME ContentsAssumption ==
  /\ {MaxEdits, MaxVisits} \subseteq Nat
  /\ Layouts \in Seq(Slugs) /\ Layouts # <<>>
  /\ \A i, j \in DOMAIN Layouts : Layouts[i] = Layouts[j] => i = j
  /\ Artifacts \in Seq([video : Videos \cup {None}, title : Titles \cup {None}, kind : Kinds])
  /\ Broken \subseteq Contents /\ Incomplete \subseteq Contents
  /\ Feeds \subseteq [slug : Slugs, errors : BOOLEAN,
                       videos : Seq([video : Videos, title : Titles \cup {None}])]
  /\ None \notin Videos \cup Titles \cup Contents \cup Slugs
  /\ None # "" /\ None \notin Feeds

VARIABLES
  library,   \* the files of the corpus
  labels,    \* for each video, the source its metadata file in the inbox names
  tables,    \* the published catalog
  visit,     \* the session under way, with its copy of the tables
  report,    \* what the last session returned
  edits, visits

contentsVars == <<library, labels, tables, visit, report, edits, visits>>

-----------------------------------------------------------------------------
(* The corpus.                                                             *)

Edited ==
  /\ edits < MaxEdits /\ edits' = edits + 1
  /\ UNCHANGED <<tables, visit, report, visits>>

Write(place, bytes) ==
  /\ library[place] # bytes
  /\ library' = [library EXCEPT ![place] = bytes]
  /\ UNCHANGED labels /\ Edited

Move(from, to) ==
  /\ library[from] # None /\ from[2] = to[2] /\ from # to
  /\ library' = [library EXCEPT ![to] = library[from], ![from] = None]
  /\ UNCHANGED labels /\ Edited

Label(video, slug) ==
  /\ labels[video] # slug
  /\ labels' = [labels EXCEPT ![video] = slug]
  /\ UNCHANGED library /\ Edited

Edit ==
  \/ \E place \in Places, bytes \in Contents \cup {None} : Write(place, bytes)
  \/ \E from, to \in Places : Move(from, to)
  \/ \E video \in Videos, slug \in Slugs \cup {None} : Label(video, slug)

Supported(i) == Artifacts[i].video # None

\* Files of the inbox belong to the channel their metadata names, if there is any.
SourceOf(place) ==
  IF place[1] = Inbox /\ Supported(place[2]) /\ labels[Artifacts[place[2]].video] # None
  THEN labels[Artifacts[place[2]].video]
  ELSE place[1]

\* One file as the inventory holds it.
Item(place) == [place |-> place, slug |-> SourceOf(place), bytes |-> library[place]]

\* _inventory_corpus for one source directory: the files that are there, in their order.
Present(directory) == {i \in DOMAIN Artifacts : library[<<directory, i>>] # None}

Lists(directory, found) ==
  /\ {found[k] : k \in DOMAIN found} = Present(directory)
  /\ \A k, l \in DOMAIN found : k < l => found[k] < found[l]

Inventory(directory, found) == [k \in DOMAIN found |-> Item(<<directory, found[k]>>)]

-----------------------------------------------------------------------------
(* The tables: videos, their sources, their artifacts and their search rows. *)

NoTables == [videos |-> [v \in Videos |-> None], sources |-> {}, artifacts |-> {},
             rows |-> [v \in Videos |-> None]]

\* _upsert_video_values: an empty title does not replace one that is known.
WithVideo(t, video, title) ==
  [t EXCEPT !.videos[video] =
     IF title = None THEN (IF @ = None THEN "" ELSE @) ELSE title]

\* Faulty: what a discovery has recorded is overwritten.
WithSource_Overwrites(t, video, slug, discovered) ==
  [t EXCEPT !.sources = {s \in @ : s.video # video \/ s.slug # slug}
                          \cup {[video |-> video, slug |-> slug, url |-> discovered]}]

\* _upsert_source: an address, once known, is kept.
WithSource(t, video, slug, discovered) ==
  LET known == [video |-> video, slug |-> slug, url |-> TRUE] \in t.sources
  IN [t EXCEPT !.sources = {s \in @ : s.video # video \/ s.slug # slug}
                  \cup {[video |-> video, slug |-> slug, url |-> discovered \/ known]}]

SourcesOf(t, video) == {s.slug : s \in {x \in t.sources : x.video = video}}

TextsOf(t, video) ==
  {<<a.kind, a.bytes>> : a \in {x \in t.artifacts : x.video = video}}

RowOf(t, video) ==
  [title |-> t.videos[video], sources |-> SourcesOf(t, video), texts |-> TextsOf(t, video)]

\* _reindex_video, for each video of a set
Reindexed(t, videos) ==
  [t EXCEPT !.rows = [v \in Videos |->
     IF v \in videos /\ t.videos[v] # None THEN RowOf(t, v) ELSE t.rows[v]]]

\* The row of these bytes, wherever they were found before.
Known(t, item) ==
  {a \in t.artifacts :
     /\ a.video = Artifacts[item.place[2]].video
     /\ a.kind = Artifacts[item.place[2]].kind
     /\ a.bytes = item.bytes}

WithArtifact(t, item) ==
  [t EXCEPT !.artifacts = (@ \ Known(t, item)) \cup
     {[video |-> Artifacts[item.place[2]].video, kind |-> Artifacts[item.place[2]].kind,
       bytes |-> item.bytes, slug |-> item.slug, place |-> item.place]}]

-----------------------------------------------------------------------------
(* Sessions.                                                               *)

OpenSession(layouts, todo, feed) ==
  /\ visit = None /\ visits < MaxVisits /\ visits' = visits + 1
  /\ visit' = [layouts |-> layouts, todo |-> todo, feed |-> feed, tables |-> tables,
               seen |-> {}, left |-> {}, touched |-> {}, errors |-> 0, phase |-> "items",
               since |-> edits]
  /\ report' = None
  /\ UNCHANGED <<library, labels, tables, edits>>

OpenImport == OpenSession(Layouts, <<>>, None)

OpenDiscovery(feed) == OpenSession(<<>>, feed.videos, feed)

Importing == visit # None /\ visit.feed = None

Step(next) == visit' = next /\ UNCHANGED <<library, labels, tables, report, edits, visits>>

ListLayout ==
  /\ Importing /\ visit.layouts # <<>>
  /\ LET directory == Head(visit.layouts) IN
       \E n \in 0..Len(Artifacts) : \E found \in [1..n -> Present(directory)] :
          /\ Lists(directory, found)
          /\ Step([visit EXCEPT !.layouts = Tail(@), !.todo = @ \o Inventory(directory, found)])

\* The next item of an import whose inventory is complete.
Next_ == visit.todo[1]

Ready == Importing /\ visit.layouts = <<>> /\ visit.phase = "items" /\ visit.todo # <<>>

\* The file name is not that of an artifact.
SkipItem ==
  /\ Ready /\ ~Supported(Next_.place[2])
  /\ Step([visit EXCEPT !.todo = Tail(@), !.errors = 1])

\* The bytes cannot be decoded: only an error is recorded.
FailItem ==
  /\ Ready /\ Supported(Next_.place[2]) /\ Next_.bytes \in Broken
  /\ Step([visit EXCEPT !.todo = Tail(@), !.errors = 1,
             !.seen = @ \cup {<<Artifacts[Next_.place[2]].video, Next_.slug>>}])

\* _insight_validation_issues: imported all the same
Flawed(item) ==
  Artifacts[item.place[2]].kind = "insight" /\ item.bytes \in Incomplete

\* Faulty: only new bytes make a video worth indexing again.
Touches_NewBytes(t, item) == Known(t, item) = {}

\* Whether the row of the item's video may have changed.
Touches(t, item) ==
  LET name == Artifacts[item.place[2]]
  IN \/ Known(t, item) = {}
     \/ \E a \in Known(t, item) : a.slug # item.slug
     \/ t.videos[name.video] # name.title
     \/ item.slug \notin SourcesOf(t, name.video)

\* Faulty: bytes found elsewhere leave their row where it was.
ImportItem_KeepsPlace ==
  /\ Ready /\ Supported(Next_.place[2]) /\ Next_.bytes \notin Broken
  /\ LET name == Artifacts[Next_.place[2]]
         old == Known(visit.tables, Next_)
         t == WithSource(WithVideo(visit.tables, name.video, name.title),
                         name.video, Next_.slug, FALSE)
     IN Step([visit EXCEPT
          !.todo = Tail(@),
          !.errors = IF Flawed(Next_) THEN 1 ELSE @,
          !.seen = @ \cup {<<name.video, Next_.slug>>},
          !.tables = IF old = {} THEN WithArtifact(t, Next_) ELSE t,
          !.touched = IF Touches(visit.tables, Next_) THEN @ \cup {name.video} ELSE @])

\* The body of the loop of _import_corpus_items.
ImportItem ==
  /\ Ready /\ Supported(Next_.place[2]) /\ Next_.bytes \notin Broken
  /\ LET name == Artifacts[Next_.place[2]]
         old == Known(visit.tables, Next_)
         t == WithSource(WithVideo(visit.tables, name.video, name.title),
                         name.video, Next_.slug, FALSE)
     IN Step([visit EXCEPT
          !.todo = Tail(@),
          !.errors = IF Flawed(Next_) THEN 1 ELSE @,
          !.seen = @ \cup {<<name.video, Next_.slug>>},
          !.left = @ \cup {<<name.video, a.slug>> : a \in {x \in old : x.slug # Next_.slug}},
          !.tables = WithArtifact(t, Next_),
          !.touched = IF Touches(visit.tables, Next_) THEN @ \cup {name.video} ELSE @])

\* Sources an artifact was moved from, which nothing else speaks for.
Stale ==
  {s \in visit.tables.sources :
     /\ <<s.video, s.slug>> \in visit.left \ visit.seen
     /\ ~s.url
     /\ \A a \in visit.tables.artifacts : a.video # s.video \/ a.slug # s.slug}

DropStale ==
  /\ Importing /\ visit.layouts = <<>> /\ visit.phase = "items" /\ visit.todo = <<>>
  /\ Step([visit EXCEPT !.phase = "index", !.tables.sources = @ \ Stale])

Reindex ==
  /\ Importing /\ visit.phase = "index"
  /\ Step([visit EXCEPT !.phase = "done", !.tables = Reindexed(@, visit.touched)])

\* The body of the loop of ingest_discovery.
IngestVideo ==
  /\ visit # None /\ visit.feed # None /\ visit.todo # <<>>
  /\ LET found == visit.todo[1]
         t == WithSource(WithVideo(visit.tables, found.video, found.title),
                         found.video, visit.feed.slug, TRUE)
     IN Step([visit EXCEPT !.todo = Tail(@), !.tables = Reindexed(t, {found.video})])

EndDiscovery ==
  /\ visit # None /\ visit.feed # None /\ visit.todo = <<>> /\ visit.phase = "items"
  /\ Step([visit EXCEPT !.phase = "done", !.errors = IF visit.feed.errors THEN 1 ELSE 0])

\* The session returns and is published.
EndSession ==
  /\ visit # None /\ visit.phase = "done"
  /\ tables' = visit.tables /\ visit' = None
  /\ report' = [import |-> visit.feed = None, since |-> visit.since,
                status |-> IF visit.errors = 0 THEN "completed" ELSE "partial"]
  /\ UNCHANGED <<library, labels, edits, visits>>

\* The session raises or dies: its copy is removed.
Abandon ==
  /\ visit # None /\ visit' = None
  /\ UNCHANGED <<library, labels, tables, report, edits, visits>>

ContentsInit ==
  /\ library = [place \in Places |-> None]
  /\ labels = [v \in Videos |-> None]
  /\ tables = NoTables /\ visit = None /\ report = None
  /\ edits = 0 /\ visits = 0

ContentsNext ==
  \/ Edit
  \/ OpenImport \/ ListLayout \/ SkipItem \/ FailItem \/ ImportItem \/ DropStale \/ Reindex
  \/ \E feed \in Feeds : OpenDiscovery(feed)
  \/ IngestVideo \/ EndDiscovery
  \/ EndSession \/ Abandon

ContentsSpec == ContentsInit /\ [][ContentsNext]_contentsVars

-----------------------------------------------------------------------------
(* Properties.                                                             *)

\* Searches see what the tables hold: every video has its row, and the row has the
\* current title, sources and texts, although sessions index only the videos they have
\* touched (import_corpus, ingest_discovery, _reindex_video).
SearchRowsAgree ==
  \A v \in Videos :
    tables.rows[v] = IF tables.videos[v] = None THEN None ELSE RowOf(tables, v)

KeepsKnown ==
  /\ \A v \in Videos : tables.videos[v] # None => tables.videos[v]' \notin {None}
  /\ \A s \in tables.sources : s.url => s \in tables'.sources
  /\ \A a \in tables.artifacts :
       \E b \in tables'.artifacts : b.video = a.video /\ b.kind = a.kind /\ b.bytes = a.bytes

\* No session forgets a video, a text or a source where a video was discovered, whatever
\* was moved or removed in the corpus (the DELETE of _import_corpus_items).
NothingForgotten == [][KeepsKnown]_contentsVars

\* When an import has returned and nobody has changed the corpus since it began, every
\* readable artifact is in the catalog under its source, with the place of a file that
\* holds these bytes; and "completed" means that there was no other file.
ImportsAreComplete ==
  report # None /\ report.import /\ report.since = edits =>
    \A place \in Places :
      LET name == Artifacts[place[2]]
      IN library[place] # None =>
           /\ Supported(place[2]) /\ library[place] \notin Broken =>
                /\ SourceOf(place) \in SourcesOf(tables, name.video)
                /\ \E a \in Known(tables, Item(place)) :
                     library[a.place] = a.bytes /\ a.slug = SourceOf(a.place)
           /\ report.status = "completed" =>
                Supported(place[2]) /\ library[place] \notin Broken /\ ~Flawed(Item(place))

================================================================================
