------------------------------- MODULE CorpusScan -------------------------------
(***************************************************************************)
(* What a rebuild of the full-text index reads: scan_corpus of               *)
(* src/yt_insights/search/corpus.py lists the transcripts, takes down the    *)
(* identity of each file and its channel, and then reads them one after the  *)
(* other, each of them twice, while downloads, exports and people replace,   *)
(* remove and edit files.  The rows are then written by SQLiteFtsIndex       *)
(* (search/sqlite_fts.py) into a new database, which module IndexPublication *)
(* publishes.                                                              *)
(*                                                                         *)
(* A file is read by its descriptor, in two parts; the number of a removed   *)
(* file (its inode) may be given to a new one.  A part is a stamp: every     *)
(* write leaves another.  The slices with a limit are not modelled.          *)
(***************************************************************************)
EXTENDS Naturals, Sequences, FiniteSets

CONSTANTS
  Order,         \* the paths of transcripts, in their order
  FolderOf,      \* channel named by the directory of a path, or Flat
  KeyOf,         \* video and language named by a path, or NoKey
  Channels,
  Inodes,
  MaxWrites,    \* bound on the changes of files and metadata
  MaxTroubles,   \* bound on failing reads and parses
  Flat, NoKey, Absent, Symlink

Paths == {Order[i] : i \in 1..Len(Order)}

ASSUME ScanAssumption ==
  /\ {MaxWrites, MaxTroubles} \subseteq Nat
  /\ Order \in Seq(Paths) /\ IsFiniteSet(Inodes)
  /\ {Absent, Symlink} \cap Inodes = {} /\ Absent # Symlink
  /\ Channels \cap {Flat, Absent} = {} /\ Flat # Absent
  /\ \A p \in Paths : FolderOf[p] \in Channels \cup {Flat}
  /\ \A i, j \in 1..Len(Order) : Order[i] = Order[j] => i = j
  /\ Cardinality(Inodes) > Cardinality(Paths)

VARIABLES
  place,         \* what is at a path: an inode, Symlink or Absent
  bytes,         \* the two parts of a file, by inode
  info,          \* the channel a flat transcript's .info.json names, or Absent
  writes, troubles,
  touched,       \* history: paths that something was done to
  had,           \* history: contents the file at a path has had
  scan,          \* where the scan is, and what it has read of the current file
  found,         \* the candidates
  manifest,      \* documents, and paths with the reason why they are none
  index          \* the rows of the rebuilt index, or Absent

scanned == <<place, bytes, info, writes, touched, had>>

corpusVars == <<scanned, troubles, scan, found, manifest, index>>

Kinds == {"good", "empty", "undecodable"}

Stamps == [no : 0..MaxWrites, kind : Kinds]

\* What a text of two parts is: one bad part spoils it, one caption is enough.
Undecodable(text) == \E part \in 1..2 : text[part].kind = "undecodable"

NoCaption(text) == \A part \in 1..2 : text[part].kind = "empty"

-----------------------------------------------------------------------------
(* The files.                                                              *)

Regular(p) == place[p] \in Inodes

Free == Inodes \ ({place[p] : p \in Paths} \cup {scan.open})

Disturbed(p) ==
  /\ writes < MaxWrites /\ writes' = writes + 1
  /\ touched' = touched \cup {p}
  /\ had' = [had EXCEPT ![p] = IF place'[p] \in Inodes THEN @ \cup {bytes'[place'[p]]} ELSE @]
  /\ UNCHANGED <<troubles, scan, found, manifest, index>>

\* A new file takes the place of what was there.
Replace(p) ==
  /\ \E inode \in Free, kind \in Kinds :
       LET stamp == [no |-> writes + 1, kind |-> kind] IN
       /\ place' = [place EXCEPT ![p] = inode]
       /\ bytes' = [bytes EXCEPT ![inode] = <<stamp, stamp>>]
  /\ UNCHANGED info /\ Disturbed(p)

TakeAway(p) ==
  /\ place[p] # Absent
  /\ \E rest \in {Absent, Symlink} : place' = [place EXCEPT ![p] = rest]
  /\ UNCHANGED <<bytes, info>> /\ Disturbed(p)

\* A program that writes into a file changes one part before the other.
Edit(p, part) ==
  /\ Regular(p)
  /\ \E kind \in Kinds :
       bytes' = [bytes EXCEPT ![place[p]][part] = [no |-> writes + 1, kind |-> kind]]
  /\ UNCHANGED <<place, info>> /\ Disturbed(p)

Rename(p, channel) ==
  /\ FolderOf[p] = Flat /\ channel # info[p]
  /\ info' = [info EXCEPT ![p] = channel]
  /\ UNCHANGED <<place, bytes>> /\ Disturbed(p)

World ==
  \E p \in Paths :
    \/ Replace(p) \/ TakeAway(p)
    \/ \E part \in 1..2 : Edit(p, part)
    \/ \E channel \in Channels \cup {Absent} : Rename(p, channel)

-----------------------------------------------------------------------------
(* discover_corpus_sources: the inventory.                                 *)

Reached(point) == scan.point = point

There == {p \in Paths : place[p] # Absent}

Before(p, q) == \E i, j \in 1..Len(Order) : i < j /\ Order[i] = p /\ Order[j] = q

\* What is there, in its order.
Sorted(here) ==
  /\ {here[i] : i \in DOMAIN here} = There
  /\ \A i, j \in DOMAIN here : i < j => Before(here[i], here[j])

Listing(here) == [i \in DOMAIN here |-> [path |-> here[i], inode |-> Absent,
                                       channel |-> Absent, reason |-> "none"]]

Glob ==
  /\ Reached("list")
  /\ \E n \in 0..Len(Order) : \E here \in [1..n -> There] :
       /\ Sorted(here) /\ found' = Listing(here)
       /\ scan' = [scan EXCEPT !.point = IF n = 0 THEN "build" ELSE "stat"]
  /\ UNCHANGED <<scanned, troubles, manifest, index>>

Current == found[scan.next]

\* lstat and the name; a transcript in a channel's directory needs nothing else.
Stat ==
  /\ Reached("stat")
  /\ LET p == Current.path
         reason == IF place[p] = Absent THEN "source_unavailable"
                   ELSE IF place[p] = Symlink THEN "symlink_source"
                   ELSE IF KeyOf[p] = NoKey THEN "unsupported_filename" ELSE "none"
     IN found' = [found EXCEPT ![scan.next] =
          [@ EXCEPT !.inode = place[p], !.reason = reason, !.channel = FolderOf[p]]]
  /\ scan' = [scan EXCEPT !.point = "channel"]
  /\ UNCHANGED <<scanned, troubles, manifest, index>>

\* _flat_channel_metadata reads the .info.json of a transcript in no channel's directory.
Channel ==
  /\ Reached("channel")
  /\ LET named == Current.reason = "none" /\ Current.channel = Flat
         channel == info[Current.path]
     IN found' = IF ~named THEN found
                 ELSE [found EXCEPT ![scan.next] =
                   [@ EXCEPT !.channel = channel,
                             !.reason = IF channel = Absent THEN "missing_channel_metadata" ELSE "none"]]
  /\ scan' = IF scan.next < Len(found)
             THEN [scan EXCEPT !.point = "stat", !.next = @ + 1]
             ELSE [scan EXCEPT !.point = "open", !.next = 1]
  /\ UNCHANGED <<scanned, troubles, manifest, index>>

-----------------------------------------------------------------------------
(* scan_corpus: the candidates in their order.                             *)

NoText == <<>>

\* The loop goes on with the next candidate.
Continue ==
  scan' = IF scan.next < Len(found)
          THEN [point |-> "open", next |-> scan.next + 1, open |-> Absent,
                text |-> NoText, head |-> NoText, parsed |-> TRUE]
          ELSE [scan EXCEPT !.point = "build", !.open = Absent]

Reject(reason) ==
  /\ manifest' = [manifest EXCEPT !.invalid = @ \cup {<<Current.path, reason>>}]
  /\ Continue

Step == UNCHANGED <<scanned, found, index>>

\* _open_stable_source: the file of the inventory, by its inode.
Stable == place[Current.path] = Current.inode

Open ==
  /\ Reached("open")
  /\ IF Current.reason # "none" THEN Reject(Current.reason)
     ELSE IF ~Stable THEN Reject("unreadable_source")
     ELSE /\ scan' = [scan EXCEPT !.point = "read", !.open = Current.inode,
                                  !.head = bytes[Current.inode][1]]
          /\ UNCHANGED manifest
  /\ UNCHANGED troubles /\ Step

\* The rest of the file, which is then decoded and parsed from a temporary copy; the copy
\* may fail.
ReadAndParse(parsed) ==
  /\ Reached("read")
  /\ LET text == <<scan.head, bytes[scan.open][2]>>
     IN IF Undecodable(text) THEN Reject("invalid_utf8")
        ELSE /\ scan' = [scan EXCEPT !.point = "reopen", !.open = Absent,
                                     !.text = text, !.parsed = parsed]
             /\ UNCHANGED manifest
  /\ parsed \/ troubles < MaxTroubles
  /\ troubles' = IF parsed THEN troubles ELSE troubles + 1
  /\ Step

Reopen ==
  /\ Reached("reopen")
  /\ IF ~Stable THEN Reject("source_changed_during_parse")
     ELSE /\ scan' = [scan EXCEPT !.point = "again", !.open = Current.inode,
                                  !.head = bytes[Current.inode][1]]
          /\ UNCHANGED manifest
  /\ UNCHANGED troubles /\ Step

\* DocumentRef with compute_document_id.
Document == [path |-> Current.path, channel |-> Current.channel,
             key |-> KeyOf[Current.path], text |-> scan.text]

Judge(changed) ==
  IF changed THEN Reject("source_changed_during_parse")
  ELSE IF ~scan.parsed THEN Reject("parse_error")
  ELSE IF NoCaption(scan.text) THEN Reject("empty_segments")
  ELSE /\ manifest' = [manifest EXCEPT !.documents = @ \cup {Document}]
       /\ Continue

\* Faulty: that the file can still be opened is enough.
Compare_OpenOnly ==
  /\ Reached("again")
  /\ Judge(FALSE)
  /\ UNCHANGED troubles /\ Step

Compare ==
  /\ Reached("again")
  /\ Judge(<<scan.head, bytes[scan.open][2]>> # scan.text)
  /\ UNCHANGED troubles /\ Step

\* A read raises.
ReadFails ==
  /\ troubles < MaxTroubles /\ troubles' = troubles + 1
  /\ \/ Reached("read") /\ Reject("unreadable_source")
     \/ Reached("again") /\ Reject("source_changed_during_parse")
  /\ Step

-----------------------------------------------------------------------------
(* SQLiteFtsIndex.rebuild: the rows of the new database.                   *)

\* Two documents of one channel, video and language have one document_id.
SameDocument(a, b) == a.channel = b.channel /\ a.key = b.key

\* documents.document_id is a primary key: the rows are written all or not at all.
Collision == \E a, b \in manifest.documents : a # b /\ SameDocument(a, b)

\* What the report says: no more sources than were discovered, and each of them once.
Accounted ==
  /\ Cardinality(manifest.documents) + Cardinality(manifest.invalid) <= Len(found)
  /\ \A r, t \in manifest.invalid : r[1] = t[1] => r = t
  /\ \A a, b \in manifest.documents : a.path = b.path => a = b

Rebuild ==
  /\ Reached("build")
  /\ LET refused == Collision \/ ~Accounted IN
       /\ scan' = [scan EXCEPT !.point = IF refused THEN "failed" ELSE "built"]
       /\ index' = IF refused THEN Absent ELSE manifest.documents
  /\ UNCHANGED <<scanned, troubles, found, manifest>>

CorpusInit ==
  /\ place \in [Paths -> Inodes \cup {Absent, Symlink}]
  /\ \A p, q \in Paths : place[p] = place[q] /\ Regular(p) => p = q
  /\ bytes \in [Inodes -> {[part \in 1..2 |-> [no |-> 0, kind |-> kind]] : kind \in Kinds}]
  /\ info \in [Paths -> Channels \cup {Absent}]
  /\ \A p \in Paths : FolderOf[p] # Flat => info[p] = Absent
  /\ writes = 0 /\ troubles = 0 /\ touched = {}
  /\ had = [p \in Paths |-> IF Regular(p) THEN {bytes[place[p]]} ELSE {}]
  /\ scan = [point |-> "list", next |-> 1, open |-> Absent,
             text |-> NoText, head |-> NoText, parsed |-> TRUE]
  /\ found = <<>> /\ manifest = [documents |-> {}, invalid |-> {}] /\ index = Absent

Scan ==
  \/ Glob \/ Stat \/ Channel
  \/ Open \/ Reopen \/ Compare \/ ReadFails
  \/ \E parsed \in BOOLEAN : ReadAndParse(parsed)
  \/ Rebuild

CorpusNext == World \/ Scan

CorpusSpec == CorpusInit /\ [][CorpusNext]_corpusVars

-----------------------------------------------------------------------------
(* Properties.                                                             *)

CorpusTypeOK ==
  /\ place \in [Paths -> Inodes \cup {Absent, Symlink}]
  /\ \A i \in Inodes : bytes[i][1] \in Stamps /\ bytes[i][2] \in Stamps
  /\ info \in [Paths -> Channels \cup {Absent}]
  /\ writes \in 0..MaxWrites /\ troubles \in 0..MaxTroubles
  /\ scan.next \in 1..(Len(found) + 1)

\* A file a rebuild can use.
Indexable(p) ==
  /\ Regular(p) /\ KeyOf[p] # NoKey
  /\ FolderOf[p] # Flat \/ info[p] # Absent
  /\ ~Undecodable(bytes[place[p]]) /\ ~NoCaption(bytes[place[p]])

\* The text of every row is one the file had at one instant, never a mixture of two
\* writes or of two files, and every candidate is a row or is reported, not both
\* (_read_stable_source before and after the parse, BuildReport).  A rebuild that
\* succeeds has every usable file that was left alone, unless a read failed, and no
\* other that was left alone; it fails only if two files are one document.
ScanIsFaithful ==
  LET documented == {d.path : d \in manifest.documents}
      reported == {r[1] : r \in manifest.invalid}
  IN /\ \A d \in manifest.documents : d.text \in had[d.path]
     /\ documented \cap reported = {}
     /\ Reached("built") =>
          /\ documented \cup reported = {found[i].path : i \in 1..Len(found)}
          /\ \A p \in Paths \ touched :
               LET indexed == \E d \in index : d.path = p
               IN (Indexable(p) /\ troubles = 0 => indexed) /\ (indexed => Indexable(p))
     /\ Reached("failed") =>
          \E a, b \in manifest.documents : a.path # b.path /\ SameDocument(a, b)

================================================================================
