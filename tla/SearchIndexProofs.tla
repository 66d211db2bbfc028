--------------------------- MODULE SearchIndexProofs ---------------------------
(***************************************************************************)
(* From the transcripts to the readers of the published index: proofs for    *)
(* CorpusScan, for any files, channels and changes while they are scanned,    *)
(* and for LocalAssessment, for any queries, languages and publications       *)
(* between two steps of a reader.                                           *)
(***************************************************************************)
EXTENDS CorpusScan, LocalAssessment, Functions, FiniteSetTheorems, TLAPS

-----------------------------------------------------------------------------
(* CorpusScan: the inductive invariant.                                    *)

Texts == [1..2 -> Stamps]

Reasons == {"none", "source_unavailable", "symlink_source", "unsupported_filename",
            "missing_channel_metadata", "unreadable_source", "invalid_utf8",
            "source_changed_during_parse", "parse_error", "empty_segments"}

CandidateRecords ==
  [path : Paths, inode : Inodes \cup {Absent, Symlink},
   channel : Channels \cup {Flat, Absent}, reason : Reasons]

Inventory == {"stat", "channel"}

Reading == {"open", "read", "reopen", "again"}

Ended == {"build", "built", "failed"}

\* The files: no two paths have one, and every text a path has is known.
CorpusFiles ==
  /\ place \in [Paths -> Inodes \cup {Absent, Symlink}]
  /\ bytes \in [Inodes -> Texts]
  /\ info \in [Paths -> Channels \cup {Absent}]
  /\ had \in [Paths -> SUBSET Texts]
  /\ writes \in Nat /\ touched \subseteq Paths
  /\ writes <= MaxWrites
  /\ \A p, q \in Paths : place[p] = place[q] /\ Regular(p) => p = q
  /\ \A p \in Paths : Regular(p) => bytes[place[p]] \in had[p]
  /\ \A i \in Inodes, part \in 1..2 : bytes[i][part].no <= writes

ScanTyped ==
  /\ scan = [point |-> scan.point, next |-> scan.next, open |-> scan.open,
             text |-> scan.text, head |-> scan.head, parsed |-> scan.parsed]
  /\ scan.point \in Inventory \cup Reading \cup Ended \cup {"list"}
  /\ scan.next \in Nat /\ scan.open \in Inodes \cup {Absent} /\ scan.parsed \in BOOLEAN
  /\ scan.point \in {"read", "again"} => scan.head \in Stamps
  /\ scan.point \in {"reopen", "again"} =>
       /\ scan.text = <<scan.text[1], scan.text[2]>>
       /\ scan.text[1] \in Stamps /\ scan.text[2] \in Stamps
       /\ scan.text[2].no <= writes
  /\ troubles \in 0..MaxTroubles
  /\ manifest = [documents |-> manifest.documents, invalid |-> manifest.invalid]
  /\ Len(found) \in Nat /\ found \in [1..Len(found) -> CandidateRecords]
  /\ scan.point \in Inventory \cup Reading => scan.next \in 1..Len(found)
  /\ scan.point = "list" => scan.next = 1
  /\ scan.next \in 1..(Len(found) + 1)

\* What was there when it was listed.
ListedInv ==
  scan.point # "list" =>
    /\ \A k, l \in 1..Len(found) : found[k].path = found[l].path => k = l
    /\ \A p \in Paths \ touched :
         place[p] # Absent <=> \E k \in 1..Len(found) : found[k].path = p

Named(p) == KeyOf[p] # NoKey

HasChannel(p) == FolderOf[p] # Flat \/ info[p] # Absent

\* A candidate after lstat, and after its channel is known.
Statted(c) ==
  /\ c.channel = FolderOf[c.path]
  /\ c.reason = "none" => c.inode \in Inodes /\ Named(c.path)
  /\ c.path \notin touched =>
       c.inode = place[c.path] /\ (c.reason = "none" <=> Regular(c.path) /\ Named(c.path))

Inventoried(c) ==
  /\ c.reason = "none" => c.inode \in Inodes /\ Named(c.path)
  /\ c.path \notin touched =>
       /\ c.inode = place[c.path]
       /\ c.reason = "none" <=> Regular(c.path) /\ Named(c.path) /\ HasChannel(c.path)

InventoryInv ==
  /\ scan.point \in Inventory => \A k \in 1..(scan.next - 1) : Inventoried(found[k])
  /\ scan.point = "channel" => Statted(found[scan.next])
  /\ scan.point \in Reading \cup Ended => \A k \in 1..Len(found) : Inventoried(found[k])

\* What is known of the file that is being read.
Untouched == Current.path \notin touched

CurrentInv ==
  LET i == Current.inode IN
  /\ scan.point \in {"read", "reopen", "again"} => Current.reason = "none"
  /\ scan.point \in {"read", "again"} => scan.open = i
  /\ Reached("again") /\ scan.head = scan.text[1] /\ bytes[i][2] = scan.text[2] =>
       scan.text \in had[Current.path]
  /\ Reached("read") /\ Untouched => scan.head = bytes[i][1]
  /\ scan.point \in {"reopen", "again"} =>
       /\ Untouched => scan.text[1] = bytes[i][1] /\ scan.text[2] = bytes[i][2]
       /\ ~Undecodable(scan.text)
       /\ troubles = 0 => scan.parsed
  /\ Reached("again") /\ Untouched => scan.head = bytes[i][1]

\* The candidates that have been judged.
Judged ==
  IF scan.point \in Ended THEN Len(found)
  ELSE IF scan.point \in Reading THEN scan.next - 1 ELSE 0

Documented == {d.path : d \in manifest.documents}

Reported == {r[1] : r \in manifest.invalid}

ManifestInv ==
  /\ IsFiniteSet(manifest.documents) /\ IsFiniteSet(manifest.invalid)
  /\ Cardinality(manifest.documents) + Cardinality(manifest.invalid) = Judged
  /\ Documented \cup Reported = {found[k].path : k \in 1..Judged}
  /\ Documented \cap Reported = {}
  /\ \A a, b \in manifest.documents : a.path = b.path => a = b
  /\ \A r, t \in manifest.invalid : r[1] = t[1] => r = t
  /\ \A d \in manifest.documents : d.text \in had[d.path]

UsableInv ==
  /\ \A p \in Documented \ touched : Indexable(p)
  /\ troubles = 0 => \A p \in Reported \ touched : ~Indexable(p)

IndexInv ==
  /\ Reached("built") => index = manifest.documents
  /\ Reached("failed") => Collision

CorpusInv ==
  /\ CorpusFiles /\ ScanTyped /\ ListedInv /\ InventoryInv /\ CurrentInv
  /\ ManifestInv /\ UsableInv /\ IndexInv

-----------------------------------------------------------------------------
(* CorpusScan: what is done to the files.                                  *)

LEMMA ScanConstants ==
  /\ Absent \notin Inodes /\ Symlink \notin Inodes /\ Absent # Symlink
  /\ Flat \notin Channels /\ Absent \notin Channels /\ Flat # Absent
  /\ MaxWrites \in Nat /\ MaxTroubles \in Nat
  /\ \A p \in Paths : FolderOf[p] \in Channels \cup {Flat}
BY ScanAssumption

OthersStay(p) ==
  \A q \in Paths \ {p} :
    /\ place'[q] = place[q] /\ info'[q] = info[q]
    /\ Regular(q) => bytes'[place[q]] = bytes[place[q]]

\* The path is all that was touched, and what was written has a new number.
Disturbance(p) ==
  /\ CorpusFiles' /\ writes' = writes + 1 /\ touched' = touched \cup {p}
  /\ UNCHANGED <<troubles, scan, found, manifest, index>>
  /\ OthersStay(p)
  /\ \A i \in Inodes, part \in 1..2 :
       bytes'[i][part] = bytes[i][part] \/ bytes'[i][part].no = writes + 1
  /\ \A q \in Paths : had[q] \subseteq had'[q]

LEMMA TwoParts ==
  ASSUME NEW a \in Stamps, NEW b \in Stamps
  PROVE  /\ <<a, b>> \in Texts /\ <<a, b>>[1] = a /\ <<a, b>>[2] = b
BY DEF Texts

LEMMA TextIs ==
  ASSUME NEW t \in Texts
  PROVE  /\ t[1] \in Stamps /\ t[2] \in Stamps /\ t = <<t[1], t[2]>>
BY DEF Texts

\* Of each kind of change the file, its parts and the channel.
LEMMA DisturbedIs ==
  ASSUME CorpusFiles, NEW p \in Paths, Disturbed(p),
         place' \in [Paths -> Inodes \cup {Absent, Symlink}], bytes' \in [Inodes -> Texts],
         info' \in [Paths -> Channels \cup {Absent}],
         OthersStay(p),
         place'[p] = place[p] \/ place'[p] \in Free \/ place'[p] \in {Absent, Symlink},
         \A i \in Inodes, part \in 1..2 :
           bytes'[i][part] = bytes[i][part] \/ bytes'[i][part].no = writes + 1
  PROVE  Disturbance(p)
<1>1. /\ writes < MaxWrites /\ writes' = writes + 1 /\ touched' = touched \cup {p}
      /\ UNCHANGED <<troubles, scan, found, manifest, index>>
      /\ had' = [had EXCEPT ![p] = IF place'[p] \in Inodes THEN @ \cup {bytes'[place'[p]]} ELSE @]
  BY DEF Disturbed
<1>2. writes \in Nat /\ writes' \in Nat /\ writes' <= MaxWrites
  BY <1>1, ScanConstants DEF CorpusFiles
<1>3. /\ had' \in [Paths -> SUBSET Texts] /\ \A q \in Paths : had[q] \subseteq had'[q]
      /\ place'[p] \in Inodes => bytes'[place'[p]] \in had'[p]
  BY <1>1 DEF CorpusFiles
<1>4. \A q, r \in Paths : place'[q] = place'[r] /\ place'[q] \in Inodes => q = r
  <2>1. \A q \in Paths \ {p} : place'[p] = place'[q] /\ place'[p] \in Inodes => FALSE
    BY ScanConstants DEF CorpusFiles, Free, Regular, OthersStay
  <2> QED
    BY <2>1 DEF CorpusFiles, Regular, OthersStay
<1>5. \A q \in Paths : place'[q] \in Inodes => bytes'[place'[q]] \in had'[q]
  BY <1>3 DEF CorpusFiles, Regular, OthersStay
<1>6. \A i \in Inodes, part \in 1..2 : bytes'[i][part].no <= writes'
  <2> SUFFICES ASSUME NEW i \in Inodes, NEW part \in 1..2 PROVE bytes'[i][part].no <= writes'
    OBVIOUS
  <2>1. bytes[i][part].no \in Nat /\ bytes[i][part].no <= writes
    BY DEF CorpusFiles, Texts, Stamps
  <2>2. bytes'[i][part] = bytes[i][part] \/ bytes'[i][part].no = writes + 1
    OBVIOUS
  <2> QED
    BY <1>1, <1>2, <2>1, <2>2
<1>7. CorpusFiles'
  BY <1>1, <1>2, <1>3, <1>4, <1>5, <1>6 DEF CorpusFiles, Regular
<1> QED
  BY <1>1, <1>3, <1>7 DEF Disturbance

LEMMA WorldIs ==
  ASSUME CorpusFiles, World
  PROVE  \E p \in Paths : Disturbance(p)
<1>1. PICK p \in Paths : \/ Replace(p) \/ TakeAway(p)
                        \/ \E part \in 1..2 : Edit(p, part)
                        \/ \E channel \in Channels \cup {Absent} : Rename(p, channel)
  BY DEF World
<1>2. /\ place \in [Paths -> Inodes \cup {Absent, Symlink}] /\ bytes \in [Inodes -> Texts]
      /\ info \in [Paths -> Channels \cup {Absent}] /\ writes \in Nat
      /\ \A q \in Paths : place[p] = place[q] /\ Regular(p) => p = q
  BY DEF CorpusFiles
<1>3. Disturbed(p)
  BY <1>1 DEF Replace, TakeAway, Edit, Rename
<1>4. \A kind \in Kinds : [no |-> writes + 1, kind |-> kind] \in Stamps
  BY <1>2, <1>3, ScanConstants DEF Stamps, Disturbed
<1>5. CASE Replace(p)
  <2>1. PICK inode \in Free, kind \in Kinds :
          LET stamp == [no |-> writes + 1, kind |-> kind] IN
          /\ place' = [place EXCEPT ![p] = inode]
          /\ bytes' = [bytes EXCEPT ![inode] = <<stamp, stamp>>]
    BY <1>5 DEF Replace
  <2> DEFINE stamp == [no |-> writes + 1, kind |-> kind]
  <2>2. inode \in Inodes /\ \A q \in Paths : place[q] # inode
    BY DEF Free
  <2>3. stamp \in Stamps /\ stamp.no = writes + 1
    BY <1>4
  <2>4. place' = [place EXCEPT ![p] = inode] /\ bytes' = [bytes EXCEPT ![inode] = <<stamp, stamp>>]
        /\ info' = info
    BY <1>5, <2>1 DEF Replace
  <2> HIDE DEF stamp
  <2>5. /\ <<stamp, stamp>> \in Texts /\ \A part \in 1..2 : <<stamp, stamp>>[part] = stamp
    BY <2>3, TwoParts
  <2>6. /\ place' \in [Paths -> Inodes \cup {Absent, Symlink}] /\ bytes' \in [Inodes -> Texts]
        /\ OthersStay(p) /\ place'[p] \in Free
    BY <1>2, <2>2, <2>4, <2>5 DEF Regular, OthersStay
  <2>7. \A i \in Inodes, part \in 1..2 :
          bytes'[i][part] = bytes[i][part] \/ bytes'[i][part].no = writes + 1
    BY <1>2, <2>2, <2>3, <2>4, <2>5
  <2> QED
    BY <1>2, <1>3, <2>4, <2>6, <2>7, DisturbedIs
<1>6. CASE TakeAway(p)
  BY <1>2, <1>3, <1>6, DisturbedIs DEF TakeAway, OthersStay
<1>7. CASE \E part \in 1..2 : Edit(p, part)
  <2>1. PICK part \in 1..2 : Edit(p, part)
    BY <1>7
  <2>2. PICK kind \in Kinds :
          bytes' = [bytes EXCEPT ![place[p]][part] = [no |-> writes + 1, kind |-> kind]]
    BY <2>1 DEF Edit
  <2> DEFINE stamp == [no |-> writes + 1, kind |-> kind]
  <2>3. stamp \in Stamps /\ stamp.no = writes + 1
    BY <1>4
  <2>4. bytes' = [bytes EXCEPT ![place[p]][part] = stamp] /\ UNCHANGED <<place, info>>
        /\ place[p] \in Inodes
    BY <2>1, <2>2 DEF Edit, Regular
  <2> HIDE DEF stamp
  <2>5. bytes' \in [Inodes -> Texts]
    BY <1>2, <2>3, <2>4 DEF Texts
  <2>6. OthersStay(p)
    BY <1>2, <2>4 DEF Regular, OthersStay
  <2>7. \A i \in Inodes, n \in 1..2 :
          bytes'[i][n] = bytes[i][n] \/ bytes'[i][n].no = writes + 1
    BY <1>2, <2>3, <2>4 DEF Texts
  <2> QED
    BY <1>2, <1>3, <2>4, <2>5, <2>6, <2>7, DisturbedIs
<1>8. CASE \E channel \in Channels \cup {Absent} : Rename(p, channel)
  BY <1>2, <1>3, <1>8, DisturbedIs DEF Rename, OthersStay
<1> QED
  BY <1>1, <1>5, <1>6, <1>7, <1>8

\* A change of the files leaves what is known of the others.
LEMMA LeftAlone ==
  ASSUME CorpusFiles, NEW p \in Paths, Disturbance(p), NEW q \in Paths, q \notin touched'
  PROVE  /\ q # p /\ q \notin touched /\ place'[q] = place[q] /\ info'[q] = info[q]
         /\ Regular(q) => bytes'[place[q]] = bytes[place[q]]
         /\ Regular(q)' <=> Regular(q)
         /\ HasChannel(q)' <=> HasChannel(q)
         /\ Indexable(q)' <=> Indexable(q)
<1>1. /\ q # p /\ q \notin touched /\ place'[q] = place[q] /\ info'[q] = info[q]
      /\ Regular(q) => bytes'[place[q]] = bytes[place[q]]
  BY DEF Disturbance, OthersStay
<1> QED
  BY <1>1 DEF Regular, HasChannel, Indexable, Undecodable, NoCaption

LEMMA JudgedPaths ==
  ASSUME ScanTyped, ManifestInv
  PROVE  /\ Judged \in 0..Len(found)
         /\ \A k \in 1..Len(found) : found[k] \in CandidateRecords /\ found[k].path \in Paths
         /\ Documented \subseteq Paths /\ Reported \subseteq Paths
         /\ \A d \in manifest.documents : d.path \in Documented
         /\ \A r \in manifest.invalid : r[1] \in Reported
<1>1. Judged \in 0..Len(found)
  BY DEF ScanTyped, Judged, Inventory, Reading, Ended
<1>2. \A k \in 1..Len(found) : found[k] \in CandidateRecords /\ found[k].path \in Paths
  BY DEF ScanTyped, CandidateRecords
<1>3. \A k \in 1..Judged : found[k].path \in Paths
  BY <1>1, <1>2 DEF ScanTyped
<1>4. Documented \subseteq Paths /\ Reported \subseteq Paths
  BY <1>3 DEF ManifestInv
<1> QED
  BY <1>1, <1>2, <1>4 DEF Documented, Reported

LEMMA DisturbanceKeeps ==
  ASSUME CorpusInv, NEW p \in Paths, Disturbance(p)
  PROVE  CorpusInv'
<1>1. /\ CorpusFiles /\ ScanTyped /\ ListedInv /\ InventoryInv /\ CurrentInv
      /\ ManifestInv /\ UsableInv /\ IndexInv
  BY DEF CorpusInv
<1>2. /\ CorpusFiles' /\ writes' = writes + 1 /\ touched' = touched \cup {p}
      /\ troubles' = troubles /\ scan' = scan /\ found' = found
      /\ manifest' = manifest /\ index' = index
      /\ writes \in Nat
  BY <1>1 DEF Disturbance, CorpusFiles
<1>3. \A q \in Paths : q \notin touched' =>
         /\ q # p /\ q \notin touched /\ place'[q] = place[q] /\ info'[q] = info[q]
         /\ Regular(q) => bytes'[place[q]] = bytes[place[q]]
         /\ Regular(q)' <=> Regular(q)
         /\ HasChannel(q)' <=> HasChannel(q)
         /\ Indexable(q)' <=> Indexable(q)
  BY <1>1, LeftAlone
<1>4. ScanTyped'
  <2>1. scan.point \in {"reopen", "again"} =>
          scan.text[2].no <= writes'
    BY <1>1, <1>2 DEF ScanTyped, Stamps
  <2> QED
    BY <1>1, <1>2, <2>1 DEF ScanTyped
<1>5. ListedInv'
  BY <1>1, <1>2, <1>3 DEF ListedInv
<1>6. \A k \in 1..Len(found) : found[k] \in CandidateRecords /\ found[k].path \in Paths
  BY <1>1 DEF ScanTyped, CandidateRecords
<1>7. \A k \in 1..Len(found) :
        /\ Inventoried(found[k]) => Inventoried(found[k])'
        /\ Statted(found[k]) => Statted(found[k])'
  BY <1>2, <1>3, <1>6 DEF Inventoried, Statted
<1>8. InventoryInv'
  BY <1>1, <1>2, <1>7 DEF InventoryInv, ScanTyped, Inventory
<1>9. CurrentInv'
  <2>1. CASE scan.point \notin Reading
    BY <1>2, <2>1 DEF CurrentInv, Reached, Reading
  <2>2. CASE scan.point \in Reading
    <3> DEFINE c == found[scan.next]
    <3>1. scan.next \in 1..Len(found) /\ c = Current /\ c \in CandidateRecords /\ Inventoried(c)
      BY <1>1, <1>6, <2>2 DEF ScanTyped, Current, InventoryInv
    <3>2. Current' = Current
      BY <1>2 DEF Current
    <3>3. scan.point \in {"read", "reopen", "again"} => c.inode \in Inodes /\ c.path \in Paths
      BY <1>1, <3>1 DEF CurrentInv, Inventoried, CandidateRecords
    <3>4. scan.point \in {"read", "reopen", "again"} /\ c.path \notin touched' =>
            c.path \notin touched /\ bytes'[c.inode] = bytes[c.inode]
      BY <1>3, <3>1, <3>3 DEF Inventoried, Regular
    <3>5. ASSUME Reached("again"), scan.head = scan.text[1], bytes'[c.inode][2] = scan.text[2]
          PROVE  scan.text \in had'[c.path]
      <4>1. bytes'[c.inode][2] = bytes[c.inode][2] \/ bytes'[c.inode][2].no = writes + 1
        BY <3>3, <3>5 DEF Disturbance, Reached
      <4>2. scan.text[2].no <= writes /\ scan.text[2].no \in Nat
        BY <1>1, <3>5 DEF ScanTyped, Reached, Stamps
      <4>3. scan.text \in had[c.path]
        BY <1>1, <1>2, <3>1, <3>5, <4>1, <4>2 DEF CurrentInv
      <4> QED
        BY <3>3, <3>5, <4>3 DEF Disturbance, Reached
    <3> HIDE DEF c
    <3> QED
      BY <1>1, <1>2, <3>1, <3>2, <3>4, <3>5 DEF CurrentInv, Reached, Untouched
  <2> QED
    BY <2>1, <2>2
<1>10. ManifestInv'
  <2>1. /\ Judged' = Judged /\ Documented' = Documented /\ Reported' = Reported
    BY <1>2 DEF Judged, Documented, Reported
  <2>2. \A d \in manifest.documents : d.path \in Paths
    BY <1>1, JudgedPaths
  <2>3. \A d \in manifest.documents : d.text \in had'[d.path]
    BY <1>1, <2>2 DEF ManifestInv, Disturbance
  <2> QED
    BY <1>1, <1>2, <2>1, <2>3 DEF ManifestInv
<1>11. UsableInv'
  <2>1. /\ Documented' = Documented /\ Reported' = Reported
    BY <1>2 DEF Documented, Reported
  <2>2. Documented \cup Reported \subseteq Paths
    BY <1>1, JudgedPaths
  <2> QED
    BY <1>1, <1>2, <1>3, <2>1, <2>2 DEF UsableInv
<1>12. IndexInv'
  BY <1>1, <1>2 DEF IndexInv, Reached, Collision, SameDocument
<1> QED
  BY <1>2, <1>4, <1>5, <1>8, <1>9, <1>10, <1>11, <1>12 DEF CorpusInv

-----------------------------------------------------------------------------
(* CorpusScan: the steps of the scan.                                      *)

\* What depends only on the files stays when the files do.
LEMMA ScannedStays ==
  ASSUME CorpusFiles, UNCHANGED scanned
  PROVE  /\ CorpusFiles'
         /\ \A c : /\ Inventoried(c)' <=> Inventoried(c)
                  /\ Statted(c)' <=> Statted(c)
         /\ \A p : Indexable(p)' <=> Indexable(p)
BY DEF CorpusFiles, scanned, Inventoried, Statted, Indexable, Regular, HasChannel, Undecodable,
       NoCaption

LEMMA InParts ==
  ASSUME CorpusInv
  PROVE  /\ CorpusFiles /\ ScanTyped /\ ListedInv /\ InventoryInv /\ CurrentInv
         /\ ManifestInv /\ UsableInv /\ IndexInv
BY DEF CorpusInv

LEMMA GlobKeeps ==
  ASSUME CorpusInv, Glob
  PROVE  CorpusInv'
<1>1. PICK n \in 0..Len(Order) : \E here \in [1..n -> There] :
        /\ Sorted(here) /\ found' = Listing(here)
        /\ scan' = [scan EXCEPT !.point = IF n = 0 THEN "build" ELSE "stat"]
  BY DEF Glob
<1>2. PICK here \in [1..n -> There] :
        /\ Sorted(here) /\ found' = Listing(here)
        /\ scan' = [scan EXCEPT !.point = IF n = 0 THEN "build" ELSE "stat"]
  BY <1>1
<1>3. /\ scan.point = "list" /\ UNCHANGED scanned
      /\ troubles' = troubles /\ manifest' = manifest /\ index' = index
      /\ place' = place /\ touched' = touched
  BY DEF Glob, Reached, scanned
<1>4. n \in Nat
  BY ScanAssumption
<1>5. /\ Len(found') = n
      /\ found' = [i \in 1..n |-> [path |-> here[i], inode |-> Absent,
                                   channel |-> Absent, reason |-> "none"]]
  BY <1>2, <1>4 DEF Listing
<1>6. \A i \in 1..n : here[i] \in Paths /\ found'[i] \in CandidateRecords /\ found'[i].path = here[i]
  BY <1>5 DEF There, CandidateRecords, Reasons
<1>7. ScanTyped'
  BY <1>2, <1>3, <1>4, <1>5, <1>6, InParts DEF ScanTyped, Inventory, Reading, Ended
<1>8. ListedInv'
  <2>1. \A k, l \in 1..n : k < l => here[k] # here[l]
    <3> SUFFICES ASSUME NEW k \in 1..n, NEW l \in 1..n, k < l, here[k] = here[l] PROVE FALSE
      OBVIOUS
    <3>1. Before(here[k], here[l])
      BY <1>2 DEF Sorted
    <3>2. PICK i \in 1..Len(Order), j \in 1..Len(Order) : i < j /\ Order[i] = here[k] /\ Order[j] = here[l]
      BY <3>1 DEF Before
    <3> QED
      BY <3>2, ScanAssumption
  <2>2. \A k, l \in 1..n : here[k] = here[l] => k = l
    BY <1>4, <2>1
  <2>3. \A p \in Paths : place[p] # Absent <=> \E k \in 1..n : here[k] = p
    BY <1>2 DEF Sorted, There
  <2>4. Len(found') = n /\ \A k \in 1..n : found'[k].path = here[k]
    BY <1>5, <1>6
  <2>5. \A k, l \in 1..Len(found') : found'[k].path = found'[l].path => k = l
    BY <2>2, <2>4
  <2>6. \A p \in Paths : place'[p] # Absent <=> \E k \in 1..Len(found') : found'[k].path = p
    BY <1>3, <2>3, <2>4
  <2> QED
    BY <2>5, <2>6 DEF ListedInv
<1>9. InventoryInv' /\ CurrentInv' /\ IndexInv'
  BY <1>2, <1>3, <1>5, InParts
  DEF InventoryInv, CurrentInv, IndexInv, ScanTyped, Reached, Inventory, Reading, Ended
<1>10. Judged = 0 /\ Judged' = 0 /\ Documented' = Documented /\ Reported' = Reported
  BY <1>2, <1>3, <1>5, InParts
  DEF Judged, Documented, Reported, ScanTyped, Inventory, Reading, Ended
<1>11. ManifestInv' /\ UsableInv'
  BY <1>3, <1>10, InParts, ScannedStays DEF ManifestInv, UsableInv, scanned
<1> QED
  BY <1>3, <1>7, <1>8, <1>9, <1>11, InParts, ScannedStays DEF CorpusInv

Moved(point, next) ==
  scan' = [point |-> point, next |-> next, open |-> scan.open, text |-> scan.text,
           head |-> scan.head, parsed |-> scan.parsed]

LEMMA MovedIs ==
  ASSUME ScanTyped, NEW point, NEW next, scan' = [scan EXCEPT !.point = point, !.next = next]
  PROVE  Moved(point, next) /\ scan'.point = point /\ scan'.next = next
<1>1. scan = [point |-> scan.point, next |-> scan.next, open |-> scan.open,
              text |-> scan.text, head |-> scan.head, parsed |-> scan.parsed]
  BY DEF ScanTyped
<1>2. scan' = [point |-> point, next |-> next, open |-> scan.open, text |-> scan.text,
               head |-> scan.head, parsed |-> scan.parsed]
  BY <1>1
<1> QED
  BY <1>2 DEF Moved

\* A step of the inventory changes one candidate, not its path.
LEMMA InventoryKeeps ==
  ASSUME CorpusInv, scan.point \in Inventory, UNCHANGED <<scanned, troubles, manifest, index>>,
         NEW c \in CandidateRecords, c.path = Current.path,
         found' = [found EXCEPT ![scan.next] = c],
         Moved(scan'.point, scan'.next),
         \/ scan'.point \in Inventory /\ scan'.next \in 1..Len(found)
         \/ scan'.point = "open" /\ scan'.next = 1,
         InventoryInv'
  PROVE  CorpusInv'
<1>1. /\ UNCHANGED scanned /\ touched' = touched /\ place' = place /\ had' = had
      /\ writes' = writes
      /\ troubles' = troubles /\ manifest' = manifest /\ index' = index
  BY DEF scanned
<1>2. /\ Len(found) \in Nat /\ found \in [1..Len(found) -> CandidateRecords]
      /\ scan.next \in 1..Len(found)
  BY InParts DEF ScanTyped
<1>3. /\ Len(found') = Len(found) /\ found' \in [1..Len(found) -> CandidateRecords]
      /\ \A k \in 1..Len(found) : found'[k].path = found[k].path
  BY <1>2 DEF Current
<1>4. scan'.point \notin {"read", "reopen", "again", "list", "build", "built", "failed"}
  BY DEF Inventory
<1>5. ScanTyped'
  BY <1>1, <1>2, <1>3, <1>4, InParts DEF ScanTyped, Moved, Inventory, Reading, Ended
<1>6. ListedInv'
  BY <1>1, <1>3, InParts DEF ListedInv, Inventory
<1>7. CurrentInv' /\ IndexInv'
  BY <1>4 DEF CurrentInv, IndexInv, Reached
<1>8. Judged = 0 /\ Judged' = 0 /\ Documented' = Documented /\ Reported' = Reported
  BY <1>1, <1>4 DEF Judged, Documented, Reported, Inventory, Reading, Ended
<1>9. ManifestInv' /\ UsableInv'
  BY <1>1, <1>8, InParts, ScannedStays DEF ManifestInv, UsableInv
<1> QED
  BY <1>1, <1>5, <1>6, <1>7, <1>9, InParts, ScannedStays DEF CorpusInv

LEMMA StatKeeps ==
  ASSUME CorpusInv, Stat
  PROVE  CorpusInv'
<1> DEFINE p == Current.path
           reason == IF place[p] = Absent THEN "source_unavailable"
                     ELSE IF place[p] = Symlink THEN "symlink_source"
                     ELSE IF KeyOf[p] = NoKey THEN "unsupported_filename" ELSE "none"
           c == [Current EXCEPT !.inode = place[p], !.reason = reason, !.channel = FolderOf[p]]
<1>1. /\ scan.point = "stat" /\ UNCHANGED <<scanned, troubles, manifest, index>>
      /\ scan' = [scan EXCEPT !.point = "channel"]
      /\ found' = [found EXCEPT ![scan.next] = c]
      /\ touched' = touched /\ place' = place
  BY DEF Stat, Reached, Current, scanned
<1>2. /\ Len(found) \in Nat /\ found \in [1..Len(found) -> CandidateRecords]
      /\ scan.next \in 1..Len(found) /\ Current \in CandidateRecords
  BY <1>1, InParts DEF ScanTyped, Current, Inventory
<1>3. /\ p \in Paths /\ place[p] \in Inodes \cup {Absent, Symlink}
      /\ FolderOf[p] \in Channels \cup {Flat} /\ reason \in Reasons
  BY <1>2, InParts, ScanConstants DEF CandidateRecords, CorpusFiles, Reasons
<1>4. /\ c \in CandidateRecords /\ c.path = p /\ c.inode = place[p] /\ c.reason = reason
      /\ c.channel = FolderOf[p]
  BY <1>2, <1>3 DEF CandidateRecords
<1>5. reason = "none" <=> place[p] \in Inodes /\ Named(p)
  BY <1>3, ScanConstants DEF Named
<1> HIDE DEF c, reason, p
<1>6. Statted(c)
  BY <1>4, <1>5 DEF Statted, Regular
<1>7. found'[scan.next] = c /\ \A k \in 1..(scan.next - 1) : found'[k] = found[k]
  BY <1>1, <1>2
<1>8. scan'.point = "channel" /\ scan'.next = scan.next
      /\ Moved(scan'.point, scan'.next)
  BY <1>1, InParts DEF ScanTyped, Moved
<1>9. InventoryInv'
  BY <1>1, <1>2, <1>6, <1>7, <1>8, InParts DEF InventoryInv, Inventory, Reading, Ended, scanned,
       Inventoried, Statted, HasChannel, Regular
<1>10. c.path = Current.path /\ scan.point \in Inventory /\ scan'.point \in Inventory
  BY <1>1, <1>4, <1>8 DEF p, Inventory
<1> QED
  BY <1>1, <1>2, <1>4, <1>8, <1>9, <1>10, InventoryKeeps

LEMMA ChannelKeeps ==
  ASSUME CorpusInv, Channel
  PROVE  CorpusInv'
<1> DEFINE p == Current.path
           named == Current.reason = "none" /\ Current.channel = Flat
           c == IF ~named THEN Current
                ELSE [Current EXCEPT !.channel = info[p],
                        !.reason = IF info[p] = Absent THEN "missing_channel_metadata" ELSE "none"]
<1>1. /\ scan.point = "channel" /\ UNCHANGED <<scanned, troubles, manifest, index>>
      /\ scan' = IF scan.next < Len(found)
                 THEN [scan EXCEPT !.point = "stat", !.next = @ + 1]
                 ELSE [scan EXCEPT !.point = "open", !.next = 1]
      /\ touched' = touched /\ place' = place
  BY DEF Channel, Reached, scanned
<1>2. /\ Len(found) \in Nat /\ found \in [1..Len(found) -> CandidateRecords]
      /\ scan.next \in 1..Len(found) /\ Current \in CandidateRecords /\ Statted(Current)
  BY <1>1, InParts DEF ScanTyped, Current, Inventory, InventoryInv
<1>3. found' = [found EXCEPT ![scan.next] = c]
  <2>1. CASE ~named
    BY <1>2, <2>1 DEF Channel, Current
  <2>2. CASE named
    BY <2>2 DEF Channel, Current
  <2> QED
    BY <2>1, <2>2
<1>4. p \in Paths /\ info[p] \in Channels \cup {Absent}
  BY <1>2, InParts DEF CandidateRecords, CorpusFiles
<1>5. c \in CandidateRecords /\ c.path = p /\ c.inode = Current.inode
  BY <1>2, <1>4 DEF CandidateRecords, Reasons
<1>6. c.reason = IF Current.reason = "none" /\ Current.channel = Flat /\ info[p] = Absent
                THEN "missing_channel_metadata" ELSE Current.reason
  BY <1>2 DEF CandidateRecords
<1> HIDE DEF c, named
<1>12. Inventoried(c)
  <2>1. /\ Current.channel = FolderOf[p] /\ FolderOf[p] \in Channels \cup {Flat}
        /\ HasChannel(p) <=> Current.channel # Flat \/ info[p] # Absent
    BY <1>2, <1>4, ScanConstants DEF Statted, HasChannel
  <2> QED
    BY <1>2, <1>4, <1>5, <1>6, <2>1 DEF Inventoried, Statted
<1>7. found'[scan.next] = c /\ \A k \in 1..Len(found) : k # scan.next => found'[k] = found[k]
  BY <1>2, <1>3
<1>8. \A k \in 1..scan.next : Inventoried(found'[k])
  BY <1>1, <1>2, <1>12, <1>7, InParts DEF InventoryInv, Inventory
<1>9. /\ Moved(scan'.point, scan'.next)
      /\ \/ scan'.point = "stat" /\ scan'.next = scan.next + 1 /\ scan'.next \in 1..Len(found)
         \/ scan'.point = "open" /\ scan'.next = 1 /\ scan.next = Len(found)
  <2>1. ScanTyped
    BY InParts
  <2>2. CASE scan.next < Len(found)
    <3>1. scan' = [scan EXCEPT !.point = "stat", !.next = scan.next + 1]
      BY <1>1, <2>2
    <3>2. scan.next + 1 \in 1..Len(found)
      BY <1>2, <2>2
    <3> QED
      BY <2>1, <3>1, <3>2, MovedIs
  <2>3. CASE scan.next = Len(found)
    <3>1. scan' = [scan EXCEPT !.point = "open", !.next = 1]
      BY <1>1, <1>2, <2>3
    <3> QED
      BY <2>1, <2>3, <3>1, MovedIs
  <2> QED
    BY <1>2, <2>2, <2>3
<1>10. Len(found') = Len(found)
  BY <1>2, <1>3
<1>11. InventoryInv'
  BY <1>1, <1>2, <1>8, <1>9, <1>10, InParts DEF InventoryInv, Inventory, Reading, Ended, scanned,
       Inventoried, Statted, HasChannel, Regular
<1>13. scan.point \in Inventory /\ (scan'.point = "stat" => scan'.point \in Inventory)
  BY <1>1 DEF Inventory
<1> QED
  BY <1>1, <1>3, <1>5, <1>9, <1>11, <1>13, InventoryKeeps

-----------------------------------------------------------------------------
(* CorpusScan: a candidate is judged.                                      *)

\* The scan goes on, whatever became of the candidate.
LEMMA ContinueKeeps ==
  ASSUME CorpusInv, scan.point \in Reading, Continue, UNCHANGED <<scanned, found, index>>,
         troubles' \in 0..MaxTroubles,
         manifest' = [documents |-> manifest'.documents, invalid |-> manifest'.invalid]
  PROVE  /\ CorpusFiles' /\ ScanTyped' /\ ListedInv' /\ InventoryInv' /\ CurrentInv' /\ IndexInv'
         /\ Judged = scan.next - 1 /\ Judged' = scan.next
<1>1. /\ UNCHANGED scanned /\ touched' = touched /\ place' = place /\ writes' = writes
      /\ found' = found
  BY DEF scanned
<1>2. /\ Len(found) \in Nat /\ found \in [1..Len(found) -> CandidateRecords]
      /\ scan.next \in 1..Len(found)
      /\ scan = [point |-> scan.point, next |-> scan.next, open |-> scan.open,
                 text |-> scan.text, head |-> scan.head, parsed |-> scan.parsed]
  BY InParts DEF ScanTyped
<1>3. \/ /\ scan.next < Len(found)
         /\ scan' = [point |-> "open", next |-> scan.next + 1, open |-> Absent,
                     text |-> NoText, head |-> NoText, parsed |-> TRUE]
      \/ /\ scan.next = Len(found)
         /\ scan' = [point |-> "build", next |-> scan.next, open |-> Absent,
                     text |-> scan.text, head |-> scan.head, parsed |-> scan.parsed]
  <2>1. CASE scan.next < Len(found)
    BY <2>1 DEF Continue
  <2>2. CASE scan.next = Len(found)
    <3>1. scan' = [scan EXCEPT !.point = "build", !.open = Absent]
      BY <1>2, <2>2 DEF Continue
    <3> QED
      BY <1>2, <2>2, <3>1
  <2> QED
    BY <1>2, <2>1, <2>2
<1>4. scan'.point \notin {"list", "stat", "channel", "read", "reopen", "again", "built", "failed"}
  BY <1>3
<1>5. ScanTyped'
  <2>1. scan.open \in Inodes \cup {Absent} /\ scan.parsed \in BOOLEAN
    BY InParts DEF ScanTyped
  <2>2. /\ scan' = [point |-> scan'.point, next |-> scan'.next, open |-> scan'.open,
                    text |-> scan'.text, head |-> scan'.head, parsed |-> scan'.parsed]
        /\ scan'.point \in {"open", "build"} /\ scan'.next \in Nat /\ scan'.open = Absent
        /\ scan'.next \in 1..Len(found)
    BY <1>2, <1>3
  <2>3. scan'.parsed \in BOOLEAN
    <3>1. CASE scan.next < Len(found)
      <4>1. scan' = [point |-> "open", next |-> scan.next + 1, open |-> Absent,
                     text |-> NoText, head |-> NoText, parsed |-> TRUE]
        BY <1>2, <1>3, <3>1
      <4>2. scan'.parsed = TRUE
        BY <4>1
      <4> QED
        BY <4>2
    <3>2. CASE scan.next = Len(found)
      <4>1. scan'.parsed = scan.parsed
        BY <1>2, <1>3, <3>2
      <4> QED
        BY <2>1, <4>1
    <3> QED
      BY <1>2, <3>1, <3>2
  <2> QED
    BY <1>1, <1>2, <2>2, <2>3 DEF ScanTyped, Inventory, Reading, Ended
<1>6. ListedInv'
  BY <1>1, InParts DEF ListedInv, Reading
<1>7. InventoryInv'
  BY <1>1, <1>4, InParts DEF InventoryInv, Inventory, Reading, Ended, scanned, Inventoried,
                             HasChannel, Regular
<1>8. CurrentInv' /\ IndexInv'
  BY <1>4 DEF CurrentInv, IndexInv, Reached
<1>9. Judged = scan.next - 1 /\ Judged' = scan.next
  BY <1>1, <1>2, <1>3 DEF Judged, Reading, Ended
<1> QED
  BY <1>1, <1>5, <1>6, <1>7, <1>8, <1>9, InParts, ScannedStays

\* The path of the candidate is none of those that were judged.
LEMMA NotJudged ==
  ASSUME CorpusInv, scan.point \in Reading
  PROVE  /\ Current \in CandidateRecords /\ Current.path \in Paths /\ Inventoried(Current)
         /\ Current.path \notin Documented /\ Current.path \notin Reported
         /\ Documented \cup Reported \cup {Current.path} = {found[k].path : k \in 1..scan.next}
<1>1. /\ Len(found) \in Nat /\ found \in [1..Len(found) -> CandidateRecords]
      /\ scan.next \in 1..Len(found) /\ Current = found[scan.next]
  BY InParts DEF ScanTyped, Current
<1>2. Documented \cup Reported = {found[k].path : k \in 1..(scan.next - 1)}
  BY <1>1, InParts DEF ManifestInv, Judged, Reading, Ended
<1>3. \A k \in 1..(scan.next - 1) : found[k].path # Current.path
  BY <1>1, InParts DEF ListedInv, Reading
<1>4. Inventoried(Current)
  BY <1>1, InParts DEF InventoryInv
<1>5. {found[k].path : k \in 1..scan.next}
        = {found[k].path : k \in 1..(scan.next - 1)} \cup {Current.path}
  BY <1>1
<1> QED
  BY <1>1, <1>2, <1>3, <1>4, <1>5 DEF CandidateRecords

LEMMA RejectKeeps ==
  ASSUME CorpusInv, scan.point \in Reading, NEW reason, Reject(reason), Step,
         UNCHANGED scanned, troubles' \in 0..MaxTroubles,
         troubles' = 0 => troubles = 0,
         troubles' = 0 /\ Untouched => ~Indexable(Current.path)
  PROVE  CorpusInv'
<1> DEFINE p == Current.path
           r == <<p, reason>>
<1>1. /\ UNCHANGED <<scanned, found, index>> /\ Continue
      /\ had' = had /\ touched' = touched
  BY DEF Step, Reject, scanned
<1>2. /\ manifest'.documents = manifest.documents
      /\ manifest'.invalid = manifest.invalid \cup {r}
      /\ manifest' = [documents |-> manifest'.documents, invalid |-> manifest'.invalid]
  BY InParts DEF Reject, ScanTyped
<1>3. /\ CorpusFiles' /\ ScanTyped' /\ ListedInv' /\ InventoryInv' /\ CurrentInv' /\ IndexInv'
      /\ Judged = scan.next - 1 /\ Judged' = scan.next
  BY <1>1, <1>2, ContinueKeeps
<1>4. /\ p \notin Documented /\ p \notin Reported
      /\ Documented \cup Reported \cup {p} = {found[k].path : k \in 1..scan.next}
  BY NotJudged
<1>5. r[1] = p
  OBVIOUS
<1> HIDE DEF r, p
<1>6. Documented' = Documented /\ Reported' = Reported \cup {p}
  BY <1>2, <1>5 DEF Documented, Reported
<1>7. \A s \in manifest.invalid : s[1] # p
  BY <1>4 DEF Reported
<1>8. /\ IsFiniteSet(manifest'.invalid)
      /\ Cardinality(manifest'.invalid) = Cardinality(manifest.invalid) + 1
  <2>1. r \notin manifest.invalid /\ IsFiniteSet(manifest.invalid)
    BY <1>5, <1>7, InParts DEF ManifestInv
  <2>2. /\ IsFiniteSet(manifest.invalid \cup {r})
        /\ Cardinality(manifest.invalid \cup {r}) = Cardinality(manifest.invalid) + 1
    BY <2>1, FS_AddElement
  <2> QED
    BY <1>2, <2>2
<1>9. ManifestInv'
  <2>1. /\ IsFiniteSet(manifest.documents) /\ IsFiniteSet(manifest.invalid)
        /\ Cardinality(manifest.documents) \in Nat /\ Cardinality(manifest.invalid) \in Nat
        /\ Cardinality(manifest.documents) + Cardinality(manifest.invalid) = Judged
    BY InParts, FS_CardinalityType DEF ManifestInv
  <2>2. scan.next \in Nat
    BY InParts DEF ScanTyped
  <2>3. Cardinality(manifest'.documents) + Cardinality(manifest'.invalid) = Judged'
    BY <1>2, <1>3, <1>8, <2>1, <2>2
  <2>4. Documented' \cup Reported' = {found'[k].path : k \in 1..Judged'}
    BY <1>1, <1>3, <1>4, <1>6
  <2>5. \A s, t \in manifest'.invalid : s[1] = t[1] => s = t
    BY <1>2, <1>5, <1>7, InParts DEF ManifestInv
  <2> QED
    BY <1>1, <1>2, <1>4, <1>6, <1>8, <2>1, <2>3, <2>4, <2>5, InParts DEF ManifestInv
<1>10. UsableInv'
  <2>1. \A q : Indexable(q)' <=> Indexable(q)
    BY <1>1, InParts, ScannedStays
  <2>2. troubles' = 0 /\ p \notin touched => ~Indexable(p)
    BY DEF Untouched, p
  <2> QED
    BY <1>1, <1>6, <2>1, <2>2, InParts DEF UsableInv
<1> QED
  BY <1>3, <1>9, <1>10 DEF CorpusInv

LEMMA DocumentKeeps ==
  ASSUME CorpusInv, scan.point \in Reading, Step, UNCHANGED scanned, troubles' = troubles,
         manifest' = [manifest EXCEPT !.documents = @ \cup {Document}], Continue,
         scan.text \in had[Current.path],
         Untouched => Indexable(Current.path)
  PROVE  CorpusInv'
<1> DEFINE p == Current.path
           d == Document
<1>1. /\ UNCHANGED <<scanned, found, index>> /\ troubles \in 0..MaxTroubles
      /\ had' = had /\ touched' = touched
  BY InParts DEF Step, scanned, ScanTyped
<1>2. /\ manifest'.documents = manifest.documents \cup {d}
      /\ manifest'.invalid = manifest.invalid
      /\ manifest' = [documents |-> manifest'.documents, invalid |-> manifest'.invalid]
  BY InParts DEF ScanTyped
<1>3. /\ CorpusFiles' /\ ScanTyped' /\ ListedInv' /\ InventoryInv' /\ CurrentInv' /\ IndexInv'
      /\ Judged = scan.next - 1 /\ Judged' = scan.next
  BY <1>1, <1>2, ContinueKeeps
<1>4. /\ p \notin Documented /\ p \notin Reported
      /\ Documented \cup Reported \cup {p} = {found[k].path : k \in 1..scan.next}
  BY NotJudged
<1>5. d.path = p /\ d.text = scan.text /\ scan.text \in had[p]
  BY DEF Document
<1> HIDE DEF d, p
<1>6. Documented' = Documented \cup {p} /\ Reported' = Reported
  BY <1>2, <1>5 DEF Documented, Reported
<1>7. \A s \in manifest.documents : s.path # p
  BY <1>4 DEF Documented
<1>8. /\ IsFiniteSet(manifest'.documents)
      /\ Cardinality(manifest'.documents) = Cardinality(manifest.documents) + 1
  <2>1. d \notin manifest.documents /\ IsFiniteSet(manifest.documents)
    BY <1>5, <1>7, InParts DEF ManifestInv
  <2>2. /\ IsFiniteSet(manifest.documents \cup {d})
        /\ Cardinality(manifest.documents \cup {d}) = Cardinality(manifest.documents) + 1
    BY <2>1, FS_AddElement
  <2> QED
    BY <1>2, <2>2
<1>9. ManifestInv'
  <2>1. /\ IsFiniteSet(manifest.documents) /\ IsFiniteSet(manifest.invalid)
        /\ Cardinality(manifest.documents) \in Nat /\ Cardinality(manifest.invalid) \in Nat
        /\ Cardinality(manifest.documents) + Cardinality(manifest.invalid) = Judged
    BY InParts, FS_CardinalityType DEF ManifestInv
  <2>2. scan.next \in Nat
    BY InParts DEF ScanTyped
  <2>3. Cardinality(manifest'.documents) + Cardinality(manifest'.invalid) = Judged'
    BY <1>2, <1>3, <1>8, <2>1, <2>2
  <2>4. Documented' \cup Reported' = {found'[k].path : k \in 1..Judged'}
    BY <1>1, <1>3, <1>4, <1>6
  <2>5. \A s, t \in manifest'.documents : s.path = t.path => s = t
    BY <1>2, <1>5, <1>7, InParts DEF ManifestInv
  <2>6. \A s \in manifest'.documents : s.text \in had'[s.path]
    BY <1>1, <1>2, <1>5, InParts DEF ManifestInv
  <2> QED
    BY <1>1, <1>2, <1>4, <1>6, <1>8, <2>1, <2>3, <2>4, <2>5, <2>6, InParts DEF ManifestInv
<1>10. UsableInv'
  <2>1. \A q : Indexable(q)' <=> Indexable(q)
    BY <1>1, InParts, ScannedStays
  <2>2. p \notin touched => Indexable(p)
    BY DEF Untouched, p
  <2> QED
    BY <1>1, <1>6, <2>1, <2>2, InParts DEF UsableInv
<1> QED
  BY <1>3, <1>9, <1>10 DEF CorpusInv

-----------------------------------------------------------------------------
(* CorpusScan: a candidate is opened, read and read again.                 *)

\* While a candidate is read the files and the manifest stay.
LEMMA ReadingKeeps ==
  ASSUME CorpusInv, scan.point \in Reading, scan'.point \in Reading, scan'.next = scan.next,
         Step, UNCHANGED <<scanned, manifest>>, troubles' = 0 => troubles = 0,
         ScanTyped', CurrentInv'
  PROVE  CorpusInv'
<1>1. /\ UNCHANGED scanned /\ touched' = touched /\ place' = place /\ had' = had /\ info' = info
      /\ found' = found /\ manifest' = manifest /\ index' = index
  BY DEF scanned, Step
<1>2. scan'.point \notin {"list", "stat", "channel", "build", "built", "failed"}
  BY DEF Reading
<1>3. ListedInv'
  BY <1>1, InParts DEF ListedInv, Reading
<1>4. InventoryInv'
  BY <1>1, <1>2, InParts DEF InventoryInv, Inventory, Reading, Ended, Inventoried, HasChannel, Regular
<1>5. IndexInv'
  BY <1>2 DEF IndexInv, Reached
<1>6. Judged' = Judged /\ Documented' = Documented /\ Reported' = Reported
  BY <1>1 DEF Judged, Documented, Reported, Reading, Ended
<1>7. ManifestInv'
  BY <1>1, <1>6, InParts DEF ManifestInv
<1>8. UsableInv'
  BY <1>1, <1>6, InParts, ScannedStays DEF UsableInv
<1> QED
  BY <1>1, <1>3, <1>4, <1>5, <1>7, <1>8, InParts, ScannedStays DEF CorpusInv

\* Of the current candidate what the inventory and the files say.
LEMMA CurrentIs ==
  ASSUME CorpusInv, scan.point \in Reading
  PROVE  /\ Current.path \in Paths /\ troubles \in 0..MaxTroubles
         /\ Current.reason = "none" => Current.inode \in Inodes /\ Named(Current.path)
         /\ Untouched =>
              /\ Current.inode = place[Current.path]
              /\ Current.reason = "none" <=>
                   Regular(Current.path) /\ Named(Current.path) /\ HasChannel(Current.path)
         /\ \A i \in Inodes : /\ bytes[i] \in Texts
                             /\ bytes[i][1] \in Stamps /\ bytes[i][2] \in Stamps
                             /\ bytes[i][2].no <= writes
BY InParts, NotJudged DEF Inventoried, Untouched, CorpusFiles, ScanTyped, Texts

\* A file nothing happened to is there and is the file of the inventory.
LEMMA StableIs ==
  ASSUME CorpusInv, scan.point \in Reading, Current.reason = "none", ~Stable
  PROVE  ~Untouched
BY CurrentIs DEF Stable

LEMMA OpenKeeps ==
  ASSUME CorpusInv, Open, UNCHANGED scanned
  PROVE  CorpusInv'
<1>1. scan.point = "open" /\ scan.point \in Reading /\ troubles' = troubles /\ Step
  BY DEF Open, Reached, Reading
<1>2. CASE Current.reason # "none"
  <2>1. Reject(Current.reason)
    BY <1>2 DEF Open
  <2>2. Untouched => ~Indexable(Current.path)
    BY <1>1, <1>2, CurrentIs DEF Indexable, Named, HasChannel
  <2> QED
    BY <1>1, <2>1, <2>2, CurrentIs, RejectKeeps
<1>3. CASE Current.reason = "none" /\ ~Stable
  <2>1. Reject("unreadable_source")
    BY <1>3 DEF Open
  <2> QED
    BY <1>1, <1>3, <2>1, CurrentIs, StableIs, RejectKeeps
<1>4. CASE Current.reason = "none" /\ Stable
  <2>1. /\ manifest' = manifest
        /\ scan' = [scan EXCEPT !.point = "read", !.open = Current.inode,
                                !.head = bytes[Current.inode][1]]
    BY <1>4 DEF Open
  <2>2. /\ Current.inode \in Inodes /\ bytes[Current.inode][1] \in Stamps
    BY <1>1, <1>4, CurrentIs
  <2>3. /\ scan' = [point |-> "read", next |-> scan.next, open |-> Current.inode,
                    text |-> scan.text, head |-> bytes[Current.inode][1], parsed |-> scan.parsed]
    BY <2>1, InParts DEF ScanTyped
  <2>4. found' = found /\ Current' = Current /\ writes' = writes /\ bytes' = bytes
        /\ touched' = touched /\ had' = had
    BY <1>1, <2>3 DEF Step, Current, scanned
  <2>5. /\ scan'.point = "read" /\ scan'.next = scan.next /\ scan'.open = Current.inode
        /\ scan'.head = bytes[Current.inode][1] /\ scan'.parsed = scan.parsed
        /\ scan' = [point |-> scan'.point, next |-> scan'.next, open |-> scan'.open,
                    text |-> scan'.text, head |-> scan'.head, parsed |-> scan'.parsed]
    BY <2>3
  <2>6. ScanTyped'
    BY <1>1, <2>1, <2>2, <2>4, <2>5, InParts DEF ScanTyped, Inventory, Reading, Ended
  <2>7. CurrentInv'
    BY <1>4, <2>4, <2>5 DEF CurrentInv, Reached
  <2> QED
    BY <1>1, <2>1, <2>5, <2>6, <2>7, ReadingKeeps DEF Reading
<1> QED
  BY <1>2, <1>3, <1>4

LEMMA ReopenKeeps ==
  ASSUME CorpusInv, Reopen, UNCHANGED scanned
  PROVE  CorpusInv'
<1>1. /\ scan.point = "reopen" /\ scan.point \in Reading /\ troubles' = troubles /\ Step
      /\ Current.reason = "none"
  BY InParts DEF Reopen, Reached, Reading, CurrentInv
<1>2. CASE ~Stable
  <2>1. Reject("source_changed_during_parse")
    BY <1>2 DEF Reopen
  <2> QED
    BY <1>1, <1>2, <2>1, CurrentIs, StableIs, RejectKeeps
<1>3. CASE Stable
  <2>1. /\ manifest' = manifest
        /\ scan' = [scan EXCEPT !.point = "again", !.open = Current.inode,
                                !.head = bytes[Current.inode][1]]
    BY <1>3 DEF Reopen
  <2>2. /\ Current.inode \in Inodes /\ bytes[Current.inode][1] \in Stamps
        /\ bytes[Current.inode] \in Texts
    BY <1>1, CurrentIs
  <2>3. /\ scan' = [point |-> "again", next |-> scan.next, open |-> Current.inode,
                    text |-> scan.text, head |-> bytes[Current.inode][1], parsed |-> scan.parsed]
    BY <2>1, InParts DEF ScanTyped
  <2>4. found' = found /\ Current' = Current /\ writes' = writes /\ bytes' = bytes
        /\ touched' = touched /\ had' = had
    BY <1>1, <2>3 DEF Step, Current, scanned
  <2>5. /\ scan'.point = "again" /\ scan'.next = scan.next /\ scan'.open = Current.inode
        /\ scan'.head = bytes[Current.inode][1] /\ scan'.parsed = scan.parsed
        /\ scan'.text = scan.text
        /\ scan' = [point |-> scan'.point, next |-> scan'.next, open |-> scan'.open,
                    text |-> scan'.text, head |-> scan'.head, parsed |-> scan'.parsed]
    BY <2>3
  <2>6. ScanTyped'
    BY <1>1, <2>1, <2>2, <2>4, <2>5, InParts DEF ScanTyped, Inventory, Reading, Ended
  <2>7. ASSUME scan'.head = scan.text[1], bytes[Current.inode][2] = scan.text[2]
        PROVE  scan.text \in had[Current.path]
    <3>1. scan.text = <<scan.text[1], scan.text[2]>>
      BY <1>1, InParts DEF ScanTyped
    <3>2. bytes[Current.inode] = <<bytes[Current.inode][1], bytes[Current.inode][2]>>
      BY <2>2, TextIs
    <3>3. scan.text = bytes[Current.inode]
      BY <2>5, <2>7, <3>1, <3>2
    <3>4. bytes[Current.inode] \in had[Current.path]
      BY <1>1, <1>3, <2>2, CurrentIs, InParts DEF Stable, CorpusFiles, Regular
    <3> QED
      BY <3>3, <3>4
  <2>8. /\ Untouched => scan.text[1] = bytes[Current.inode][1] /\ scan.text[2] = bytes[Current.inode][2]
        /\ ~Undecodable(scan.text)
        /\ troubles = 0 => scan.parsed
    BY <1>1, InParts DEF CurrentInv
  <2>9. CurrentInv'
    BY <1>1, <2>4, <2>5, <2>7, <2>8 DEF CurrentInv, Reached, Untouched, Undecodable
  <2> QED
    BY <1>1, <2>1, <2>5, <2>6, <2>9, ReadingKeeps DEF Reading
<1> QED
  BY <1>2, <1>3

LEMMA ReadAndParseKeeps ==
  ASSUME CorpusInv, NEW parsed \in BOOLEAN, ReadAndParse(parsed), UNCHANGED scanned
  PROVE  CorpusInv'
<1> DEFINE i == Current.inode
           text == <<scan.head, bytes[scan.open][2]>>
<1>1. /\ scan.point = "read" /\ scan.point \in Reading /\ Step
      /\ Current.reason = "none" /\ scan.open = i
  BY InParts DEF ReadAndParse, Reached, Reading, CurrentInv
<1>2. /\ troubles' \in 0..MaxTroubles
      /\ troubles' = 0 => troubles = 0 /\ parsed
  <2>1. troubles \in 0..MaxTroubles /\ MaxTroubles \in Nat
    BY ScanConstants, InParts DEF ScanTyped
  <2>2. CASE parsed
    BY <2>1, <2>2 DEF ReadAndParse
  <2>3. CASE ~parsed
    BY <2>1, <2>3 DEF ReadAndParse
  <2> QED
    BY <2>2, <2>3
<1>3. /\ i \in Inodes /\ scan.head \in Stamps /\ bytes[i][2] \in Stamps /\ bytes[i][2].no <= writes
  BY <1>1, CurrentIs, InParts DEF ScanTyped
<1>4. text = <<scan.head, bytes[i][2]>> /\ text[1] = scan.head /\ text[2] = bytes[i][2]
  BY <1>1
<1>5. Untouched => text[1] = bytes[i][1] /\ text[2] = bytes[i][2] /\ i = place[Current.path]
  BY <1>1, <1>4, CurrentIs, InParts DEF CurrentInv, Reached
<1>6. CASE Undecodable(text)
  <2>1. Reject("invalid_utf8")
    BY <1>6 DEF ReadAndParse
  <2>2. Untouched => ~Indexable(Current.path)
    BY <1>5, <1>6 DEF Undecodable, Indexable
  <2> QED
    BY <1>1, <1>2, <2>1, <2>2, RejectKeeps
<1>7. CASE ~Undecodable(text)
  <2>1. /\ manifest' = manifest
        /\ scan' = [scan EXCEPT !.point = "reopen", !.open = Absent, !.text = text, !.parsed = parsed]
    BY <1>7 DEF ReadAndParse
  <2> HIDE DEF text
  <2>2. scan' = [point |-> "reopen", next |-> scan.next, open |-> Absent, text |-> text,
                 head |-> scan.head, parsed |-> parsed]
    BY <2>1, InParts DEF ScanTyped
  <2>3. found' = found /\ Current' = Current /\ writes' = writes /\ bytes' = bytes
        /\ touched' = touched /\ had' = had
    BY <1>1, <2>2 DEF Step, Current, scanned
  <2>4. /\ scan'.point = "reopen" /\ scan'.next = scan.next /\ scan'.open = Absent
        /\ scan'.head = scan.head /\ scan'.parsed = parsed /\ scan'.text = text
        /\ scan' = [point |-> scan'.point, next |-> scan'.next, open |-> scan'.open,
                    text |-> scan'.text, head |-> scan'.head, parsed |-> scan'.parsed]
    BY <2>2
  <2>5. text = <<text[1], text[2]>> /\ text[1] \in Stamps /\ text[2] \in Stamps
        /\ text[2].no <= writes
    BY <1>3, <1>4
  <2>6. scan'.text = <<scan'.text[1], scan'.text[2]>>
    BY <2>4, <2>5
  <2>7. /\ scan'.text[1] \in Stamps /\ scan'.text[2] \in Stamps /\ scan'.text[2].no <= writes'
    BY <2>3, <2>4, <2>5
  <2>8. scan'.parsed \in BOOLEAN
    BY <2>4
  <2>9. ScanTyped'
    BY <1>1, <1>2, <2>1, <2>3, <2>4, <2>6, <2>7, <2>8, InParts
    DEF ScanTyped, Inventory, Reading, Ended
  <2>11. troubles' = 0 => scan'.parsed
    BY <1>2, <2>4
  <2>12. CurrentInv'
    BY <1>1, <1>5, <1>7, <2>3, <2>4, <2>11 DEF CurrentInv, Reached, Untouched, Undecodable
  <2> QED
    BY <1>1, <1>2, <2>1, <2>4, <2>9, <2>12, ReadingKeeps DEF Reading
<1> QED
  BY <1>6, <1>7

LEMMA CompareKeeps ==
  ASSUME CorpusInv, Compare, UNCHANGED scanned
  PROVE  CorpusInv'
<1> DEFINE i == Current.inode
           p == Current.path
           changed == <<scan.head, bytes[scan.open][2]>> # scan.text
<1>1. /\ scan.point = "again" /\ scan.point \in Reading /\ troubles' = troubles /\ Step
      /\ Current.reason = "none" /\ scan.open = i /\ Judge(changed)
  BY InParts DEF Compare, Reached, Reading, CurrentInv
<1>2. /\ Untouched => /\ scan.text[1] = bytes[i][1] /\ scan.text[2] = bytes[i][2]
                      /\ scan.head = bytes[i][1]
      /\ ~Undecodable(scan.text)
      /\ troubles = 0 => scan.parsed
      /\ scan.head = scan.text[1] /\ bytes[i][2] = scan.text[2] => scan.text \in had[p]
      /\ scan.text = <<scan.text[1], scan.text[2]>>
      /\ troubles \in 0..MaxTroubles
  BY <1>1, InParts DEF CurrentInv, Reached, ScanTyped
<1>3. Untouched => i = place[p] /\ Regular(p) /\ Named(p) /\ HasChannel(p)
  BY <1>1, CurrentIs
<1>4. changed <=> ~(scan.head = scan.text[1] /\ bytes[i][2] = scan.text[2])
  BY <1>1, <1>2
<1> HIDE DEF changed
<1>5. CASE changed
  <2>1. Reject("source_changed_during_parse")
    BY <1>1, <1>5 DEF Judge
  <2> QED
    BY <1>1, <1>2, <1>4, <1>5, <2>1, RejectKeeps
<1>6. CASE ~changed /\ ~scan.parsed
  <2>1. Reject("parse_error")
    BY <1>1, <1>6 DEF Judge
  <2> QED
    BY <1>1, <1>2, <1>6, <2>1, RejectKeeps
<1>7. CASE ~changed /\ scan.parsed /\ NoCaption(scan.text)
  <2>1. Reject("empty_segments")
    BY <1>1, <1>7 DEF Judge
  <2>2. Untouched => ~Indexable(p)
    BY <1>2, <1>3, <1>7 DEF Indexable, NoCaption
  <2> QED
    BY <1>1, <1>2, <2>1, <2>2, RejectKeeps
<1>8. CASE ~changed /\ scan.parsed /\ ~NoCaption(scan.text)
  <2>1. manifest' = [manifest EXCEPT !.documents = @ \cup {Document}] /\ Continue
    BY <1>1, <1>8 DEF Judge
  <2>2. Untouched => Indexable(p)
    BY <1>2, <1>3, <1>8 DEF Indexable, NoCaption, Undecodable, Named, HasChannel
  <2>3. scan.text \in had[p]
    BY <1>2, <1>4, <1>8
  <2> QED
    BY <1>1, <2>1, <2>2, <2>3, DocumentKeeps
<1> QED
  BY <1>5, <1>6, <1>7, <1>8

LEMMA ReadFailsKeeps ==
  ASSUME CorpusInv, ReadFails, UNCHANGED scanned
  PROVE  CorpusInv'
<1>1. /\ troubles \in 0..MaxTroubles /\ MaxTroubles \in Nat
  BY ScanConstants, InParts DEF ScanTyped
<1>2. troubles' \in 0..MaxTroubles /\ troubles' # 0 /\ Step
  BY <1>1 DEF ReadFails
<1>3. PICK reason : scan.point \in Reading /\ Reject(reason)
  BY DEF ReadFails, Reached, Reading
<1> QED
  BY <1>2, <1>3, RejectKeeps

LEMMA RebuildKeeps ==
  ASSUME CorpusInv, Rebuild
  PROVE  CorpusInv'
<1>1. /\ scan.point = "build" /\ UNCHANGED <<scanned, troubles, found, manifest>>
      /\ touched' = touched /\ place' = place /\ writes' = writes /\ had' = had
      /\ found' = found /\ manifest' = manifest /\ troubles' = troubles
  BY DEF Rebuild, Reached, scanned
<1>2. Judged = Len(found) /\ Len(found) \in Nat
  BY <1>1, InParts DEF Judged, Ended, ScanTyped
<1>3. Accounted
  BY <1>2, InParts DEF Accounted, ManifestInv
<1>4. \/ Collision /\ scan' = [scan EXCEPT !.point = "failed"]
      \/ ~Collision /\ scan' = [scan EXCEPT !.point = "built"] /\ index' = manifest.documents
  BY <1>3 DEF Rebuild
<1>5. /\ scan'.point \in {"built", "failed"} /\ scan'.next = scan.next
      /\ scan'.open = scan.open /\ scan'.parsed = scan.parsed
      /\ scan' = [point |-> scan'.point, next |-> scan'.next, open |-> scan'.open,
                  text |-> scan'.text, head |-> scan'.head, parsed |-> scan'.parsed]
  BY <1>4, InParts DEF ScanTyped
<1>6. scan.open \in Inodes \cup {Absent} /\ scan.parsed \in BOOLEAN
  BY InParts DEF ScanTyped
<1>7. scan'.parsed \in BOOLEAN
  BY <1>5, <1>6
<1>8. ScanTyped'
  BY <1>1, <1>5, <1>6, <1>7, InParts DEF ScanTyped, Inventory, Reading, Ended
<1>9. ListedInv'
  BY <1>1, InParts DEF ListedInv
<1>10. InventoryInv'
  BY <1>1, <1>5, InParts DEF InventoryInv, Inventory, Reading, Ended, scanned, Inventoried,
                             HasChannel, Regular
<1>11. CurrentInv'
  BY <1>5 DEF CurrentInv, Reached
<1>12. Judged' = Judged /\ Documented' = Documented /\ Reported' = Reported
  BY <1>1, <1>2, <1>5 DEF Judged, Documented, Reported, Ended
<1>13. ManifestInv'
  BY <1>1, <1>12, InParts DEF ManifestInv
<1>14. UsableInv'
  BY <1>1, <1>12, InParts, ScannedStays DEF UsableInv
<1>15. IndexInv'
  <2>1. scan'.point = "built" => index' = manifest.documents
    BY <1>4, <1>5, InParts DEF ScanTyped
  <2>2. scan'.point = "failed" => Collision
    BY <1>4, <1>5, InParts DEF ScanTyped
  <2> QED
    BY <1>1, <2>1, <2>2 DEF IndexInv, Reached, Collision, SameDocument
<1> QED
  BY <1>1, <1>8, <1>9, <1>10, <1>11, <1>13, <1>14, <1>15, InParts, ScannedStays DEF CorpusInv

LEMMA CorpusStarts ==
  ASSUME CorpusInit
  PROVE  CorpusInv
<1>1. /\ place \in [Paths -> Inodes \cup {Absent, Symlink}]
      /\ info \in [Paths -> Channels \cup {Absent}]
      /\ writes = 0 /\ troubles = 0 /\ touched = {}
      /\ found = <<>> /\ manifest = [documents |-> {}, invalid |-> {}]
      /\ scan = [point |-> "list", next |-> 1, open |-> Absent,
                 text |-> NoText, head |-> NoText, parsed |-> TRUE]
      /\ MaxWrites \in Nat /\ MaxTroubles \in Nat
      /\ had = [p \in Paths |-> IF Regular(p) THEN {bytes[place[p]]} ELSE {}]
  BY ScanConstants DEF CorpusInit
<1>2. \A kind \in Kinds : [no |-> 0, kind |-> kind] \in Stamps
  BY <1>1 DEF Stamps
<1>3. /\ bytes \in [Inodes -> Texts] /\ \A i \in Inodes, part \in 1..2 : bytes[i][part].no = 0
  <2>1. bytes \in [Inodes -> {[part \in 1..2 |-> [no |-> 0, kind |-> kind]] : kind \in Kinds}]
    BY DEF CorpusInit
  <2>2. \A t \in {[part \in 1..2 |-> [no |-> 0, kind |-> kind]] : kind \in Kinds} :
          t \in Texts /\ \A part \in 1..2 : t[part].no = 0
    BY <1>2 DEF Texts
  <2> QED
    BY <2>1, <2>2
<1>4. CorpusFiles
  BY <1>1, <1>3 DEF CorpusFiles, CorpusInit, Regular
<1>5. ScanTyped
  BY <1>1 DEF ScanTyped, Inventory, Reading, Ended
<1>6. /\ ListedInv /\ InventoryInv /\ CurrentInv /\ IndexInv
  BY <1>1 DEF ListedInv, InventoryInv, CurrentInv, IndexInv, Reached, Inventory, Reading, Ended
<1>7. Judged = 0 /\ Documented = {} /\ Reported = {}
  BY <1>1 DEF Judged, Documented, Reported, Reading, Ended
<1>8. ManifestInv
  BY <1>1, <1>7, FS_EmptySet DEF ManifestInv
<1>9. UsableInv
  BY <1>7 DEF UsableInv
<1> QED
  BY <1>4, <1>5, <1>6, <1>8, <1>9 DEF CorpusInv

LEMMA CorpusSteps ==
  ASSUME CorpusInv, [CorpusNext]_corpusVars
  PROVE  CorpusInv'
<1>1. CASE World
  BY <1>1, InParts, WorldIs, DisturbanceKeeps
<1>2. CASE Scan
  <2>1. CASE Glob
    BY <2>1, GlobKeeps
  <2>2. CASE Stat
    BY <2>2, StatKeeps
  <2>3. CASE Channel
    BY <2>3, ChannelKeeps
  <2>4. CASE Open
    BY <2>4, OpenKeeps DEF Open, Step
  <2>5. CASE Reopen
    BY <2>5, ReopenKeeps DEF Reopen, Step
  <2>6. CASE Compare
    BY <2>6, CompareKeeps DEF Compare, Step
  <2>7. CASE ReadFails
    BY <2>7, ReadFailsKeeps DEF ReadFails, Step
  <2>8. CASE \E parsed \in BOOLEAN : ReadAndParse(parsed)
    BY <2>8, ReadAndParseKeeps DEF ReadAndParse, Step
  <2>9. CASE Rebuild
    BY <2>9, RebuildKeeps
  <2> QED
    BY <1>2, <2>1, <2>2, <2>3, <2>4, <2>5, <2>6, <2>7, <2>8, <2>9 DEF Scan
<1>3. CASE UNCHANGED corpusVars
  <2>1. /\ UNCHANGED scanned /\ troubles' = troubles /\ scan' = scan /\ found' = found
        /\ manifest' = manifest /\ index' = index
        /\ place' = place /\ touched' = touched /\ had' = had /\ writes' = writes /\ bytes' = bytes
        /\ info' = info
    BY <1>3 DEF corpusVars, scanned
  <2>2. ScanTyped' /\ ListedInv' /\ IndexInv' /\ InventoryInv' /\ CurrentInv'
    BY <2>1, InParts DEF ScanTyped, ListedInv, IndexInv, Reached, Collision, SameDocument,
       InventoryInv, Inventoried, Statted, HasChannel, Regular, CurrentInv, Current, Untouched
  <2>3. Judged' = Judged /\ Documented' = Documented /\ Reported' = Reported
    BY <2>1 DEF Judged, Documented, Reported
  <2>4. ManifestInv' /\ UsableInv'
    BY <2>1, <2>3, InParts, ScannedStays DEF ManifestInv, UsableInv
  <2> QED
    BY <2>1, <2>2, <2>4, InParts, ScannedStays DEF CorpusInv
<1> QED
  BY <1>1, <1>2, <1>3 DEF CorpusNext

\* The inductive invariant of a scan.
THEOREM ScanKnows == CorpusSpec => []CorpusInv
BY CorpusStarts, CorpusSteps, PTL DEF CorpusSpec

\* The files, the metadata and the place of the scan have their types.
THEOREM ScanTypes == CorpusSpec => []CorpusTypeOK
<1>1. ASSUME CorpusInv PROVE CorpusTypeOK
  <2>1. scan.next \in 1..(Len(found) + 1) /\ troubles \in 0..MaxTroubles
    BY <1>1, InParts DEF ScanTyped
  <2> QED
    BY <1>1, <2>1, InParts, ScanConstants DEF CorpusTypeOK, CorpusFiles, Texts
<1> QED
  BY <1>1, ScanKnows, PTL

\* A row is a text its file had at one instant; every candidate is a row or is reported;
\* a rebuild that succeeds has the usable files that were left alone and no other of them;
\* it fails only if two files are one document (scan_corpus and SQLiteFtsIndex.rebuild).
THEOREM RebuildsAreFaithful == CorpusSpec => []ScanIsFaithful
<1>1. ASSUME CorpusInv PROVE ScanIsFaithful
  <2>1. /\ \A d \in manifest.documents : d.text \in had[d.path]
        /\ Documented \cap Reported = {}
    BY <1>1, InParts DEF ManifestInv
  <2>2. ASSUME Reached("built")
        PROVE  /\ Documented \cup Reported = {found[k].path : k \in 1..Len(found)}
               /\ \A p \in Paths \ touched :
                    /\ Indexable(p) /\ troubles = 0 => \E d \in index : d.path = p
                    /\ (\E d \in index : d.path = p) => Indexable(p)
    <3>1. Judged = Len(found) /\ scan.point # "list" /\ index = manifest.documents
      BY <1>1, <2>2, InParts DEF Judged, Ended, Reached, IndexInv
    <3>2. Documented \cup Reported = {found[k].path : k \in 1..Len(found)}
      BY <1>1, <3>1, InParts DEF ManifestInv
    <3>3. \A p : (\E d \in index : d.path = p) <=> p \in Documented
      BY <3>1 DEF Documented
    <3>4. \A p \in Paths \ touched : Indexable(p) => p \in Documented \cup Reported
      BY <1>1, <3>1, <3>2, InParts, ScanConstants DEF ListedInv, Indexable, Regular
    <3> QED
      BY <1>1, <3>2, <3>3, <3>4, InParts DEF UsableInv
  <2>3. ASSUME Reached("failed")
        PROVE  \E a, b \in manifest.documents : a.path # b.path /\ SameDocument(a, b)
    BY <1>1, <2>3, InParts DEF IndexInv, Collision, ManifestInv
  <2> QED
    BY <2>1, <2>2, <2>3 DEF ScanIsFaithful, Documented, Reported
<1> QED
  BY <1>1, ScanKnows, PTL

-----------------------------------------------------------------------------
(* LocalAssessment: what is selected of what is found.                     *)

Items(S) ==
  \A a \in S : /\ a = [item |-> a.item, rank |-> a.rank, query |-> a.query]
               /\ a.rank \in Nat /\ a.query \in Nat

\* a is at least as good as b, of the same item.
NoWorse(a, b) == a.rank < b.rank \/ (a.rank = b.rank /\ a.query <= b.query)

Single(S) == \A a, b \in S : a.item = b.item => a = b

\* Of each item there is a best one.
HasBest(S) == \A b \in S : \E a \in Once(S) : a.item = b.item

LEMMA NoWorseOrder ==
  ASSUME NEW S, Items(S)
  PROVE  /\ \A a, b \in S : NoWorse(a, b) \/ NoWorse(b, a)
         /\ \A a, b, c \in S : NoWorse(a, b) /\ NoWorse(b, c) => NoWorse(a, c)
         /\ \A a, b \in S : a.item = b.item => (NoWorse(a, b) <=> a = b \/ Better(a, b))
         /\ \A a \in S : NoWorse(a, a)
         /\ Once(S) \subseteq S
         /\ \A a \in Once(S), b \in S : a.item = b.item => NoWorse(a, b)
<1>1. \A a \in S : a.rank \in Nat /\ a.query \in Nat
  BY DEF Items
<1>2. \A a, b \in S : NoWorse(a, b) \/ NoWorse(b, a)
  BY <1>1 DEF NoWorse
<1>3. \A a, b, c \in S : NoWorse(a, b) /\ NoWorse(b, c) => NoWorse(a, c)
  BY <1>1 DEF NoWorse
<1>4. \A a, b \in S : a.item = b.item => (NoWorse(a, b) <=> a = b \/ Better(a, b))
  <2> SUFFICES ASSUME NEW a \in S, NEW b \in S, a.item = b.item
               PROVE  NoWorse(a, b) <=> a = b \/ Better(a, b)
    OBVIOUS
  <2>1. /\ a = [item |-> a.item, rank |-> a.rank, query |-> a.query]
        /\ b = [item |-> b.item, rank |-> b.rank, query |-> b.query]
    BY DEF Items
  <2>2. a.rank = b.rank /\ a.query = b.query => a = b
    BY <2>1
  <2> QED
    BY <1>1, <2>2 DEF NoWorse, Better
<1>5. \A a \in S : NoWorse(a, a)
  BY <1>1 DEF NoWorse
<1>6. Once(S) \subseteq S /\ \A a \in Once(S), b \in S : a.item = b.item => NoWorse(a, b)
  BY DEF Once, NoWorse
<1> QED
  BY <1>2, <1>3, <1>4, <1>5, <1>6

LEMMA OnceIs ==
  ASSUME NEW S, NEW a \in S, \A b \in S : a.item = b.item => NoWorse(a, b)
  PROVE  a \in Once(S)
BY DEF Once, NoWorse

\* What has been selected of S, with T, is what is selected of both (_select_best).
LEMMA SelectAdds ==
  ASSUME NEW S, NEW T, Items(S \cup T), Single(T), HasBest(S)
  PROVE  Select(Once(S), T) = Once(S \cup T) /\ HasBest(S \cup T)
<1> DEFINE X == Once(S) \cup T
           U == S \cup T
<1>1. Items(S)
  BY DEF Items
<1>2. X \subseteq U /\ \A a \in Once(S), b \in S : a.item = b.item => NoWorse(a, b)
  BY <1>1, NoWorseOrder
<1>3. \A a, b, c \in U : NoWorse(a, b) /\ NoWorse(b, c) => NoWorse(a, c)
  BY NoWorseOrder
<1>4. \A a, b \in U : a.item = b.item => (NoWorse(a, b) <=> a = b \/ Better(a, b))
  BY NoWorseOrder
<1>5. \A a, b \in U : NoWorse(a, b) \/ NoWorse(b, a)
  BY NoWorseOrder
<1>6. ASSUME NEW a \in U
      PROVE  a \in Once(U) <=> a \in X /\ \A b \in X : a.item = b.item => NoWorse(a, b)
  <2>1. ASSUME a \in Once(U)
        PROVE  a \in X /\ \A b \in X : a.item = b.item => NoWorse(a, b)
    <3>1. \A b \in U : a.item = b.item => NoWorse(a, b)
      BY <2>1, NoWorseOrder
    <3>2. a \in S => a \in Once(S)
      BY <3>1, OnceIs
    <3> QED
      BY <1>2, <3>1, <3>2
  <2>2. ASSUME a \in X, \A b \in X : a.item = b.item => NoWorse(a, b)
        PROVE  a \in Once(U)
    <3>1. ASSUME NEW b \in S, a.item = b.item PROVE NoWorse(a, b)
      <4>1. PICK c \in Once(S) : c.item = b.item
        BY DEF HasBest
      <4>2. NoWorse(a, c) /\ NoWorse(c, b) /\ c \in U
        BY <1>2, <2>2, <3>1, <4>1
      <4> QED
        BY <1>3, <4>2
    <3> QED
      BY <2>2, <3>1, OnceIs
  <2> QED
    BY <2>1, <2>2
<1>7. Select(Once(S), T) = Once(U)
  <2>1. \A a : a \in Select(Once(S), T) <=>
               a \in X /\ \A b \in X : a.item = b.item => NoWorse(a, b)
    BY <1>2, <1>4 DEF Select
  <2>2. Once(U) \subseteq U
    BY DEF Once
  <2> QED
    BY <1>2, <1>6, <2>1, <2>2
<1>8. HasBest(U)
  <2> SUFFICES ASSUME NEW b \in U PROVE \E a \in Once(U) : a.item = b.item
    BY DEF HasBest
  <2>1. \A t, u \in X : t \in T /\ u \in T /\ t.item = u.item => t = u
    BY DEF Single
  <2>2. \A s, t \in Once(S) : s.item = t.item => NoWorse(s, t)
    BY <1>1, NoWorseOrder
  <2>3. \A a \in U : NoWorse(a, a)
    BY NoWorseOrder
  <2>4. CASE \E s \in Once(S) : s.item = b.item
    <3>1. PICK s \in Once(S) : s.item = b.item
      BY <2>4
    <3>2. CASE \E t \in T : t.item = b.item
      <4>1. PICK t \in T : t.item = b.item
        BY <3>2
      <4>2. CASE NoWorse(s, t)
        <5>1. \A c \in X : s.item = c.item => NoWorse(s, c)
          BY <2>1, <2>2, <3>1, <4>1, <4>2
        <5> QED
          BY <1>2, <1>6, <3>1, <5>1
      <4>3. CASE NoWorse(t, s)
        <5>1. \A c \in X : t.item = c.item => NoWorse(t, c)
          <6>1. ASSUME NEW c \in Once(S), t.item = c.item PROVE NoWorse(t, c)
            BY <1>2, <1>3, <2>2, <3>1, <4>1, <4>3, <6>1
          <6> QED
            BY <2>1, <2>3, <4>1, <6>1
        <5> QED
          BY <1>6, <4>1, <5>1
      <4> QED
        BY <1>2, <1>5, <3>1, <4>1, <4>2, <4>3
    <3>3. CASE ~\E t \in T : t.item = b.item
      <4>1. \A c \in X : s.item = c.item => NoWorse(s, c)
        BY <2>2, <3>1, <3>3
      <4> QED
        BY <1>2, <1>6, <3>1, <4>1
    <3> QED
      BY <3>2, <3>3
  <2>5. CASE ~\E s \in Once(S) : s.item = b.item
    <3>1. b \in T
      BY <2>5 DEF HasBest
    <3>2. \A c \in X : b.item = c.item => NoWorse(b, c)
      BY <2>1, <2>3, <2>5, <3>1
    <3> QED
      BY <1>6, <3>1, <3>2
  <2> QED
    BY <2>4, <2>5
<1> QED
  BY <1>7, <1>8

\* The candidates of one query in all languages.
Found(g, q, n) == UNION {Candidates(Hits[g][q][l], l) : l \in 1..n}

\* The candidate from a place.
From(g, q, p) == [item |-> At_(g, q, p), language |-> p[1], rank |-> p[2]]

UsedPlaces(g, q) == {p \in Places : p[2] \in DOMAIN Hits[g][q][p[1]]}

LEMMA PlacesOrder ==
  /\ \A p \in Places : p = <<p[1], p[2]>> /\ p[1] \in Nat /\ p[2] \in Nat
  /\ \A p, o \in Places : p = o \/ Precedes(p, o) \/ Precedes(o, p)
  /\ \A p, o \in Places : ~(Precedes(p, o) /\ Precedes(o, p)) /\ ~Precedes(p, p)
  /\ IsFiniteSet(Places)
<1>1. \A p \in Places : p \in (1..Languages) \X (1..Limit)
  BY DEF Places
<1>2. \A p \in Places : p = <<p[1], p[2]>> /\ p[1] \in Nat /\ p[2] \in Nat
  BY <1>1
<1>3. \A p, o \in Places : p[1] = o[1] /\ p[2] = o[2] => p = o
  BY <1>2
<1>4. IsFiniteSet((1..Languages) \X (1..Limit))
  <2>1. 1 \in Int /\ Languages \in Int /\ Limit \in Int
    BY AssessmentAssumption
  <2>2. IsFiniteSet(1..Languages) /\ IsFiniteSet(1..Limit)
    BY <2>1, FS_Interval
  <2> QED
    BY <2>2, FS_Product
<1> QED
  BY <1>1, <1>2, <1>3, <1>4, FS_Subset DEF Precedes

LEMMA FoundPlaces ==
  ASSUME NEW g \in Generations, NEW q \in 1..Queries
  PROVE  Found(g, q, Languages) = {From(g, q, p) : p \in UsedPlaces(g, q)}
<1>1. \A l \in 1..Languages : DOMAIN Hits[g][q][l] \subseteq 1..Limit
  <2> SUFFICES ASSUME NEW l \in 1..Languages PROVE DOMAIN Hits[g][q][l] \subseteq 1..Limit
    OBVIOUS
  <2>1. PICK n \in 0..Limit : DOMAIN Hits[g][q][l] = 1..n
    BY AssessmentAssumption
  <2> QED
    BY <2>1, AssessmentAssumption
<1>2. \A l \in 1..Languages : \A r \in DOMAIN Hits[g][q][l] :
        <<l, r>> \in UsedPlaces(g, q) /\ From(g, q, <<l, r>>) \in Candidates(Hits[g][q][l], l)
  BY <1>1 DEF UsedPlaces, Places, From, At_, Candidates
<1>3. ASSUME NEW p \in UsedPlaces(g, q)
      PROVE  p[1] \in 1..Languages /\ p[2] \in DOMAIN Hits[g][q][p[1]] /\ p = <<p[1], p[2]>>
  BY PlacesOrder DEF UsedPlaces, Places
<1>4. \A c : c \in Found(g, q, Languages) =>
        \E l \in 1..Languages : \E r \in DOMAIN Hits[g][q][l] : c = From(g, q, <<l, r>>)
  BY DEF Found, Candidates, From, At_
<1>5. Found(g, q, Languages) \subseteq {From(g, q, p) : p \in UsedPlaces(g, q)}
  <2> SUFFICES ASSUME NEW c \in Found(g, q, Languages)
               PROVE  \E p \in UsedPlaces(g, q) : c = From(g, q, p)
    OBVIOUS
  <2>1. PICK l \in 1..Languages : \E r \in DOMAIN Hits[g][q][l] : c = From(g, q, <<l, r>>)
    BY <1>4
  <2>2. PICK r \in DOMAIN Hits[g][q][l] : c = From(g, q, <<l, r>>)
    BY <2>1
  <2> QED
    BY <1>2, <2>2
<1>6. ASSUME NEW p \in UsedPlaces(g, q)
      PROVE  From(g, q, p) \in Found(g, q, Languages)
  <2>1. From(g, q, p) \in Candidates(Hits[g][q][p[1]], p[1]) /\ p[1] \in 1..Languages
    BY <1>2, <1>3
  <2> QED
    BY <2>1 DEF Found
<1> QED
  BY <1>5, <1>6

LEMMA BestPlaces ==
  ASSUME NEW g \in Generations, NEW q \in 1..Queries
  PROVE  BestHits(Found(g, q, Languages)) = {From(g, q, p) : p \in FirstPlaces(g, q)}
<1> DEFINE C == Found(g, q, Languages)
           used == UsedPlaces(g, q)
<1>1. C = {From(g, q, p) : p \in used} /\ used \subseteq Places
  BY FoundPlaces DEF UsedPlaces
<1>2. \A p : p \in FirstPlaces(g, q) <=>
             /\ p \in used
             /\ ~\E o \in used : Precedes(o, p) /\ At_(g, q, o) = At_(g, q, p)
  BY DEF FirstPlaces, UsedPlaces
<1>3. \A p, o \in used : SoonerLanguage(From(g, q, p), From(g, q, o)) <=> Precedes(p, o)
  BY DEF SoonerLanguage, From, Precedes
<1>4. \A p, o \in used : From(g, q, p) = From(g, q, o) => p = o
  BY <1>1, PlacesOrder DEF From
<1>5. \A p \in used : From(g, q, p).item = At_(g, q, p)
  BY DEF From
<1>6. ASSUME NEW p \in used
      PROVE  From(g, q, p) \in BestHits(C) <=> p \in FirstPlaces(g, q)
  <2>1. From(g, q, p) \in BestHits(C) <=>
          \A o \in used : At_(g, q, o) = At_(g, q, p) => o = p \/ Precedes(p, o)
    BY <1>1, <1>3, <1>4, <1>5 DEF BestHits
  <2> QED
    BY <1>1, <1>2, <2>1, PlacesOrder
<1>7. BestHits(C) \subseteq C
  BY DEF BestHits
<1> QED
  BY <1>1, <1>2, <1>6, <1>7

\* What is kept of a query is what its first places hold (search_passages).
LEMMA PassagesAreOfPlaces ==
  ASSUME NEW g \in Generations, NEW q \in 1..Queries
  PROVE  Ranked(Passages(Found(g, q, Languages)), q) = PassagesOf(g, q)
<1> DEFINE F == FirstPlaces(g, q)
           B == BestHits(Found(g, q, Languages))
<1>1. B = {From(g, q, p) : p \in F} /\ F \subseteq Places
  BY BestPlaces DEF FirstPlaces
<1> HIDE DEF F, B
<1>2. \A p, o \in F : From(g, q, p) = From(g, q, o) => p = o
  BY <1>1, PlacesOrder DEF From
<1>3. \A p, o \in F : SoonerLanguage(From(g, q, p), From(g, q, o)) <=> Precedes(p, o)
  BY DEF SoonerLanguage, From, Precedes
<1>4. ASSUME NEW p \in F
      PROVE  Cardinality({b \in B : SoonerLanguage(b, From(g, q, p))}) =
             Cardinality({o \in F : Precedes(o, p)})
  <2> DEFINE S == {o \in F : Precedes(o, p)}
             T == {b \in B : SoonerLanguage(b, From(g, q, p))}
             f == [o \in S |-> From(g, q, o)]
  <2>1. T = {From(g, q, o) : o \in S}
    BY <1>1, <1>3
  <2>2. IsFiniteSet(S)
    BY <1>1, PlacesOrder, FS_Subset
  <2>3. f \in Bijection(S, T)
    BY <1>2, <2>1 DEF Bijection, Injection, Surjection, IsInjective
  <2> QED
    BY <2>2, <2>3, FS_Bijection DEF ExistsBijection
<1>5. Passages(Found(g, q, Languages)) = {From(g, q, p) : p \in KeptPlaces(g, q)}
  <2>1. \A p : p \in KeptPlaces(g, q) <=> p \in F /\ Cardinality({o \in F : Precedes(o, p)}) < Limit
    BY DEF KeptPlaces, F
  <2>2. Passages(Found(g, q, Languages)) =
          {a \in B : Cardinality({b \in B : SoonerLanguage(b, a)}) < Limit}
    BY DEF Passages, FirstOf, B
  <2> QED
    BY <1>1, <1>4, <2>1, <2>2
<1>6. \A p : From(g, q, p).item = At_(g, q, p) /\ From(g, q, p).rank = p[2]
  BY DEF From
<1> QED
  BY <1>5, <1>6 DEF Ranked, PassagesOf

-----------------------------------------------------------------------------
(* LocalAssessment: the inductive invariant.                               *)

\* An index with the bytes of its receipt, and a damaged one.
Sound(i) == <<i, FALSE>>

Broken(i) == <<i, TRUE>>

\* The two files, and the numbers they have used.
FilesTyped ==
  /\ search \in IndexFiles \cup {NoFile}
  /\ catalog \in CatalogFiles \cup {NoFile} /\ displaced \in CatalogFiles \cup {NoFile}
  /\ receipts \subseteq Generations /\ damaged \subseteq Generations
  /\ changes \in Generations

FilesPast ==
  /\ search # NoFile => search.inode <= changes
  /\ catalog # NoFile => catalog.inode <= changes
  /\ displaced # NoFile => displaced.inode <= changes /\ catalog # NoFile
  /\ displaced # NoFile => catalog.inode # displaced.inode
  /\ <<Object(search), CatalogObject(catalog)>> \in together

FilesInv == FilesTyped /\ FilesPast

\* The object is no longer there, and will not be again.
Gone(i) ==
  /\ i <= changes
  /\ catalog # NoFile => catalog.inode # i
  /\ displaced # NoFile => displaced.inode # i

RowsFound ==
  {<<>>} \cup {Hits[g][q][l] : g \in Generations, q \in 1..Queries, l \in 1..Languages}

Calls == [identity : Objects \cup {NoFile}, conn : IndexFiles \cup {NoFile},
          rows : RowsFound, intact : BOOLEAN, since : Generations]

Scopes == [search : Objects \cup {NoFile}, catalog : Generations \cup {NoFile},
           gen : Generations, content : Contents \cup {NoFile},
           held : CatalogFiles \cup {NoFile}, query : 1..(Queries + 1),
           language : 1..(Languages + 1), since : Generations]

InSearch == {"search", "connect", "contract", "hash", "query", "confirm"}

Inspected == {"connect", "contract", "hash", "query", "confirm"}

Opened == {"contract", "hash", "query", "confirm"}

Stages == {"idle", "capture", "open", "opened", "validate", "validate_catalog",
           "videos", "done", "answered", "failed"} \cup InSearch

ReadersTyped ==
  /\ pc \in [Searchers -> Stages]
  /\ call \in [Searchers -> Calls]
  /\ cache \in [Searchers -> (Objects \X Objects) \cup {NoFile}]
  /\ scope \in Scopes
  /\ evidence = [candidates |-> evidence.candidates, passages |-> evidence.passages,
                 videos |-> evidence.videos, zeros |-> evidence.zeros]
  /\ \A p \in Searchers : call[p].since <= changes
  /\ scope.since <= changes

\* The file that was opened is the one that was inspected, if that is still there.
CallInv(p) ==
  /\ cache[p] # NoFile => cache[p][1] = Sound(cache[p][1][1])
  /\ pc[p] \in Inspected => call[p].identity \in Objects /\ call[p].identity[1] <= changes
  /\ pc[p] \in Opened =>
       /\ call[p].conn \in IndexFiles
       /\ search # NoFile /\ search.inode = call[p].identity[1] => call[p].conn = search
  /\ pc[p] \in {"query", "confirm"} => call[p].identity = Sound(call[p].identity[1])
  /\ At(p, "confirm") /\ call[p].conn.inode \notin damaged => call[p].intact
  /\ At(p, "answered") \/ At(p, "videos") =>
       call[p].identity = Sound(call[p].conn.inode) /\ call[p].intact

\* When the reader began.
Since(p) == IF p = "server" THEN call[p].since ELSE scope.since

\* As long as nothing has changed, the reader has what is there.
QuietInv(p) ==
  changes = Since(p) =>
    /\ pc[p] \in Inspected => call[p].identity = Object(search)
    /\ pc[p] \in Opened => call[p].conn = search
    /\ At(p, "failed") => ~Usable

Quiet ==
  LET stage == pc["assessment"] IN
  changes = scope.since =>
    /\ stage \notin {"idle", "failed"} => scope.search = Object(search)
    /\ stage \notin {"idle", "capture", "failed"} => scope.catalog = CatalogObject(catalog)
    /\ stage \notin {"idle", "capture", "open", "failed"} => scope.held = catalog

\* The index of the snapshot is still there.
IndexKept == Object(search) = scope.search

\* What becomes of the two catalogs of an assessment that has captured one and opened
\* the other in the middle of a session's exchange.
HeldOrder ==
  \/ scope.held.inode = scope.catalog
  \/ Gone(scope.held.inode) \/ Gone(scope.catalog)
  \/ /\ displaced # NoFile /\ displaced.inode = scope.catalog
     /\ catalog.inode = scope.held.inode

SameCatalog(file) == file # NoFile /\ file.inode = scope.catalog => file.content = scope.content

SnapshotInv ==
  LET stage == pc["assessment"] IN
  /\ stage \notin {"idle", "failed"} =>
       /\ scope.search \in Objects /\ scope.search[1] <= changes
       /\ scope.search = Broken(scope.search[1]) => scope.search[1] \in damaged
       /\ IndexKept => search.gen = scope.gen
  /\ stage \notin {"idle", "capture", "failed"} =>
       /\ scope.catalog \in 0..changes /\ scope.content \in Contents
       /\ SameCatalog(catalog) /\ SameCatalog(displaced) /\ SameCatalog(scope.held)
       /\ IndexKept \/ stage \in {"validate_catalog", "done"} =>
            <<scope.search, scope.catalog>> \in together
  /\ stage \in {"idle", "capture", "open"} => scope.held = NoFile
  /\ stage \notin {"idle", "capture", "open", "failed"} =>
       scope.held \in CatalogFiles /\ scope.held.inode <= changes
  /\ stage \in {"opened", "validate", "validate_catalog"} => HeldOrder
  /\ stage \in InSearch \cup {"videos"} =>
       scope.held.inode = scope.catalog \/ Gone(scope.held.inode)
  /\ scope.query > 1 /\ stage # "failed" => scope.held.inode = scope.catalog

PositionInv ==
  LET stage == pc["assessment"] IN
  /\ stage \in InSearch => scope.query \in 1..Queries /\ scope.language \in 1..Languages
  /\ At("assessment", "videos") => scope.query \in 1..Queries /\ scope.language = Languages + 1
  /\ stage \notin InSearch \cup {"videos", "failed"} => scope.language = 1
  /\ stage \in {"idle", "capture", "open", "opened"} => scope.query = 1
  /\ stage \in {"validate", "validate_catalog"} => scope.query \in {1, Queries + 1}
  /\ stage = "done" => scope.query = Queries + 1
  /\ stage = "confirm" => call["assessment"].rows =
       Hits[call["assessment"].conn.gen][scope.query][scope.language]

PassagesBefore(g, q) == UNION {PassagesOf(g, n) : n \in 1..(q - 1)}

VideosBefore(c, q) == UNION {VideosOf(c, n) : n \in 1..(q - 1)}

ZerosBefore(g, c, q) == {n \in 1..(q - 1) : PassagesOf(g, n) \cup VideosOf(c, n) = {}}

\* What was collected of the two files when a query and a language are at hand.
CollectedAre(e, s) ==
  /\ e.candidates = Found(s.gen, s.query, s.language - 1)
  /\ e.passages = Once(PassagesBefore(s.gen, s.query))
  /\ e.videos = Once(VideosBefore(s.content, s.query))
  /\ HasBest(PassagesBefore(s.gen, s.query))
  /\ HasBest(VideosBefore(s.content, s.query))
  /\ e.zeros = ZerosBefore(s.gen, s.content, s.query)

Collected == CollectedAre(evidence, scope)

EvidenceInv ==
  LET stage == pc["assessment"] IN
  /\ stage \in {"idle", "capture", "open", "opened"} =>
       evidence = [candidates |-> {}, passages |-> {}, videos |-> {}, zeros |-> {}]
  /\ /\ stage \notin {"idle", "capture", "failed"}
     /\ IndexKept \/ stage \in {"validate_catalog", "done"}
     => Collected

AssessmentInv ==
  /\ FilesInv /\ ReadersTyped
  /\ \A p \in Searchers : CallInv(p) /\ QuietInv(p)
  /\ Quiet /\ SnapshotInv /\ PositionInv /\ EvidenceInv

-----------------------------------------------------------------------------
(* LocalAssessment: what a change of the published files leaves true.       *)

\* The three kinds of change: of the index, of the catalog, and of neither.
Fresh == \E content \in Contents :
  catalog' = [inode |-> changes + 1, content |-> content, ctime |-> changes + 1]

IndexChange ==
  /\ UNCHANGED <<catalog, displaced>>
  /\ \/ search' \in {search, NoFile} /\ damaged' = damaged
     \/ /\ \E g \in Generations : search' = [inode |-> changes + 1, gen |-> g]
        /\ damaged' = damaged
     \/ /\ search # NoFile /\ search' = search
        /\ damaged' = damaged \cup {search.inode}

CatalogChange ==
  /\ UNCHANGED <<search, damaged>>
  /\ \/ displaced = NoFile /\ displaced' = NoFile /\ (catalog' = NoFile \/ Fresh)
     \/ displaced = NoFile /\ catalog # NoFile /\ displaced' = catalog /\ Fresh
     \/ /\ displaced # NoFile /\ displaced' = NoFile
        /\ catalog' \in {catalog, [displaced EXCEPT !.ctime = changes + 1]}

LEMMA NoFileIs ==
  /\ NoFile \notin IndexFiles /\ NoFile \notin CatalogFiles /\ NoFile \notin Objects
  /\ NoFile \notin Generations /\ NoFile \notin Contents
  /\ NoFile \notin Objects \X Objects
  /\ Queries \in Nat \ {0} /\ Languages \in Nat \ {0} /\ Limit \in Nat \ {0}
  /\ MaxChanges \in Nat /\ Generations \subseteq Nat
BY AssessmentAssumption DEF Generations

LEMMA MembershipIs ==
  ASSUME NEW x, NEW S
  PROVE  /\ x \notin S => (x \in S) = FALSE
         /\ x \in S => (x \in S) = TRUE
OBVIOUS

LEMMA ObjectsAre ==
  /\ \A o \in Objects : /\ o[1] \in Generations
                        /\ o = Sound(o[1]) \/ o = Broken(o[1])
  /\ \A i \in Generations : Sound(i) \in Objects /\ Broken(i) \in Objects
  /\ \A i, j : Sound(i) # Broken(j)
  /\ \A i : Sound(i)[1] = i /\ Broken(i)[1] = i
<1>1. ASSUME NEW o \in Objects
      PROVE  o[1] \in Generations /\ (o = Sound(o[1]) \/ o = Broken(o[1]))
  <2>1. PICK i \in Generations, b \in BOOLEAN : o = <<i, b>>
    BY DEF Objects
  <2>2. o[1] = i /\ o[2] = b
    BY <2>1
  <2>3. b = TRUE \/ b = FALSE
    OBVIOUS
  <2> QED
    BY <2>1, <2>2, <2>3 DEF Sound, Broken
<1>2. \A i \in Generations : Sound(i) \in Objects /\ Broken(i) \in Objects
  BY DEF Objects, Sound, Broken
<1>3. ASSUME NEW i, NEW j, Sound(i) = Broken(j)
      PROVE  FALSE
  <2>1. <<i, FALSE>>[2] = FALSE /\ <<j, TRUE>>[2] = TRUE
    OBVIOUS
  <2> QED
    BY <1>3, <2>1 DEF Sound, Broken
<1> QED
  BY <1>1, <1>2, <1>3 DEF Sound, Broken

LEMMA IdentityIs ==
  ASSUME NEW i, NEW S
  PROVE  /\ i \in S => <<i, i \in S>> = Broken(i)
         /\ i \notin S => <<i, i \in S>> = Sound(i)
BY MembershipIs DEF Broken, Sound

LEMMA ObjectIs ==
  ASSUME FilesInv
  PROVE  /\ search # NoFile =>
              /\ search \in IndexFiles /\ Object(search) \in Objects
              /\ Object(search)[1] = search.inode /\ search.inode <= changes
              /\ search.inode \in damaged => Object(search) = Broken(search.inode)
              /\ search.inode \notin damaged => Object(search) = Sound(search.inode)
         /\ search = NoFile => Object(search) = NoFile
<1>1. /\ search # NoFile => /\ search \in IndexFiles /\ search.inode \in Generations
                           /\ search.inode <= changes
                           /\ Object(search) = <<search.inode, search.inode \in damaged>>
      /\ search = NoFile => Object(search) = NoFile
  BY DEF FilesInv, FilesTyped, FilesPast, Object, IndexFiles
<1>2. /\ search.inode \in damaged => <<search.inode, search.inode \in damaged>> = Broken(search.inode)
      /\ search.inode \notin damaged => <<search.inode, search.inode \in damaged>> = Sound(search.inode)
  BY IdentityIs
<1> QED
  BY <1>1, <1>2, ObjectsAre

LEMMA PublishIs ==
  ASSUME FilesInv, Publish
  PROVE  Changed /\ receipts' \subseteq Generations /\ (IndexChange \/ CatalogChange)
<1>1. changes \in Nat /\ changes + 1 \in Generations
  <2>1. Changed
    BY DEF Publish, WriteReceipt, RemoveFile, Damage, ReplaceSearch, RemoveReceipt,
           ReplaceCatalog, Exchange, EndExchange
  <2> QED
    BY <2>1, NoFileIs DEF Changed, FilesInv, FilesTyped, Generations
<1>2. receipts \subseteq Generations
  BY DEF FilesInv, FilesTyped
<1>3. CASE WriteReceipt
  BY <1>1, <1>2, <1>3 DEF WriteReceipt, IndexChange
<1>4. CASE RemoveFile
  BY <1>2, <1>4 DEF RemoveFile, IndexChange, CatalogChange
<1>5. CASE Damage
  BY <1>2, <1>5 DEF Damage, IndexChange
<1>6. CASE \E g \in Generations : ReplaceSearch(g) \/ RemoveReceipt(g)
  BY <1>2, <1>6 DEF ReplaceSearch, RemoveReceipt, IndexChange
<1>7. CASE \E content \in Contents : ReplaceCatalog(content) \/ Exchange(content)
  BY <1>2, <1>7 DEF ReplaceCatalog, Exchange, CatalogChange, Fresh
<1>8. CASE \E reverse \in BOOLEAN : EndExchange(reverse)
  BY <1>2, <1>8 DEF EndExchange, CatalogChange
<1> QED
  BY <1>3, <1>4, <1>5, <1>6, <1>7, <1>8 DEF Publish

\* The old object of the index stays or is never there again; of the catalogs, the one
\* that is displaced may come back.
Published ==
  /\ FilesInv' /\ changes' = changes + 1 /\ UNCHANGED readers
  /\ damaged \subseteq damaged' /\ together \subseteq together'
  /\ search' # NoFile /\ search' # search => search'.inode = changes'
  /\ catalog' # NoFile => \/ catalog'.inode = changes'
                         \/ \E file \in {catalog, displaced} :
                              /\ file # NoFile /\ catalog'.inode = file.inode
                              /\ catalog'.content = file.content
  /\ displaced' # NoFile => displaced' \in {catalog, displaced}

LEMMA PublishStep ==
  ASSUME FilesInv, Publish
  PROVE  Published
<1> USE NoFileIs
<1>1. /\ changes' = changes + 1 /\ changes \in Nat /\ changes' \in Generations
      /\ receipts' \subseteq Generations
      /\ together' = together \cup {<<Object(search)', CatalogObject(catalog)'>>}
      /\ UNCHANGED readers
  BY PublishIs DEF Changed, FilesInv, FilesTyped, Generations
<1>2. IndexChange \/ CatalogChange
  BY PublishIs
<1>3. /\ search # NoFile => search \in IndexFiles /\ search.inode \in Generations
                            /\ search.inode \in Nat /\ search.inode <= changes
      /\ catalog # NoFile => catalog \in CatalogFiles /\ catalog.inode \in Nat
                             /\ catalog.inode <= changes
      /\ displaced # NoFile => displaced \in CatalogFiles /\ displaced.inode \in Nat
                               /\ displaced.inode <= changes /\ catalog # NoFile
                               /\ catalog.inode # displaced.inode
      /\ damaged \subseteq Generations
  BY DEF FilesInv, FilesTyped, FilesPast, IndexFiles, CatalogFiles
<1>4. changes < changes' /\ \A n \in Nat : n <= changes => n <= changes' /\ n # changes'
  BY <1>1
<1>5. CASE IndexChange
  <2>1. damaged' \subseteq Generations /\ damaged \subseteq damaged'
    BY <1>3, <1>5 DEF IndexChange
  <2>2. /\ search' \in IndexFiles \cup {NoFile}
        /\ search' # NoFile => search'.inode <= changes'
        /\ search' # NoFile /\ search' # search => search'.inode = changes'
    <3>1. CASE search' \in {search, NoFile}
      BY <1>3, <1>4, <3>1
    <3>2. CASE \E g \in Generations : search' = [inode |-> changes + 1, gen |-> g]
      <4>1. PICK g \in Generations : search' = [inode |-> changes', gen |-> g]
        BY <1>1, <3>2
      <4> QED
        BY <1>1, <4>1 DEF IndexFiles
    <3> QED
      BY <1>5, <3>1, <3>2 DEF IndexChange
  <2>3. UNCHANGED <<catalog, displaced>>
    BY <1>5 DEF IndexChange
  <2>4. FilesTyped'
    BY <1>1, <2>1, <2>2, <2>3 DEF FilesInv, FilesTyped
  <2>5. FilesPast'
    BY <1>1, <1>3, <1>4, <2>2, <2>3 DEF FilesPast
  <2> QED
    BY <1>1, <2>1, <2>2, <2>3, <2>4, <2>5 DEF FilesInv, Published
<1>6. CASE CatalogChange
  <2>1. Fresh => /\ catalog' \in CatalogFiles /\ catalog'.inode = changes'
    BY <1>1 DEF Fresh, CatalogFiles
  <2>2. UNCHANGED <<search, damaged>>
    BY <1>6 DEF CatalogChange
  <2>3. CASE displaced = NoFile /\ displaced' = NoFile /\ (catalog' = NoFile \/ Fresh)
    <3>1. FilesTyped'
      BY <1>1, <2>1, <2>2, <2>3 DEF FilesInv, FilesTyped
    <3>2. FilesPast'
      BY <1>1, <1>3, <1>4, <2>1, <2>2, <2>3 DEF FilesPast
    <3> QED
      BY <1>1, <2>1, <2>2, <2>3, <3>1, <3>2 DEF FilesInv, Published
  <2>4. CASE displaced = NoFile /\ catalog # NoFile /\ displaced' = catalog /\ Fresh
    <3>1. FilesTyped'
      BY <1>1, <2>1, <2>2, <2>4 DEF FilesInv, FilesTyped
    <3>2. FilesPast'
      BY <1>1, <1>3, <1>4, <2>1, <2>2, <2>4 DEF FilesPast
    <3> QED
      BY <1>1, <2>1, <2>2, <2>4, <3>1, <3>2 DEF FilesInv, Published
  <2>5. CASE /\ displaced # NoFile /\ displaced' = NoFile
             /\ catalog' \in {catalog, [displaced EXCEPT !.ctime = changes + 1]}
    <3>1. \E file \in {catalog, displaced} :
            /\ file # NoFile /\ catalog' \in CatalogFiles
            /\ catalog'.inode = file.inode /\ catalog'.content = file.content
      BY <1>1, <1>3, <2>5 DEF FilesInv, FilesTyped, CatalogFiles
    <3>2. FilesTyped'
      BY <1>1, <2>2, <2>5, <3>1 DEF FilesInv, FilesTyped
    <3>3. FilesPast'
      BY <1>1, <1>3, <1>4, <2>2, <2>5, <3>1 DEF FilesPast
    <3> QED
      BY <1>1, <2>2, <2>5, <3>1, <3>2, <3>3 DEF FilesInv, Published
  <2> QED
    BY <1>6, <2>3, <2>4, <2>5 DEF CatalogChange
<1> QED
  BY <1>2, <1>5, <1>6

\* An object that is gone stays so.
LEMMA GoneForGood ==
  ASSUME FilesInv, Publish, NEW i \in Generations, Gone(i)
  PROVE  Gone(i)'
<1>1. Published
  BY PublishStep
<1> QED
  BY <1>1, NoFileIs DEF Published, Gone, FilesInv, FilesTyped

LEMMA HeldOrderKept ==
  ASSUME FilesInv, Publish, HeldOrder,
         scope.catalog \in Generations, scope.held.inode \in Generations
  PROVE  HeldOrder'
<1>1. Published
  BY PublishStep
<1>2. scope' = scope
  BY <1>1 DEF Published, readers
<1>3. CASE scope.held.inode = scope.catalog
  BY <1>2, <1>3 DEF HeldOrder
<1>4. CASE Gone(scope.held.inode) \/ Gone(scope.catalog)
  <2>1. PICK h \in Generations, c \in Generations : h = scope.held.inode /\ c = scope.catalog
    OBVIOUS
  <2>2. Gone(h)' \/ Gone(c)'
    BY <1>4, <2>1, GoneForGood
  <2> QED
    BY <1>2, <2>1, <2>2 DEF HeldOrder, Gone
<1>5. CASE /\ displaced # NoFile /\ displaced.inode = scope.catalog
           /\ catalog.inode = scope.held.inode
  <2>1. IndexChange \/ CatalogChange
    BY PublishIs
  <2>2. CASE IndexChange
    BY <1>2, <1>5, <2>2 DEF IndexChange, HeldOrder
  <2>3. CASE CatalogChange
    <3>1. /\ displaced' = NoFile
          /\ catalog' \in {catalog, [displaced EXCEPT !.ctime = changes + 1]}
      BY <1>5, <2>3 DEF CatalogChange
    <3>2. displaced \in CatalogFiles /\ catalog \in CatalogFiles
      BY <1>5 DEF FilesInv, FilesTyped, FilesPast
    <3>3. /\ scope.held.inode <= changes' /\ scope.catalog <= changes'
          /\ scope.held.inode # scope.catalog
      <4>1. /\ catalog.inode \in Nat /\ displaced.inode \in Nat /\ changes \in Nat
            /\ catalog.inode <= changes /\ displaced.inode <= changes
            /\ catalog.inode # displaced.inode
        BY <1>5, <3>2, NoFileIs DEF FilesInv, FilesPast, FilesTyped, CatalogFiles
      <4> QED
        BY <1>1, <1>5, <4>1 DEF Published
    <3>4. catalog'.inode \in {scope.held.inode, scope.catalog}
      BY <1>5, <3>1, <3>2 DEF CatalogFiles
    <3> QED
      BY <1>2, <3>1, <3>3, <3>4 DEF HeldOrder, Gone
  <2> QED
    BY <2>1, <2>2, <2>3
<1> QED
  BY <1>3, <1>4, <1>5 DEF HeldOrder

\* The index of the snapshot is there after a change only if it was before.
LEMMA IndexWasKept ==
  ASSUME FilesInv, Publish, IndexKept', scope.search \in Objects, scope.search[1] <= changes,
         scope.search = Broken(scope.search[1]) => scope.search[1] \in damaged
  PROVE  IndexKept /\ search' = search
<1>1. Published
  BY PublishStep
<1>2. PICK i \in Generations : i = scope.search[1] /\ i <= changes
  BY ObjectsAre
<1>3. scope' = scope /\ Object(search)' = scope.search
  BY <1>1 DEF Published, readers, IndexKept
<1>4. /\ search' # NoFile /\ search'.inode = i
      /\ i \in damaged' => scope.search = Broken(i)
      /\ i \notin damaged' => scope.search = Sound(i)
  <2>1. /\ search' # NoFile =>
             /\ Object(search)'[1] = search'.inode
             /\ search'.inode \in damaged' => Object(search)' = Broken(search'.inode)
             /\ search'.inode \notin damaged' => Object(search)' = Sound(search'.inode)
        /\ search' = NoFile => Object(search)' = NoFile
    <3>1. search' # NoFile => Object(search)' = <<search'.inode, search'.inode \in damaged'>>
      BY DEF Object
    <3>2. search' = NoFile => Object(search)' = NoFile
      BY DEF Object
    <3> QED
      BY <3>1, <3>2, IdentityIs, ObjectsAre
  <2> QED
    BY <1>2, <1>3, <2>1, NoFileIs
<1>5. search' = search
  BY <1>1, <1>2, <1>4, NoFileIs DEF Published, FilesInv, FilesTyped
<1>6. i \in damaged' <=> i \in damaged
  BY <1>1, <1>2, <1>4, ObjectsAre DEF Published
<1>7. Object(search) = scope.search
  BY <1>4, <1>5, <1>6, ObjectIs
<1> QED
  BY <1>5, <1>7 DEF IndexKept

LEMMA SinceTyped ==
  ASSUME ReadersTyped, FilesInv
  PROVE  /\ changes \in Nat
         /\ scope.since \in Nat /\ scope.since <= changes
         /\ \A p \in Searchers : Since(p) \in Nat /\ Since(p) <= changes
<1>1. \A p \in Searchers : call[p].since \in Nat
  BY NoFileIs DEF ReadersTyped, Calls
<1>2. scope.since \in Nat
  BY NoFileIs DEF ReadersTyped, Scopes
<1> QED
  BY <1>1, <1>2, NoFileIs DEF ReadersTyped, FilesInv, FilesTyped, Since

LEMMA PublishKeeps ==
  ASSUME AssessmentInv, Publish
  PROVE  AssessmentInv'
<1> USE DEF AssessmentInv
<1>1. Published /\ UNCHANGED <<pc, call, cache, scope, evidence>>
  BY PublishStep DEF Published, readers
<1>2. /\ changes' = changes + 1 /\ changes \in Nat
      /\ \A n \in Nat : n <= changes => n <= changes' /\ n # changes'
  BY <1>1, SinceTyped DEF Published
<1>3. ReadersTyped'
  <2>1. \A p \in Searchers : call[p].since \in Nat /\ call[p].since <= changes
    BY NoFileIs DEF ReadersTyped, Calls
  <2> QED
    BY <1>1, <1>2, <2>1, SinceTyped DEF ReadersTyped
<1>4. ASSUME NEW p \in Searchers
      PROVE  CallInv(p)' /\ QuietInv(p)'
  <2>1. call[p].identity \in Objects => call[p].identity[1] \in Nat
    BY NoFileIs DEF Objects
  <2>2. pc[p] \in Inspected /\ search' # NoFile /\ search'.inode = call[p].identity[1] => search' = search
    BY <1>1, <1>2, <2>1 DEF Published, CallInv
  <2>3. CallInv(p)
    OBVIOUS
  <2>4. CallInv(p)'
    BY <1>1, <1>2, <2>1, <2>2, <2>3 DEF Published, CallInv, At, Inspected, Opened
  <2>5. changes' # Since(p)'
    BY <1>1, <1>2, SinceTyped DEF Since
  <2> QED
    BY <2>4, <2>5 DEF QuietInv
<1>5. Quiet'
  BY <1>1, <1>2, SinceTyped DEF Quiet
<1>6. SnapshotInv'
  <2> DEFINE stage == pc["assessment"]
  <2>1. SnapshotInv /\ FilesInv /\ scope \in Scopes
    BY DEF ReadersTyped
  <2>2. stage \notin {"idle", "failed"} /\ IndexKept' => IndexKept /\ search' = search
    BY <2>1, IndexWasKept DEF SnapshotInv
  <2>3. stage \notin {"idle", "failed"} =>
          /\ scope'.search \in Objects /\ scope'.search[1] <= changes'
          /\ scope'.search = Broken(scope'.search[1]) => scope'.search[1] \in damaged'
          /\ IndexKept' => search'.gen = scope'.gen
    <3>1. scope.search \in Objects => scope.search[1] \in Nat
      BY NoFileIs DEF Objects
    <3> QED
      BY <1>1, <1>2, <2>1, <2>2, <3>1 DEF Published, SnapshotInv
  <2>4. stage \notin {"idle", "capture", "failed"} =>
          /\ scope'.catalog \in 0..changes' /\ scope'.content \in Contents
          /\ SameCatalog(catalog)' /\ SameCatalog(displaced)' /\ SameCatalog(scope.held)'
          /\ IndexKept' \/ stage \in {"validate_catalog", "done"} =>
               <<scope'.search, scope'.catalog>> \in together'
    <3> SUFFICES ASSUME stage \notin {"idle", "capture", "failed"}
                 PROVE  /\ scope.catalog \in 0..changes' /\ scope.content \in Contents
                        /\ SameCatalog(catalog)' /\ SameCatalog(displaced)'
                        /\ SameCatalog(scope.held)'
                        /\ IndexKept' \/ stage \in {"validate_catalog", "done"} =>
                             <<scope.search, scope.catalog>> \in together'
      BY <1>1
    <3>1. /\ scope.catalog \in Nat /\ scope.catalog <= changes /\ scope.content \in Contents
          /\ SameCatalog(catalog) /\ SameCatalog(displaced) /\ SameCatalog(scope.held)
      BY <1>2, <2>1 DEF SnapshotInv
    <3>2. SameCatalog(catalog)'
      BY <1>1, <1>2, <3>1 DEF Published, SameCatalog
    <3>3. SameCatalog(displaced)' /\ SameCatalog(scope.held)'
      BY <1>1, <3>1 DEF Published, SameCatalog
    <3>4. IndexKept' \/ stage \in {"validate_catalog", "done"} =>
            <<scope.search, scope.catalog>> \in together'
      BY <1>1, <2>1, <2>2 DEF Published, SnapshotInv
    <3> QED
      BY <1>2, <3>1, <3>2, <3>3, <3>4
  <2>5. stage \notin {"idle", "capture", "open", "failed"} =>
          scope.held \in CatalogFiles /\ scope.held.inode \in Nat /\ scope.held.inode <= changes
    BY <2>1, NoFileIs DEF SnapshotInv, CatalogFiles
  <2>6. stage \in {"opened", "validate", "validate_catalog"} => HeldOrder'
    <3> SUFFICES ASSUME stage \in {"opened", "validate", "validate_catalog"} PROVE HeldOrder'
      OBVIOUS
    <3>1. HeldOrder /\ scope.catalog \in 0..changes /\ scope.held \in CatalogFiles
      BY <2>1, <2>5 DEF SnapshotInv
    <3>2. 0..changes \subseteq Generations
      BY <1>2, NoFileIs DEF FilesInv, FilesTyped, Generations
    <3>3. scope.catalog \in Generations /\ scope.held.inode \in Generations
      BY <3>1, <3>2 DEF CatalogFiles
    <3> QED
      BY <2>1, <3>1, <3>3, HeldOrderKept
  <2>7. stage \in InSearch \cup {"videos"} =>
          scope'.held.inode = scope'.catalog \/ Gone(scope.held.inode)'
    <3> SUFFICES ASSUME stage \in InSearch \cup {"videos"}, Gone(scope.held.inode)
                 PROVE  Gone(scope.held.inode)'
      BY <1>1, <2>1 DEF SnapshotInv
    <3>1. PICK h \in Generations : h = scope.held.inode
      BY <2>5, NoFileIs DEF InSearch, CatalogFiles
    <3>2. Gone(h)'
      BY <2>1, <3>1, GoneForGood
    <3> QED
      BY <1>1, <3>1, <3>2 DEF Gone
  <2> QED
    BY <1>1, <1>2, <2>1, <2>3, <2>4, <2>5, <2>6, <2>7 DEF SnapshotInv
<1>7. PositionInv'
  BY <1>1 DEF PositionInv, At
<1>8. EvidenceInv'
  <2>1. pc["assessment"] \notin {"idle", "failed"} /\ IndexKept' => IndexKept
    BY IndexWasKept DEF SnapshotInv
  <2>2. Collected' <=> Collected
    BY <1>1 DEF Collected
  <2> QED
    BY <1>1, <2>1, <2>2 DEF EvidenceInv
<1> QED
  BY <1>1, <1>3, <1>4, <1>5, <1>6, <1>7, <1>8 DEF Published

-----------------------------------------------------------------------------
(* LocalAssessment: the steps of the readers.                              *)

\* The files, and for each reader what it needs not to have lost: none of a reader's
\* steps changes the files.
LEMMA FilesStay ==
  ASSUME UNCHANGED files
  PROVE  /\ UNCHANGED <<search, catalog, displaced, receipts, damaged, changes, together>>
         /\ FilesInv => FilesInv'
BY DEF files, FilesInv, FilesTyped, FilesPast, Object, CatalogObject

ReaderStays(p) == pc'[p] = pc[p] /\ call'[p] = call[p] /\ cache'[p] = cache[p]

LEMMA StaysKeeps ==
  ASSUME NEW p \in Searchers, CallInv(p), QuietInv(p), UNCHANGED files, ReaderStays(p),
         p = "assessment" => scope'.since = scope.since
  PROVE  CallInv(p)' /\ QuietInv(p)'
<1>1. UNCHANGED <<search, catalog, receipts, damaged, changes>>
  BY FilesStay
<1>2. CallInv(p)'
  BY <1>1 DEF CallInv, ReaderStays, At
<1>3. Since(p)' = Since(p)
  BY DEF Since, ReaderStays, Searchers
<1>4. QuietInv(p)'
  BY <1>1, <1>3 DEF QuietInv, ReaderStays, At, Usable, Object
<1> QED
  BY <1>2, <1>4

\* What the assessment holds, when another step is taken or one within its search.
AssessmentHolds == Quiet /\ SnapshotInv /\ PositionInv /\ EvidenceInv

AssessmentStays ==
  /\ UNCHANGED <<files, scope, evidence>>
  /\ \/ pc'["assessment"] = pc["assessment"] /\ call'["assessment"] = call["assessment"]
     \/ /\ pc["assessment"] \in InSearch /\ pc'["assessment"] \in InSearch \cup {"failed"}
        /\ pc'["assessment"] = "confirm" =>
             call'["assessment"].rows =
               Hits[call'["assessment"].conn.gen][scope.query][scope.language]

LEMMA AssessmentStaysKeeps ==
  ASSUME AssessmentHolds, AssessmentStays
  PROVE  AssessmentHolds'
<1> USE DEF AssessmentHolds
<1>1. /\ UNCHANGED <<search, catalog, displaced, damaged, changes, together>>
      /\ UNCHANGED <<scope, evidence>>
  BY FilesStay DEF AssessmentStays
<1>2. Quiet'
  BY <1>1 DEF AssessmentStays, Quiet, Object, CatalogObject, InSearch
<1>3. SnapshotInv'
  <2>1. (IndexKept' <=> IndexKept) /\ (HeldOrder' <=> HeldOrder)
    BY <1>1 DEF IndexKept, Object, HeldOrder, Gone
  <2>2. \A i : Gone(i)' <=> Gone(i)
    BY <1>1 DEF Gone
  <2>3. Gone(scope.held.inode)' <=> Gone(scope.held.inode)
    BY <1>1 DEF Gone
  <2> QED
    BY <1>1, <2>1, <2>3 DEF AssessmentStays, SnapshotInv, SameCatalog, InSearch
<1>4. PositionInv'
  BY <1>1 DEF AssessmentStays, PositionInv, InSearch, At
<1>5. EvidenceInv'
  <2>1. (IndexKept' <=> IndexKept) /\ (Collected' <=> Collected)
    BY <1>1 DEF IndexKept, Object, Collected
  <2> QED
    BY <1>1, <2>1 DEF AssessmentStays, EvidenceInv, InSearch
<1> QED
  BY <1>2, <1>3, <1>4, <1>5

LEMMA ReadersAre ==
  ASSUME ReadersTyped, NEW p \in Searchers
  PROVE  /\ DOMAIN pc = Searchers /\ DOMAIN call = Searchers /\ DOMAIN cache = Searchers
         /\ pc = [r \in Searchers |-> pc[r]] /\ call[p] \in Calls
         /\ "assessment" \in Searchers /\ "server" \in Searchers
BY DEF ReadersTyped, Searchers

\* A step of one reader's search, by its stage before and after, and its call.
SearchStep(p, from, to) ==
  /\ pc[p] = from /\ from \in InSearch /\ to \in InSearch \cup {"failed"}
  /\ pc' = [pc EXCEPT ![p] = to]
  /\ UNCHANGED <<files, scope, evidence>>
  /\ \A r \in Searchers \ {p} : call'[r] = call[r] /\ cache'[r] = cache[r]
  /\ call' \in [Searchers -> Calls] /\ call'[p].since <= changes
  /\ cache' \in [Searchers -> (Objects \X Objects) \cup {NoFile}]

LEMMA SearchStepKeeps ==
  ASSUME AssessmentInv, NEW p \in Searchers, NEW from, NEW to, SearchStep(p, from, to),
         CallInv(p)', QuietInv(p)',
         to = "confirm" /\ p = "assessment" =>
           call'[p].rows = Hits[call'[p].conn.gen][scope.query][scope.language]
  PROVE  AssessmentInv'
<1> USE DEF AssessmentInv
<1>1. UNCHANGED files /\ UNCHANGED <<changes, scope, evidence>> /\ FilesInv'
  BY FilesStay DEF SearchStep
<1>2. \A r \in Searchers : pc'[r] = IF r = p THEN to ELSE pc[r]
  BY DEF SearchStep, ReadersTyped
<1>3. ReadersTyped'
  BY <1>1, <1>2 DEF SearchStep, ReadersTyped, Stages
<1>4. \A r \in Searchers : CallInv(r)' /\ QuietInv(r)'
  <2> SUFFICES ASSUME NEW r \in Searchers, r # p PROVE CallInv(r)' /\ QuietInv(r)'
    OBVIOUS
  <2>1. ReaderStays(r)
    BY <1>2 DEF SearchStep, ReaderStays
  <2> QED
    BY <1>1, <2>1, StaysKeeps
<1>5. AssessmentStays
  <2>1. CASE p = "assessment"
    BY <1>1, <1>2, <2>1 DEF AssessmentStays, SearchStep
  <2>2. CASE p # "assessment"
    BY <1>1, <1>2, <2>2 DEF AssessmentStays, SearchStep, Searchers
  <2> QED
    BY <2>1, <2>2
<1>6. AssessmentHolds'
  BY <1>5, AssessmentStaysKeeps DEF AssessmentHolds
<1> QED
  BY <1>1, <1>3, <1>4, <1>6 DEF AssessmentHolds

LEMMA NoCallIs == NoCall \in Calls
BY NoFileIs DEF NoCall, Calls, RowsFound, Generations

LEMMA InspectKeeps ==
  ASSUME AssessmentInv, NEW p \in Searchers, Inspect(p)
  PROVE  AssessmentInv'
<1> USE DEF AssessmentInv
<1> DEFINE to == IF search = NoFile THEN "failed" ELSE "connect"
           c == [NoCall EXCEPT !.identity = Object(search), !.since = changes]
<1>1. /\ pc[p] = "search" /\ pc' = [pc EXCEPT ![p] = to]
      /\ call' = [call EXCEPT ![p] = c]
      /\ cache' = IF p = "assessment" THEN [cache EXCEPT ![p] = NoFile] ELSE cache
      /\ UNCHANGED <<files, scope, evidence>>
  BY DEF Inspect, At, Raise, Moves
<1>2. UNCHANGED <<search, catalog, receipts, damaged, changes>>
  BY <1>1, FilesStay
<1>3. c \in Calls /\ c.identity = Object(search) /\ c.since = changes
  BY NoCallIs, ObjectIs DEF Calls, FilesInv, FilesTyped
<1> HIDE DEF c
<1>4. call'[p] = c /\ pc'[p] = to /\ cache'[p] \in {cache[p], NoFile}
  BY <1>1, ReadersAre
<1>5. SearchStep(p, "search", to)
  <2>1. cache' \in [Searchers -> (Objects \X Objects) \cup {NoFile}]
    BY <1>1 DEF ReadersTyped
  <2>2. call' \in [Searchers -> Calls]
    BY <1>1, <1>3 DEF ReadersTyped
  <2> QED
    BY <1>1, <1>3, <1>4, <2>1, <2>2, SinceTyped DEF SearchStep, InSearch, ReadersTyped
<1>6. CallInv(p)'
  <2>1. CallInv(p) /\ (search # NoFile => Object(search) \in Objects /\ Object(search)[1] <= changes)
    BY ObjectIs
  <2> QED
    BY <1>2, <1>3, <1>4, <2>1, NoFileIs DEF CallInv, Inspected, Opened, At
<1>7. QuietInv(p)'
  <2>1. search = NoFile => ~Usable'
    BY <1>2 DEF Usable
  <2>2. Object(search)' = Object(search)
    BY <1>2 DEF Object
  <2> QED
    BY <1>3, <1>4, <2>1, <2>2 DEF QuietInv, Inspected, Opened, At
<1> QED
  BY <1>5, <1>6, <1>7, SearchStepKeeps

LEMMA OpenIndexKeeps ==
  ASSUME AssessmentInv, NEW p \in Searchers, OpenIndex(p)
  PROVE  AssessmentInv'
<1> USE DEF AssessmentInv
<1> DEFINE to == IF search = NoFile THEN "failed" ELSE "contract"
           c == [call[p] EXCEPT !.conn = search]
<1>1. /\ pc[p] = "connect" /\ pc' = [pc EXCEPT ![p] = to]
      /\ call' = [call EXCEPT ![p] = c] /\ UNCHANGED <<files, cache, scope, evidence>>
  BY DEF OpenIndex, At, Raise, Moves
<1>2. UNCHANGED <<search, catalog, receipts, damaged, changes>>
  BY <1>1, FilesStay
<1>3. /\ c \in Calls /\ c.conn = search
      /\ c.identity = call[p].identity /\ c.since = call[p].since
  BY ReadersAre DEF Calls, FilesInv, FilesTyped
<1> HIDE DEF c
<1>4. call'[p] = c /\ pc'[p] = to
  BY <1>1, ReadersAre
<1>5. SearchStep(p, "connect", to)
  BY <1>1, <1>3, <1>4, SinceTyped DEF SearchStep, InSearch, ReadersTyped
<1>6. CallInv(p)'
  <2>1. CallInv(p) /\ (search = NoFile \/ search \in IndexFiles)
    BY ObjectIs
  <2> HIDE DEF AssessmentInv
  <2> QED
    BY <1>1, <1>2, <1>3, <1>4, <2>1 DEF CallInv, Inspected, Opened, At
<1>7. QuietInv(p)'
  <2>1. search = NoFile => ~Usable'
    BY <1>2 DEF Usable
  <2>2. Object(search)' = Object(search) /\ Since(p)' = Since(p)
    BY <1>1, <1>2, <1>3, <1>4 DEF Object, Since
  <2>3. QuietInv(p)
    OBVIOUS
  <2> QED
    BY <1>1, <1>2, <1>3, <1>4, <2>1, <2>2, <2>3 DEF QuietInv, Inspected, Opened, At
<1> QED
  BY <1>5, <1>6, <1>7, SearchStepKeeps

LEMMA ContractKeeps ==
  ASSUME AssessmentInv, NEW p \in Searchers, Contract(p)
  PROVE  AssessmentInv'
<1> USE DEF AssessmentInv
<1> DEFINE to == IF call[p].conn.gen \notin receipts THEN "failed"
                 ELSE IF Validated(p) THEN "query" ELSE "hash"
<1>1. /\ pc[p] = "contract" /\ pc' = [pc EXCEPT ![p] = to]
      /\ UNCHANGED <<files, call, cache, scope, evidence>>
  BY DEF Contract, At, Raise, Moves
<1>2. UNCHANGED <<search, catalog, receipts, damaged, changes>>
  BY <1>1, FilesStay
<1>3. Validated(p) => call[p].identity = Sound(call[p].identity[1])
  <2>1. call[p].identity \in Objects /\ call[p].conn \in IndexFiles
    BY <1>1 DEF CallInv, Inspected, Opened
  <2>2. Expected(p) = Sound(call[p].conn.gen) /\ call[p].conn.gen \in Generations
    BY <2>1 DEF Expected, Sound, IndexFiles
  <2>3. Expected(p) \in Objects
    BY <2>2, ObjectsAre
  <2>4. Validated(p) => cache[p] # NoFile /\ cache[p][1] = call[p].identity
    BY <2>1, <2>3, NoFileIs DEF Validated
  <2> QED
    BY <2>4 DEF CallInv
<1>4. call'[p] = call[p] /\ cache'[p] = cache[p] /\ pc'[p] = to
  BY <1>1, ReadersAre
<1> HIDE DEF to
<1>5. to \in {"failed", "query", "hash"} /\ (to = "query" => Validated(p))
      /\ (to = "failed" => call[p].conn.gen \notin receipts)
  BY DEF to
<1>6. SearchStep(p, "contract", to)
  BY <1>1, <1>5 DEF SearchStep, InSearch, ReadersTyped
<1>7. CallInv(p)'
  <2>1. CallInv(p)
    OBVIOUS
  <2> QED
    BY <1>1, <1>2, <1>3, <1>4, <1>5, <2>1 DEF CallInv, Inspected, Opened, At
<1>8. QuietInv(p)'
  <2>1. QuietInv(p) /\ pc[p] = "contract"
    BY <1>1
  <2>2. Object(search)' = Object(search) /\ Since(p)' = Since(p)
    BY <1>1, <1>2 DEF Object, Since
  <2>3. to = "failed" /\ call[p].conn = search => ~Usable'
    BY <1>2, <1>5 DEF Usable
  <2> QED
    BY <1>1, <1>2, <1>4, <1>5, <2>1, <2>2, <2>3 DEF QuietInv, Inspected, Opened, At
<1> QED
  BY <1>5, <1>6, <1>7, <1>8, SearchStepKeeps

LEMMA HashKeeps ==
  ASSUME AssessmentInv, NEW p \in Searchers, Hash(p)
  PROVE  AssessmentInv'
<1> USE DEF AssessmentInv
<1> DEFINE agree == Object(search) = call[p].identity /\ Digest(search) = Expected(p)
           to == IF agree THEN "query" ELSE "failed"
<1>1. /\ pc[p] = "hash" /\ pc' = [pc EXCEPT ![p] = to]
      /\ IF agree THEN cache' = [cache EXCEPT ![p] = <<call[p].identity, Expected(p)>>]
                  ELSE cache' = cache
      /\ UNCHANGED <<files, call, scope, evidence>>
  BY DEF Hash, At, Raise, Moves
<1>2. UNCHANGED <<search, catalog, receipts, damaged, changes>>
  BY <1>1, FilesStay
<1>3. /\ call[p].identity \in Objects /\ call[p].conn \in IndexFiles /\ Expected(p) \in Objects
      /\ CallInv(p) /\ QuietInv(p)
  <2>1. call[p].identity \in Objects /\ call[p].conn \in IndexFiles
    BY <1>1 DEF CallInv, Inspected, Opened
  <2>2. Expected(p) = Sound(call[p].conn.gen) /\ call[p].conn.gen \in Generations
    BY <2>1 DEF Expected, Sound, IndexFiles
  <2> QED
    BY <2>1, <2>2, ObjectsAre
<1>4. agree => call[p].identity = Sound(call[p].identity[1])
  <2> SUFFICES ASSUME Object(search) = call[p].identity, Digest(search) = Expected(p)
               PROVE  call[p].identity = Sound(call[p].identity[1])
    OBVIOUS
  <2>1. search # NoFile
    BY <1>3, NoFileIs, ObjectIs
  <2>2. (search.inode \in damaged) = FALSE
    BY DEF Digest, Expected
  <2>3. search.inode \notin damaged
    BY <2>2
  <2> QED
    BY <2>1, <2>3, ObjectIs, ObjectsAre
<1>5. changes = Since(p) /\ Usable => agree
  <2> SUFFICES ASSUME changes = Since(p), Usable PROVE agree
    OBVIOUS
  <2>1. Object(search) = call[p].identity /\ call[p].conn = search
    BY <1>1, <1>3 DEF QuietInv, Inspected, Opened
  <2>2. search.inode \notin damaged
    BY DEF Usable
  <2>3. (search.inode \in damaged) = FALSE
    BY <2>2, MembershipIs
  <2> QED
    BY <2>1, <2>3 DEF Digest, Expected
<1> HIDE DEF agree
<1>6. /\ call'[p] = call[p] /\ pc'[p] = to
      /\ cache'[p] = IF agree THEN <<call[p].identity, Expected(p)>> ELSE cache[p]
  BY <1>1, ReadersAre
<1>7. SearchStep(p, "hash", to)
  <2>1. cache' \in [Searchers -> (Objects \X Objects) \cup {NoFile}]
    BY <1>1, <1>3 DEF ReadersTyped
  <2>2. \A r \in Searchers \ {p} : cache'[r] = cache[r]
    BY <1>1, ReadersAre
  <2> QED
    BY <1>1, <2>1, <2>2 DEF SearchStep, InSearch, ReadersTyped
<1>8. CallInv(p)'
  <2>1. cache'[p] # NoFile => cache'[p][1] = Sound(cache'[p][1][1])
    <3>1. <<call[p].identity, Expected(p)>>[1] = call[p].identity
      OBVIOUS
    <3>2. cache[p] # NoFile => cache[p][1] = Sound(cache[p][1][1])
      BY <1>3 DEF CallInv
    <3> QED
      BY <1>4, <1>6, <3>1, <3>2
  <2> QED
    BY <1>1, <1>2, <1>3, <1>4, <1>6, <2>1 DEF CallInv, Inspected, Opened, At
<1>9. QuietInv(p)'
  <2>1. Object(search)' = Object(search) /\ Since(p)' = Since(p)
    BY <1>1, <1>2 DEF Object, Since
  <2>2. to = "failed" /\ changes = Since(p) => ~Usable'
    BY <1>2, <1>5 DEF Usable
  <2> QED
    BY <1>1, <1>2, <1>3, <1>6, <2>1, <2>2 DEF QuietInv, Inspected, Opened, At
<1> QED
  BY <1>7, <1>8, <1>9, SearchStepKeeps

LEMMA QueryKeeps ==
  ASSUME AssessmentInv, NEW p \in Searchers, Query(p)
  PROVE  AssessmentInv'
<1> USE DEF AssessmentInv
<1> DEFINE rows == Hits[call[p].conn.gen][Position(p)[1]][Position(p)[2]]
           c == [call[p] EXCEPT !.rows = rows, !.intact = call[p].conn.inode \notin damaged]
<1>1. /\ pc[p] = "query" /\ pc' = [pc EXCEPT ![p] = "confirm"]
      /\ call' = [call EXCEPT ![p] = c] /\ UNCHANGED <<files, cache, scope, evidence>>
  BY DEF Query, At, Moves
<1>2. UNCHANGED <<search, catalog, receipts, damaged, changes>>
  BY <1>1, FilesStay
<1>3. rows \in RowsFound
  <2>1. call[p].conn.gen \in Generations
    BY <1>1 DEF CallInv, Opened, IndexFiles
  <2>2. Position(p)[1] \in 1..Queries /\ Position(p)[2] \in 1..Languages
    BY <1>1, NoFileIs DEF Position, PositionInv, InSearch, Searchers
  <2> QED
    BY <2>1, <2>2 DEF RowsFound
<1>4. p = "assessment" => rows = Hits[call[p].conn.gen][scope.query][scope.language]
  BY DEF Position
<1> HIDE DEF rows
<1>5. /\ c \in Calls /\ c.conn = call[p].conn /\ c.identity = call[p].identity
      /\ c.since = call[p].since /\ c.rows = rows
      /\ call[p].conn.inode \notin damaged => c.intact
  BY <1>3, ReadersAre DEF Calls
<1> HIDE DEF c
<1>6. call'[p] = c /\ pc'[p] = "confirm"
  BY <1>1, ReadersAre
<1>7. SearchStep(p, "query", "confirm")
  BY <1>1, <1>5, <1>6, SinceTyped DEF SearchStep, InSearch, ReadersTyped
<1>8. CallInv(p)'
  <2>1. CallInv(p)
    OBVIOUS
  <2> QED
    BY <1>1, <1>2, <1>5, <1>6, <2>1 DEF CallInv, Inspected, Opened, At
<1>9. QuietInv(p)'
  <2>1. Object(search)' = Object(search) /\ Since(p)' = Since(p)
    BY <1>1, <1>2, <1>5, <1>6 DEF Object, Since
  <2>2. QuietInv(p)
    OBVIOUS
  <2> QED
    BY <1>1, <1>2, <1>5, <1>6, <2>1, <2>2 DEF QuietInv, Inspected, Opened, At
<1>10. p = "assessment" =>
         call'[p].rows = Hits[call'[p].conn.gen][scope.query][scope.language]
  BY <1>4, <1>5, <1>6
<1> QED
  BY <1>7, <1>8, <1>9, <1>10, SearchStepKeeps

\* A search that is confirmed has read the file that is there.
LEMMA ConfirmedIs ==
  ASSUME AssessmentInv, NEW p \in Searchers, At(p, "confirm"), Unchanged(p)
  PROVE  /\ search # NoFile /\ call[p].conn = search /\ call[p].intact
         /\ call[p].identity = Sound(call[p].conn.inode)
<1>1. /\ call[p].identity \in Objects /\ call[p].identity = Sound(call[p].identity[1])
      /\ search # NoFile /\ search.inode = call[p].identity[1] => call[p].conn = search
      /\ call[p].conn.inode \notin damaged => call[p].intact
  BY DEF AssessmentInv, CallInv, At, Inspected, Opened
<1>2. FilesInv /\ Object(search) = call[p].identity
  BY DEF AssessmentInv, Unchanged
<1>3. /\ search # NoFile /\ search.inode \notin damaged
      /\ call[p].identity = Sound(search.inode) /\ call[p].identity[1] = search.inode
  BY <1>1, <1>2, NoFileIs, ObjectIs, ObjectsAre
<1> QED
  BY <1>1, <1>3

LEMMA ServerKeeps ==
  ASSUME AssessmentInv, Ask \/ Answer
  PROVE  AssessmentInv'
<1> USE DEF AssessmentInv
<1>1. /\ UNCHANGED <<files, cache, scope, evidence>>
      /\ call' \in {call, [call EXCEPT !["server"] = NoCall]}
      /\ \E to \in {"search", "answered", "failed"} : pc' = [pc EXCEPT !["server"] = to]
  BY DEF Ask, Answer, Moves, Raise
<1>2. /\ UNCHANGED <<search, catalog, receipts, damaged, changes>> /\ FilesInv'
      /\ UNCHANGED <<files, scope, evidence>>
  BY <1>1, FilesStay
<1>3. /\ pc'["assessment"] = pc["assessment"] /\ call'["assessment"] = call["assessment"]
      /\ cache' = cache
  BY <1>1, ReadersAre DEF Searchers
<1>4. ReadersTyped'
  <2>1. call' \in [Searchers -> Calls] /\ call'["server"] \in {call["server"], NoCall}
    BY <1>1, NoCallIs, ReadersAre DEF ReadersTyped, Searchers
  <2>2. pc' \in [Searchers -> Stages]
    BY <1>1 DEF ReadersTyped, Stages, InSearch
  <2>3. NoCall.since = 0 /\ changes \in Nat
    BY SinceTyped DEF NoCall
  <2> QED
    BY <1>1, <1>2, <1>3, <2>1, <2>2, <2>3 DEF ReadersTyped, Searchers
<1>5. AssessmentHolds'
  BY <1>2, <1>3, AssessmentStaysKeeps DEF AssessmentStays, AssessmentHolds
<1>6. CallInv("assessment")' /\ QuietInv("assessment")'
  <2>1. "assessment" \in Searchers /\ ReaderStays("assessment") /\ scope'.since = scope.since
    BY <1>1, <1>3 DEF ReaderStays, Searchers
  <2> QED
    BY <1>2, <2>1, StaysKeeps
<1>7. CallInv("server") /\ QuietInv("server") /\ "server" \in Searchers
  BY DEF Searchers
<1>8. CallInv("server")' /\ QuietInv("server")'
  <2>1. CASE Ask
    <3>1. pc'["server"] = "search"
      BY <2>1, ReadersAre DEF Ask, Moves, Searchers
    <3> QED
      BY <1>1, <1>2, <1>7, <3>1 DEF CallInv, QuietInv, At, Inspected, Opened
  <2>2. CASE Answer
    <3>1. /\ pc["server"] = "confirm" /\ call' = call
          /\ pc'["server"] = IF Unchanged("server") THEN "answered" ELSE "failed"
      BY <2>2, ReadersAre DEF Answer, Moves, Raise, At, Searchers
    <3>2. CallInv("server")'
      BY <1>1, <1>2, <1>7, <3>1, ConfirmedIs DEF CallInv, At, Inspected, Opened
    <3>3. changes = Since("server") => Unchanged("server")
      BY <1>7, <3>1 DEF QuietInv, Inspected, Unchanged
    <3> QED
      BY <1>2, <3>1, <3>2, <3>3 DEF QuietInv, At, Inspected, Opened, Since
  <2> QED
    BY <2>1, <2>2
<1> QED
  BY <1>2, <1>4, <1>5, <1>6, <1>8 DEF AssessmentHolds, Searchers

-----------------------------------------------------------------------------
(* LocalAssessment: the steps of the assessment.                           *)

AssessStep(to) ==
  /\ to \in {"capture", "open", "opened", "validate", "validate_catalog", "search", "videos",
             "done", "failed"}
  /\ pc' = [pc EXCEPT !["assessment"] = to]
  /\ UNCHANGED <<files, call, cache>>
  /\ scope' \in Scopes /\ scope'.since <= changes
  /\ evidence' = [candidates |-> evidence'.candidates, passages |-> evidence'.passages,
                  videos |-> evidence'.videos, zeros |-> evidence'.zeros]
  /\ to = "videos" =>
       /\ call["assessment"].identity = Sound(call["assessment"].conn.inode)
       /\ call["assessment"].intact
  /\ to = "failed" /\ changes = scope'.since => ~Usable

LEMMA FailedHolds ==
  ASSUME pc'["assessment"] = "failed"
  PROVE  AssessmentHolds'
BY DEF AssessmentHolds, Quiet, SnapshotInv, PositionInv, EvidenceInv, InSearch, At

LEMMA AssessStepKeeps ==
  ASSUME AssessmentInv, NEW to, AssessStep(to), to # "failed" => AssessmentHolds'
  PROVE  AssessmentInv'
<1> USE DEF AssessmentInv
<1>1. /\ UNCHANGED <<files, call, cache>> /\ FilesInv'
      /\ UNCHANGED <<search, catalog, receipts, damaged, changes>>
  BY FilesStay DEF AssessStep
<1>2. pc'["assessment"] = to /\ pc'["server"] = pc["server"]
  BY ReadersAre DEF AssessStep, Searchers
<1>3. ReadersTyped'
  BY <1>1 DEF AssessStep, ReadersTyped, Stages, InSearch
<1>4. AssessmentHolds'
  BY <1>2, FailedHolds
<1>5. CallInv("server")' /\ QuietInv("server")'
  <2>1. "server" \in Searchers /\ ReaderStays("server")
    BY <1>1, <1>2 DEF ReaderStays, Searchers
  <2> QED
    BY <1>1, <2>1, StaysKeeps
<1>6. CallInv("assessment")'
  <2>1. CallInv("assessment") /\ to \notin Inspected \cup Opened \cup {"query", "confirm", "answered"}
    BY DEF AssessStep, Inspected, Opened, Searchers
  <2> QED
    BY <1>1, <1>2, <2>1 DEF AssessStep, CallInv, At, Inspected, Opened
<1>7. QuietInv("assessment")'
  <2>1. to \notin Inspected \cup Opened
    BY DEF AssessStep, Inspected, Opened
  <2> QED
    BY <1>1, <1>2, <2>1 DEF AssessStep, QuietInv, At, Since, Usable
<1> QED
  BY <1>1, <1>3, <1>4, <1>5, <1>6, <1>7 DEF AssessmentHolds, Searchers

\* Before the first query nothing has been collected.
LEMMA NothingCollected ==
  ASSUME NEW s, s.query = 1, s.language = 1
  PROVE  CollectedAre([candidates |-> {}, passages |-> {}, videos |-> {}, zeros |-> {}], s)
<1>1. 1..(s.query - 1) = {} /\ 1..(s.language - 1) = {}
  OBVIOUS
<1>2. /\ PassagesBefore(s.gen, s.query) = {} /\ VideosBefore(s.content, s.query) = {}
      /\ ZerosBefore(s.gen, s.content, s.query) = {}
  BY <1>1 DEF PassagesBefore, VideosBefore, ZerosBefore
<1>3. Found(s.gen, s.query, s.language - 1) = {}
  BY <1>1 DEF Found
<1> QED
  BY <1>2, <1>3 DEF CollectedAre, Once, HasBest

LEMMA CaptureSearchKeeps ==
  ASSUME AssessmentInv, CaptureSearch
  PROVE  AssessmentInv'
<1> USE DEF AssessmentInv
<1> DEFINE to == IF search = NoFile THEN "failed" ELSE "capture"
<1>1. /\ pc["assessment"] = "idle" /\ pc' = [pc EXCEPT !["assessment"] = to]
      /\ UNCHANGED <<files, call, cache, evidence>>
  BY DEF CaptureSearch, At, Goto, Fails, Raise, Moves
<1>2. /\ UNCHANGED <<search, catalog, displaced, receipts, damaged, changes, together>>
      /\ pc'["assessment"] = to
  BY <1>1, FilesStay, ReadersAre DEF Searchers
<1>3. /\ scope' \in Scopes /\ scope'.since = changes /\ scope'.search = Object(search)
      /\ scope'.query = 1 /\ scope'.language = 1 /\ scope'.held = NoFile
      /\ search # NoFile => scope'.gen = search.gen
  <2>1. /\ scope.query = 1 /\ scope.language = 1 /\ scope.held = NoFile
    BY <1>1 DEF PositionInv, SnapshotInv, InSearch
  <2>2. Object(search) \in Objects \cup {NoFile} /\ changes \in Generations
    BY ObjectIs DEF FilesInv, FilesTyped
  <2>3. (IF search = NoFile THEN 0 ELSE search.gen) \in Generations
    BY NoFileIs DEF FilesInv, FilesTyped, IndexFiles, Generations
  <2> QED
    BY <2>1, <2>2, <2>3 DEF CaptureSearch, ReadersTyped, Scopes
<1>4. AssessStep(to)
  BY <1>1, <1>3, SinceTyped DEF AssessStep, ReadersTyped, Usable
<1>5. CASE to # "failed"
  <2>1. Object(search)' = Object(search) /\ search # NoFile
    BY <1>2, <1>5 DEF Object
  <2>2. Quiet'
    BY <1>2, <1>3, <1>5, <2>1 DEF Quiet
  <2>3. scope'.search = Broken(scope'.search[1]) => scope'.search[1] \in damaged
    BY <1>3, <2>1, ObjectIs, ObjectsAre
  <2>4. SnapshotInv'
    BY <1>2, <1>3, <1>5, <2>1, <2>3, ObjectIs DEF SnapshotInv, InSearch
  <2>5. PositionInv'
    BY <1>2, <1>3, <1>5 DEF PositionInv, InSearch, At
  <2>6. EvidenceInv'
    BY <1>1, <1>2, <1>5 DEF EvidenceInv
  <2> QED
    BY <1>4, <2>2, <2>4, <2>5, <2>6, AssessStepKeeps DEF AssessmentHolds
<1> QED
  BY <1>4, <1>5, AssessStepKeeps

LEMMA CaptureCatalogKeeps ==
  ASSUME AssessmentInv, CaptureCatalog
  PROVE  AssessmentInv'
<1> USE DEF AssessmentInv
<1> DEFINE to == IF catalog = NoFile THEN "failed" ELSE "open"
<1>1. /\ pc["assessment"] = "capture" /\ pc' = [pc EXCEPT !["assessment"] = to]
      /\ UNCHANGED <<files, call, cache, evidence>>
  BY DEF CaptureCatalog, At, Goto, Fails, Raise, Moves
<1>2. /\ UNCHANGED <<search, catalog, displaced, receipts, damaged, changes, together>>
      /\ pc'["assessment"] = to
  BY <1>1, FilesStay, ReadersAre DEF Searchers
<1>3. /\ scope.query = 1 /\ scope.language = 1 /\ scope.held = NoFile
  BY <1>1 DEF PositionInv, SnapshotInv, InSearch
<1>4. /\ scope' \in Scopes /\ scope'.since = scope.since /\ scope'.search = scope.search
      /\ scope'.gen = scope.gen
      /\ scope'.query = 1 /\ scope'.language = 1 /\ scope'.held = NoFile
      /\ scope'.catalog = CatalogObject(catalog)
      /\ catalog # NoFile => scope'.content = catalog.content /\ scope'.catalog = catalog.inode
  BY <1>3 DEF CaptureCatalog, CatalogObject, ReadersTyped, Scopes, FilesInv, FilesTyped, CatalogFiles
<1>5. AssessStep(to)
  BY <1>1, <1>4 DEF AssessStep, ReadersTyped, Usable
<1>6. CASE to # "failed"
  <2>1. /\ Object(search)' = Object(search) /\ CatalogObject(catalog)' = CatalogObject(catalog)
        /\ (IndexKept' <=> IndexKept)
    BY <1>2, <1>4 DEF Object, CatalogObject, IndexKept
  <2>2. /\ catalog # NoFile /\ catalog \in CatalogFiles /\ catalog.inode \in 0..changes
        /\ catalog.content \in Contents /\ changes \in Nat
    BY <1>6, NoFileIs, SinceTyped DEF FilesInv, FilesTyped, FilesPast, CatalogFiles
  <2>3. Quiet'
    BY <1>1, <1>2, <1>4, <1>6, <2>1 DEF Quiet
  <2>4. SameCatalog(catalog)' /\ SameCatalog(displaced)' /\ SameCatalog(scope.held)'
    BY <1>2, <1>4, <2>2 DEF SameCatalog, FilesInv, FilesPast
  <2>5. IndexKept => <<scope.search, CatalogObject(catalog)>> \in together
    BY DEF IndexKept, FilesInv, FilesPast
  <2>6. SnapshotInv'
    BY <1>1, <1>2, <1>4, <1>6, <2>1, <2>2, <2>4, <2>5 DEF SnapshotInv, InSearch
  <2>7. PositionInv'
    BY <1>2, <1>4, <1>6 DEF PositionInv, InSearch, At
  <2>8. evidence' = [candidates |-> {}, passages |-> {}, videos |-> {}, zeros |-> {}]
    BY <1>1 DEF EvidenceInv
  <2>9. EvidenceInv'
    <3>1. Collected'
      BY <1>4, <2>8, NothingCollected DEF Collected
    <3> QED
      BY <1>2, <1>6, <2>8, <3>1 DEF EvidenceInv
  <2> QED
    BY <1>5, <2>3, <2>6, <2>7, <2>9, AssessStepKeeps DEF AssessmentHolds
<1> QED
  BY <1>5, <1>6, AssessStepKeeps

LEMMA OpenCatalogKeeps ==
  ASSUME AssessmentInv, OpenCatalog
  PROVE  AssessmentInv'
<1> USE DEF AssessmentInv
<1> DEFINE to == IF catalog = NoFile THEN "failed" ELSE "opened"
<1>1. /\ pc["assessment"] = "open" /\ pc' = [pc EXCEPT !["assessment"] = to]
      /\ UNCHANGED <<files, call, cache, evidence>>
  BY DEF OpenCatalog, At, Goto, Fails, Raise, Moves
<1>2. /\ UNCHANGED <<search, catalog, displaced, receipts, damaged, changes, together>>
      /\ pc'["assessment"] = to
  BY <1>1, FilesStay, ReadersAre DEF Searchers
<1>3. scope.query = 1 /\ scope.language = 1
  BY <1>1 DEF PositionInv, InSearch
<1>4. /\ scope' \in Scopes /\ scope'.since = scope.since /\ scope'.search = scope.search
      /\ scope'.gen = scope.gen /\ scope'.catalog = scope.catalog
      /\ scope'.content = scope.content
      /\ scope'.query = 1 /\ scope'.language = 1 /\ scope'.held = catalog
  BY <1>3 DEF OpenCatalog, ReadersTyped, Scopes, FilesInv, FilesTyped
<1>5. AssessStep(to)
  BY <1>1, <1>4 DEF AssessStep, ReadersTyped, Usable
<1>6. CASE to # "failed"
  <2>1. /\ Object(search)' = Object(search) /\ CatalogObject(catalog)' = CatalogObject(catalog)
        /\ (IndexKept' <=> IndexKept)
    BY <1>2, <1>4 DEF Object, CatalogObject, IndexKept
  <2>2. catalog # NoFile /\ catalog \in CatalogFiles /\ catalog.inode <= changes
    BY <1>6 DEF FilesInv, FilesTyped, FilesPast
  <2>3. Quiet'
    BY <1>1, <1>2, <1>4, <1>6, <2>1 DEF Quiet
  <2>4. scope.catalog \in 0..changes /\ changes \in Nat
    BY <1>1, SinceTyped DEF SnapshotInv
  <2>5. HeldOrder'
    BY <1>2, <1>4, <2>2, <2>4 DEF HeldOrder, Gone
  <2>6. SameCatalog(catalog)' /\ SameCatalog(displaced)' /\ SameCatalog(scope.held)'
    BY <1>1, <1>2, <1>4 DEF SameCatalog, SnapshotInv
  <2>7. SnapshotInv'
    BY <1>1, <1>2, <1>4, <1>6, <2>1, <2>2, <2>5, <2>6 DEF SnapshotInv, InSearch
  <2>8. PositionInv'
    BY <1>2, <1>4, <1>6 DEF PositionInv, InSearch, At
  <2>9. evidence' = [candidates |-> {}, passages |-> {}, videos |-> {}, zeros |-> {}]
    BY <1>1 DEF EvidenceInv
  <2>10. EvidenceInv'
    <3>1. Collected'
      BY <1>4, <2>9, NothingCollected DEF Collected
    <3> QED
      BY <1>2, <1>6, <2>9, <3>1 DEF EvidenceInv
  <2> QED
    BY <1>5, <2>3, <2>7, <2>8, <2>10, AssessStepKeeps DEF AssessmentHolds
<1> QED
  BY <1>5, <1>6, AssessStepKeeps

LEMMA HoldCatalogKeeps ==
  ASSUME AssessmentInv, HoldCatalog
  PROVE  AssessmentInv'
<1> USE DEF AssessmentInv
<1> DEFINE to == IF HeldCatalogUnchanged THEN "validate" ELSE "failed"
<1>1. /\ pc["assessment"] = "opened" /\ pc' = [pc EXCEPT !["assessment"] = to]
      /\ UNCHANGED <<files, call, cache, scope, evidence>>
  BY DEF HoldCatalog, At, Goto, Fails, Raise, Moves
<1>2. /\ UNCHANGED <<search, catalog, displaced, receipts, damaged, changes, together>>
      /\ pc'["assessment"] = to
  BY <1>1, FilesStay, ReadersAre DEF Searchers
<1>3. AssessStep(to)
  <2>1. changes = scope.since => HeldCatalogUnchanged
    BY <1>1 DEF Quiet, HeldCatalogUnchanged
  <2> QED
    BY <1>1, <2>1 DEF AssessStep, ReadersTyped
<1>4. CASE to # "failed"
  <2>1. /\ Object(search)' = Object(search) /\ CatalogObject(catalog)' = CatalogObject(catalog)
        /\ (IndexKept' <=> IndexKept) /\ (HeldOrder' <=> HeldOrder)
        /\ (Collected' <=> Collected)
    BY <1>1, <1>2 DEF Object, CatalogObject, IndexKept, HeldOrder, Gone, Collected
  <2>2. Quiet'
    BY <1>1, <1>2, <1>4, <2>1 DEF Quiet
  <2>3. SnapshotInv'
    BY <1>1, <1>2, <1>4, <2>1 DEF SnapshotInv, InSearch, SameCatalog
  <2>4. PositionInv'
    BY <1>1, <1>2, <1>4 DEF PositionInv, InSearch, At
  <2>5. EvidenceInv'
    BY <1>1, <1>2, <1>4, <2>1 DEF EvidenceInv
  <2> QED
    BY <1>3, <2>2, <2>3, <2>4, <2>5, AssessStepKeeps DEF AssessmentHolds
<1> QED
  BY <1>3, <1>4, AssessStepKeeps

LEMMA ValidateSearchKeeps ==
  ASSUME AssessmentInv, ValidateSearch
  PROVE  AssessmentInv'
<1> USE DEF AssessmentInv
<1> DEFINE to == IF IndexKept THEN "validate_catalog" ELSE "failed"
<1>1. /\ pc["assessment"] = "validate" /\ pc' = [pc EXCEPT !["assessment"] = to]
      /\ UNCHANGED <<files, call, cache, scope, evidence>>
  BY DEF ValidateSearch, IndexKept, At, Goto, Fails, Raise, Moves
<1>2. /\ UNCHANGED <<search, catalog, displaced, receipts, damaged, changes, together>>
      /\ pc'["assessment"] = to
  BY <1>1, FilesStay, ReadersAre DEF Searchers
<1>3. AssessStep(to)
  <2>1. changes = scope.since => IndexKept
    BY <1>1 DEF Quiet, IndexKept
  <2> QED
    BY <1>1, <2>1 DEF AssessStep, ReadersTyped
<1>4. CASE to # "failed"
  <2>1. /\ Object(search)' = Object(search) /\ CatalogObject(catalog)' = CatalogObject(catalog)
        /\ (IndexKept' <=> IndexKept) /\ (HeldOrder' <=> HeldOrder) /\ IndexKept
        /\ (Collected' <=> Collected)
    BY <1>1, <1>2, <1>4 DEF Object, CatalogObject, IndexKept, HeldOrder, Gone, Collected
  <2>2. Quiet'
    BY <1>1, <1>2, <1>4, <2>1 DEF Quiet
  <2>3. SnapshotInv'
    BY <1>1, <1>2, <1>4, <2>1 DEF SnapshotInv, InSearch, SameCatalog
  <2>4. PositionInv'
    BY <1>1, <1>2, <1>4 DEF PositionInv, InSearch, At
  <2>5. EvidenceInv'
    BY <1>1, <1>2, <1>4, <2>1 DEF EvidenceInv
  <2> QED
    BY <1>3, <2>2, <2>3, <2>4, <2>5, AssessStepKeeps DEF AssessmentHolds
<1> QED
  BY <1>3, <1>4, AssessStepKeeps

LEMMA ValidateCatalogKeeps ==
  ASSUME AssessmentInv, ValidateCatalog
  PROVE  AssessmentInv'
<1> USE DEF AssessmentInv
<1> DEFINE same == CatalogObject(catalog) = scope.catalog
           to == IF same THEN IF Finished THEN "done" ELSE "search" ELSE "failed"
<1>1. /\ pc["assessment"] = "validate_catalog" /\ pc' = [pc EXCEPT !["assessment"] = to]
      /\ UNCHANGED <<files, call, cache, scope, evidence>>
  BY DEF ValidateCatalog, At, Goto, Fails, Raise, Moves
<1>2. /\ UNCHANGED <<search, catalog, displaced, receipts, damaged, changes, together>>
      /\ pc'["assessment"] = to
  BY <1>1, FilesStay, ReadersAre DEF Searchers
<1>3. AssessStep(to)
  <2>1. changes = scope.since => same
    BY <1>1 DEF Quiet
  <2> QED
    BY <1>1, <2>1 DEF AssessStep, ReadersTyped
<1>4. CASE to # "failed"
  <2>1. /\ Object(search)' = Object(search) /\ CatalogObject(catalog)' = CatalogObject(catalog)
        /\ (IndexKept' <=> IndexKept) /\ (Collected' <=> Collected)
        /\ (Gone(scope.held.inode)' <=> Gone(scope.held.inode))
    BY <1>1, <1>2 DEF Object, CatalogObject, IndexKept, Gone, Collected
  <2>2. Quiet'
    BY <1>1, <1>2, <1>4, <2>1 DEF Quiet
  <2>3. scope.held.inode = scope.catalog \/ Gone(scope.held.inode)
    <3>1. scope.catalog \in 0..changes /\ same /\ HeldOrder
      BY <1>1, <1>4 DEF SnapshotInv
    <3>2. catalog # NoFile /\ catalog.inode = scope.catalog
      BY <3>1, NoFileIs, SinceTyped DEF CatalogObject, FilesInv, FilesTyped, Generations
    <3> QED
      BY <3>1, <3>2 DEF HeldOrder, Gone, FilesInv, FilesPast
  <2>4. SnapshotInv'
    BY <1>1, <1>2, <1>4, <2>1, <2>3 DEF SnapshotInv, InSearch, SameCatalog
  <2>5. /\ scope.query \in {1, Queries + 1} /\ scope.language = 1
        /\ Finished <=> scope.query = Queries + 1
    BY <1>1, NoFileIs DEF PositionInv, InSearch, Finished
  <2>6. PositionInv'
    BY <1>1, <1>2, <1>4, <2>5, NoFileIs DEF PositionInv, InSearch, At
  <2>7. EvidenceInv'
    BY <1>1, <1>2, <1>4, <2>1 DEF EvidenceInv
  <2> QED
    BY <1>3, <2>2, <2>4, <2>6, <2>7, AssessStepKeeps DEF AssessmentHolds
<1> QED
  BY <1>3, <1>4, AssessStepKeeps

LEMMA CollectKeeps ==
  ASSUME AssessmentInv, Collect
  PROVE  AssessmentInv'
<1> USE DEF AssessmentInv
<1> DEFINE agree == Unchanged("assessment")
           to == IF agree THEN IF scope.language = Languages THEN "videos" ELSE "search"
                 ELSE "failed"
           rows == call["assessment"].rows
<1>1. /\ pc["assessment"] = "confirm" /\ pc' = [pc EXCEPT !["assessment"] = to]
      /\ UNCHANGED <<files, call, cache>>
  BY DEF Collect, At, Goto, Fails, Raise, Moves
<1>2. /\ UNCHANGED <<search, catalog, displaced, receipts, damaged, changes, together>>
      /\ pc'["assessment"] = to /\ "assessment" \in Searchers
  BY <1>1, FilesStay, ReadersAre DEF Searchers
<1>3. /\ scope.query \in 1..Queries /\ scope.language \in 1..Languages
      /\ rows = Hits[call["assessment"].conn.gen][scope.query][scope.language]
  BY <1>1 DEF PositionInv, InSearch
<1>4. IF agree
      THEN /\ evidence' = [evidence EXCEPT !.candidates = @ \cup Candidates(rows, scope.language)]
           /\ scope' = [scope EXCEPT !.language = @ + 1]
      ELSE UNCHANGED <<scope, evidence>>
  BY DEF Collect
<1>5. /\ scope' \in Scopes /\ scope'.since = scope.since /\ scope'.search = scope.search
      /\ scope'.gen = scope.gen /\ scope'.catalog = scope.catalog
      /\ scope'.content = scope.content /\ scope'.held = scope.held
      /\ scope'.query = scope.query
      /\ agree => scope'.language = scope.language + 1
  BY <1>3, <1>4, NoFileIs DEF ReadersTyped, Scopes
<1>6. agree => /\ search # NoFile /\ call["assessment"].conn = search
               /\ call["assessment"].identity = Sound(call["assessment"].conn.inode)
               /\ call["assessment"].intact
  BY <1>1, <1>2, ConfirmedIs DEF At
<1>7. AssessStep(to)
  <2>1. changes = scope.since => agree
    BY <1>1, <1>2 DEF QuietInv, Since, Inspected, Unchanged
  <2>2. evidence' = [candidates |-> evidence'.candidates, passages |-> evidence'.passages,
                     videos |-> evidence'.videos, zeros |-> evidence'.zeros]
    BY <1>4 DEF ReadersTyped
  <2> HIDE DEF agree, rows
  <2>3. scope'.since <= changes
    BY <1>5 DEF ReadersTyped
  <2> QED
    BY <1>1, <1>5, <1>6, <2>1, <2>2, <2>3 DEF AssessStep
<1>8. CASE to # "failed"
  <2>1. /\ Object(search)' = Object(search) /\ CatalogObject(catalog)' = CatalogObject(catalog)
        /\ (IndexKept' <=> IndexKept) /\ (Gone(scope.held.inode)' <=> Gone(scope.held.inode))
    BY <1>2, <1>5 DEF Object, CatalogObject, IndexKept, Gone
  <2>2. agree /\ to \in {"videos", "search"}
    BY <1>8
  <2> HIDE DEF agree
  <2>3. Quiet'
    BY <1>1, <1>2, <1>5, <2>1, <2>2 DEF Quiet
  <2>4. SnapshotInv'
    BY <1>1, <1>2, <1>5, <2>1, <2>2 DEF SnapshotInv, InSearch, SameCatalog
  <2>5. PositionInv'
    BY <1>2, <1>3, <1>5, <1>8, <2>2, NoFileIs DEF PositionInv, InSearch, At
  <2>6. ASSUME IndexKept
        PROVE  Collected'
    <3>1. Collected /\ search.gen = scope.gen
      BY <1>1, <2>6 DEF EvidenceInv, SnapshotInv
    <3>2. rows = Hits[scope.gen][scope.query][scope.language]
      BY <1>3, <1>6, <2>2, <3>1
    <3>3. /\ evidence'.candidates = evidence.candidates \cup Candidates(rows, scope.language)
          /\ evidence'.passages = evidence.passages /\ evidence'.videos = evidence.videos
          /\ evidence'.zeros = evidence.zeros
      BY <1>4, <2>2 DEF ReadersTyped
    <3>4. scope'.language - 1 = scope.language /\ 1..scope.language = 1..(scope.language - 1) \cup {scope.language}
      BY <1>3, <1>5, <2>2, NoFileIs
    <3>5. Found(scope.gen, scope.query, scope.language) =
            Found(scope.gen, scope.query, scope.language - 1) \cup
            Candidates(Hits[scope.gen][scope.query][scope.language], scope.language)
      BY <3>4 DEF Found
    <3> QED
      BY <1>5, <3>1, <3>2, <3>3, <3>4, <3>5 DEF Collected, CollectedAre
  <2>7. EvidenceInv'
    BY <1>2, <2>1, <2>2, <2>6 DEF EvidenceInv
  <2> QED
    BY <1>7, <2>3, <2>4, <2>5, <2>7, AssessStepKeeps DEF AssessmentHolds
<1> QED
  BY <1>7, <1>8, AssessStepKeeps

\* What one query gives is numbered by natural numbers, and gives no item twice.
LEMMA QueryGives ==
  ASSUME NEW g \in Generations, NEW c \in Contents, NEW q \in 1..Queries
  PROVE  /\ Items(PassagesOf(g, q)) /\ Items(VideosOf(c, q))
         /\ Single(PassagesOf(g, q)) /\ Single(VideosOf(c, q))
         /\ Ranked(Candidates(VideoHits[c][q], 1), q) = VideosOf(c, q)
<1>1. q \in Nat
  BY NoFileIs
<1>2. \A p \in KeptPlaces(g, q) : p \in FirstPlaces(g, q) /\ p \in Places /\ p[2] \in Nat
  BY PlacesOrder DEF KeptPlaces, FirstPlaces
<1>3. Items(PassagesOf(g, q))
  BY <1>1, <1>2 DEF Items, PassagesOf
<1>4. Single(PassagesOf(g, q))
  <2>1. \A o, p \in FirstPlaces(g, q) : At_(g, q, o) = At_(g, q, p) => o = p
    BY PlacesOrder DEF FirstPlaces
  <2> QED
    BY <1>2, <2>1 DEF Single, PassagesOf
<1>5. /\ DOMAIN VideoHits[c][q] \subseteq Nat
      /\ \A i, j \in DOMAIN VideoHits[c][q] : VideoHits[c][q][i] = VideoHits[c][q][j] => i = j
  BY AssessmentAssumption
<1>6. Items(VideosOf(c, q)) /\ Single(VideosOf(c, q))
  BY <1>1, <1>5 DEF Items, Single, VideosOf
<1>7. Ranked(Candidates(VideoHits[c][q], 1), q) = VideosOf(c, q)
  <2> DEFINE candidate(r) == [item |-> VideoHits[c][q][r], language |-> 1, rank |-> r]
             video(a) == [item |-> a.item, rank |-> a.rank, query |-> q]
  <2>1. \A r : video(candidate(r)) = [item |-> VideoHits[c][q][r], rank |-> r, query |-> q]
    OBVIOUS
  <2>2. /\ Candidates(VideoHits[c][q], 1) = {candidate(r) : r \in DOMAIN VideoHits[c][q]}
        /\ VideosOf(c, q) = {video(candidate(r)) : r \in DOMAIN VideoHits[c][q]}
        /\ Ranked(Candidates(VideoHits[c][q], 1), q) =
             {video(a) : a \in Candidates(VideoHits[c][q], 1)}
    BY <2>1 DEF Ranked, Candidates, VideosOf
  <2> HIDE DEF candidate, video
  <2> QED
    BY <2>2
<1> QED
  BY <1>3, <1>4, <1>6, <1>7

\* One query more.
LEMMA QueryAdds ==
  ASSUME NEW g \in Generations, NEW c \in Contents, NEW q \in 1..Queries
  PROVE  /\ PassagesBefore(g, q + 1) = PassagesBefore(g, q) \cup PassagesOf(g, q)
         /\ VideosBefore(c, q + 1) = VideosBefore(c, q) \cup VideosOf(c, q)
         /\ Items(PassagesBefore(g, q + 1)) /\ Items(VideosBefore(c, q + 1))
         /\ ZerosBefore(g, c, q + 1) = IF PassagesOf(g, q) \cup VideosOf(c, q) = {}
                                       THEN ZerosBefore(g, c, q) \cup {q}
                                       ELSE ZerosBefore(g, c, q)
<1>1. /\ (q + 1) - 1 = q /\ 1..q = 1..(q - 1) \cup {q} /\ 1..q \subseteq 1..Queries
      /\ q \notin 1..(q - 1)
  BY NoFileIs
<1>2. /\ PassagesBefore(g, q + 1) = UNION {PassagesOf(g, n) : n \in 1..q}
      /\ VideosBefore(c, q + 1) = UNION {VideosOf(c, n) : n \in 1..q}
  BY <1>1 DEF PassagesBefore, VideosBefore
<1>3. \A n \in 1..q : Items(PassagesOf(g, n)) /\ Items(VideosOf(c, n))
  BY <1>1, QueryGives
<1>4. Items(PassagesBefore(g, q + 1)) /\ Items(VideosBefore(c, q + 1))
  BY <1>2, <1>3 DEF Items
<1>5. /\ PassagesBefore(g, q + 1) = PassagesBefore(g, q) \cup PassagesOf(g, q)
      /\ VideosBefore(c, q + 1) = VideosBefore(c, q) \cup VideosOf(c, q)
  BY <1>1, <1>2 DEF PassagesBefore, VideosBefore
<1>6. ZerosBefore(g, c, q + 1) = IF PassagesOf(g, q) \cup VideosOf(c, q) = {}
                                THEN ZerosBefore(g, c, q) \cup {q}
                                ELSE ZerosBefore(g, c, q)
  BY <1>1 DEF ZerosBefore
<1> QED
  BY <1>4, <1>5, <1>6

\* The files the assessment has held since it opened them are those of the snapshot, if
\* they are still there.
LEMMA HeldIs ==
  ASSUME AssessmentInv, At("assessment", "videos"), HeldCatalogUnchanged
  PROVE  scope.held.inode = scope.catalog /\ scope.held.content = scope.content
<1>1. /\ scope.held \in CatalogFiles /\ SameCatalog(scope.held)
      /\ scope.held.inode = scope.catalog \/ Gone(scope.held.inode)
  BY DEF AssessmentInv, SnapshotInv, At, InSearch
<1>2. scope.held # NoFile
  BY <1>1, NoFileIs
<1>3. catalog # NoFile /\ catalog.inode = scope.held.inode
  <2>1. CatalogIdentity(scope.held) = <<scope.held.inode, scope.held.ctime>>
    BY <1>2 DEF CatalogIdentity
  <2>2. <<scope.held.inode, scope.held.ctime>> # NoFile
    BY <1>1, AssessmentAssumption DEF CatalogFiles
  <2>3. catalog # NoFile /\ <<catalog.inode, catalog.ctime>> = <<scope.held.inode, scope.held.ctime>>
    BY <2>1, <2>2 DEF HeldCatalogUnchanged, CatalogIdentity
  <2> QED
    BY <2>3
<1> QED
  BY <1>1, <1>2, <1>3 DEF Gone, SameCatalog

LEMMA VideosKeeps ==
  ASSUME AssessmentInv, Videos
  PROVE  AssessmentInv'
<1> USE DEF AssessmentInv
<1> DEFINE agree == HeldCatalogUnchanged
           to == IF agree THEN IF scope.query = Queries THEN "validate" ELSE "search"
                 ELSE "failed"
           passages == Ranked(Passages(evidence.candidates), scope.query)
           videos == Ranked(Candidates(FoundVideos, 1), scope.query)
<1>1. /\ pc["assessment"] = "videos" /\ pc' = [pc EXCEPT !["assessment"] = to]
      /\ UNCHANGED <<files, call, cache>>
  BY DEF Videos, At, Goto, Fails, Raise, Moves
<1>2. /\ UNCHANGED <<search, catalog, displaced, receipts, damaged, changes, together>>
      /\ pc'["assessment"] = to
  BY <1>1, FilesStay, ReadersAre DEF Searchers
<1>3. scope.query \in 1..Queries /\ scope.language = Languages + 1
  BY <1>1 DEF PositionInv, At
<1>4. IF agree
      THEN /\ evidence' = [candidates |-> {},
                           passages |-> Select(evidence.passages, passages),
                           videos |-> Select(evidence.videos, videos),
                           zeros |-> IF passages \cup videos = {}
                                     THEN evidence.zeros \cup {scope.query}
                                     ELSE evidence.zeros]
           /\ scope' = [scope EXCEPT !.query = @ + 1, !.language = 1]
      ELSE UNCHANGED <<scope, evidence>>
  BY DEF Videos
<1> HIDE DEF passages, videos
<1>5. /\ scope' \in Scopes /\ scope'.since = scope.since /\ scope'.search = scope.search
      /\ scope'.gen = scope.gen /\ scope'.catalog = scope.catalog
      /\ scope'.content = scope.content /\ scope'.held = scope.held
      /\ agree => scope'.query = scope.query + 1 /\ scope'.language = 1
  <2>1. scope.query + 1 \in 1..(Queries + 1) /\ 1 \in 1..(Languages + 1)
    BY <1>3, NoFileIs
  <2>2. scope \in Scopes
    BY DEF ReadersTyped
  <2> HIDE DEF agree
  <2> QED
    BY <1>4, <2>1, <2>2 DEF Scopes
<1>6. AssessStep(to)
  <2>1. changes = scope.since => agree
    BY <1>1 DEF Quiet, HeldCatalogUnchanged
  <2>2. evidence' = [candidates |-> evidence'.candidates, passages |-> evidence'.passages,
                     videos |-> evidence'.videos, zeros |-> evidence'.zeros]
    BY <1>4 DEF ReadersTyped
  <2> HIDE DEF agree
  <2>3. scope'.since <= changes
    BY <1>5 DEF ReadersTyped
  <2> QED
    BY <1>1, <1>5, <2>1, <2>2, <2>3 DEF AssessStep
<1>7. CASE to # "failed"
  <2>1. /\ Object(search)' = Object(search) /\ CatalogObject(catalog)' = CatalogObject(catalog)
        /\ (IndexKept' <=> IndexKept)
    BY <1>2, <1>5 DEF Object, CatalogObject, IndexKept
  <2>2. agree /\ to = IF scope.query = Queries THEN "validate" ELSE "search"
    BY <1>7
  <2>3. scope.held.inode = scope.catalog /\ scope.held.content = scope.content
    BY <1>1, <2>2, HeldIs DEF At
  <2> HIDE DEF agree
  <2>4. Quiet'
    BY <1>1, <1>2, <1>5, <2>1, <2>2 DEF Quiet
  <2>5. HeldOrder'
    BY <1>5, <2>3 DEF HeldOrder
  <2>6. SnapshotInv'
    BY <1>1, <1>2, <1>5, <2>1, <2>2, <2>3, <2>5 DEF SnapshotInv, InSearch, SameCatalog
  <2>7. PositionInv'
    BY <1>2, <1>3, <1>5, <2>2, NoFileIs DEF PositionInv, InSearch, At
  <2>8. ASSUME IndexKept
        PROVE  Collected'
    <3>1. PICK g \in Generations, c \in Contents, q \in 1..Queries :
            g = scope.gen /\ c = scope.content /\ q = scope.query
      BY <1>1, <1>3 DEF SnapshotInv, ReadersTyped, Scopes
    <3>2. Collected
      BY <1>1, <2>8 DEF EvidenceInv
    <3>3. /\ evidence.candidates = Found(g, q, Languages)
          /\ evidence.passages = Once(PassagesBefore(g, q)) /\ HasBest(PassagesBefore(g, q))
          /\ evidence.videos = Once(VideosBefore(c, q)) /\ HasBest(VideosBefore(c, q))
          /\ evidence.zeros = ZerosBefore(g, c, q)
      <4>1. scope.language - 1 = Languages
        BY <1>3, NoFileIs
      <4> QED
        BY <3>1, <3>2, <4>1 DEF Collected, CollectedAre
    <3>4. passages = PassagesOf(g, q) /\ videos = VideosOf(c, q)
      BY <2>3, <3>1, <3>3, PassagesAreOfPlaces, QueryGives DEF passages, videos, FoundVideos
    <3>5. /\ Select(evidence.passages, passages) = Once(PassagesBefore(g, q + 1))
          /\ HasBest(PassagesBefore(g, q + 1))
      <4>1. /\ PassagesBefore(g, q + 1) = PassagesBefore(g, q) \cup PassagesOf(g, q)
            /\ Items(PassagesBefore(g, q + 1)) /\ Single(PassagesOf(g, q))
        BY QueryGives, QueryAdds
      <4> QED
        BY <3>3, <3>4, <4>1, SelectAdds
    <3>6. /\ Select(evidence.videos, videos) = Once(VideosBefore(c, q + 1))
          /\ HasBest(VideosBefore(c, q + 1))
      <4>1. /\ VideosBefore(c, q + 1) = VideosBefore(c, q) \cup VideosOf(c, q)
            /\ Items(VideosBefore(c, q + 1)) /\ Single(VideosOf(c, q))
        BY QueryGives, QueryAdds
      <4> QED
        BY <3>3, <3>4, <4>1, SelectAdds
    <3>7. (IF passages \cup videos = {} THEN evidence.zeros \cup {q} ELSE evidence.zeros) =
            ZerosBefore(g, c, q + 1)
      BY <3>3, <3>4, QueryAdds
    <3>8. Found(g, q + 1, 0) = {}
      BY DEF Found
    <3>9. /\ scope'.gen = g /\ scope'.content = c /\ scope'.query = q + 1
          /\ scope'.language - 1 = 0
      BY <1>5, <2>2, <3>1
    <3>10. /\ evidence'.candidates = {}
           /\ evidence'.passages = Select(evidence.passages, passages)
           /\ evidence'.videos = Select(evidence.videos, videos)
           /\ evidence'.zeros = IF passages \cup videos = {} THEN evidence.zeros \cup {q}
                               ELSE evidence.zeros
      BY <1>4, <2>2, <3>1
    <3> QED
      BY <3>5, <3>6, <3>7, <3>8, <3>9, <3>10 DEF Collected, CollectedAre
  <2>9. EvidenceInv'
    BY <1>2, <2>1, <2>2, <2>8 DEF EvidenceInv
  <2> QED
    BY <1>6, <2>4, <2>6, <2>7, <2>9, AssessStepKeeps DEF AssessmentHolds
<1> QED
  BY <1>6, <1>7, AssessStepKeeps

LEMMA AssessmentStarts == AssessmentInit => AssessmentInv
<1> SUFFICES ASSUME AssessmentInit PROVE AssessmentInv
  OBVIOUS
<1>1. /\ search = [inode |-> 0, gen |-> 0] /\ receipts = {0} /\ damaged = {}
      /\ displaced = NoFile /\ changes = 0
      /\ together = {<<Object(search), CatalogObject(catalog)>>}
  BY DEF AssessmentInit
<1>2. catalog \in CatalogFiles /\ catalog.inode = 0 /\ 0 \in Generations
  BY NoFileIs DEF AssessmentInit, CatalogFiles, Generations
<1>3. search \in IndexFiles /\ search.inode = 0
  BY <1>1, <1>2 DEF IndexFiles
<1>4. FilesInv
  BY <1>1, <1>2, <1>3, NoFileIs DEF FilesInv, FilesTyped, FilesPast
<1>5. /\ \A p \in Searchers : pc[p] = "idle" /\ call[p] = NoCall /\ cache[p] = NoFile
      /\ DOMAIN pc = Searchers /\ DOMAIN call = Searchers /\ DOMAIN cache = Searchers
      /\ "assessment" \in Searchers
  BY DEF AssessmentInit, Searchers
<1>6. /\ scope \in Scopes /\ scope.query = 1 /\ scope.language = 1 /\ scope.since = 0
      /\ scope.held = NoFile
  BY <1>2, NoFileIs DEF AssessmentInit, Scopes
<1>7. evidence = [candidates |-> {}, passages |-> {}, videos |-> {}, zeros |-> {}]
  BY DEF AssessmentInit
<1>8. ReadersTyped
  <2>1. NoCall.since = 0
    BY DEF NoCall
  <2>2. pc \in [Searchers -> Stages] /\ call \in [Searchers -> Calls]
        /\ cache \in [Searchers -> (Objects \X Objects) \cup {NoFile}]
    BY NoCallIs DEF AssessmentInit, Stages
  <2> QED
    BY <1>1, <1>5, <1>6, <1>7, <2>1, <2>2 DEF ReadersTyped
<1>9. \A p \in Searchers : CallInv(p) /\ QuietInv(p)
  BY <1>5 DEF CallInv, QuietInv, Inspected, Opened, At
<1>10. Quiet /\ SnapshotInv /\ PositionInv /\ EvidenceInv
  BY <1>5, <1>6, <1>7 DEF Quiet, SnapshotInv, PositionInv, EvidenceInv, InSearch, At
<1> QED
  BY <1>4, <1>8, <1>9, <1>10 DEF AssessmentInv

LEMMA AssessmentKeeps == AssessmentInv /\ [AssessmentNext]_assessmentVars => AssessmentInv'
<1> SUFFICES ASSUME AssessmentInv, [AssessmentNext]_assessmentVars PROVE AssessmentInv'
  OBVIOUS
<1>1. CASE Publish
  BY <1>1, PublishKeeps
<1>2. CASE Assess
  BY <1>2, CaptureSearchKeeps, CaptureCatalogKeeps, OpenCatalogKeeps, HoldCatalogKeeps,
     ValidateSearchKeeps, ValidateCatalogKeeps, CollectKeeps, VideosKeeps DEF Assess
<1>3. CASE Ask \/ Answer
  BY <1>3, ServerKeeps
<1>4. CASE \E p \in Searchers : Call(p)
  <2>1. PICK p \in Searchers : Call(p)
    BY <1>4
  <2> QED
    BY <2>1, InspectKeeps, OpenIndexKeeps, ContractKeeps, HashKeeps, QueryKeeps DEF Call
<1>5. CASE UNCHANGED assessmentVars
  <2>1. UNCHANGED <<files, scope, evidence, pc, call, cache>>
    BY <1>5 DEF assessmentVars, readers
  <2>2. ReadersTyped' /\ FilesInv'
    BY <2>1, FilesStay DEF AssessmentInv, ReadersTyped
  <2>3. AssessmentHolds'
    BY <2>1, AssessmentStaysKeeps DEF AssessmentInv, AssessmentHolds, AssessmentStays
  <2>4. \A p \in Searchers : CallInv(p)' /\ QuietInv(p)'
    BY <2>1, StaysKeeps DEF AssessmentInv, ReaderStays
  <2> QED
    BY <2>2, <2>3, <2>4 DEF AssessmentInv, AssessmentHolds
<1> QED
  BY <1>1, <1>2, <1>3, <1>4, <1>5 DEF AssessmentNext

\* In every reachable state the readers know what they have read, and of which files.
THEOREM ReadersKnow == AssessmentSpec => []AssessmentInv
BY AssessmentStarts, AssessmentKeeps, PTL DEF AssessmentSpec

\* The variables of the readers and of the files have their types.
THEOREM AssessmentTyped == AssessmentSpec => []AssessmentTypeOK
<1>1. AssessmentInv => AssessmentTypeOK
  <2> SUFFICES ASSUME AssessmentInv PROVE AssessmentTypeOK
    OBVIOUS
  <2>1. FilesTyped /\ FilesPast /\ ReadersTyped
    BY DEF AssessmentInv, FilesInv
  <2>2. changes \in Nat /\ Generations \subseteq Nat
    BY <2>1, NoFileIs DEF FilesTyped
  <2>3. search = NoFile \/ (search.inode \in 0..changes /\ search.gen \in Generations)
    <3>1. search # NoFile => /\ search.inode \in Nat /\ search.inode <= changes
                             /\ search.gen \in Generations
      BY <2>1, <2>2 DEF FilesTyped, FilesPast, IndexFiles
    <3> QED
      BY <2>2, <3>1
  <2>4. catalog = NoFile \/ (catalog.inode \in 0..changes /\ catalog.content \in Contents)
    <3>1. catalog # NoFile => /\ catalog.inode \in Nat /\ catalog.inode <= changes
                              /\ catalog.content \in Contents
      BY <2>1, <2>2 DEF FilesTyped, FilesPast, CatalogFiles
    <3> QED
      BY <2>2, <3>1
  <2>5. scope.query \in 1..(Queries + 1) /\ scope.language \in 1..(Languages + 1)
    BY <2>1 DEF ReadersTyped, Scopes
  <2> QED
    BY <2>1, <2>3, <2>4, <2>5 DEF AssessmentTypeOK, FilesTyped
<1> QED
  BY <1>1, ReadersKnow, PTL

\* An assessment that ends holds what two files hold that were published at one time,
\* whatever is published while it reads (assess_local, validate_snapshot).
THEOREM EvidenceOfOnePair == AssessmentSpec => []AssessmentOfOnePair
<1>1. AssessmentInv => AssessmentOfOnePair
  <2> SUFFICES ASSUME AssessmentInv, pc["assessment"] = "done"
               PROVE  /\ <<scope.search, scope.catalog>> \in together
                      /\ evidence.passages = Once(UNION {PassagesOf(scope.gen, q) : q \in 1..Queries})
                      /\ evidence.videos = Once(UNION {VideosOf(scope.content, q) : q \in 1..Queries})
                      /\ evidence.zeros = {q \in 1..Queries : PassagesOf(scope.gen, q) \cup
                                                              VideosOf(scope.content, q) = {}}
    BY DEF AssessmentOfOnePair, At
  <2>1. <<scope.search, scope.catalog>> \in together
    BY DEF AssessmentInv, SnapshotInv
  <2>2. Collected
    BY DEF AssessmentInv, EvidenceInv
  <2>3. scope.query - 1 = Queries
    BY NoFileIs DEF AssessmentInv, PositionInv
  <2> QED
    BY <2>1, <2>2, <2>3 DEF Collected, CollectedAre, PassagesBefore, VideosBefore, ZerosBefore
<1> QED
  BY <1>1, ReadersKnow, PTL

\* A search answers only with rows of an undamaged file that it has validated
\* (SQLiteFtsIndex.search), also when its object remembers other files.
THEOREM AnswersValidated == AssessmentSpec => []AnswersAreValidated
<1>1. AssessmentInv => AnswersAreValidated
  BY DEF AssessmentInv, CallInv, AnswersAreValidated, Sound
<1> QED
  BY <1>1, ReadersKnow, PTL

\* A reader raises only if something was published meanwhile or cannot be used.
THEOREM FailuresHaveCauses == AssessmentSpec => []FailsForACause
<1>1. AssessmentInv => FailsForACause
  <2> SUFFICES ASSUME AssessmentInv, NEW p \in Searchers, At(p, "failed"), Usable
               PROVE  changes > Since(p)
    BY DEF FailsForACause, Since
  <2>1. changes # Since(p)
    BY DEF AssessmentInv, QuietInv
  <2> QED
    BY <2>1, SinceTyped DEF AssessmentInv
<1> QED
  BY <1>1, ReadersKnow, PTL

================================================================================
