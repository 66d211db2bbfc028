----------------------------- MODULE CatalogProofs -----------------------------
(***************************************************************************)
(* What the catalog and the search index satisfy: how they are published     *)
(* (IndexPublication), for any number of sessions, refreshes and rebuilds and *)
(* any number of faults and crashes; what the catalog holds (CatalogContents), *)
(* for any corpus that changes in any way while sessions read it; how the     *)
(* passages of the index are cut (PassageChunking), for any captions and       *)
(* limits; and what a discovery offers that the catalog lacks                 *)
(* (TopicDiscovery), for any answers of its searches.                        *)
(***************************************************************************)
EXTENDS IndexPublication, TopicDiscovery, PassageChunking, FiniteSetTheorems,
        SequenceTheorems, WellFoundedInduction, TLAPS

-----------------------------------------------------------------------------
(* Type correctness, which includes that the lock excludes.                *)

LEMMA InitTypeOK == PublicationInit => PublicationTypeOK
BY PublicationAssumption
DEF PublicationInit, PublicationTypeOK, Catalogs, Indexes, Identities, Procs, Locked, Ended, Holdings

\* Only one process is at a point that needs the lock.
LEMMA Exclusive ==
  ASSUME PublicationTypeOK, NEW p \in Procs, NEW q \in Procs,
         pc[p] \in Locked, pc[q] \in Locked
  PROVE  p = q /\ lock = p
BY DEF PublicationTypeOK

\* No process is at such a point while the lock is free.
LEMMA NobodyLocked ==
  ASSUME PublicationTypeOK, LockFree
  PROVE  \A p \in Procs : pc[p] \notin Locked
BY PublicationAssumption DEF PublicationTypeOK, LockFree

\* A file that is given a new identity stays a catalog.
LEMMA RenamedOK ==
  ASSUME NEW file \in Catalogs \cup {NoFile}, NEW id \in Identities
  PROVE  Renamed(file, id) \in Catalogs \cup {NoFile} /\ Rows(Renamed(file, id)) = Rows(file)
BY PublicationAssumption DEF Renamed, Catalogs, Rows

LEMMA FileParts ==
  ASSUME NEW file \in Catalogs \cup {NoFile}
  PROVE  Rows(file) \in SUBSET Writers /\ Version(file) \in 0..MaxCorpus
BY PublicationAssumption DEF Rows, Version, Catalogs

LEMMA SessionTypeOK ==
  ASSUME PublicationTypeOK, NEW w \in Writers, Session(w)
  PROVE  PublicationTypeOK'
<1> USE PublicationAssumption
    DEF PublicationTypeOK, Procs, Calm, Fault, files, private, At, To, Leave, Close
<1>1. CASE Open(w)
  BY <1>1 DEF Open, Identity, Catalogs, Locked, Ended
<1>2. CASE Stage(w)
  BY <1>2 DEF Stage, LockFree, Locked, Ended
<1>3. CASE Discard(w)
  BY <1>3 DEF Discard, Locked, Ended, Catalogs
<1>4. CASE Exchange(w)
  <2>1. catalog' \in Catalogs \cup {NoFile}
    BY <1>4, FileParts DEF Exchange, Catalogs, Identities
  <2> QED
    BY <1>4, <2>1 DEF Exchange, Locked, Ended
<1>5. CASE Commit(w)
  BY <1>5 DEF Commit, Locked, Ended, Catalogs
<1>6. CASE Doubt(w)
  BY <1>6 DEF Doubt, Locked, Ended
<1>7. CASE Reverse(w)
  <2>1. catalog' \in Catalogs \cup {NoFile}
    BY <1>7, RenamedOK DEF Reverse, Identities
  <2> QED
    BY <1>7, <2>1 DEF Reverse, Locked, Ended, Catalogs
<1>8. CASE ReverseFails(w)
  BY <1>8 DEF ReverseFails, AlsoFails, Locked, Ended
<1> QED
  BY <1>1, <1>2, <1>3, <1>4, <1>5, <1>6, <1>7, <1>8 DEF Session

\* Filling in a field of what a refresh holds.
LEMMA HeldOK ==
  ASSUME NEW rows \in [Refreshes -> Holdings], NEW r \in Refreshes
  PROVE  /\ \A file \in Catalogs \cup {NoFile}, n \in 0..MaxCorpus :
              [rows EXCEPT ![r].catalog = file, ![r].imported = n] \in [Refreshes -> Holdings]
         /\ \A index \in Indexes \cup {NoFile} :
              [rows EXCEPT ![r].search = index] \in [Refreshes -> Holdings]
         /\ \A flag \in BOOLEAN :
              /\ [rows EXCEPT ![r].pinned = flag] \in [Refreshes -> Holdings]
              /\ [rows EXCEPT ![r].placed = flag] \in [Refreshes -> Holdings]
              /\ [rows EXCEPT ![r].removed = flag] \in [Refreshes -> Holdings]
              /\ [rows EXCEPT ![r].unnoted = flag] \in [Refreshes -> Holdings]
         /\ [rows EXCEPT ![r].catalog = NoFile, ![r].search = NoFile] \in [Refreshes -> Holdings]
<1>1. ASSUME NEW file \in Catalogs \cup {NoFile}, NEW n \in 0..MaxCorpus
      PROVE  [rows EXCEPT ![r].catalog = file, ![r].imported = n] \in [Refreshes -> Holdings]
  BY DEF Holdings
<1>2. ASSUME NEW index \in Indexes \cup {NoFile}
      PROVE  [rows EXCEPT ![r].search = index] \in [Refreshes -> Holdings]
  BY DEF Holdings
<1>3. ASSUME NEW flag \in BOOLEAN
      PROVE  /\ [rows EXCEPT ![r].pinned = flag] \in [Refreshes -> Holdings]
             /\ [rows EXCEPT ![r].placed = flag] \in [Refreshes -> Holdings]
             /\ [rows EXCEPT ![r].removed = flag] \in [Refreshes -> Holdings]
             /\ [rows EXCEPT ![r].unnoted = flag] \in [Refreshes -> Holdings]
  BY DEF Holdings
<1>4. [rows EXCEPT ![r].catalog = NoFile, ![r].search = NoFile] \in [Refreshes -> Holdings]
  BY DEF Holdings
<1> QED
  BY <1>1, <1>2, <1>3, <1>4

LEMMA RefreshTypeOK ==
  ASSUME PublicationTypeOK, NEW r \in Refreshes, Refresh(r)
  PROVE  PublicationTypeOK'
<1> USE PublicationAssumption
    DEF PublicationTypeOK, Procs, Calm, Fault, AlsoFails, files, private, At, To, Leave,
        Locked, Ended, Old
<1>1. CASE Begin(r)
  <2>1. refresh' \in [Refreshes -> Holdings]
    BY <1>1, HeldOK DEF Begin
  <2> QED
    BY <1>1, <2>1 DEF Begin, LockFree
<1>2. CASE Scan(r)
  <2>1. Snapshot \in Indexes \cup {NoFile}
    BY DEF Snapshot
  <2>2. refresh' \in [Refreshes -> Holdings]
    BY <1>2, <2>1, HeldOK DEF Scan
  <2> QED
    BY <1>2, <2>2 DEF Scan
<1>3. CASE ReplaceCatalog(r)
  <2>1. catalog' \in Catalogs
    BY <1>3, FileParts DEF ReplaceCatalog, Catalogs, Identities, Holdings
  <2> QED
    BY <1>3, <2>1 DEF ReplaceCatalog
<1>4. CASE CatalogFails(r) \/ PinFails(r) \/ SearchFails(r) \/ UndoFails(r)
  BY <1>4 DEF CatalogFails, PinFails, SearchFails, UndoFails
<1>5. CASE RestoreCatalog(r) \/ RestoreFails(r)
  <2>1. catalog' \in Catalogs \cup {NoFile}
    BY <1>5, RenamedOK DEF RestoreCatalog, RestoreFails, Identities, Holdings
  <2>2. refresh' = [refresh EXCEPT ![r].catalog = NoFile, ![r].search = NoFile]
    BY ONLY <1>5 DEF RestoreCatalog, RestoreFails, Return
  <2>3. refresh \in [Refreshes -> Holdings]
    OBVIOUS
  <2>4. refresh' \in [Refreshes -> Holdings]
    BY ONLY <2>2, <2>3, HeldOK
  <2> QED
    BY <1>5, <2>1, <2>4 DEF RestoreCatalog, RestoreFails, Return
<1>6. CASE PublishReceipt(r)
  <2>1. refresh' \in [Refreshes -> Holdings]
    BY <1>6, HeldOK DEF PublishReceipt
  <2> QED
    BY <1>6, <2>1 DEF PublishReceipt
<1>7. CASE ReplaceSearch(r) \/ ReplaceUnnoted(r)
  <2>1. search' \in Indexes
    BY <1>7 DEF ReplaceSearch, ReplaceUnnoted, Indexes
  <2>2. refresh' \in [Refreshes -> Holdings]
    <3>1. CASE ReplaceSearch(r)
      BY <3>1, HeldOK DEF ReplaceSearch
    <3>2. CASE ReplaceUnnoted(r)
      BY <3>2, HeldOK DEF ReplaceUnnoted
    <3> QED
      BY <1>7, <3>1, <3>2
  <2> QED
    BY <1>7, <2>1, <2>2 DEF ReplaceSearch, ReplaceUnnoted
<1>8. CASE UndoCatalog(r)
  <2>1. catalog' \in Catalogs \cup {NoFile}
    BY <1>8, RenamedOK DEF UndoCatalog, Identities, Holdings
  <2>2. refresh' \in [Refreshes -> Holdings]
    BY <1>8, HeldOK DEF UndoCatalog
  <2> QED
    BY <1>8, <2>1, <2>2 DEF UndoCatalog
<1>9. CASE UndoSearch(r)
  <2>1. search' \in Indexes \cup {NoFile}
    BY <1>9 DEF UndoSearch, Holdings
  <2> QED
    BY <1>9, <2>1 DEF UndoSearch
<1>10. CASE Abort(r) \/ Finish(r) \/ Unpin(r) \/ UnpinFails(r)
  <2>1. refresh' \in [Refreshes -> Holdings]
    BY <1>10, HeldOK DEF Abort, Finish, Unpin, UnpinFails, Return
  <2> QED
    BY <1>10, <2>1 DEF Abort, Finish, Unpin, UnpinFails, Return
<1> QED
  BY <1>1, <1>2, <1>3, <1>4, <1>5, <1>6, <1>7, <1>8, <1>9, <1>10 DEF Refresh

\* A process that dies changes no file, and no field of a refresh but its copies.
LEMMA CrashEffect ==
  ASSUME PublicationTypeOK, NEW p \in Procs, Crash(p)
  PROVE  /\ UNCHANGED <<catalog, search, receipts, stage>>
         /\ \A q \in Procs : pc'[q] \in {pc[q], "crashed"}
         /\ refresh' \in [Refreshes -> Holdings]
         /\ \A r \in Refreshes :
              /\ refresh'[r].placed = refresh[r].placed
              /\ refresh'[r].unnoted = refresh[r].unnoted
              /\ refresh'[r].removed = refresh[r].removed
              /\ refresh'[r].search \in {refresh[r].search, NoFile}
              /\ Old(r)' = Old(r) \/ pc'[r] = "crashed"
<1>1. UNCHANGED <<catalog, search, receipts, stage>>
  BY DEF Crash, files
<1>2. pc' = [pc EXCEPT ![p] = "crashed"] /\ pc \in [Procs -> Locked \cup Ended \cup {"idle", "waiting", "built"}]
  BY DEF Crash, To, PublicationTypeOK
<1>3. refresh \in [Refreshes -> Holdings]
  BY DEF PublicationTypeOK
<1>4. ASSUME NEW r \in Refreshes
      PROVE  /\ refresh'[r] \in Holdings
             /\ refresh'[r].placed = refresh[r].placed
             /\ refresh'[r].unnoted = refresh[r].unnoted
             /\ refresh'[r].removed = refresh[r].removed
             /\ refresh'[r].search \in {refresh[r].search, NoFile}
             /\ Old(r)' = Old(r) \/ r = p
  <2>1. CASE r = p
    BY <1>3, <1>4, <2>1 DEF Crash, Holdings
  <2>2. CASE r # p
    BY <1>3, <1>4, <2>2 DEF Crash, Old
  <2> QED
    BY <2>1, <2>2
<1>5. refresh' \in [Refreshes -> Holdings]
  BY <1>4 DEF Crash
<1> QED
  BY <1>1, <1>2, <1>4, <1>5

LEMMA OtherTypeOK ==
  ASSUME PublicationTypeOK,
         \/ \E b \in Rebuilds : Build(b) \/ Replace(b) \/ BuildFails(b)
         \/ \E p \in Procs : Crash(p)
         \/ Grow \/ UNCHANGED publicationVars
  PROVE  PublicationTypeOK'
<1> USE PublicationAssumption
    DEF PublicationTypeOK, Procs, Calm, Fault, files, private, At, To, Locked, Ended
<1>1. ASSUME NEW b \in Rebuilds, Build(b) \/ BuildFails(b)
      PROVE  PublicationTypeOK'
  BY <1>1 DEF Build, BuildFails
<1>2. ASSUME NEW b \in Rebuilds, Replace(b)
      PROVE  PublicationTypeOK'
  <2>1. search' \in Indexes
    BY <1>2 DEF Replace, Indexes
  <2> QED
    BY <1>2, <2>1 DEF Replace
<1>3. ASSUME NEW p \in Procs, Crash(p)
      PROVE  PublicationTypeOK'
  <2>1. seen' \in [Writers -> Identities \cup {NoFile}]
    BY <1>3 DEF Crash
  <2>2. refresh' \in [Refreshes -> Holdings]
    BY <1>3, CrashEffect
  <2>3. pc' \in [Procs -> Locked \cup Ended \cup {"idle", "waiting", "built"}]
    BY <1>3 DEF Crash
  <2>4. ASSUME NEW q \in Procs
        PROVE  lock' = q <=> pc'[q] \in Locked
    <3>1. lock = q <=> pc[q] \in Locked
      OBVIOUS
    <3>2. lock' = (IF lock = p THEN NoOne ELSE lock) /\ pc' = [pc EXCEPT ![p] = "crashed"]
      BY <1>3 DEF Crash
    <3>3. CASE q = p
      BY <3>2, <3>3
    <3>4. CASE q # p
      BY <3>1, <3>2, <3>4
    <3> QED
      BY <3>3, <3>4
  <2>5. crashes' \in 0..MaxCrashes
    <3>1. crashes < MaxCrashes /\ crashes' = crashes + 1
      BY <1>3 DEF Crash
    <3>2. crashes \in 0..MaxCrashes /\ MaxCrashes \in Nat
      OBVIOUS
    <3> QED
      BY ONLY <3>1, <3>2
  <2>6. UNCHANGED <<files, scanned, corpus, faults>>
    BY <1>3 DEF Crash
  <2> QED
    BY <2>1, <2>2, <2>3, <2>4, <2>5, <2>6
<1>4. CASE Grow
  BY <1>4 DEF Grow
<1>5. CASE UNCHANGED publicationVars
  BY <1>5 DEF publicationVars
<1> QED
  BY <1>1, <1>2, <1>3, <1>4, <1>5

\* Values stay in their sets, and the lock is held exactly by the process that is
\* at a point that needs it, also when processes die.
THEOREM PublicationTypeCorrect == PublicationSpec => []PublicationTypeOK
<1>1. PublicationTypeOK /\ [PublicationNext]_publicationVars => PublicationTypeOK'
  BY SessionTypeOK, RefreshTypeOK, OtherTypeOK DEF PublicationNext
<1> QED
  BY <1>1, InitTypeOK, PTL DEF PublicationSpec

-----------------------------------------------------------------------------
(* The published index and its receipt.                                    *)

\* Points at which a refresh relies on the index it found.
Keeping == {"scanned", "catalog", "restore", "receipt", "search", "undo", "undo_search"}

Published(r) == refresh[r].placed \/ refresh[r].unnoted

\* A refresh's own index is there only after it was published, and is gone, unless
\* it was not noted, when its receipt is taken back.
OwnIndex ==
  \A r \in Refreshes :
    /\ pc[r] \in {"idle", "imported", "scanned", "catalog", "receipt"} => ~Published(r)
    /\ search # NoFile /\ search.gen = r => Published(r)
    /\ pc[r] = "unpin" /\ ~refresh[r].unnoted => search = NoFile \/ search.gen # r

\* The index a refresh found is not its own, and keeps its receipt while the
\* refresh holds the lock.
FoundIndex ==
  \A r \in Refreshes : refresh[r].search # NoFile =>
    /\ refresh[r].search.gen # r
    /\ refresh[r].search.gen \in Refreshes => Published(refresh[r].search.gen)
    /\ pc[r] \in Keeping => refresh[r].search.gen \in receipts

\* A standalone rebuild publishes its receipt first.
RebuildReceipts == \A b \in Rebuilds : pc[b] = "built" => b \in receipts

ReceiptInv == OwnIndex /\ FoundIndex /\ RebuildReceipts /\ SearchUsable

LEMMA InitReceiptInv == PublicationInit => ReceiptInv
BY PublicationAssumption
DEF PublicationInit, ReceiptInv, OwnIndex, FoundIndex, Published, RebuildReceipts, SearchUsable, Procs,
    Indexes

\* A process that has ended does nothing more.
LEMMA EndedStay ==
  ASSUME PublicationTypeOK, [PublicationNext]_publicationVars
  PROVE  \A p \in Procs : pc[p] \in Ended => pc'[p] = pc[p]
<1> SUFFICES ASSUME NEW q \in Procs, pc[q] \in Ended
             PROVE  pc'[q] = pc[q]
  OBVIOUS
<1> pc \in [Procs -> Locked \cup Ended \cup {"idle", "waiting", "built"}]
  BY DEF PublicationTypeOK
<1> USE DEF At, To, Leave, Close, Return, Ended, Procs
<1>1. ASSUME NEW w \in Writers, Session(w)
      PROVE  pc'[q] = pc[q]
  BY <1>1 DEF Session, Open, Stage, Discard, Exchange, Commit, Doubt, Reverse, ReverseFails
<1>2. ASSUME NEW r \in Refreshes, Refresh(r)
      PROVE  pc'[q] = pc[q]
  BY <1>2 DEF Refresh, Begin, Scan, Abort, ReplaceCatalog, CatalogFails, RestoreCatalog,
              RestoreFails, PublishReceipt, PinFails, ReplaceSearch, ReplaceUnnoted, Finish,
              SearchFails, UndoCatalog, UndoSearch, UndoFails, Unpin, UnpinFails
<1>3. ASSUME NEW b \in Rebuilds, Build(b) \/ Replace(b) \/ BuildFails(b)
      PROVE  pc'[q] = pc[q]
  BY <1>3 DEF Build, Replace, BuildFails
<1>4. ASSUME NEW p \in Procs, Crash(p)
      PROVE  pc'[q] = pc[q]
  BY <1>4 DEF Crash
<1>5. CASE Grow \/ UNCHANGED publicationVars
  BY <1>5 DEF Grow, publicationVars
<1> QED
  BY <1>1, <1>2, <1>3, <1>4, <1>5 DEF PublicationNext

\* A rollback that failed, or did not know of a replacement, is never forgotten.
LEMMA CleanBefore ==
  ASSUME PublicationTypeOK, [PublicationNext]_publicationVars, CleanRollbacks'
  PROVE  CleanRollbacks
<1>1. RollbacksWorked
  BY EndedStay DEF CleanRollbacks, RollbacksWorked, At, Ended
<1>2. refresh \in [Refreshes -> Holdings]
  BY DEF PublicationTypeOK
<1>3. \A r \in Refreshes : refresh[r].unnoted => refresh'[r].unnoted
  <2> USE <1>2 DEF private, Holdings
  <2>1. CASE \E w \in Writers : Session(w)
    BY <2>1 DEF Session, Open, Stage, Discard, Exchange, Commit, Doubt, Reverse, ReverseFails
  <2>2. CASE \E r \in Refreshes : Refresh(r)
    BY <2>2 DEF Return, Refresh, Begin, Scan, Abort, ReplaceCatalog, CatalogFails, RestoreCatalog,
              RestoreFails, PublishReceipt, PinFails, ReplaceSearch, ReplaceUnnoted, Finish,
              SearchFails, UndoCatalog, UndoSearch, UndoFails, Unpin, UnpinFails
  <2>3. CASE \E b \in Rebuilds : Build(b) \/ Replace(b) \/ BuildFails(b)
    BY <2>3 DEF Build, Replace, BuildFails
  <2>4. CASE \E p \in Procs : Crash(p)
    BY <2>4, CrashEffect
  <2>5. CASE Grow \/ UNCHANGED publicationVars
    BY <2>5 DEF Grow, publicationVars
  <2> QED
    BY <2>1, <2>2, <2>3, <2>4, <2>5 DEF PublicationNext
<1> QED
  BY <1>1, <1>3 DEF CleanRollbacks, ReplacesNoted

\* Sessions, crashes and new transcripts touch neither index nor receipts.
LEMMA ReceiptsUntouched ==
  ASSUME PublicationTypeOK, ReceiptInv, [PublicationNext]_publicationVars,
         UNCHANGED <<search, receipts>>,
         \A r \in Refreshes : /\ refresh'[r].placed = refresh[r].placed
                              /\ refresh'[r].unnoted = refresh[r].unnoted
                              /\ refresh'[r].search \in {refresh[r].search, NoFile},
         \A p \in Refreshes \cup Rebuilds : pc'[p] \in {pc[p], "crashed"}
  PROVE  ReceiptInv'
<1>1. CleanRollbacks' => CleanRollbacks
  BY CleanBefore
<1> QED
  BY <1>1 DEF ReceiptInv, OwnIndex, FoundIndex, Published, RebuildReceipts, SearchUsable, Keeping

LEMMA RebuildReceiptStep ==
  ASSUME PublicationTypeOK, ReceiptInv, NEW b \in Rebuilds, [PublicationNext]_publicationVars,
         Build(b) \/ Replace(b) \/ BuildFails(b)
  PROVE  ReceiptInv'
<1> USE PublicationAssumption DEF ReceiptInv, PublicationTypeOK, Procs, At, To, files, private
<1>1. CleanRollbacks' => CleanRollbacks
  BY CleanBefore
<1>2. \A r \in Refreshes : pc'[r] = pc[r] /\ b # r
  BY DEF Build, Replace, BuildFails
<1>3. refresh' = refresh
  BY DEF Build, Replace, BuildFails
<1>4. CASE Build(b) \/ BuildFails(b)
  BY <1>1, <1>2, <1>3, <1>4
  DEF OwnIndex, FoundIndex, Published, RebuildReceipts, SearchUsable, Build, BuildFails
<1>5. CASE Replace(b)
  <2>1. search' # NoFile /\ search'.gen = b /\ b \in receipts /\ receipts' = receipts
    BY <1>5 DEF Replace, RebuildReceipts, Indexes
  <2> QED
    BY <1>2, <1>3, <1>5, <2>1 DEF OwnIndex, FoundIndex, Published, RebuildReceipts, SearchUsable, Replace
<1> QED
  BY <1>4, <1>5

LEMMA RefreshReceiptStep ==
  ASSUME PublicationTypeOK, ReceiptInv, NEW r \in Refreshes, [PublicationNext]_publicationVars,
         Refresh(r)
  PROVE  ReceiptInv'
<1> USE PublicationAssumption DEF ReceiptInv, Procs, files, private, To, At, Leave, Return
<1>1. CleanRollbacks' => CleanRollbacks
  BY CleanBefore
<1>2. /\ pc \in [Procs -> Locked \cup Ended \cup {"idle", "waiting", "built"}]
      /\ refresh \in [Refreshes -> Holdings] /\ search \in Indexes \cup {NoFile}
      /\ r \notin Rebuilds /\ r \in Procs
  BY DEF PublicationTypeOK
<1>3. \A q \in Refreshes \cup Rebuilds : q # r => pc'[q] = pc[q]
  BY <1>2 DEF Refresh, Begin, Scan, Abort, ReplaceCatalog, CatalogFails, RestoreCatalog,
              RestoreFails, PublishReceipt, PinFails, ReplaceSearch, ReplaceUnnoted, Finish,
              SearchFails, UndoCatalog, UndoSearch, UndoFails, Unpin, UnpinFails
<1>4. \A q \in Refreshes : pc[q] \in Keeping /\ pc[r] \in Locked => q = r
  BY Exclusive DEF Keeping, Locked
<1>5. CASE ReplaceCatalog(r) \/ CatalogFails(r) \/ SearchFails(r) \/ UndoFails(r)
  <2>1. /\ UNCHANGED <<search, receipts, refresh>>
        /\ pc[r] \notin {"idle", "imported", "scanned", "catalog", "receipt"} =>
             pc'[r] \notin {"idle", "imported", "scanned", "catalog", "receipt"}
        /\ pc'[r] # "unpin" /\ (pc'[r] \in Keeping => pc[r] \in Keeping)
    BY <1>2, <1>5 DEF ReplaceCatalog, CatalogFails, SearchFails, UndoFails, Keeping
  <2> QED
    BY <1>1, <1>2, <1>3, <2>1
    DEF OwnIndex, FoundIndex, Published, RebuildReceipts, SearchUsable
<1>6. CASE Begin(r) \/ UndoCatalog(r)
  <2>1. /\ UNCHANGED <<search, receipts>>
        /\ \/ pc[r] = "idle" /\ pc'[r] = "imported"
           \/ pc[r] = "undo" /\ pc'[r] = "undo_search"
        /\ \A q \in Refreshes : /\ refresh'[q].placed = refresh[q].placed
                                /\ refresh'[q].unnoted = refresh[q].unnoted
                                /\ refresh'[q].search = refresh[q].search
    BY <1>2, <1>6 DEF Begin, UndoCatalog, Holdings
  <2> QED
    BY <1>1, <1>2, <1>3, <2>1
    DEF OwnIndex, FoundIndex, Published, RebuildReceipts, SearchUsable, Keeping
<1>7. CASE Scan(r)
  <2>1. /\ UNCHANGED <<search, receipts>> /\ pc[r] = "imported" /\ pc'[r] = "scanned"
        /\ \A q \in Refreshes : /\ refresh'[q].placed = refresh[q].placed
                                /\ refresh'[q].unnoted = refresh[q].unnoted
        /\ \A q \in Refreshes : q # r => refresh'[q].search = refresh[q].search
        /\ refresh'[r].search = Snapshot
    BY <1>2, <1>7 DEF Scan, Holdings
  <2>2. Snapshot # NoFile => Snapshot.gen \in receipts /\ Snapshot.gen # r
                             /\ (Snapshot.gen \in Refreshes => Published(Snapshot.gen))
    BY <2>1 DEF Snapshot, OwnIndex
  <2> QED
    BY <1>1, <1>2, <1>3, <2>1, <2>2
    DEF OwnIndex, FoundIndex, Published, RebuildReceipts, SearchUsable, Keeping
<1>8. CASE PublishReceipt(r) \/ PinFails(r)
  <2>1. /\ search' = search /\ receipts \subseteq receipts'
        /\ pc[r] = "catalog" /\ pc'[r] \in {"receipt", "undo"}
        /\ \A q \in Refreshes : /\ refresh'[q].placed = refresh[q].placed
                                /\ refresh'[q].unnoted = refresh[q].unnoted
                                /\ refresh'[q].search = refresh[q].search
    BY <1>2, <1>8 DEF PublishReceipt, PinFails, Holdings
  <2> QED
    BY <1>1, <1>2, <1>3, <2>1
    DEF OwnIndex, FoundIndex, Published, RebuildReceipts, SearchUsable, Keeping
<1>9. CASE ReplaceSearch(r) \/ ReplaceUnnoted(r)
  <2>0. search' = [gen |-> r, corpus |-> scanned[r]] /\ search' \in Indexes
    BY <1>9 DEF ReplaceSearch, ReplaceUnnoted, Indexes, PublicationTypeOK
  <2>1. /\ search'.gen = r /\ search' # NoFile /\ r \in receipts /\ receipts' = receipts
        /\ pc[r] = "receipt" /\ pc'[r] \in {"search", "undo"} /\ Published(r)'
        /\ \A q \in Refreshes : /\ refresh'[q].search = refresh[q].search
                                /\ q # r => /\ refresh'[q].placed = refresh[q].placed
                                            /\ refresh'[q].unnoted = refresh[q].unnoted
    BY <1>2, <1>9, <2>0 DEF ReplaceSearch, ReplaceUnnoted, Holdings, Published
  <2>2. pc[r] \in Locked
    BY <2>1 DEF Locked
  <2>3. \A q \in Refreshes : q # r => pc'[q] # "unpin"
    BY <1>2, <1>3, <2>2, Exclusive DEF Locked
  <2>4. \A q \in Refreshes : Published(q) => Published(q)'
    BY <2>1 DEF Published
  <2>5. OwnIndex'
    BY <1>3, <2>1, <2>3 DEF OwnIndex, Published
  <2>6. FoundIndex'
    BY <1>3, <2>1, <2>4 DEF FoundIndex, Keeping
  <2> QED
    BY <1>2, <1>3, <2>1, <2>5, <2>6 DEF RebuildReceipts, SearchUsable
<1>10. CASE Abort(r) \/ RestoreCatalog(r) \/ RestoreFails(r) \/ Finish(r) \/ UnpinFails(r)
  <2>1. /\ UNCHANGED <<search, receipts>> /\ pc'[r] \in {"failed", "broken", "done"}
        /\ \A q \in Refreshes : /\ refresh'[q].placed = refresh[q].placed
                                /\ refresh'[q].unnoted = refresh[q].unnoted
                                /\ q # r => refresh'[q].search = refresh[q].search
        /\ refresh'[r].search = NoFile
    BY <1>2, <1>10 DEF Abort, RestoreCatalog, RestoreFails, Finish, UnpinFails, Holdings
  <2> QED
    BY <1>1, <1>2, <1>3, <2>1
    DEF OwnIndex, FoundIndex, Published, RebuildReceipts, SearchUsable, Keeping
<1>11. CASE UndoSearch(r)
  <2>1. /\ UNCHANGED <<receipts, refresh>> /\ pc[r] = "undo_search" /\ pc'[r] = "unpin"
        /\ search' \in {search, refresh[r].search, NoFile}
        /\ ~refresh[r].placed => search' = search
        /\ refresh[r].placed => search' \in {refresh[r].search, NoFile}
    BY <1>2, <1>11 DEF UndoSearch
  <2>2. pc[r] \in Locked
    BY <2>1 DEF Locked
  <2>3. \A q \in Refreshes : q # r => pc'[q] # "unpin"
    BY <1>2, <1>3, <2>2, Exclusive DEF Locked
  <2>4. search' # NoFile /\ ~refresh[r].unnoted => search'.gen # r
    BY <2>1 DEF OwnIndex, FoundIndex, Published
  <2>5. OwnIndex'
    BY <1>2, <1>3, <2>1, <2>3, <2>4 DEF OwnIndex, FoundIndex, Published
  <2>6. CleanRollbacks' /\ search' # NoFile => search'.gen \in receipts
    BY <1>1, <2>1 DEF FoundIndex, SearchUsable, Keeping
  <2> QED
    BY <1>2, <1>3, <2>1, <2>5, <2>6
    DEF FoundIndex, Published, RebuildReceipts, SearchUsable, Keeping
<1>12. CASE Unpin(r)
  <2>1. /\ search' = search /\ receipts \ {r} \subseteq receipts'
        /\ \/ pc[r] = "unpin" /\ pc'[r] = "failed"
           \/ pc[r] = "unpin_only" /\ pc'[r] = "broken"
        /\ \A q \in Refreshes : /\ refresh'[q].placed = refresh[q].placed
                                /\ refresh'[q].unnoted = refresh[q].unnoted
                                /\ q # r => refresh'[q].search = refresh[q].search
        /\ refresh'[r].search = NoFile
    BY <1>2, <1>12 DEF Unpin, Holdings
  <2>2. \A q \in Refreshes : pc'[q] \notin Keeping
    BY <1>3, <1>4, <2>1 DEF Keeping, Locked
  <2>3. CleanRollbacks' /\ search' # NoFile => search'.gen \in receipts'
    <3>1. ASSUME CleanRollbacks'
          PROVE  pc[r] = "unpin" /\ ~refresh[r].unnoted
      BY <1>1, <1>2, <2>1, <3>1 DEF CleanRollbacks, RollbacksWorked, ReplacesNoted
    <3> QED
      BY <1>1, <2>1, <3>1 DEF OwnIndex, SearchUsable
  <2>4. RebuildReceipts'
    BY <1>2, <1>3, <2>1 DEF RebuildReceipts
  <2> QED
    BY <1>2, <1>3, <2>1, <2>2, <2>3, <2>4
    DEF OwnIndex, FoundIndex, Published, SearchUsable, Keeping
<1> QED
  BY <1>5, <1>6, <1>7, <1>8, <1>9, <1>10, <1>11, <1>12 DEF Refresh

LEMMA ReceiptStep ==
  ASSUME PublicationTypeOK, ReceiptInv, [PublicationNext]_publicationVars
  PROVE  ReceiptInv'
<1> /\ pc \in [Procs -> Locked \cup Ended \cup {"idle", "waiting", "built"}]
    /\ refresh \in [Refreshes -> Holdings]
  BY DEF PublicationTypeOK
<1> USE PublicationAssumption DEF Procs, files, private, To, Leave, Close
<1>1. ASSUME NEW w \in Writers, Session(w)
      PROVE  /\ UNCHANGED <<search, receipts, refresh>>
             /\ \A p \in Refreshes \cup Rebuilds : pc'[p] = pc[p]
  BY <1>1 DEF Session, Open, Stage, Discard, Exchange, Commit, Doubt, Reverse, ReverseFails
<1>2. ASSUME NEW p \in Procs, Crash(p)
      PROVE  /\ UNCHANGED <<search, receipts>>
             /\ \A r \in Refreshes : /\ refresh'[r].placed = refresh[r].placed
                                     /\ refresh'[r].unnoted = refresh[r].unnoted
                                     /\ refresh'[r].search \in {refresh[r].search, NoFile}
             /\ \A q \in Refreshes \cup Rebuilds : pc'[q] \in {pc[q], "crashed"}
  BY <1>2, CrashEffect
<1>3. CASE Grow \/ UNCHANGED publicationVars
  BY <1>3, ReceiptsUntouched DEF Grow, publicationVars
<1> QED
  BY <1>1, <1>2, <1>3, ReceiptsUntouched, RefreshReceiptStep, RebuildReceiptStep
  DEF PublicationNext

\* Readers never refuse the published index for want of its receipt.
THEOREM SearchStaysUsable == PublicationSpec => []SearchUsable
<1>1. PublicationTypeOK /\ ReceiptInv /\ [PublicationNext]_publicationVars => ReceiptInv'
  BY ReceiptStep
<1>2. ReceiptInv => SearchUsable
  BY DEF ReceiptInv
<1> QED
  BY <1>1, <1>2, InitReceiptInv, PublicationTypeCorrect, PTL DEF PublicationSpec

-----------------------------------------------------------------------------
(* The rows of the catalog.                                                *)

NothingRemoved == \A r \in Refreshes : ~refresh[r].removed

\* What a process may make the catalog of holds what has been committed, while
\* the process holds the lock; a session that exchanged the files has its row in.
Copies ==
  /\ \A w \in Writers :
       /\ pc[w] \in {"body", "exchanged", "reverse"} => Committed \subseteq Rows(stage[w])
       /\ pc[w] = "exchanged" => w \in Rows(catalog)
  /\ \A r \in Refreshes :
       pc[r] \in {"imported", "scanned", "catalog", "restore", "receipt", "search", "undo"} =>
         Committed \subseteq Rows(Old(r))

\* A refresh removes a catalog at one step only.
RemovedOnce ==
  \A r \in Refreshes : refresh[r].removed =>
    pc[r] \in {"undo_search", "unpin", "unpin_only"} \cup Ended

RowsInv == RemovedOnce /\ (NothingRemoved => Copies /\ Committed \subseteq Rows(catalog))

LEMMA InitRowsInv == PublicationInit => RowsInv
BY DEF PublicationInit, RowsInv, RemovedOnce, Copies, Committed, At, Procs

LEMMA SessionMoves ==
  ASSUME PublicationTypeOK, NEW w \in Writers, Session(w)
  PROVE  /\ \A q \in Procs : q # w => pc'[q] = pc[q]
         /\ refresh' = refresh
<1> pc \in [Procs -> Locked \cup Ended \cup {"idle", "waiting", "built"}]
  BY DEF PublicationTypeOK
<1> QED
  BY DEF Procs, private, To, Leave, Close, Session, Open, Stage, Discard, Exchange, Commit, Doubt, Reverse,
         ReverseFails

LEMMA SessionRowsStep ==
  ASSUME PublicationTypeOK, RowsInv, NEW w \in Writers, Session(w)
  PROVE  RowsInv'
<1> USE PublicationAssumption DEF Procs, files, private, To, At, Leave, Close
<1>1. /\ pc \in [Procs -> Locked \cup Ended \cup {"idle", "waiting", "built"}]
      /\ stage \in [Writers -> Catalogs \cup {NoFile}] /\ catalog \in Catalogs \cup {NoFile}
      /\ w \notin Refreshes /\ w \in Procs
  BY DEF PublicationTypeOK
<1>2. /\ \A q \in Procs : q # w => pc'[q] = pc[q]
      /\ refresh' = refresh
  BY SessionMoves
<1>3. RemovedOnce' /\ (NothingRemoved' => NothingRemoved)
  BY <1>1, <1>2 DEF RowsInv, RemovedOnce, NothingRemoved
<1> SUFFICES ASSUME Copies, Committed \subseteq Rows(catalog)
             PROVE  Copies' /\ Committed' \subseteq Rows(catalog')
  BY <1>3 DEF RowsInv
<1>4. \A q \in Procs : q # w /\ (pc[w] \in Locked \/ LockFree) => pc[q] \notin Locked
  BY Exclusive, NobodyLocked
<1>5. CASE Open(w) \/ Discard(w) \/ Doubt(w) \/ ReverseFails(w)
  <2>1. /\ catalog' = catalog /\ Committed' = Committed
        /\ \A v \in Writers : v # w => stage'[v] = stage[v]
        /\ pc'[w] \in {"body", "exchanged", "reverse"} =>
             pc'[w] = "reverse" /\ pc[w] = "exchanged" /\ stage'[w] = stage[w]
    BY <1>1, <1>2, <1>5 DEF Open, Discard, Doubt, ReverseFails, Committed
  <2> QED
    BY <1>1, <1>2, <2>1 DEF Copies, Old
<1>6. CASE Stage(w)
  <2>1. /\ catalog' = catalog /\ Committed' = Committed /\ LockFree
        /\ pc'[w] \in {"body", "failed"} /\ (pc'[w] = "body" => stage'[w] = catalog)
    BY <1>1, <1>2, <1>6 DEF Stage, Committed
  <2>2. \A q \in Procs : q # w => pc'[q] \notin Locked
    BY <1>2, <1>4, <2>1
  <2> QED
    BY <1>1, <2>1, <2>2 DEF Copies, Locked
<1>7. CASE Exchange(w) \/ Reverse(w) \/ Commit(w)
  <2>1. pc[w] \in Locked
    BY <1>7 DEF Exchange, Reverse, Commit, Locked
  <2>2. \A q \in Procs : q # w => pc'[q] \notin Locked
    BY <1>2, <1>4, <2>1
  <2>3. CASE Exchange(w)
    <3>1. /\ Rows(catalog') = Rows(stage[w]) \cup {w} /\ stage'[w] = catalog
          /\ Committed' = Committed /\ pc[w] = "body" /\ pc'[w] = "exchanged"
      <4>1. catalog' \in Catalogs
        BY <1>1, <2>3, FileParts DEF Exchange, Catalogs, Identities
      <4> QED
        BY <1>1, <1>2, <2>3, <4>1 DEF Exchange, Committed, Rows
    <3> QED
      BY <1>1, <2>2, <3>1 DEF Copies, Locked
  <2>4. CASE Reverse(w)
    <3>1. Rows(catalog') = Rows(stage[w]) /\ Committed' = Committed
          /\ pc[w] = "reverse" /\ pc'[w] = "failed"
      BY <1>1, <1>2, <2>4, RenamedOK DEF Reverse, Committed, Identities
    <3> QED
      BY <1>1, <2>2, <3>1 DEF Copies, Locked
  <2>5. CASE Commit(w)
    <3>1. Committed' = Committed \cup {w} /\ catalog' = catalog
          /\ pc[w] = "exchanged" /\ pc'[w] = "done"
      BY <1>1, <1>2, <2>5 DEF Commit, Committed
    <3> QED
      BY <1>1, <2>2, <3>1 DEF Copies, Locked
  <2> QED
    BY <1>7, <2>3, <2>4, <2>5
<1> QED
  BY <1>5, <1>6, <1>7 DEF Session

LEMMA RefreshMoves ==
  ASSUME PublicationTypeOK, NEW r \in Refreshes, Refresh(r)
  PROVE  /\ \A q \in Procs : q # r => pc'[q] = pc[q]
         /\ stage' = stage
         /\ \A q \in Refreshes : q # r => refresh'[q] = refresh[q]
         /\ ~UndoCatalog(r) => refresh'[r].removed = refresh[r].removed
<1> /\ pc \in [Procs -> Locked \cup Ended \cup {"idle", "waiting", "built"}]
    /\ refresh \in [Refreshes -> Holdings]
  BY DEF PublicationTypeOK
<1> QED
  BY DEF Procs, files, private, Holdings, To, Leave, Return, Refresh, Begin, Scan, Abort,
         ReplaceCatalog, CatalogFails, RestoreCatalog, RestoreFails, PublishReceipt, PinFails,
         ReplaceSearch, ReplaceUnnoted, Finish, SearchFails, UndoCatalog, UndoSearch, UndoFails,
         Unpin, UnpinFails

LEMMA RefreshRowsStep ==
  ASSUME PublicationTypeOK, RowsInv, NEW r \in Refreshes, Refresh(r)
  PROVE  RowsInv'
<1> USE PublicationAssumption DEF Procs, files, private, To, At, Leave, Return
<1>1. /\ pc \in [Procs -> Locked \cup Ended \cup {"idle", "waiting", "built"}]
      /\ stage \in [Writers -> Catalogs \cup {NoFile}] /\ catalog \in Catalogs \cup {NoFile}
      /\ refresh \in [Refreshes -> Holdings] /\ Old(r) \in Catalogs \cup {NoFile}
      /\ r \notin Writers /\ r \in Procs
  BY DEF PublicationTypeOK, Old, Holdings
<1>2. /\ \A q \in Procs : q # r => pc'[q] = pc[q]
      /\ stage' = stage
      /\ \A q \in Refreshes : q # r => refresh'[q] = refresh[q]
      /\ ~UndoCatalog(r) => refresh'[r].removed = refresh[r].removed
  BY RefreshMoves
<1>3. Committed' = Committed
  BY <1>1, <1>2 DEF Committed
<1>4. RemovedOnce'
  <2>1. refresh[r].removed => pc[r] \in {"undo_search", "unpin", "unpin_only"}
    BY <1>1 DEF RowsInv, RemovedOnce, Ended, Refresh, Begin, Scan, Abort, ReplaceCatalog,
           CatalogFails, RestoreCatalog, RestoreFails, PublishReceipt, PinFails, ReplaceSearch,
           ReplaceUnnoted, Finish, SearchFails, UndoCatalog, UndoSearch, UndoFails, Unpin,
           UnpinFails
  <2>2. /\ pc[r] \in {"undo_search", "unpin", "unpin_only"} =>
             pc'[r] \in {"unpin", "unpin_only"} \cup Ended
        /\ UndoCatalog(r) => pc'[r] = "undo_search"
    BY <1>1 DEF Ended, Refresh, Begin, Scan, Abort, ReplaceCatalog, CatalogFails, RestoreCatalog,
           RestoreFails, PublishReceipt, PinFails, ReplaceSearch, ReplaceUnnoted, Finish,
           SearchFails, UndoCatalog, UndoSearch, UndoFails, Unpin, UnpinFails
  <2> QED
    BY <1>1, <1>2, <2>1, <2>2 DEF RowsInv, RemovedOnce
<1>5. NothingRemoved' => NothingRemoved
  BY <1>1, <1>2 DEF NothingRemoved, RowsInv, RemovedOnce, UndoCatalog, Ended
<1> SUFFICES ASSUME NothingRemoved', Copies, Committed \subseteq Rows(catalog)
             PROVE  Copies' /\ Committed' \subseteq Rows(catalog')
  BY <1>4, <1>5 DEF RowsInv
<1>6. CASE \/ Scan(r) \/ CatalogFails(r) \/ PublishReceipt(r) \/ PinFails(r) \/ ReplaceSearch(r)
           \/ ReplaceUnnoted(r) \/ SearchFails(r) \/ UndoSearch(r) \/ UndoFails(r)
  <2>1. /\ catalog' = catalog /\ Old(r)' = Old(r)
        /\ pc[r] \in {"imported", "scanned", "catalog", "restore", "receipt", "search", "undo"}
           \/ pc'[r] \in {"unpin", "unpin_only"}
    BY <1>1, <1>6 DEF Old, Holdings, Scan, CatalogFails, PublishReceipt, PinFails, ReplaceSearch,
           ReplaceUnnoted, SearchFails, UndoSearch, UndoFails
  <2> QED
    BY <1>1, <1>2, <1>3, <2>1 DEF Copies, Old
<1>7. CASE Abort(r) \/ Finish(r) \/ Unpin(r) \/ UnpinFails(r)
  <2>1. catalog' = catalog /\ pc'[r] \in {"failed", "done", "broken"}
    BY <1>1, <1>7 DEF Abort, Finish, Unpin, UnpinFails
  <2> QED
    BY <1>1, <1>2, <1>3, <2>1 DEF Copies, Old
<1>8. CASE Begin(r)
  <2>1. catalog' = catalog /\ Old(r)' = catalog
    BY <1>1, <1>8 DEF Begin, Old, Holdings
  <2> QED
    BY <1>1, <1>2, <1>3, <2>1 DEF Copies, Old
<1>9. CASE ReplaceCatalog(r) \/ RestoreCatalog(r) \/ RestoreFails(r) \/ UndoCatalog(r)
  <2>1. pc[r] \in {"scanned", "restore", "undo"} /\ pc[r] \in Locked
    BY <1>9 DEF ReplaceCatalog, RestoreCatalog, RestoreFails, UndoCatalog, Locked
  <2>2. \A q \in Procs : q # r => pc'[q] \notin Locked
    BY <1>1, <1>2, <2>1, Exclusive
  <2>3. Committed \subseteq Rows(Old(r))
    BY <2>1 DEF Copies
  <2>4. Committed \subseteq Rows(catalog')
    <3>1. CASE ReplaceCatalog(r)
      <4>1. catalog' \in Catalogs
        BY <1>1, <3>1, FileParts DEF ReplaceCatalog, Catalogs, Identities, Holdings
      <4> QED
        BY <2>3, <3>1, <4>1 DEF ReplaceCatalog, Rows
    <3>2. CASE RestoreCatalog(r) \/ RestoreFails(r)
      BY <1>1, <2>3, <3>2, RenamedOK DEF RestoreCatalog, RestoreFails, Identities
    <3>3. CASE UndoCatalog(r) /\ HadPair(r)
      BY <1>1, <2>3, <3>3, RenamedOK DEF UndoCatalog, Identities
    <3>4. CASE UndoCatalog(r) /\ ~HadPair(r)
      <4>1. Old(r) = NoFile
        BY <1>1, <3>4 DEF NothingRemoved, UndoCatalog, Holdings
      <4> QED
        BY <2>3, <4>1 DEF Rows
    <3> QED
      BY <1>9, <3>1, <3>2, <3>3, <3>4
  <2>5. \/ ReplaceCatalog(r) /\ Old(r)' = Old(r)
        \/ pc'[r] \in {"failed", "broken", "undo_search"}
    BY <1>1, <1>9 DEF ReplaceCatalog, RestoreCatalog, RestoreFails, UndoCatalog, Old
  <2> QED
    BY <1>1, <1>2, <1>3, <2>2, <2>3, <2>4, <2>5 DEF Copies, Locked
<1> QED
  BY <1>6, <1>7, <1>8, <1>9 DEF Refresh

LEMMA RowsStep ==
  ASSUME PublicationTypeOK, RowsInv, [PublicationNext]_publicationVars
  PROVE  RowsInv'
<1>1. CASE \/ \E b \in Rebuilds : Build(b) \/ Replace(b) \/ BuildFails(b)
           \/ (\E p \in Procs : Crash(p)) \/ Grow \/ UNCHANGED publicationVars
  <2>1. /\ UNCHANGED <<catalog, stage>>
        /\ \A p \in Writers \cup Refreshes : pc'[p] \in {pc[p], "crashed"}
        /\ \A r \in Refreshes : /\ refresh'[r].removed = refresh[r].removed
                                /\ Old(r)' = Old(r) \/ pc'[r] = "crashed"
    <3> USE PublicationAssumption DEF PublicationTypeOK, Procs, files, private, To, Holdings, Old
    <3>1. CASE \E b \in Rebuilds : Build(b) \/ Replace(b) \/ BuildFails(b)
      BY <3>1 DEF Build, Replace, BuildFails
    <3>2. CASE \E p \in Procs : Crash(p)
      BY <3>2, CrashEffect
    <3>3. CASE Grow \/ UNCHANGED publicationVars
      BY <3>3 DEF Grow, publicationVars
    <3> QED
      BY <1>1, <3>1, <3>2, <3>3
  <2>2. Committed' \subseteq Committed
    BY <2>1 DEF Committed, At
  <2> QED
    BY <2>1, <2>2 DEF RowsInv, RemovedOnce, NothingRemoved, Copies, Old, Ended
<1> QED
  BY <1>1, SessionRowsStep, RefreshRowsStep DEF PublicationNext

\* No committed row of the catalog is lost, whichever sessions, refreshes and
\* rollbacks replace the catalog and whatever dies.
THEOREM UpdatesAreKept == PublicationSpec => []UpdatesKept
<1>1. PublicationTypeOK /\ RowsInv /\ [PublicationNext]_publicationVars => RowsInv'
  BY RowsStep
<1>2. RowsInv => UpdatesKept
  BY DEF RowsInv, NothingRemoved, UpdatesKept
<1> QED
  BY <1>1, <1>2, InitRowsInv, PublicationTypeCorrect, PTL DEF PublicationSpec

-----------------------------------------------------------------------------
(* What a failed refresh leaves.                                           *)

\* Points before a refresh publishes its receipt.
Before == {"idle", "imported", "scanned", "catalog", "restore"}

\* Points at which the catalog of a refresh is not there, or not any more.
Without == {"idle", "imported", "scanned", "undo_search", "unpin", "failed"}

NothingPublished == \A r \in Refreshes : pc[r] \in Before => ~refresh[r].pinned /\ ~Published(r)

NoNewCatalog ==
  \A r \in Refreshes : pc[r] \in Without /\ catalog # NoFile => catalog.id # <<r, "new">>

Failed(r) == pc[r] = "failed" /\ ~refresh[r].unnoted

NothingLeft ==
  \A r \in Refreshes : Failed(r) =>
    /\ refresh[r].pinned => r \notin receipts
    /\ search # NoFile => search.gen # r

\* An index that a rollback may put back is not that of a refresh that has failed: it
\* was found under the lock, when that refresh had taken its index away.
FoundOfOthers ==
  \A q \in Refreshes : refresh[q].search # NoFile =>
    /\ pc[q] \in Locked
    /\ \A r \in Refreshes : Failed(r) => refresh[q].search.gen # r

FailureInv == NothingPublished /\ NoNewCatalog /\ NothingLeft /\ FoundOfOthers

LEMMA InitFailureInv == PublicationInit => FailureInv
BY PublicationAssumption
DEF PublicationInit, FailureInv, NothingPublished, NoNewCatalog, NothingLeft, FoundOfOthers,
    Failed, Published, Before, Procs

\* Steps that touch no refresh and bring no catalog or index of one.
LEMMA FailureUntouched ==
  ASSUME FailureInv,
         \A r \in Refreshes :
           /\ refresh'[r].pinned = refresh[r].pinned /\ refresh'[r].placed = refresh[r].placed
           /\ refresh'[r].unnoted = refresh[r].unnoted
           /\ \/ pc'[r] = pc[r] /\ refresh'[r].search = refresh[r].search
              \/ pc'[r] = "crashed" /\ refresh'[r].search = NoFile,
         catalog' \in {catalog, NoFile} \/ (\A r \in Refreshes : catalog'.id # <<r, "new">>),
         search' = search \/ (\A r \in Refreshes : search'.gen # r),
         \A r \in Refreshes : r \in receipts' => r \in receipts
  PROVE  FailureInv'
<1>1. NothingPublished'
  BY DEF FailureInv, NothingPublished, Published, Before
<1>2. NoNewCatalog'
  BY DEF FailureInv, NoNewCatalog, Without
<1>3. \A r \in Refreshes : Failed(r)' => Failed(r)
  BY DEF Failed
<1>4. NothingLeft'
  BY <1>3 DEF FailureInv, NothingLeft
<1>5. FoundOfOthers'
  BY <1>3 DEF FailureInv, FoundOfOthers
<1> QED
  BY <1>1, <1>2, <1>4, <1>5 DEF FailureInv

LEMMA OtherFailureStep ==
  ASSUME PublicationTypeOK, FailureInv,
         \/ \E w \in Writers : Session(w)
         \/ \E b \in Rebuilds : Build(b) \/ Replace(b) \/ BuildFails(b)
         \/ \E p \in Procs : Crash(p)
         \/ Grow \/ UNCHANGED publicationVars
  PROVE  FailureInv'
<1>1. /\ pc \in [Procs -> Locked \cup Ended \cup {"idle", "waiting", "built"}]
      /\ refresh \in [Refreshes -> Holdings] /\ catalog \in Catalogs \cup {NoFile}
      /\ stage \in [Writers -> Catalogs \cup {NoFile}]
  BY DEF PublicationTypeOK
<1> USE PublicationAssumption DEF Procs, files, private, To
<1>2. ASSUME NEW w \in Writers, Session(w)
      PROVE  FailureInv'
  <2>1. UNCHANGED <<search, receipts, refresh>> /\ \A r \in Refreshes : pc'[r] = pc[r]
    BY <1>1, <1>2 DEF Leave, Close, Session, Open, Stage, Discard, Exchange, Commit, Doubt, Reverse,
                      ReverseFails
  <2>2. catalog' \in {catalog, NoFile} \/ catalog'.id \in {<<w, "new">>, <<w, "old">>}
    BY <1>1, <1>2 DEF Session, Open, Stage, Discard, Exchange, Commit, Doubt, Reverse,
                      ReverseFails, Renamed, Catalogs
  <2>3. \A r \in Refreshes : w # r
    OBVIOUS
  <2> QED
    BY <2>1, <2>2, <2>3, FailureUntouched
<1>3. ASSUME NEW b \in Rebuilds, Build(b) \/ Replace(b) \/ BuildFails(b)
      PROVE  FailureInv'
  <2>1. /\ UNCHANGED <<catalog, refresh>> /\ \A r \in Refreshes : pc'[r] = pc[r]
        /\ search' = search \/ search'.gen = b
        /\ receipts' \subseteq receipts \cup {b}
    BY <1>1, <1>3 DEF Build, Replace, BuildFails
  <2>2. \A r \in Refreshes : b # r
    OBVIOUS
  <2> QED
    BY <2>1, <2>2, FailureUntouched
<1>4. ASSUME NEW p \in Procs, Crash(p)
      PROVE  FailureInv'
  <2>1. UNCHANGED <<catalog, search, receipts>>
    BY <1>4, CrashEffect
  <2>2. pc' = [pc EXCEPT ![p] = "crashed"]
    BY <1>4 DEF Crash
  <2>3. ASSUME NEW r \in Refreshes
        PROVE  refresh'[r] = IF r = p THEN [refresh[r] EXCEPT !.catalog = NoFile, !.search = NoFile]
                                      ELSE refresh[r]
    BY <1>4 DEF Crash
  <2>4. ASSUME NEW r \in Refreshes
        PROVE  /\ refresh'[r].pinned = refresh[r].pinned /\ refresh'[r].placed = refresh[r].placed
               /\ refresh'[r].unnoted = refresh[r].unnoted
               /\ \/ pc'[r] = pc[r] /\ refresh'[r].search = refresh[r].search
                  \/ pc'[r] = "crashed" /\ refresh'[r].search = NoFile
    <3>1. CASE r = p
      <4>1. refresh'[r] = [refresh[r] EXCEPT !.catalog = NoFile, !.search = NoFile]
        BY <2>3, <3>1
      <4>2. refresh[r] \in Holdings /\ pc'[r] = "crashed"
        BY <1>1, <2>2, <3>1
      <4> QED
        BY ONLY <4>1, <4>2 DEF Holdings
    <3>2. CASE r # p
      BY <1>1, <2>2, <2>3, <3>2
    <3> QED
      BY <3>1, <3>2
  <2> QED
    BY <2>1, <2>4, FailureUntouched
<1>5. CASE Grow \/ UNCHANGED publicationVars
  BY <1>5, FailureUntouched DEF Grow, publicationVars
<1> QED
  BY <1>2, <1>3, <1>4, <1>5

\* What a step of a refresh does to the files and to its own record.
LEMMA RefreshEffect ==
  ASSUME PublicationTypeOK, FailureInv, NEW r \in Refreshes, Refresh(r)
  PROVE  /\ pc[r] \in Locked \/ LockFree
         /\ refresh'[r].search # NoFile =>
              pc'[r] \in Locked /\ refresh'[r].search \in {refresh[r].search, search}
         /\ receipts' \subseteq receipts \cup {r}
         /\ search' \in {search, NoFile, refresh[r].search} \/ search'.gen = r
         /\ catalog' \in {catalog, NoFile} \/ catalog'.id \in {<<r, "new">>, <<r, "old">>}
<1>1. /\ pc \in [Procs -> Locked \cup Ended \cup {"idle", "waiting", "built"}]
      /\ refresh \in [Refreshes -> Holdings] /\ catalog \in Catalogs \cup {NoFile}
      /\ Old(r) \in Catalogs \cup {NoFile}
      /\ r \in Procs
  BY DEF PublicationTypeOK, Holdings, Old, Procs
<1>2. refresh[r].search # NoFile => pc[r] \in Locked
  BY DEF FailureInv, FoundOfOthers
<1> USE DEF files, private, To, At, Leave, Return
<1>3. CASE Begin(r)
  BY <1>1, <1>2, <1>3 DEF Begin, Holdings, Locked
<1>4. CASE Scan(r)
  BY <1>1, <1>4 DEF Scan, Snapshot, Holdings, Locked
<1>5. CASE \/ Abort(r) \/ CatalogFails(r) \/ PinFails(r) \/ SearchFails(r) \/ UndoFails(r)
           \/ Finish(r) \/ Unpin(r) \/ UnpinFails(r)
  BY <1>1, <1>5 DEF Abort, CatalogFails, PinFails, SearchFails, UndoFails, Finish, Unpin, UnpinFails,
                    Holdings, Locked
<1>6. CASE ReplaceCatalog(r)
  BY <1>1, <1>6 DEF ReplaceCatalog, Locked
<1>7. CASE RestoreCatalog(r) \/ RestoreFails(r)
  BY <1>1, <1>7 DEF RestoreCatalog, RestoreFails, Renamed, Catalogs, Holdings, Locked
<1>8. CASE PublishReceipt(r) \/ ReplaceSearch(r) \/ ReplaceUnnoted(r)
  BY <1>1, <1>8 DEF PublishReceipt, ReplaceSearch, ReplaceUnnoted, Holdings, Locked
<1>9. CASE UndoCatalog(r)
  BY <1>1, <1>9 DEF UndoCatalog, Renamed, Catalogs, Holdings, Locked
<1>10. CASE UndoSearch(r)
  BY <1>1, <1>10 DEF UndoSearch, Holdings, Locked
<1> QED
  BY <1>3, <1>4, <1>5, <1>6, <1>7, <1>8, <1>9, <1>10 DEF Refresh

\* Before a refresh publishes its receipt, it has published nothing.
LEMMA BeforeStep ==
  ASSUME PublicationTypeOK, FailureInv, NEW r \in Refreshes, Refresh(r), pc'[r] \in Before
  PROVE  ~refresh'[r].pinned /\ ~Published(r)'
<1>1. /\ pc \in [Procs -> Locked \cup Ended \cup {"idle", "waiting", "built"}]
      /\ refresh \in [Refreshes -> Holdings] /\ r \in Procs
  BY DEF PublicationTypeOK, Procs
<1>2. Begin(r) \/ Scan(r) \/ ReplaceCatalog(r) \/ CatalogFails(r)
  BY <1>1 DEF Before, To, At, Leave, Return, Refresh, Begin, Scan, Abort, ReplaceCatalog, CatalogFails, RestoreCatalog,
             RestoreFails, PublishReceipt, PinFails, ReplaceSearch, ReplaceUnnoted, Finish,
             SearchFails, UndoCatalog, UndoSearch, UndoFails, Unpin, UnpinFails
<1> QED
  BY <1>1, <1>2
  DEF FailureInv, NothingPublished, Before, Published, Holdings, At, private, Begin, Scan,
      ReplaceCatalog, CatalogFails

\* The new catalog of a refresh is there between two of its points only.
LEMMA WithoutStep ==
  ASSUME PublicationTypeOK, FailureInv, NEW r \in Refreshes, Refresh(r), pc'[r] \in Without,
         catalog' # NoFile
  PROVE  catalog'.id # <<r, "new">>
<1>1. /\ pc \in [Procs -> Locked \cup Ended \cup {"idle", "waiting", "built"}]
      /\ refresh \in [Refreshes -> Holdings] /\ catalog \in Catalogs \cup {NoFile}
      /\ Old(r) \in Catalogs \cup {NoFile} /\ r \in Procs
  BY DEF PublicationTypeOK, Procs, Holdings, Old
<1> USE DEF To, At, Leave, Return, files, private, Without
<1>2. \/ RestoreCatalog(r) \/ UndoCatalog(r)
      \/ Begin(r) \/ Scan(r) \/ Abort(r) \/ UndoSearch(r) \/ (At(r, "unpin") /\ Unpin(r))
  BY <1>1 DEF Refresh, Begin, Scan, Abort, ReplaceCatalog, CatalogFails, RestoreCatalog,
             RestoreFails, PublishReceipt, PinFails, ReplaceSearch, ReplaceUnnoted, Finish,
             SearchFails, UndoCatalog, UndoSearch, UndoFails, Unpin, UnpinFails
<1>3. CASE RestoreCatalog(r) \/ UndoCatalog(r)
  BY <1>1, <1>3 DEF RestoreCatalog, UndoCatalog, Renamed, Catalogs
<1>4. CASE Begin(r) \/ Scan(r) \/ Abort(r) \/ UndoSearch(r) \/ (At(r, "unpin") /\ Unpin(r))
  BY <1>1, <1>4 DEF FailureInv, NoNewCatalog, Begin, Scan, Abort, UndoSearch, Unpin
<1> QED
  BY <1>2, <1>3, <1>4

\* A refresh fails at a point where it has taken back what it published.
LEMMA FailsClean ==
  ASSUME PublicationTypeOK, ReceiptInv, FailureInv, NEW r \in Refreshes, Refresh(r), Failed(r)'
  PROVE  /\ refresh'[r].pinned => r \notin receipts'
         /\ search' # NoFile => search'.gen # r
<1>1. /\ pc \in [Procs -> Locked \cup Ended \cup {"idle", "waiting", "built"}]
      /\ refresh \in [Refreshes -> Holdings] /\ r \in Procs
  BY DEF PublicationTypeOK, Procs
<1> USE DEF To, At, Leave, Return, files, Failed
<1>2. Abort(r) \/ RestoreCatalog(r) \/ (pc[r] = "unpin" /\ Unpin(r))
  BY <1>1 DEF private, Refresh, Begin, Scan, Abort, ReplaceCatalog, CatalogFails, RestoreCatalog,
             RestoreFails, PublishReceipt, PinFails, ReplaceSearch, ReplaceUnnoted, Finish,
             SearchFails, UndoCatalog, UndoSearch, UndoFails, Unpin, UnpinFails
<1>3. CASE Abort(r) \/ RestoreCatalog(r)
  <2>1. /\ pc[r] \in Before /\ UNCHANGED <<search, receipts>>
        /\ refresh'[r].pinned = refresh[r].pinned
    BY <1>1, <1>3 DEF Abort, RestoreCatalog, Before, Holdings
  <2> QED
    BY <2>1 DEF FailureInv, NothingPublished, ReceiptInv, OwnIndex
<1>4. CASE pc[r] = "unpin" /\ Unpin(r)
  <2>1. /\ search' = search /\ refresh'[r].pinned = refresh[r].pinned
        /\ refresh'[r].unnoted = refresh[r].unnoted
        /\ receipts' = IF refresh[r].pinned THEN receipts \ {r} ELSE receipts
    BY <1>1, <1>4 DEF Unpin, Holdings
  <2> QED
    BY <1>4, <2>1 DEF ReceiptInv, OwnIndex
<1> QED
  BY <1>2, <1>3, <1>4

LEMMA RefreshFailureStep ==
  ASSUME PublicationTypeOK, ReceiptInv, FailureInv, NEW r \in Refreshes, Refresh(r)
  PROVE  FailureInv'
<1>1. /\ \A q \in Refreshes \ {r} : pc'[q] = pc[q] /\ refresh'[q] = refresh[q]
  BY RefreshMoves DEF Procs
<1>2. \A q \in Refreshes \ {r} : Failed(q)' = Failed(q) /\ Published(q)' = Published(q)
  BY <1>1 DEF Failed, Published
<1>3. \A q \in Refreshes \ {r} : refresh[q].search = NoFile
  <2>1. \A q \in Refreshes \ {r} : pc[q] \notin Locked
    BY RefreshEffect, Exclusive, NobodyLocked DEF Procs
  <2> QED
    BY <2>1 DEF FailureInv, FoundOfOthers
<1>4. NothingPublished'
  BY <1>1, <1>2, BeforeStep DEF FailureInv, NothingPublished
<1>5. NoNewCatalog'
  <2>1. \A q \in Refreshes \ {r} : pc'[q] \in Without /\ catalog' # NoFile => catalog'.id # <<q, "new">>
    BY <1>1, RefreshEffect DEF FailureInv, NoNewCatalog
  <2> QED
    BY <2>1, WithoutStep DEF NoNewCatalog
<1>6. NothingLeft'
  <2>1. ASSUME NEW q \in Refreshes \ {r}, Failed(q)
        PROVE  /\ refresh'[q].pinned => q \notin receipts'
               /\ search' # NoFile => search'.gen # q
    BY <1>1, <2>1, RefreshEffect DEF FailureInv, NothingLeft, FoundOfOthers
  <2> QED
    BY <1>2, <2>1, FailsClean DEF NothingLeft
<1>7. FoundOfOthers'
  <2>1. \A q \in Refreshes \ {r} : refresh'[q].search = NoFile
    BY <1>1, <1>3
  <2>2. ASSUME refresh'[r].search # NoFile
        PROVE  /\ pc'[r] \in Locked
               /\ \A q \in Refreshes : Failed(q)' => refresh'[r].search.gen # q
    <3>1. pc'[r] \in Locked /\ refresh'[r].search \in {refresh[r].search, search}
      BY <2>2, RefreshEffect
    <3>2. ~Failed(r)'
      BY <3>1 DEF Failed, Locked
    <3>3. ASSUME NEW q \in Refreshes \ {r}, Failed(q)
          PROVE  refresh'[r].search.gen # q
      BY <2>2, <3>1, <3>3 DEF FailureInv, NothingLeft, FoundOfOthers
    <3> QED
      BY <1>2, <3>1, <3>2, <3>3
  <2> QED
    BY <2>1, <2>2 DEF FoundOfOthers
<1> QED
  BY <1>4, <1>5, <1>6, <1>7 DEF FailureInv

\* A refresh that reports failure, its rollback having worked, leaves no receipt, no index
\* and no new catalog of its own, and nobody puts them back (rebuild_and_publish_indexes).
THEOREM FailureLeavesNothing == PublicationSpec => []FailedLeavesNothing
<1>1. PublicationTypeOK /\ ReceiptInv /\ [PublicationNext]_publicationVars => ReceiptInv'
  BY ReceiptStep
<1>2. PublicationTypeOK /\ ReceiptInv /\ FailureInv /\ [PublicationNext]_publicationVars => FailureInv'
  BY OtherFailureStep, RefreshFailureStep DEF PublicationNext
<1>3. FailureInv => FailedLeavesNothing
  BY DEF FailureInv, NothingLeft, NoNewCatalog, Without, Failed, FailedLeavesNothing, At
<1> QED
  BY <1>1, <1>2, <1>3, InitReceiptInv, InitFailureInv, PublicationTypeCorrect, PTL DEF PublicationSpec

-----------------------------------------------------------------------------
(* What a refresh that returned has published.                             *)

Finished == {r \in Refreshes : pc[r] = "done"}

CatalogServes(file) ==
  \A r \in Finished : file # NoFile /\ file.corpus >= refresh[r].imported

IndexServes(index) ==
  \A r \in Finished :
    index # NoFile /\ (index.gen \in Rebuilds \/ index.corpus >= refresh[r].imported)

\* Points at which a refresh needs the catalog it found.
Restoring == {"imported", "scanned", "catalog", "restore", "receipt", "search", "undo",
              "undo_search"}

\* The corpus grows only: a later refresh imports and scans no less.
NotOlder ==
  \A q \in Refreshes :
    /\ refresh[q].imported <= corpus
    /\ pc[q] \in Restoring =>
         \A r \in Finished : refresh[r].imported <= refresh[q].imported
    /\ pc[q] \in {"scanned", "catalog", "receipt", "search"} =>
         refresh[q].imported <= scanned[q]

\* What a refresh that holds the lock may make the published files of.
RefreshServes(q) ==
  /\ pc[q] \in Restoring => CatalogServes(Old(q))
  /\ pc[q] \in Keeping => IndexServes(refresh[q].search)
  /\ pc[q] \in {"catalog", "receipt", "search"} =>
       catalog # NoFile /\ catalog.corpus = refresh[q].imported
  /\ pc[q] = "search" /\ search # NoFile /\ search.gen = q => search.corpus = scanned[q]

SessionServes(w) == pc[w] \in {"body", "exchanged", "reverse"} => CatalogServes(stage[w])

Serving ==
  /\ CatalogServes(catalog) /\ IndexServes(search)
  /\ \A q \in Refreshes : RefreshServes(q)
  /\ \A w \in Writers : SessionServes(w)

KeptInv == NotOlder /\ (CleanRollbacks => Serving)

LEMMA InitKeptInv == PublicationInit => KeptInv
BY PublicationAssumption
DEF PublicationInit, KeptInv, NotOlder, Serving, CatalogServes, IndexServes, RefreshServes,
    SessionServes, Finished, Restoring, Keeping, Procs

\* Steps that replace no file and, for the processes that go on, nothing they hold.
LEMMA KeptUntouched ==
  ASSUME PublicationTypeOK, PublicationTypeOK', KeptInv, CleanRollbacks' => CleanRollbacks,
         UNCHANGED <<catalog, search>>, corpus <= corpus',
         \A r \in Refreshes :
           /\ refresh'[r].imported = refresh[r].imported /\ scanned'[r] = scanned[r]
           /\ \/ pc'[r] = pc[r] /\ refresh'[r] = refresh[r]
              \/ pc'[r] = "crashed" /\ pc[r] # "done",
         \A w \in Writers :
           pc'[w] \in {"body", "exchanged", "reverse"} =>
             pc[w] \in {"body", "exchanged", "reverse"} /\ stage'[w] = stage[w]
  PROVE  KeptInv'
<1>1. Finished' = Finished
  BY DEF Finished
<1>2. /\ \A r \in Refreshes : refresh[r].imported \in Nat
      /\ corpus \in Nat /\ corpus' \in Nat
  BY PublicationAssumption DEF PublicationTypeOK, Holdings
<1>3. \A file : CatalogServes(file) => CatalogServes(file)'
  BY <1>1 DEF CatalogServes, Finished
<1>4. \A index : IndexServes(index) => IndexServes(index)'
  BY <1>1 DEF IndexServes, Finished
<1>5. NotOlder'
  BY <1>1, <1>2 DEF KeptInv, NotOlder, Restoring, Finished
<1>6. ASSUME Serving
      PROVE  Serving'
  <2>1. CatalogServes(catalog)' /\ IndexServes(search)'
    BY <1>3, <1>4, <1>6 DEF Serving
  <2>2. \A q \in Refreshes : RefreshServes(q)'
    BY <1>3, <1>4, <1>6 DEF Serving, RefreshServes, Restoring, Keeping, Old
  <2>3. \A w \in Writers : SessionServes(w)'
    BY <1>3, <1>6 DEF Serving, SessionServes
  <2> QED
    BY <2>1, <2>2, <2>3 DEF Serving
<1> QED
  BY <1>5, <1>6 DEF KeptInv

LEMMA RenamedServes ==
  ASSUME NEW file \in Catalogs \cup {NoFile}, NEW id \in Identities, CatalogServes(file)
  PROVE  CatalogServes(Renamed(file, id))
<1>1. ASSUME NEW r \in Finished
      PROVE  /\ Renamed(file, id) # NoFile
             /\ Renamed(file, id).corpus >= refresh[r].imported
  <2>1. file # NoFile /\ file.corpus >= refresh[r].imported
    BY DEF CatalogServes
  <2>2. Renamed(file, id) \in Catalogs /\ Renamed(file, id).corpus = file.corpus
    BY <2>1 DEF Renamed, Catalogs
  <2> QED
    BY <2>1, <2>2, PublicationAssumption
<1> QED
  BY <1>1 DEF CatalogServes

LEMMA SessionKeptStep ==
  ASSUME PublicationTypeOK, PublicationTypeOK', KeptInv, CleanRollbacks' => CleanRollbacks,
         NEW w \in Writers, Session(w)
  PROVE  KeptInv'
<1>1. /\ pc \in [Procs -> Locked \cup Ended \cup {"idle", "waiting", "built"}]
      /\ stage \in [Writers -> Catalogs \cup {NoFile}] /\ catalog \in Catalogs \cup {NoFile}
      /\ corpus \in Nat /\ w \notin Refreshes /\ w \in Procs
  BY PublicationAssumption DEF PublicationTypeOK, Procs
<1>2. /\ \A q \in Procs : q # w => pc'[q] = pc[q]
      /\ refresh' = refresh
  BY SessionMoves
<1>3. UNCHANGED <<search, corpus, scanned>>
  BY DEF files, private, Session, Open, Stage, Discard, Exchange, Commit, Doubt, Reverse,
         ReverseFails
<1>4. \A r \in Refreshes : pc'[r] = pc[r]
  BY <1>1, <1>2 DEF Procs
<1>5. CASE Open(w) \/ Discard(w) \/ Doubt(w) \/ ReverseFails(w) \/ Commit(w)
  <2>1. /\ catalog' = catalog
        /\ \A v \in Writers : v # w => stage'[v] = stage[v]
        /\ pc'[w] \in {"body", "exchanged", "reverse"} =>
             pc[w] = "exchanged" /\ stage'[w] = stage[w]
    BY <1>1, <1>5 DEF files, private, At, To, Leave, Close, Open, Discard, Doubt, ReverseFails,
                      Commit
  <2>2. \A v \in Writers : v # w => pc'[v] = pc[v]
    BY <1>2 DEF Procs
  <2> QED
    BY <1>1, <1>2, <1>3, <1>4, <2>1, <2>2, KeptUntouched
<1>6. CASE Stage(w) \/ Exchange(w) \/ Reverse(w)
  <2>1. \A q \in Procs : q # w /\ (pc[w] \in Locked \/ LockFree) => pc[q] \notin Locked
    BY <1>1, Exclusive, NobodyLocked
  <2>2. pc[w] \in Locked \/ LockFree
    BY <1>6 DEF Stage, Exchange, Reverse, At, Locked
  <2>3. \A q \in Procs : q # w => pc'[q] \notin Locked
    BY <1>2, <2>1, <2>2
  <2>4. Finished' = Finished
    BY <1>4 DEF Finished
  <2>5. \A file : CatalogServes(file) => CatalogServes(file)'
    BY <1>2, <2>4 DEF CatalogServes
  <2>6. \A index : IndexServes(index) => IndexServes(index)'
    BY <1>2, <2>4 DEF IndexServes
  <2>7. NotOlder'
    BY <1>2, <1>3, <1>4, <2>4 DEF KeptInv, NotOlder, Restoring
  <2>8. ASSUME Serving
        PROVE  CatalogServes(catalog') /\ (pc'[w] \in {"body", "exchanged", "reverse"} =>
                                             CatalogServes(stage'[w]))
    <3>1. CatalogServes(catalog) /\ SessionServes(w)
      BY <2>8 DEF Serving
    <3>2. CASE Stage(w)
      BY <1>1, <3>1, <3>2 DEF Stage, Close, Leave, To, At
    <3>3. CASE Exchange(w)
      <4>1. CatalogServes(stage[w]) /\ stage'[w] = catalog
        BY <1>1, <3>1, <3>3 DEF Exchange, SessionServes, At
      <4>2. ASSUME NEW r \in Finished
            PROVE  catalog' # NoFile /\ catalog'.corpus >= refresh[r].imported
        <5>1. stage[w] # NoFile /\ stage[w].corpus >= refresh[r].imported
          BY <4>1 DEF CatalogServes
        <5>2. catalog' \in Catalogs
          BY <1>1, <3>3, FileParts DEF Exchange, Catalogs, Identities, Procs
        <5>3. catalog'.corpus = stage[w].corpus
          BY <3>3, <5>1 DEF Exchange, Version
        <5> QED
          BY <5>1, <5>2, <5>3, PublicationAssumption
      <4> QED
        BY <3>1, <4>1, <4>2 DEF CatalogServes
    <3>4. CASE Reverse(w)
      <4>1. CatalogServes(stage[w]) /\ catalog' = Renamed(stage[w], <<w, "old">>)
            /\ pc'[w] = "failed"
        BY <1>1, <3>1, <3>4 DEF Reverse, SessionServes, At, Close, Leave, To
      <4> QED
        BY <1>1, <4>1, RenamedServes DEF Identities, Procs
    <3> QED
      BY <1>6, <3>2, <3>3, <3>4
  <2>9. ASSUME Serving
        PROVE  Serving'
    <3>1. CatalogServes(catalog)' /\ IndexServes(search)'
      BY <1>3, <2>5, <2>6, <2>8, <2>9 DEF Serving
    <3>2. \A q \in Refreshes : RefreshServes(q)'
      BY <1>1, <2>3 DEF RefreshServes, Restoring, Keeping, Locked, Procs
    <3>3. \A v \in Writers : v # w => SessionServes(v)'
      BY <2>3 DEF SessionServes, Locked, Procs
    <3>4. SessionServes(w)'
      BY <2>5, <2>8, <2>9 DEF SessionServes
    <3> QED
      BY <3>1, <3>2, <3>3, <3>4 DEF Serving
  <2> QED
    BY <2>7, <2>9 DEF KeptInv
<1> QED
  BY <1>5, <1>6 DEF Session

\* A step of a refresh that does not return leaves the files and what it holds fit.
LEMMA RefreshServesStep ==
  ASSUME PublicationTypeOK, PublicationTypeOK', ReceiptInv, NotOlder, Serving, CleanRollbacks,
         RollbacksWorked', NEW r \in Refreshes, Refresh(r), Finished' = Finished,
         \A q \in Finished : refresh'[q].imported = refresh[q].imported
  PROVE  CatalogServes(catalog') /\ IndexServes(search') /\ RefreshServes(r)'
<1>1. /\ pc \in [Procs -> Locked \cup Ended \cup {"idle", "waiting", "built"}]
      /\ refresh \in [Refreshes -> Holdings] /\ refresh' \in [Refreshes -> Holdings]
      /\ catalog \in Catalogs \cup {NoFile} /\ search \in Indexes \cup {NoFile}
      /\ scanned \in [Refreshes \cup Rebuilds -> 0..MaxCorpus]
      /\ corpus \in Nat /\ r \in Procs /\ Old(r) \in Catalogs \cup {NoFile}
      /\ \A q \in Refreshes : refresh[q].imported \in Nat /\ scanned[q] \in Nat
  BY PublicationAssumption DEF PublicationTypeOK, Procs, Holdings, Old
<1>2. CatalogServes(catalog) /\ IndexServes(search) /\ RefreshServes(r)
  BY DEF Serving
<1>3. \A file : CatalogServes(file) => CatalogServes(file)'
  BY DEF CatalogServes
<1>4. \A index : IndexServes(index) => IndexServes(index)'
  BY DEF IndexServes
<1>5. pc'[r] # "broken"
  BY <1>1 DEF RollbacksWorked, At
<1>6. \A q \in Finished : q \in Refreshes /\ q # r
  BY DEF Finished, Refresh, Begin, Scan, Abort, ReplaceCatalog, CatalogFails, RestoreCatalog,
         RestoreFails, PublishReceipt, PinFails, ReplaceSearch, ReplaceUnnoted, Finish,
         SearchFails, UndoCatalog, UndoSearch, UndoFails, Unpin, UnpinFails, At
<1> USE DEF files, private, To, At, Leave, Return
<1>7. CASE Begin(r)
  <2>1. UNCHANGED <<catalog, search>> /\ pc'[r] = "imported" /\ Old(r)' = catalog
    BY <1>1, <1>7 DEF Begin, Old, Holdings
  <2> QED
    BY <1>2, <1>3, <2>1 DEF RefreshServes, Keeping
<1>8. CASE Scan(r)
  <2>1. /\ UNCHANGED <<catalog, search>> /\ pc[r] = "imported" /\ pc'[r] = "scanned"
        /\ Old(r)' = Old(r) /\ refresh'[r].search = Snapshot
    BY <1>1, <1>8 DEF Scan, Old, Holdings
  <2>2. IndexServes(Snapshot)
    BY <1>2 DEF ReceiptInv, SearchUsable, Snapshot, IndexServes
  <2> QED
    BY <1>2, <1>3, <1>4, <2>1, <2>2 DEF RefreshServes, Keeping, Restoring
<1>9. CASE Abort(r) \/ RestoreCatalog(r) \/ RestoreFails(r) \/ Unpin(r) \/ UnpinFails(r)
  <2>1. search' = search /\ pc'[r] = "failed"
    BY <1>1, <1>5, <1>9 DEF Abort, RestoreCatalog, RestoreFails, Unpin, UnpinFails
  <2>2. CatalogServes(catalog')
    <3>1. CASE RestoreCatalog(r)
      <4>1. catalog' = Renamed(Old(r), <<r, "old">>) /\ CatalogServes(Old(r))
        BY <1>2, <3>1 DEF RestoreCatalog, RefreshServes, Restoring
      <4> QED
        BY <1>1, <4>1, RenamedServes DEF Identities
    <3>2. CASE ~RestoreCatalog(r)
      BY <1>1, <1>2, <1>5, <1>9, <3>2 DEF Abort, RestoreFails, Unpin, UnpinFails
    <3> QED
      BY <3>1, <3>2
  <2> QED
    BY <1>2, <2>1, <2>2 DEF RefreshServes, Keeping, Restoring
<1>10. CASE ReplaceCatalog(r)
  <2>1. /\ search' = search /\ refresh' = refresh /\ pc[r] = "scanned" /\ pc'[r] = "catalog"
        /\ catalog' = [id |-> <<r, "new">>, rows |-> Rows(Old(r)), corpus |-> refresh[r].imported]
    BY <1>1, <1>10 DEF ReplaceCatalog
  <2>2. catalog' \in Catalogs /\ catalog' # NoFile /\ catalog'.corpus = refresh[r].imported
    BY <1>1, <2>1, FileParts, PublicationAssumption DEF Catalogs, Identities, Holdings
  <2>3. CatalogServes(catalog')
    BY <1>1, <1>6, <2>1, <2>2 DEF CatalogServes, NotOlder, Restoring
  <2> QED
    BY <1>2, <1>3, <1>4, <2>1, <2>2, <2>3 DEF RefreshServes, Keeping, Restoring, Old
<1>11. CASE \/ CatalogFails(r) \/ PublishReceipt(r) \/ PinFails(r) \/ SearchFails(r)
            \/ UndoFails(r)
  <2>1. /\ UNCHANGED <<catalog, search, scanned>> /\ Old(r)' = Old(r)
        /\ refresh'[r].search = refresh[r].search
        /\ refresh'[r].imported = refresh[r].imported
        /\ \/ pc[r] \in {"scanned", "catalog"} /\ pc'[r] = "restore"
           \/ pc[r] = "catalog" /\ pc'[r] = "receipt"
           \/ pc[r] \in {"catalog", "receipt", "search"} /\ pc'[r] = "undo"
           \/ pc'[r] = "unpin_only"
    BY <1>1, <1>11 DEF CatalogFails, PublishReceipt, PinFails, SearchFails, UndoFails, Old, Holdings
  <2> QED
    BY <1>2, <1>3, <1>4, <2>1 DEF RefreshServes, Keeping, Restoring
<1>12. CASE ReplaceSearch(r) \/ ReplaceUnnoted(r)
  <2>1. /\ UNCHANGED <<catalog, scanned>> /\ Old(r)' = Old(r)
        /\ refresh'[r].search = refresh[r].search
        /\ refresh'[r].imported = refresh[r].imported
        /\ pc[r] = "receipt" /\ pc'[r] \in {"search", "undo"}
        /\ search' = [gen |-> r, corpus |-> scanned[r]]
    BY <1>1, <1>12 DEF ReplaceSearch, ReplaceUnnoted, Old, Holdings
  <2>2. search' # NoFile /\ search'.corpus = scanned[r]
    BY <1>1, <2>1, PublicationAssumption DEF Indexes
  <2>3. \A q \in Finished : search'.corpus >= refresh[q].imported
    <3>1. /\ refresh[r].imported <= scanned[r]
          /\ \A q \in Finished : refresh[q].imported <= refresh[r].imported
      BY <2>1 DEF NotOlder, Restoring
    <3> QED
      BY <1>1, <1>6, <2>2, <3>1
  <2>4. IndexServes(search')
    BY <2>2, <2>3 DEF IndexServes
  <2> QED
    BY <1>2, <1>3, <1>4, <2>1, <2>2, <2>4 DEF RefreshServes, Keeping, Restoring
<1>13. CASE UndoCatalog(r)
  <2>1. /\ search' = search /\ pc[r] = "undo" /\ pc'[r] = "undo_search"
        /\ refresh'[r].search = refresh[r].search /\ Old(r)' = Old(r)
        /\ catalog' = IF HadPair(r) THEN Renamed(Old(r), <<r, "old">>) ELSE NoFile
    BY <1>1, <1>13 DEF UndoCatalog, Holdings, Old
  <2>2. CatalogServes(Old(r)) /\ IndexServes(refresh[r].search)
    BY <1>2, <2>1 DEF RefreshServes, Keeping, Restoring
  <2>3. CatalogServes(catalog')
    <3>1. CASE HadPair(r)
      BY <1>1, <2>1, <2>2, <3>1, RenamedServes DEF Identities
    <3>2. CASE ~HadPair(r)
      BY <2>2, <3>2 DEF HadPair, CatalogServes, IndexServes
    <3> QED
      BY <3>1, <3>2
  <2> QED
    BY <1>2, <1>3, <1>4, <2>1, <2>2, <2>3 DEF RefreshServes, Keeping, Restoring
<1>14. CASE UndoSearch(r)
  <2>1. /\ catalog' = catalog /\ pc[r] = "undo_search" /\ pc'[r] = "unpin"
        /\ search' = IF ~refresh[r].placed THEN search
                     ELSE IF HadPair(r) THEN refresh[r].search ELSE NoFile
    BY <1>1, <1>14 DEF UndoSearch
  <2>2. CatalogServes(Old(r)) /\ IndexServes(refresh[r].search)
    BY <1>2, <2>1 DEF RefreshServes, Keeping, Restoring
  <2>3. IndexServes(search')
    BY <1>2, <2>1, <2>2 DEF IndexServes, CatalogServes, HadPair
  <2> QED
    BY <1>2, <2>1, <2>3 DEF RefreshServes, Keeping, Restoring
<1>15. CASE Finish(r)
  BY <1>1, <1>6, <1>15 DEF Finish, Finished
<1> QED
  BY <1>7, <1>8, <1>9, <1>10, <1>11, <1>12, <1>13, <1>14, <1>15 DEF Refresh

LEMMA NotOlderStep ==
  ASSUME PublicationTypeOK, NotOlder, NEW r \in Refreshes, Refresh(r)
  PROVE  /\ NotOlder' /\ \A q \in Finished : refresh'[q].imported = refresh[q].imported
         /\ Finish(r) \/ Finished' = Finished
<1>1. /\ pc \in [Procs -> Locked \cup Ended \cup {"idle", "waiting", "built"}]
      /\ refresh \in [Refreshes -> Holdings]
      /\ scanned \in [Refreshes \cup Rebuilds -> 0..MaxCorpus] /\ r \in Procs
      /\ corpus \in Nat /\ \A q \in Refreshes : refresh[q].imported \in Nat
  BY PublicationAssumption DEF PublicationTypeOK, Procs, Holdings
<1>2. /\ \A q \in Procs : q # r => pc'[q] = pc[q]
      /\ \A q \in Refreshes : q # r => refresh'[q] = refresh[q]
      /\ \A q \in Refreshes : q # r => pc'[q] = pc[q]
  BY RefreshMoves DEF Procs
<1>3. \A q \in Refreshes : q # r /\ (pc[r] \in Locked \/ LockFree) => pc[q] \notin Locked
  BY <1>1, Exclusive, NobodyLocked DEF Procs
<1>4. pc[r] # "done" /\ corpus' = corpus
  BY DEF files, private, Refresh, Begin, Scan, Abort, ReplaceCatalog, CatalogFails, RestoreCatalog,
         RestoreFails, PublishReceipt, PinFails, ReplaceSearch, ReplaceUnnoted, Finish,
         SearchFails, UndoCatalog, UndoSearch, UndoFails, Unpin, UnpinFails, At
<1> USE DEF files, private, To, At, Leave, Return
<1>5. CASE Finish(r)
  <2>1. /\ pc'[r] = "done" /\ pc[r] \in Locked /\ refresh'[r].imported = refresh[r].imported
        /\ scanned' = scanned
    BY <1>1, <1>5 DEF Finish, Holdings, Locked
  <2>2. \A q \in Refreshes : pc'[q] \notin Restoring /\ pc'[q] \notin Locked
    BY <1>2, <1>3, <2>1 DEF Locked, Restoring
  <2> QED
    BY <1>2, <1>4, <1>5, <2>1, <2>2 DEF NotOlder, Locked, Finished
<1>6. CASE ~Finish(r)
  <2>1. pc'[r] # "done"
    BY <1>1, <1>6 DEF Refresh, Begin, Scan, Abort, ReplaceCatalog, CatalogFails, RestoreCatalog,
         RestoreFails, PublishReceipt, PinFails, ReplaceSearch, ReplaceUnnoted,
         SearchFails, UndoCatalog, UndoSearch, UndoFails, Unpin, UnpinFails
  <2>2. Finished' = Finished
    BY <1>2, <1>4, <2>1 DEF Finished
  <2>3. \A q \in Finished : refresh'[q].imported = refresh[q].imported
    BY <1>2, <1>4 DEF Finished
  <2>4. \/ Begin(r) /\ refresh'[r].imported = corpus /\ scanned' = scanned
           /\ pc'[r] = "imported"
        \/ Scan(r) /\ refresh'[r].imported = refresh[r].imported /\ scanned'[r] = corpus
           /\ pc[r] = "imported" /\ \A q \in Refreshes : q # r => scanned'[q] = scanned[q]
        \/ /\ refresh'[r].imported = refresh[r].imported /\ scanned' = scanned
           /\ pc'[r] \in Restoring => pc[r] \in Restoring
           /\ pc'[r] \in {"scanned", "catalog", "receipt", "search"} =>
                pc[r] \in {"scanned", "catalog", "receipt", "search"}
    BY <1>1, <1>6
    DEF Refresh, Begin, Scan, Abort, ReplaceCatalog, CatalogFails, RestoreCatalog,
        RestoreFails, PublishReceipt, PinFails, ReplaceSearch, ReplaceUnnoted, SearchFails,
        UndoCatalog, UndoSearch, UndoFails, Unpin, UnpinFails, Holdings, Restoring
  <2>5. ASSUME NEW q \in Refreshes
        PROVE  /\ refresh'[q].imported <= corpus
               /\ pc'[q] \in Restoring =>
                    \A f \in Finished : refresh[f].imported <= refresh'[q].imported
               /\ pc'[q] \in {"scanned", "catalog", "receipt", "search"} =>
                    refresh'[q].imported <= scanned'[q]
    <3>1. \A f \in Finished : refresh[f].imported <= corpus
      BY DEF NotOlder, Finished
    <3>2. CASE q = r
      BY <1>1, <2>4, <3>1, <3>2 DEF NotOlder, Restoring
    <3>3. CASE q # r
      BY <1>2, <2>4, <3>3 DEF NotOlder
    <3> QED
      BY <3>2, <3>3
  <2> QED
    BY <1>4, <2>2, <2>3, <2>5 DEF NotOlder
<1> QED
  BY <1>5, <1>6

LEMMA RefreshKeptStep ==
  ASSUME PublicationTypeOK, PublicationTypeOK', ReceiptInv, KeptInv,
         CleanRollbacks' => CleanRollbacks, NEW r \in Refreshes, Refresh(r)
  PROVE  KeptInv'
<1>1. /\ NotOlder' /\ \A q \in Finished : refresh'[q].imported = refresh[q].imported
      /\ Finish(r) \/ Finished' = Finished
  BY NotOlderStep DEF KeptInv
<1>2. ASSUME CleanRollbacks'
      PROVE  Serving /\ CleanRollbacks /\ RollbacksWorked'
  BY <1>2 DEF KeptInv, CleanRollbacks
<1>3. /\ pc \in [Procs -> Locked \cup Ended \cup {"idle", "waiting", "built"}]
      /\ refresh \in [Refreshes -> Holdings] /\ catalog \in Catalogs \cup {NoFile}
      /\ corpus \in Nat /\ r \in Procs
  BY DEF PublicationTypeOK, Procs
<1>4. /\ \A q \in Refreshes : q # r => pc'[q] = pc[q] /\ pc'[q] \notin Locked
      /\ \A w \in Writers : pc'[w] = pc[w] /\ pc'[w] \notin Locked
  <2>1. pc[r] \in Locked \/ LockFree
    BY DEF Refresh, Begin, Scan, Abort, ReplaceCatalog, CatalogFails, RestoreCatalog,
         RestoreFails, PublishReceipt, PinFails, ReplaceSearch, ReplaceUnnoted, Finish,
         SearchFails, UndoCatalog, UndoSearch, UndoFails, Unpin, UnpinFails, At, Locked
  <2>2. \A q \in Procs : q # r => pc[q] \notin Locked
    BY <1>3, <2>1, Exclusive, NobodyLocked
  <2>3. \A w \in Writers : w # r
    BY PublicationAssumption
  <2> QED
    BY <2>2, <2>3, RefreshMoves DEF Procs
<1>5. ASSUME CleanRollbacks'
      PROVE  /\ CatalogServes(catalog)' /\ IndexServes(search)' /\ RefreshServes(r)'
  <2>1. CASE ~Finish(r)
    <3>1. Finished' = Finished
      BY <1>1, <2>1
    <3>2. CatalogServes(catalog') /\ IndexServes(search') /\ RefreshServes(r)'
      BY <1>1, <1>2, <1>5, <3>1, RefreshServesStep DEF KeptInv
    <3>3. CatalogServes(catalog') => CatalogServes(catalog)'
      BY <1>1, <3>1 DEF CatalogServes
    <3>4. IndexServes(search') => IndexServes(search)'
      BY <1>1, <3>1 DEF IndexServes
    <3> QED
      BY <3>2, <3>3, <3>4
  <2>2. CASE Finish(r)
    <3>1. /\ UNCHANGED <<catalog, search, scanned>> /\ pc'[r] = "done" /\ pc[r] = "search"
          /\ refresh'[r].imported = refresh[r].imported /\ search # NoFile /\ search.gen = r
      BY <1>3, <2>2 DEF Finish, PairValid, Return, Leave, To, At, files, Holdings
    <3>2. CatalogServes(catalog) /\ IndexServes(search) /\ RefreshServes(r)
      BY <1>2, <1>5 DEF Serving
    <3>3. Finished' = Finished \cup {r}
      BY <1>4, <3>1 DEF Finished
    <3>4. refresh[r].imported \in Nat /\ scanned[r] \in Nat
      BY PublicationAssumption DEF PublicationTypeOK, Holdings
    <3>5. catalog # NoFile /\ catalog.corpus >= refresh[r].imported
      BY <3>1, <3>2, <3>4 DEF RefreshServes
    <3>6. search.corpus >= refresh[r].imported
      BY <3>1, <3>2, <3>4 DEF RefreshServes, KeptInv, NotOlder
    <3>7. CatalogServes(catalog)'
      BY <1>1, <3>1, <3>2, <3>3, <3>5 DEF CatalogServes
    <3>8. IndexServes(search)'
      BY <1>1, <3>1, <3>2, <3>3, <3>6 DEF IndexServes
    <3>9. RefreshServes(r)'
      BY <3>1 DEF RefreshServes, Restoring, Keeping
    <3> QED
      BY <3>7, <3>8, <3>9
  <2> QED
    BY <2>1, <2>2
<1>6. /\ \A q \in Refreshes : q # r => RefreshServes(q)'
      /\ \A w \in Writers : SessionServes(w)'
  BY <1>4 DEF RefreshServes, SessionServes, Locked, Restoring, Keeping
<1> QED
  BY <1>1, <1>5, <1>6 DEF KeptInv, Serving

LEMMA OtherKeptStep ==
  ASSUME PublicationTypeOK, PublicationTypeOK', KeptInv, CleanRollbacks' => CleanRollbacks,
         \/ \E b \in Rebuilds : Build(b) \/ Replace(b) \/ BuildFails(b)
         \/ \E p \in Procs : Crash(p)
         \/ Grow \/ UNCHANGED publicationVars
  PROVE  KeptInv'
<1>1. /\ pc \in [Procs -> Locked \cup Ended \cup {"idle", "waiting", "built"}]
      /\ refresh \in [Refreshes -> Holdings] /\ corpus \in Nat
      /\ scanned \in [Refreshes \cup Rebuilds -> 0..MaxCorpus]
  BY PublicationAssumption DEF PublicationTypeOK
<1> USE PublicationAssumption DEF Procs, files, private, To, At
<1>2. ASSUME NEW b \in Rebuilds, Build(b) \/ BuildFails(b)
      PROVE  KeptInv'
  <2>1. /\ UNCHANGED <<catalog, search, corpus, stage, refresh>>
        /\ \A q \in Refreshes \cup Writers : pc'[q] = pc[q]
        /\ \A q \in Refreshes : scanned'[q] = scanned[q]
    BY <1>1, <1>2 DEF Build, BuildFails
  <2> QED
    BY <1>1, <2>1, KeptUntouched
<1>3. ASSUME NEW b \in Rebuilds, Replace(b)
      PROVE  KeptInv'
  <2>1. /\ UNCHANGED <<catalog, corpus, stage, refresh, scanned>>
        /\ \A q \in Refreshes \cup Writers : pc'[q] = pc[q]
        /\ search' = [gen |-> b, corpus |-> scanned[b]]
    BY <1>1, <1>3 DEF Replace
  <2>2. Finished' = Finished
    BY <2>1 DEF Finished
  <2>3. NotOlder'
    BY <2>1, <2>2 DEF KeptInv, NotOlder
  <2>4. search' \in Indexes /\ search' # NoFile /\ search'.gen = b /\ b \notin Refreshes
    BY <1>1, <2>1 DEF Indexes
  <2>5. ASSUME Serving
        PROVE  Serving'
    <3>1. CatalogServes(catalog)' /\ IndexServes(search)'
      BY <2>1, <2>2, <2>4, <2>5 DEF Serving, CatalogServes, IndexServes
    <3>2. \A q \in Refreshes : RefreshServes(q)'
      BY <2>1, <2>2, <2>4, <2>5 DEF Serving, RefreshServes, CatalogServes, IndexServes, Old
    <3>3. \A w \in Writers : SessionServes(w)'
      BY <2>1, <2>2, <2>5 DEF Serving, SessionServes, CatalogServes
    <3> QED
      BY <3>1, <3>2, <3>3 DEF Serving
  <2> QED
    BY <2>3, <2>5 DEF KeptInv
<1>4. ASSUME NEW p \in Procs, Crash(p)
      PROVE  KeptInv'
  <2>1. UNCHANGED <<catalog, search, stage, scanned, corpus>>
    BY <1>4 DEF Crash
  <2>2. pc' = [pc EXCEPT ![p] = "crashed"] /\ pc[p] # "done"
    BY <1>4 DEF Crash, Ended
  <2>3. ASSUME NEW r \in Refreshes
        PROVE  /\ refresh'[r].imported = refresh[r].imported
               /\ \/ pc'[r] = pc[r] /\ refresh'[r] = refresh[r]
                  \/ pc'[r] = "crashed" /\ pc[r] # "done"
    <3>1. refresh'[r] = IF r = p THEN [refresh[r] EXCEPT !.catalog = NoFile, !.search = NoFile]
                                 ELSE refresh[r]
      BY <1>4 DEF Crash
    <3>2. CASE r = p
      BY <1>1, <2>2, <3>1, <3>2 DEF Holdings
    <3>3. CASE r # p
      BY <1>1, <2>2, <3>1, <3>3
    <3> QED
      BY <3>2, <3>3
  <2>4. \A w \in Writers : pc'[w] \in {pc[w], "crashed"}
    BY <1>1, <2>2
  <2> QED
    BY <1>1, <2>1, <2>3, <2>4, KeptUntouched
<1>5. CASE Grow \/ UNCHANGED publicationVars
  BY <1>1, <1>5, KeptUntouched DEF Grow, publicationVars
<1> QED
  BY <1>2, <1>3, <1>4, <1>5

\* What a refresh has published stays and never gets older, whatever later refreshes
\* fail and roll back, or die, as long as rollbacks work and know what to undo
\* (rebuild_and_publish_indexes); a standalone rebuild is excepted.
THEOREM PublishedIsKept == PublicationSpec => []RefreshesKept
<1>1. PublicationTypeOK /\ ReceiptInv /\ [PublicationNext]_publicationVars => ReceiptInv'
  BY ReceiptStep
<1>2. /\ PublicationTypeOK /\ PublicationTypeOK' /\ ReceiptInv /\ KeptInv
      /\ [PublicationNext]_publicationVars
      => KeptInv'
  BY CleanBefore, SessionKeptStep, RefreshKeptStep, OtherKeptStep DEF PublicationNext
<1>3. KeptInv => RefreshesKept
  BY DEF KeptInv, Serving, CatalogServes, IndexServes, Finished, RefreshesKept, At
<1> QED
  BY <1>1, <1>2, <1>3, InitReceiptInv, InitKeptInv, PublicationTypeCorrect, PTL
  DEF PublicationSpec


-----------------------------------------------------------------------------
(* CatalogContents: the tables.                                            *)

\* The rows of the sources and of the artifacts, what an import has listed, and what a
\* discovery has found.
SourceRows == [video : Videos, slug : Slugs, url : BOOLEAN]

ArtifactRows == [video : Videos, kind : Kinds, bytes : Contents, slug : Slugs, place : Places]

Items == [place : Places, slug : Slugs, bytes : Contents]

Feedback == [video : Videos, title : Titles \cup {None}]

\* The rows of sources and artifacts are of videos that are known.
TablesOK(t) ==
  /\ t = [videos |-> t.videos, sources |-> t.sources, artifacts |-> t.artifacts, rows |-> t.rows]
  /\ t.videos \in [Videos -> Titles \cup {"", None}]
  /\ t.sources \subseteq SourceRows /\ t.artifacts \subseteq ArtifactRows
  /\ t.rows = [v \in Videos |-> t.rows[v]]
  /\ \A a \in t.artifacts : t.videos[a.video] # None

\* The row of a video is the one its tables give.
RowAgrees(t, v) == t.rows[v] = IF t.videos[v] = None THEN None ELSE RowOf(t, v)

\* Videos outside a set have the row they should have; those in it are known.
RowsBut(t, touched) ==
  /\ \A v \in Videos \ touched : RowAgrees(t, v)
  /\ \A v \in touched : v \in Videos /\ t.videos[v] # None

\* Whatever t knows u knows.
Keeps(t, u) ==
  /\ \A v \in Videos : t.videos[v] # None => u.videos[v] # None
  /\ \A s \in t.sources : s.url => s \in u.sources
  /\ \A a \in t.artifacts :
       \E b \in u.artifacts : b.video = a.video /\ b.kind = a.kind /\ b.bytes = a.bytes

\* None is none of the values it stands for the lack of.
LEMMA NoneIs ==
  /\ \A v \in Videos : v # None
  /\ \A f \in Feeds : f # None
  /\ \A c \in Contents : c # None
  /\ \A s \in Slugs : s # None
  /\ None # ""
  /\ \A x \in Titles : x # None
BY ContentsAssumption

\* Tables know what they know,
LEMMA KeepsItself ==
  ASSUME NEW t PROVE Keeps(t, t)
BY DEF Keeps

\* and what is kept twice is kept.
LEMMA KeepsOn ==
  ASSUME NEW t, NEW u, NEW w, Keeps(t, u), Keeps(u, w)
  PROVE  Keeps(t, w)
<1>1. \A s \in t.sources : s.url => s \in w.sources
  BY DEF Keeps
<1>2. \A a \in t.artifacts :
        \E b \in w.artifacts : b.video = a.video /\ b.kind = a.kind /\ b.bytes = a.bytes
  <2> SUFFICES ASSUME NEW a \in t.artifacts
               PROVE  \E b \in w.artifacts : b.video = a.video /\ b.kind = a.kind /\ b.bytes = a.bytes
    OBVIOUS
  <2>1. PICK b \in u.artifacts : b.video = a.video /\ b.kind = a.kind /\ b.bytes = a.bytes
    BY DEF Keeps
  <2> QED
    BY <2>1 DEF Keeps
<1> QED
  BY <1>1, <1>2 DEF Keeps

\* _upsert_video_values: one title may change, and an unknown title changes none that is known.
LEMMA WithVideoIs ==
  ASSUME NEW t, TablesOK(t), NEW video \in Videos, NEW title \in Titles \cup {None},
         NEW u, u = WithVideo(t, video, title)
  PROVE  /\ TablesOK(u) /\ Keeps(t, u)
         /\ u.sources = t.sources /\ u.artifacts = t.artifacts /\ u.rows = t.rows
         /\ u.videos[video] # None
         /\ title # None => u.videos[video] = title
         /\ title = None /\ t.videos[video] # None => u.videos = t.videos
         /\ t.videos[video] = title /\ title # None => u.videos = t.videos
         /\ \A v \in Videos \ {video} : u.videos[v] = t.videos[v]
<1> DEFINE new == IF title = None THEN (IF t.videos[video] = None THEN "" ELSE t.videos[video])
                  ELSE title
<1>1. u = [videos |-> [t.videos EXCEPT ![video] = new], sources |-> t.sources,
           artifacts |-> t.artifacts, rows |-> t.rows]
  BY DEF WithVideo, TablesOK
<1>2. new \in Titles \cup {"", None} /\ new # None
      /\ (title # None => new = title)
      /\ (title = None /\ t.videos[video] # None => new = t.videos[video])
  BY NoneIs DEF TablesOK
<1> HIDE DEF new
<1>3. /\ u.videos = [t.videos EXCEPT ![video] = new] /\ u.sources = t.sources
      /\ u.artifacts = t.artifacts /\ u.rows = t.rows
      /\ u = [videos |-> u.videos, sources |-> u.sources, artifacts |-> u.artifacts, rows |-> u.rows]
  BY <1>1
<1>4. \A v \in Videos : u.videos[v] = IF v = video THEN new ELSE t.videos[v]
  BY <1>3 DEF TablesOK
<1>5. new = t.videos[video] => u.videos = t.videos
  BY <1>3 DEF TablesOK
<1>6. TablesOK(u)
  <2>1. u.videos \in [Videos -> Titles \cup {"", None}]
    BY <1>2, <1>3 DEF TablesOK
  <2>2. \A a \in u.artifacts : u.videos[a.video] # None
    <3>1. ASSUME NEW a \in t.artifacts
          PROVE  a.video \in Videos /\ t.videos[a.video] # None
      BY DEF TablesOK, ArtifactRows
    <3> QED
      BY <1>2, <1>3, <1>4, <3>1
  <2>3. u.sources \subseteq SourceRows /\ u.artifacts \subseteq ArtifactRows
        /\ u.rows = [v \in Videos |-> u.rows[v]]
    BY <1>3 DEF TablesOK
  <2> QED
    BY <1>3, <2>1, <2>2, <2>3 DEF TablesOK
<1>7. Keeps(t, u)
  BY <1>2, <1>3, <1>4 DEF Keeps
<1> QED
  BY <1>2, <1>3, <1>4, <1>5, <1>6, <1>7

\* A row of the sources.
Entry(video, slug, url) == [video |-> video, slug |-> slug, url |-> url]

\* Its fields.
LEMMA EntryIs ==
  ASSUME NEW video, NEW slug, NEW url
  PROVE  /\ Entry(video, slug, url).video = video /\ Entry(video, slug, url).slug = slug
         /\ video \in Videos /\ slug \in Slugs /\ url \in BOOLEAN => Entry(video, slug, url) \in SourceRows
BY DEF Entry, SourceRows

\* Rows with an address are determined by the video and the source.
LEMMA EntryOf ==
  ASSUME NEW s \in SourceRows
  PROVE  s.video \in Videos /\ s.slug \in Slugs /\ (s.url => s = Entry(s.video, s.slug, TRUE))
<1>1. s = [video |-> s.video, slug |-> s.slug, url |-> s.url] /\ s.url \in BOOLEAN
      /\ s.video \in Videos /\ s.slug \in Slugs
  BY DEF SourceRows
<1>2. ASSUME s.url PROVE s.url = TRUE
  BY <1>1, <1>2
<1> QED
  BY <1>1, <1>2 DEF Entry

\* _upsert_source: the video has one source more, and addresses stay.
LEMMA WithSourceIs ==
  ASSUME NEW t, TablesOK(t), NEW video \in Videos, NEW slug \in Slugs, NEW found \in BOOLEAN,
         NEW u, u = WithSource(t, video, slug, found)
  PROVE  /\ TablesOK(u) /\ Keeps(t, u)
         /\ u.videos = t.videos /\ u.artifacts = t.artifacts /\ u.rows = t.rows
         /\ SourcesOf(u, video) = SourcesOf(t, video) \cup {slug}
         /\ \A v \in Videos \ {video} : SourcesOf(u, v) = SourcesOf(t, v)
<1> DEFINE known == Entry(video, slug, TRUE) \in t.sources
           url == found \/ known
           e == Entry(video, slug, url)
<1>1. u = [videos |-> t.videos,
           sources |-> {s \in t.sources : s.video # video \/ s.slug # slug} \cup {e},
           artifacts |-> t.artifacts, rows |-> t.rows]
  BY DEF WithSource, TablesOK, Entry
<1>2. url \in BOOLEAN
  OBVIOUS
<1>3. known => e = Entry(video, slug, TRUE)
  <2> SUFFICES ASSUME known PROVE e = Entry(video, slug, TRUE)
    OBVIOUS
  <2>1. url = TRUE
    OBVIOUS
  <2> QED
    BY <2>1
<1> HIDE DEF url
<1>4. e.video = video /\ e.slug = slug /\ e \in SourceRows
  BY <1>2, EntryIs
<1> HIDE DEF e
<1>5. /\ u.videos = t.videos /\ u.artifacts = t.artifacts /\ u.rows = t.rows
      /\ u.sources = {s \in t.sources : s.video # video \/ s.slug # slug} \cup {e}
      /\ u = [videos |-> u.videos, sources |-> u.sources, artifacts |-> u.artifacts, rows |-> u.rows]
  BY <1>1
<1>6. TablesOK(u)
  BY <1>4, <1>5 DEF TablesOK
<1>7. \A s \in t.sources : s.url => s \in u.sources
  <2> SUFFICES ASSUME NEW s \in t.sources, s.url PROVE s \in u.sources
    OBVIOUS
  <2>1. s = Entry(s.video, s.slug, TRUE)
    BY EntryOf DEF TablesOK
  <2>2. CASE s.video = video /\ s.slug = slug
    BY <1>3, <1>5, <2>1, <2>2
  <2>3. CASE s.video # video \/ s.slug # slug
    BY <1>5, <2>3
  <2> QED
    BY <2>2, <2>3
<1>8. Keeps(t, u)
  BY <1>5, <1>7 DEF Keeps
<1>9. SourcesOf(u, video) = SourcesOf(t, video) \cup {slug}
  BY <1>4, <1>5 DEF SourcesOf
<1>10. \A v \in Videos \ {video} : SourcesOf(u, v) = SourcesOf(t, v)
  BY <1>4, <1>5 DEF SourcesOf
<1> QED
  BY <1>5, <1>6, <1>8, <1>9, <1>10

\* The name of an item's file.
ItemName(item) == Artifacts[item.place[2]]

\* An artifact with the bytes of an item, under whatever source.
SameText(a, item) ==
  a.video = ItemName(item).video /\ a.kind = ItemName(item).kind /\ a.bytes = item.bytes

\* The row an item leaves.
ArtifactOf(item) ==
  [video |-> ItemName(item).video, kind |-> ItemName(item).kind, bytes |-> item.bytes,
   slug |-> item.slug, place |-> item.place]

\* What an item of the inventory is.
LEMMA ItemIs ==
  ASSUME NEW item \in Items
  PROVE  /\ item.place \in Places /\ item.slug \in Slugs /\ item.bytes \in Contents
         /\ item.place[1] \in Directories /\ item.place[2] \in DOMAIN Artifacts
         /\ ItemName(item) \in [video : Videos \cup {None}, title : Titles \cup {None}, kind : Kinds]
         /\ ItemName(item).title \in Titles \cup {None}
         /\ Supported(item.place[2]) => ItemName(item).video \in Videos
         /\ Supported(item.place[2]) => ArtifactOf(item) \in ArtifactRows
<1>1. /\ item.place \in Places /\ item.slug \in Slugs /\ item.bytes \in Contents
      /\ item.place[1] \in Directories /\ item.place[2] \in DOMAIN Artifacts
  BY DEF Items, Places
<1>2. ItemName(item) \in [video : Videos \cup {None}, title : Titles \cup {None}, kind : Kinds]
  <2> DEFINE Names == [video : Videos \cup {None}, title : Titles \cup {None}, kind : Kinds]
  <2>1. Artifacts \in Seq(Names)
    BY ContentsAssumption
  <2> HIDE DEF Names
  <2>2. item.place[2] \in 1..Len(Artifacts)
    BY <1>1, <2>1
  <2>3. Artifacts[item.place[2]] \in Names
    BY <2>1, <2>2, ElementOfSeq
  <2> QED
    BY <2>3 DEF ItemName, Names
<1> QED
  BY <1>1, <1>2 DEF Supported, ItemName, ArtifactOf, ArtifactRows

\* Known artifacts are those with the item's text.
LEMMA KnownIs ==
  ASSUME NEW t, NEW item
  PROVE  Known(t, item) = {a \in t.artifacts : SameText(a, item)}
BY DEF Known, SameText, ItemName

\* The artifact replaces those of its text, so that only a new text changes what there is to index.
LEMMA WithArtifactIs ==
  ASSUME NEW t, TablesOK(t), NEW item \in Items, Supported(item.place[2]),
         t.videos[ItemName(item).video] # None,
         NEW u, u = WithArtifact(t, item)
  PROVE  /\ TablesOK(u) /\ Keeps(t, u)
         /\ u.videos = t.videos /\ u.sources = t.sources /\ u.rows = t.rows
         /\ u.artifacts = {a \in t.artifacts : ~SameText(a, item)} \cup {ArtifactOf(item)}
         /\ SameText(ArtifactOf(item), item)
         /\ \A v \in Videos : v # ItemName(item).video => TextsOf(u, v) = TextsOf(t, v)
         /\ Known(t, item) # {} => \A v \in Videos : TextsOf(u, v) = TextsOf(t, v)
<1> DEFINE new == ArtifactOf(item)
<1>1. u = [videos |-> t.videos, sources |-> t.sources,
           artifacts |-> (t.artifacts \ Known(t, item)) \cup {new}, rows |-> t.rows]
  BY DEF WithArtifact, TablesOK, ArtifactOf, ItemName
<1>2. /\ new \in ArtifactRows /\ SameText(new, item)
      /\ new.video = ItemName(item).video /\ new.kind = ItemName(item).kind
      /\ new.bytes = item.bytes
  BY ItemIs DEF ArtifactOf, SameText
<1> HIDE DEF new
<1>3. /\ u.videos = t.videos /\ u.sources = t.sources /\ u.rows = t.rows
      /\ u.artifacts = {a \in t.artifacts : ~SameText(a, item)} \cup {new}
      /\ u = [videos |-> u.videos, sources |-> u.sources, artifacts |-> u.artifacts, rows |-> u.rows]
  BY <1>1, KnownIs
<1>4. TablesOK(u)
  BY <1>2, <1>3 DEF TablesOK
<1>5. \A a \in t.artifacts :
        \E b \in u.artifacts : b.video = a.video /\ b.kind = a.kind /\ b.bytes = a.bytes
  <2> SUFFICES ASSUME NEW a \in t.artifacts
               PROVE  \E b \in u.artifacts : b.video = a.video /\ b.kind = a.kind /\ b.bytes = a.bytes
    OBVIOUS
  <2>1. CASE SameText(a, item)
    BY <1>2, <1>3, <2>1 DEF SameText
  <2>2. CASE ~SameText(a, item)
    BY <1>3, <2>2
  <2> QED
    BY <2>1, <2>2
<1>6. Keeps(t, u)
  BY <1>3, <1>5 DEF Keeps
<1>7. \A v \in Videos : v # ItemName(item).video => TextsOf(u, v) = TextsOf(t, v)
  BY <1>2, <1>3 DEF TextsOf, SameText
<1>8. ASSUME Known(t, item) # {}, NEW v \in Videos PROVE TextsOf(u, v) = TextsOf(t, v)
  <2>1. PICK a \in t.artifacts : SameText(a, item)
    BY <1>8, KnownIs
  <2>2. TextsOf(u, v) \subseteq TextsOf(t, v)
    BY <1>2, <1>3, <2>1 DEF TextsOf, SameText
  <2>3. TextsOf(t, v) \subseteq TextsOf(u, v)
    BY <1>2, <1>3 DEF TextsOf, SameText
  <2> QED
    BY <2>2, <2>3
<1> QED
  BY <1>2, <1>3, <1>4, <1>6, <1>7, <1>8 DEF new

\* _reindex_video: with the rows of those that were touched, all rows are right.
LEMMA ReindexedIs ==
  ASSUME NEW t, TablesOK(t), NEW videos, RowsBut(t, videos),
         NEW u, u = Reindexed(t, videos)
  PROVE  /\ TablesOK(u) /\ Keeps(t, u) /\ RowsBut(u, {})
         /\ u.videos = t.videos /\ u.sources = t.sources /\ u.artifacts = t.artifacts
<1>1. u = [videos |-> t.videos, sources |-> t.sources, artifacts |-> t.artifacts,
           rows |-> [v \in Videos |->
                       IF v \in videos /\ t.videos[v] # None THEN RowOf(t, v) ELSE t.rows[v]]]
  BY DEF Reindexed, TablesOK
<1>2. /\ u.videos = t.videos /\ u.sources = t.sources /\ u.artifacts = t.artifacts
      /\ u.rows = [v \in Videos |->
                     IF v \in videos /\ t.videos[v] # None THEN RowOf(t, v) ELSE t.rows[v]]
      /\ u = [videos |-> u.videos, sources |-> u.sources, artifacts |-> u.artifacts, rows |-> u.rows]
  BY <1>1
<1>3. \A v : RowOf(u, v) = RowOf(t, v)
  BY <1>2 DEF RowOf, SourcesOf, TextsOf
<1>4. u.rows = [v \in Videos |-> u.rows[v]]
  BY <1>2
<1>5. TablesOK(u)
  BY <1>2, <1>4 DEF TablesOK
<1>6. Keeps(t, u)
  BY <1>2 DEF Keeps
<1>7. \A v \in Videos : RowAgrees(u, v)
  BY <1>2, <1>3 DEF RowAgrees, RowsBut
<1> QED
  BY <1>2, <1>5, <1>6, <1>7 DEF RowsBut

-----------------------------------------------------------------------------
(* CatalogContents: the invariant.                                         *)

\* The types of the corpus and of the published tables.
LibraryOK ==
  /\ library \in [Places -> Contents \cup {None}]
  /\ labels \in [Videos -> Slugs \cup {None}]
  /\ edits \in Nat /\ TablesOK(tables)

\* A session has these fields,
Shaped(x) ==
  x = [layouts |-> x.layouts, todo |-> x.todo, feed |-> x.feed, tables |-> x.tables,
       seen |-> x.seen, left |-> x.left, touched |-> x.touched, errors |-> x.errors,
       phase |-> x.phase, since |-> x.since]

\* with these values; an import that is past its items has listed and taken everything.
VisitOK(x) ==
  /\ Shaped(x)
  /\ x.layouts \in Seq(Directories) /\ x.feed \in Feeds \cup {None}
  /\ x.feed = None => x.todo \in Seq(Items)
  /\ x.feed # None => x.todo \in Seq(Feedback)
  /\ x.feed = None /\ x.phase # "items" => x.layouts = <<>> /\ x.todo = <<>>
  /\ TablesOK(x.tables)
  /\ x.since \in Nat

\* Only an import that has not indexed yet owes rows, to the videos it has touched.
Owed(x) == IF x.feed = None /\ x.phase # "done" THEN x.touched ELSE {}

\* What a session owes is owed to videos that are known.
VisitRows(x) ==
  /\ RowsBut(x.tables, Owed(x))
  /\ \A gone \in x.left : gone[1] \in x.touched

\* A file an import has dealt with.
Listed(x, place) ==
  /\ library[place] # None
  /\ \A k \in DOMAIN x.layouts : x.layouts[k] # place[1]
  /\ \A k \in DOMAIN x.todo : x.todo[k].place # place

\* The file is an artifact that can be decoded.
Readable(place) == Supported(place[2]) /\ library[place] \notin Broken

\* The tables have it, at a place where these bytes are.
Imported(t, place) ==
  /\ SourceOf(place) \in SourcesOf(t, Artifacts[place[2]].video)
  /\ \E a \in Known(t, Item(place)) :
        library[a.place] = a.bytes /\ a.slug = SourceOf(a.place)

\* While nobody changes the corpus, an import has done what it says for what it has listed.
VisitComplete(x) ==
  x.feed = None /\ x.since = edits =>
    /\ \A k \in DOMAIN x.todo : x.todo[k] = Item(x.todo[k].place)
    /\ \A place \in Places : Listed(x, place) =>
         /\ Readable(place) =>
              /\ Imported(x.tables, place)
              /\ <<Artifacts[place[2]].video, SourceOf(place)>> \in x.seen
         /\ x.errors = 0 => Readable(place) /\ ~Flawed(Item(place))

\* What was reported began in the past.
ReportOK == report # None => report.since \in Nat /\ report.since <= edits

\* The invariant: types, rows, what sessions keep, and what imports have done so far.
ContentsInv ==
  /\ LibraryOK /\ ReportOK
  /\ RowsBut(tables, {})
  /\ visit # None => VisitOK(visit) /\ VisitRows(visit) /\ Keeps(tables, visit.tables)
  /\ visit # None => visit.since <= edits /\ VisitComplete(visit)
  /\ ImportsAreComplete

-----------------------------------------------------------------------------
(* CatalogContents: what each step of a session does.                       *)

\* What a step of a session owes to the invariant.
GoodVisit(y, t) == VisitOK(y) /\ VisitRows(y) /\ Keeps(t, y.tables)

\* What a file of the corpus is.
LEMMA PlaceIs ==
  ASSUME LibraryOK, NEW place \in Places
  PROVE  /\ place = <<place[1], place[2]>>
         /\ place[1] \in Directories /\ place[2] \in DOMAIN Artifacts
         /\ SourceOf(place) \in Slugs
         /\ library[place] \in Contents \cup {None}
         /\ Item(place).place = place /\ Item(place).slug = SourceOf(place)
         /\ Item(place).bytes = library[place]
         /\ library[place] # None => Item(place) \in Items
         /\ Supported(place[2]) => Artifacts[place[2]].video \in Videos
<1>1. /\ place = <<place[1], place[2]>>
      /\ place[1] \in Directories /\ place[2] \in DOMAIN Artifacts
  BY DEF Places
<1>2. Directories \subseteq Slugs
  <2>1. \A i \in DOMAIN Layouts : Layouts[i] \in Slugs
    <3>1. Layouts \in Seq(Slugs)
      BY ContentsAssumption
    <3>2. DOMAIN Layouts = 1..Len(Layouts)
      BY <3>1
    <3> QED
      BY <3>1, <3>2, ElementOfSeq
  <2> QED
    BY <2>1 DEF Directories
<1>3. Supported(place[2]) => Artifacts[place[2]].video \in Videos
  <2> DEFINE Names == [video : Videos \cup {None}, title : Titles \cup {None}, kind : Kinds]
  <2>1. Artifacts \in Seq(Names)
    BY ContentsAssumption
  <2> HIDE DEF Names
  <2>2. place[2] \in 1..Len(Artifacts)
    BY <1>1, <2>1
  <2>3. Artifacts[place[2]] \in Names
    BY <2>1, <2>2, ElementOfSeq
  <2> QED
    BY <2>3 DEF Names, Supported
<1>4. SourceOf(place) \in Slugs
  BY <1>1, <1>2, <1>3 DEF SourceOf, LibraryOK
<1>5. library[place] \in Contents \cup {None}
  BY DEF LibraryOK
<1> QED
  BY <1>1, <1>3, <1>4, <1>5 DEF Item, Items

\* What every step of a session leaves alone.
Evolves(x, y) ==
  /\ Shaped(y) /\ y.feed = x.feed /\ y.since = x.since /\ x.seen \subseteq y.seen
  /\ y.errors = 0 => x.errors = 0

\* A step after which what was listed is still right, and so is what is listed now.
Continues(x, y) ==
  x.feed = None /\ x.since = edits =>
    /\ \A k \in DOMAIN y.todo : y.todo[k] = Item(y.todo[k].place)
    /\ \A place \in Places : Listed(y, place) =>
         \/ /\ Listed(x, place)
            /\ Readable(place) /\ Imported(x.tables, place)
               /\ <<Artifacts[place[2]].video, SourceOf(place)>> \in x.seen
               => Imported(y.tables, place)
         \/ /\ Readable(place) =>
                 /\ Imported(y.tables, place)
                 /\ <<Artifacts[place[2]].video, SourceOf(place)>> \in y.seen
            /\ y.errors = 0 => Readable(place) /\ ~Flawed(Item(place))

\* Such a step keeps what an import has done.
LEMMA CompleteOn ==
  ASSUME NEW x, NEW y, VisitComplete(x), Evolves(x, y), Continues(x, y)
  PROVE  VisitComplete(y)
<1> SUFFICES ASSUME x.feed = None, x.since = edits, NEW place \in Places, Listed(y, place)
             PROVE  /\ Readable(place) =>
                         /\ Imported(y.tables, place)
                         /\ <<Artifacts[place[2]].video, SourceOf(place)>> \in y.seen
                    /\ y.errors = 0 => Readable(place) /\ ~Flawed(Item(place))
  BY DEF VisitComplete, Evolves, Continues
<1>1. x.seen \subseteq y.seen /\ (y.errors = 0 => x.errors = 0)
  BY DEF Evolves
<1>2. CASE Listed(x, place)
  BY <1>1, <1>2 DEF VisitComplete, Continues
<1>3. CASE ~Listed(x, place)
  BY <1>3 DEF Continues
<1> QED
  BY <1>2, <1>3

\* A step that takes the first item of the inventory.
Takes(x, y) ==
  /\ x.feed = None /\ x.layouts = <<>> /\ x.phase = "items" /\ x.todo # <<>>
  /\ y.layouts = x.layouts /\ y.todo = Tail(x.todo)

\* What is left of the inventory after its first item.
LEMMA TakeOne ==
  ASSUME LibraryOK, NEW x, VisitOK(x), VisitComplete(x), NEW y, Takes(x, y)
  PROVE  /\ x.todo[1] \in Items /\ y.todo \in Seq(Items)
         /\ x.feed = None /\ x.since = edits =>
              \A k \in DOMAIN y.todo : y.todo[k] = Item(y.todo[k].place)
         /\ \A place \in Places :
              Listed(y, place) /\ ~Listed(x, place) => place = x.todo[1].place
         /\ x.since = edits => x.todo[1] = Item(x.todo[1].place)
<1>1. x.todo \in Seq(Items) /\ x.todo # <<>> /\ y.layouts = x.layouts /\ y.todo = Tail(x.todo)
      /\ x.feed = None
  BY DEF VisitOK, Takes
<1>2. /\ Len(x.todo) \in Nat /\ Len(x.todo) # 0 /\ DOMAIN x.todo = 1..Len(x.todo)
  BY <1>1, EmptySeq
<1>3. y.todo \in Seq(Items) /\ Len(y.todo) = Len(x.todo) - 1
      /\ \A k \in 1..Len(y.todo) : y.todo[k] = x.todo[k + 1]
  BY <1>1, <1>2, HeadTailProperties
<1>4. DOMAIN y.todo = 1..Len(y.todo)
  BY <1>3
<1>5. x.todo[1] \in Items
  BY <1>1, <1>2, ElementOfSeq
<1>6. \A k \in DOMAIN y.todo : k + 1 \in DOMAIN x.todo /\ y.todo[k] = x.todo[k + 1]
  BY <1>2, <1>3, <1>4
<1>7. ASSUME NEW place \in Places, Listed(y, place), ~Listed(x, place)
      PROVE  place = x.todo[1].place
  <2>1. PICK l \in DOMAIN x.todo : x.todo[l].place = place
    BY <1>1, <1>7 DEF Listed
  <2>2. CASE l = 1
    BY <2>1, <2>2
  <2>3. CASE l # 1
    <3>1. l - 1 \in DOMAIN y.todo /\ (l - 1) + 1 = l
      BY <1>2, <1>3, <1>4, <2>3
    <3>2. y.todo[l - 1].place = place
      BY <1>3, <1>4, <2>1, <3>1
    <3> QED
      BY <1>7, <3>1, <3>2 DEF Listed
  <2> QED
    BY <2>2, <2>3
<1>8. x.since = edits => x.todo[1] = Item(x.todo[1].place)
  BY <1>1, <1>2 DEF VisitComplete
<1>9. x.since = edits => \A k \in DOMAIN y.todo : y.todo[k] = Item(y.todo[k].place)
  BY <1>1, <1>6 DEF VisitComplete
<1> QED
  BY <1>3, <1>5, <1>7, <1>8, <1>9

\* An item that is not imported.
Passes(x, y) ==
  /\ Takes(x, y) /\ Evolves(x, y)
  /\ ~Supported(x.todo[1].place[2]) \/ x.todo[1].bytes \in Broken
  /\ y.tables = x.tables /\ y.left = x.left /\ y.touched = x.touched
  /\ y.phase = x.phase /\ y.errors = 1

\* An item that cannot be imported leaves an error.
LEMMA PassesIs ==
  ASSUME LibraryOK, NEW x, NEW t, GoodVisit(x, t), VisitComplete(x), NEW y, Passes(x, y)
  PROVE  GoodVisit(y, t) /\ VisitComplete(y)
<1>1. VisitOK(x) /\ VisitRows(x) /\ Keeps(t, x.tables)
  BY DEF GoodVisit
<1>2. Takes(x, y) /\ Evolves(x, y)
  BY DEF Passes
<1>3. /\ x.todo[1] \in Items /\ y.todo \in Seq(Items)
      /\ x.feed = None /\ x.since = edits =>
           \A k \in DOMAIN y.todo : y.todo[k] = Item(y.todo[k].place)
      /\ \A place \in Places : Listed(y, place) /\ ~Listed(x, place) => place = x.todo[1].place
      /\ x.since = edits => x.todo[1] = Item(x.todo[1].place)
  BY <1>1, <1>2, TakeOne
<1>4. VisitOK(y)
  BY <1>1, <1>2, <1>3 DEF VisitOK, Passes, Takes, Evolves
<1>5. VisitRows(y)
  BY <1>1, <1>2 DEF VisitRows, Owed, Passes, Evolves
<1>6. ASSUME x.since = edits, NEW place \in Places, Listed(y, place), ~Listed(x, place)
      PROVE  ~Readable(place)
  <2>1. place = x.todo[1].place /\ x.todo[1] = Item(place)
    BY <1>3, <1>6
  <2>2. x.todo[1].bytes = library[place]
    BY <2>1, PlaceIs
  <2> QED
    BY <2>1, <2>2 DEF Passes, Readable
<1>7. Continues(x, y)
  <2>1. y.errors # 0 /\ y.tables = x.tables
    BY DEF Passes
  <2> QED
    BY <1>3, <1>6, <2>1 DEF Continues
<1> QED
  BY <1>1, <1>2, <1>4, <1>5, <1>7, CompleteOn DEF GoodVisit, Passes

\* One sequence after the other.
Joined(r, s, n, more) ==
  /\ r \in Seq(Items) /\ DOMAIN r = 1..(Len(s) + n)
  /\ \A k \in 1..Len(s) : r[k] = s[k]
  /\ \A k \in 1..n : r[Len(s) + k] = more[k]
  /\ \A k \in DOMAIN r : k \in 1..Len(s) \/ (k - Len(s) \in 1..n /\ r[k] = more[k - Len(s)])

\* A sequence that is added to another one.
LEMMA Appended ==
  ASSUME NEW s \in Seq(Items), NEW n \in Nat, NEW more \in [1..n -> Items]
  PROVE  Joined(s \o more, s, n, more)
<1> DEFINE r == s \o more
<1>1. more \in Seq(Items) /\ Len(more) = n
  OBVIOUS
<1>2. Len(s) \in Nat
  OBVIOUS
<1>3. /\ r \in Seq(Items) /\ Len(r) = Len(s) + n
      /\ \A k \in 1..(Len(s) + n) : r[k] = IF k <= Len(s) THEN s[k] ELSE more[k - Len(s)]
  BY <1>1, ConcatProperties
<1> HIDE DEF r
<1>4. DOMAIN r = 1..(Len(s) + n)
  BY <1>3
<1>5. \A k \in 1..Len(s) : r[k] = s[k]
  BY <1>2, <1>3
<1>6. ASSUME NEW k \in 1..n PROVE r[Len(s) + k] = more[k]
  <2>1. Len(s) + k \in 1..(Len(s) + n) /\ ~(Len(s) + k <= Len(s)) /\ (Len(s) + k) - Len(s) = k
    BY <1>2
  <2> QED
    BY <1>3, <2>1
<1>7. ASSUME NEW k \in 1..(Len(s) + n), k \notin 1..Len(s)
      PROVE  k - Len(s) \in 1..n /\ r[k] = more[k - Len(s)]
  <2>1. k - Len(s) \in 1..n /\ ~(k <= Len(s))
    BY <1>2, <1>7
  <2> QED
    BY <1>3, <2>1
<1>8. Joined(r, s, n, more)
  BY <1>3, <1>4, <1>5, <1>6, <1>7 DEF Joined
<1> QED
  BY <1>8 DEF r

\* The inventory of a directory is added to what is left to do.
Enlists(x, y, n, found) ==
  /\ Evolves(x, y) /\ x.feed = None /\ x.layouts # <<>>
  /\ n \in Nat /\ found \in [1..n -> Present(Head(x.layouts))] /\ Lists(Head(x.layouts), found)
  /\ y.layouts = Tail(x.layouts) /\ y.todo = x.todo \o Inventory(Head(x.layouts), found)
  /\ y.tables = x.tables /\ y.left = x.left /\ y.touched = x.touched
  /\ y.phase = x.phase /\ y.errors = x.errors /\ y.seen = x.seen

\* The inventory of a directory holds every file that is there.
LEMMA InventoryIs ==
  ASSUME LibraryOK, NEW directory \in Directories, NEW n \in Nat,
         NEW found \in [1..n -> Present(directory)], Lists(directory, found)
  PROVE  /\ Inventory(directory, found) \in [1..n -> Items]
         /\ \A k \in 1..n : /\ Inventory(directory, found)[k] = Item(<<directory, found[k]>>)
                            /\ Inventory(directory, found)[k].place = <<directory, found[k]>>
         /\ \A place \in Places : place[1] = directory /\ library[place] # None =>
              \E k \in 1..n : Inventory(directory, found)[k].place = place
<1>1. \A k \in 1..n : /\ <<directory, found[k]>> \in Places
                      /\ library[<<directory, found[k]>>] # None
  BY DEF Present, Places
<1>2. \A k \in 1..n : /\ Item(<<directory, found[k]>>) \in Items
                      /\ Item(<<directory, found[k]>>).place = <<directory, found[k]>>
  BY <1>1, PlaceIs
<1>3. Inventory(directory, found) = [k \in 1..n |-> Item(<<directory, found[k]>>)]
  BY DEF Inventory
<1>4. ASSUME NEW place \in Places, place[1] = directory, library[place] # None
      PROVE  \E k \in 1..n : <<directory, found[k]>> = place
  <2>1. place = <<directory, place[2]>> /\ place[2] \in DOMAIN Artifacts
    BY <1>4, PlaceIs
  <2>2. place[2] \in Present(directory)
    BY <1>4, <2>1 DEF Present
  <2> QED
    BY <2>1, <2>2 DEF Lists
<1> QED
  BY <1>2, <1>3, <1>4

\* _inventory_corpus: the files of one more directory are to be dealt with.
LEMMA EnlistsIs ==
  ASSUME LibraryOK, NEW x, NEW t, GoodVisit(x, t), VisitComplete(x), NEW y,
         NEW n, NEW found, Enlists(x, y, n, found)
  PROVE  GoodVisit(y, t) /\ VisitComplete(y)
<1> DEFINE directory == Head(x.layouts)
           more == Inventory(directory, found)
<1>1. VisitOK(x) /\ VisitRows(x) /\ Keeps(t, x.tables)
  BY DEF GoodVisit
<1>2. /\ x.layouts \in Seq(Directories) /\ x.todo \in Seq(Items)
      /\ x.layouts # <<>> /\ y.layouts = Tail(x.layouts) /\ y.todo = x.todo \o more
      /\ n \in Nat /\ found \in [1..n -> Present(directory)] /\ Lists(directory, found)
      /\ x.feed = None /\ Evolves(x, y)
  BY <1>1 DEF VisitOK, Enlists
<1>3. directory \in Directories /\ directory = x.layouts[1]
  BY <1>2, HeadTailProperties
<1>4. /\ Len(x.layouts) \in Nat /\ DOMAIN x.layouts = 1..Len(x.layouts)
      /\ y.layouts \in Seq(Directories) /\ Len(y.layouts) = Len(x.layouts) - 1
      /\ \A k \in 1..Len(y.layouts) : y.layouts[k] = x.layouts[k + 1]
  BY <1>2, HeadTailProperties
<1>5. DOMAIN y.layouts = 1..Len(y.layouts)
  BY <1>4
<1> HIDE DEF directory
<1>6. /\ more \in [1..n -> Items]
      /\ \A k \in 1..n : /\ more[k] = Item(<<directory, found[k]>>)
                         /\ more[k].place = <<directory, found[k]>>
      /\ \A place \in Places : place[1] = directory /\ library[place] # None =>
           \E k \in 1..n : more[k].place = place
  BY <1>2, <1>3, InventoryIs
<1> HIDE DEF more
<1>7. /\ y.todo \in Seq(Items) /\ DOMAIN y.todo = 1..(Len(x.todo) + n)
      /\ \A k \in 1..Len(x.todo) : y.todo[k] = x.todo[k]
      /\ \A k \in 1..n : y.todo[Len(x.todo) + k] = more[k]
      /\ \A k \in DOMAIN y.todo :
           k \in 1..Len(x.todo) \/ (k - Len(x.todo) \in 1..n /\ y.todo[k] = more[k - Len(x.todo)])
  <2>1. x.todo \in Seq(Items) /\ y.todo = x.todo \o more /\ n \in Nat
    BY <1>2
  <2>2. more \in [1..n -> Items]
    BY <1>6
  <2>3. Joined(x.todo \o more, x.todo, n, more)
    BY <2>1, <2>2, Appended
  <2> QED
    BY <2>1, <2>3 DEF Joined
<1>8. DOMAIN x.todo = 1..Len(x.todo) /\ Len(x.todo) \in Nat /\ n \in Nat
  BY <1>2
<1>9. VisitOK(y)
  <2>1. x.phase = "items"
    BY <1>1, <1>2 DEF VisitOK
  <2> QED
    BY <1>1, <1>2, <1>4, <1>7, <2>1 DEF VisitOK, Enlists, Evolves
<1>10. VisitRows(y)
  BY <1>1, <1>2 DEF VisitRows, Owed, Enlists, Evolves
<1>11. ASSUME x.since = edits, NEW k \in DOMAIN y.todo
       PROVE  y.todo[k] = Item(y.todo[k].place)
  <2>1. CASE k \in 1..Len(x.todo)
    BY <1>2, <1>7, <1>8, <1>11, <2>1 DEF VisitComplete
  <2>2. CASE k \notin 1..Len(x.todo)
    <3>1. PICK l \in 1..n : y.todo[k] = more[l]
      BY <1>7, <1>11, <2>2
    <3>2. more[l] = Item(<<directory, found[l]>>) /\ more[l].place = <<directory, found[l]>>
      BY <1>6
    <3> QED
      BY <3>1, <3>2
  <2> QED
    BY <2>1, <2>2
<1>12. ASSUME NEW place \in Places, Listed(y, place)
       PROVE  Listed(x, place)
  <2>1. place[1] # directory
    <3> SUFFICES ASSUME place[1] = directory PROVE FALSE
      OBVIOUS
    <3>1. PICK k \in 1..n : more[k].place = place
      BY <1>6, <1>12 DEF Listed
    <3>2. Len(x.todo) + k \in DOMAIN y.todo /\ y.todo[Len(x.todo) + k] = more[k]
      BY <1>7, <1>8
    <3> QED
      BY <1>12, <3>1, <3>2 DEF Listed
  <2>2. ASSUME NEW k \in DOMAIN x.layouts PROVE x.layouts[k] # place[1]
    <3>1. CASE k = 1
      BY <1>3, <2>1, <3>1
    <3>2. CASE k # 1
      <4>1. k - 1 \in DOMAIN y.layouts /\ (k - 1) + 1 = k
        BY <1>4, <1>5, <3>2
      <4>2. y.layouts[k - 1] = x.layouts[k]
        BY <1>4, <1>5, <4>1
      <4> QED
        BY <1>12, <4>1, <4>2 DEF Listed
    <3> QED
      BY <3>1, <3>2
  <2>3. ASSUME NEW k \in DOMAIN x.todo PROVE x.todo[k].place # place
    <3>1. k \in DOMAIN y.todo /\ y.todo[k] = x.todo[k]
      BY <1>7, <1>8
    <3> QED
      BY <1>12, <3>1 DEF Listed
  <2> QED
    BY <1>12, <2>2, <2>3 DEF Listed
<1>13. Continues(x, y)
  <2>1. y.tables = x.tables
    BY DEF Enlists
  <2> QED
    BY <1>11, <1>12, <2>1 DEF Continues
<1> QED
  BY <1>1, <1>2, <1>9, <1>10, <1>13, CompleteOn DEF GoodVisit, Enlists

-----------------------------------------------------------------------------
(* CatalogContents: an item that is imported.                               *)

\* The tables with an item.
Taken(t, item) ==
  WithArtifact(WithSource(WithVideo(t, ItemName(item).video, ItemName(item).title),
                          ItemName(item).video, item.slug, FALSE), item)

\* The item's row replaces those of the same text, and its video has its source.
Learned(t, u, item) ==
  /\ u.artifacts = {a \in t.artifacts : ~SameText(a, item)} \cup {ArtifactOf(item)}
  /\ SourcesOf(u, ItemName(item).video) = SourcesOf(t, ItemName(item).video) \cup {item.slug}
  /\ \A v \in Videos \ {ItemName(item).video} : SourcesOf(u, v) = SourcesOf(t, v)

\* A row stays right as long as what it is made from stays.
LEMMA SameRow ==
  ASSUME NEW t, NEW u, NEW v \in Videos, RowAgrees(t, v), u.rows = t.rows,
         u.videos[v] = t.videos[v], SourcesOf(u, v) = SourcesOf(t, v), TextsOf(u, v) = TextsOf(t, v)
  PROVE  RowAgrees(u, v)
BY DEF RowAgrees, RowOf

\* What the tables have learned from an item; nothing to index has changed where it has not touched the video.
LEMMA TakenIs ==
  ASSUME NEW t, TablesOK(t), NEW item \in Items, Supported(item.place[2]),
         NEW u, u = Taken(t, item)
  PROVE  /\ TablesOK(u) /\ Keeps(t, u) /\ Learned(t, u, item)
         /\ u.rows = t.rows /\ u.videos[ItemName(item).video] # None
         /\ \A v \in Videos \ {ItemName(item).video} :
              /\ u.videos[v] = t.videos[v] /\ SourcesOf(u, v) = SourcesOf(t, v)
              /\ TextsOf(u, v) = TextsOf(t, v)
         /\ ~Touches(t, item) =>
              \A v \in Videos : /\ u.videos[v] = t.videos[v] /\ SourcesOf(u, v) = SourcesOf(t, v)
                                /\ TextsOf(u, v) = TextsOf(t, v)
<1> DEFINE video == ItemName(item).video
           title == ItemName(item).title
           t1 == WithVideo(t, video, title)
           never == FALSE
           t2 == WithSource(t1, video, item.slug, never)
<1>1. video \in Videos /\ title \in Titles \cup {None} /\ item.slug \in Slugs
  BY ItemIs
<1>2. u = WithArtifact(t2, item)
  BY DEF Taken
<1> HIDE DEF video, title
<1>3. /\ TablesOK(t1) /\ Keeps(t, t1)
      /\ t1.sources = t.sources /\ t1.artifacts = t.artifacts /\ t1.rows = t.rows
      /\ t1.videos[video] # None
      /\ t.videos[video] = title /\ title # None => t1.videos = t.videos
      /\ \A v \in Videos \ {video} : t1.videos[v] = t.videos[v]
  BY <1>1, WithVideoIs
<1>0. never \in BOOLEAN
  OBVIOUS
<1> HIDE DEF t1, never
<1>4. /\ TablesOK(t2) /\ Keeps(t1, t2)
      /\ t2.videos = t1.videos /\ t2.artifacts = t1.artifacts /\ t2.rows = t1.rows
      /\ SourcesOf(t2, video) = SourcesOf(t1, video) \cup {item.slug}
      /\ \A v \in Videos \ {video} : SourcesOf(t2, v) = SourcesOf(t1, v)
  BY <1>0, <1>1, <1>3, WithSourceIs
<1> HIDE DEF t2
<1>5. t2.videos[ItemName(item).video] # None
  BY <1>3, <1>4 DEF video
<1>6. /\ TablesOK(u) /\ Keeps(t2, u)
      /\ u.videos = t2.videos /\ u.sources = t2.sources /\ u.rows = t2.rows
      /\ u.artifacts = {a \in t2.artifacts : ~SameText(a, item)} \cup {ArtifactOf(item)}
      /\ \A v \in Videos : v # ItemName(item).video => TextsOf(u, v) = TextsOf(t2, v)
      /\ Known(t2, item) # {} => \A v \in Videos : TextsOf(u, v) = TextsOf(t2, v)
  BY <1>2, <1>4, <1>5, WithArtifactIs
<1>7. /\ \A v : SourcesOf(u, v) = SourcesOf(t2, v)
      /\ \A v : SourcesOf(t1, v) = SourcesOf(t, v)
      /\ \A v : TextsOf(t2, v) = TextsOf(t, v)
      /\ Known(t2, item) = Known(t, item)
  BY <1>3, <1>4, <1>6 DEF SourcesOf, TextsOf, Known
<1>8. Keeps(t, u)
  BY <1>3, <1>4, <1>6, KeepsOn
<1>9. Learned(t, u, item)
  BY <1>3, <1>4, <1>6, <1>7 DEF Learned, video
<1>10. \A v \in Videos \ {video} :
         /\ u.videos[v] = t.videos[v] /\ SourcesOf(u, v) = SourcesOf(t, v)
         /\ TextsOf(u, v) = TextsOf(t, v)
  BY <1>3, <1>4, <1>6, <1>7 DEF video
<1>11. ASSUME ~Touches(t, item)
       PROVE  /\ u.videos = t.videos
              /\ SourcesOf(u, video) = SourcesOf(t, video) /\ TextsOf(u, video) = TextsOf(t, video)
  <2>1. Known(t, item) # {} /\ t.videos[video] = title /\ item.slug \in SourcesOf(t, video)
    BY <1>11 DEF Touches, ItemName, video, title
  <2>2. t.videos[video] # None
    BY <2>1 DEF TablesOK, Known, video, ItemName
  <2> QED
    BY <1>1, <1>3, <1>4, <1>6, <1>7, <2>1, <2>2
<1> QED
  BY <1>3, <1>4, <1>6, <1>8, <1>9, <1>10, <1>11 DEF video

\* So only the rows of touched videos may be wrong.
LEMMA RowsAfter ==
  ASSUME NEW t, TablesOK(t), NEW touched, RowsBut(t, touched),
         NEW item \in Items, Supported(item.place[2]), NEW u, u = Taken(t, item),
         NEW now, now = IF Touches(t, item) THEN touched \cup {ItemName(item).video} ELSE touched
  PROVE  RowsBut(u, now)
<1> DEFINE video == ItemName(item).video
<1>1. video \in Videos
  BY ItemIs
<1>2. /\ Keeps(t, u)
      /\ u.rows = t.rows /\ u.videos[video] # None
      /\ \A v \in Videos \ {video} :
           /\ u.videos[v] = t.videos[v] /\ SourcesOf(u, v) = SourcesOf(t, v)
           /\ TextsOf(u, v) = TextsOf(t, v)
      /\ ~Touches(t, item) =>
           \A v \in Videos : /\ u.videos[v] = t.videos[v] /\ SourcesOf(u, v) = SourcesOf(t, v)
                             /\ TextsOf(u, v) = TextsOf(t, v)
  BY TakenIs
<1>3. now = IF Touches(t, item) THEN touched \cup {video} ELSE touched
  OBVIOUS
<1> HIDE DEF video
<1>4. \A v \in touched : v \in Videos /\ u.videos[v] # None
  BY <1>2 DEF RowsBut, Keeps
<1>5. \A v \in now : v \in Videos /\ u.videos[v] # None
  BY <1>1, <1>2, <1>3, <1>4
<1>6. ASSUME NEW v \in Videos \ now PROVE RowAgrees(u, v)
  <2>1. RowAgrees(t, v)
    BY <1>3, <1>6 DEF RowsBut
  <2>2. /\ u.videos[v] = t.videos[v] /\ SourcesOf(u, v) = SourcesOf(t, v)
        /\ TextsOf(u, v) = TextsOf(t, v)
    BY <1>2, <1>3, <1>6
  <2> QED
    BY <1>2, <2>1, <2>2, SameRow
<1> QED
  BY <1>5, <1>6 DEF RowsBut

\* What was imported is imported whatever item is taken next.
LEMMA ImportedKept ==
  ASSUME LibraryOK, NEW t, NEW u, NEW item \in Items, item = Item(item.place),
         Learned(t, u, item), Keeps(t, u), NEW place \in Places, Readable(place), Imported(t, place)
  PROVE  Imported(u, place)
<1>1. SourcesOf(t, Artifacts[place[2]].video) \subseteq SourcesOf(u, Artifacts[place[2]].video)
  <2>1. Artifacts[place[2]].video \in Videos
    BY PlaceIs DEF Readable
  <2> QED
    BY <2>1 DEF Learned
<1>2. PICK a \in Known(t, Item(place)) : library[a.place] = a.bytes /\ a.slug = SourceOf(a.place)
  BY DEF Imported
<1>3. a \in t.artifacts /\ SameText(a, Item(place))
  BY <1>2, KnownIs
<1>4. \E b \in Known(u, Item(place)) : library[b.place] = b.bytes /\ b.slug = SourceOf(b.place)
  <2>1. CASE ~SameText(a, item)
    <3>1. a \in Known(u, Item(place))
      BY <1>3, <2>1, KnownIs DEF Learned
    <3> QED
      BY <1>2, <3>1
  <2>2. CASE SameText(a, item)
    <3> DEFINE b == ArtifactOf(item)
    <3>1. /\ b.video = ItemName(item).video /\ b.kind = ItemName(item).kind
          /\ b.bytes = item.bytes /\ b.slug = item.slug /\ b.place = item.place
      BY DEF ArtifactOf
    <3> HIDE DEF b
    <3>2. SameText(b, Item(place))
      BY <1>3, <2>2, <3>1 DEF SameText
    <3>3. b \in Known(u, Item(place))
      BY <3>2, KnownIs DEF Learned, b
    <3>4. item.place \in Places /\ item.bytes = library[item.place] /\ item.slug = SourceOf(item.place)
      BY ItemIs, PlaceIs
    <3> QED
      BY <3>1, <3>3, <3>4
  <2> QED
    BY <2>1, <2>2
<1> QED
  BY <1>1, <1>4 DEF Imported

\* And so is the item.
LEMMA ImportedNow ==
  ASSUME LibraryOK, NEW t, NEW u, NEW item \in Items, item = Item(item.place), Learned(t, u, item)
  PROVE  Imported(u, item.place)
<1> DEFINE b == ArtifactOf(item)
<1>1. /\ item.place \in Places /\ item.bytes = library[item.place]
      /\ item.slug = SourceOf(item.place)
  BY ItemIs, PlaceIs
<1>2. /\ b.video = ItemName(item).video /\ b.kind = ItemName(item).kind
      /\ b.bytes = item.bytes /\ b.slug = item.slug /\ b.place = item.place
  BY DEF ArtifactOf
<1>3. b \in u.artifacts
  BY DEF Learned
<1> HIDE DEF b
<1>4. b \in Known(u, Item(item.place))
  BY <1>2, <1>3, KnownIs DEF SameText
<1>5. SourceOf(item.place) \in SourcesOf(u, Artifacts[item.place[2]].video)
  BY <1>1 DEF Learned, ItemName
<1> QED
  BY <1>1, <1>2, <1>4, <1>5 DEF Imported

\* An item that is imported.
Imports(x, y) ==
  /\ Takes(x, y) /\ Evolves(x, y) /\ Supported(x.todo[1].place[2])
  /\ y.tables = Taken(x.tables, x.todo[1])
  /\ <<ItemName(x.todo[1]).video, x.todo[1].slug>> \in y.seen
  /\ y.left = x.left \cup {<<ItemName(x.todo[1]).video, a.slug>> :
                             a \in {b \in Known(x.tables, x.todo[1]) : b.slug # x.todo[1].slug}}
  /\ y.touched = IF Touches(x.tables, x.todo[1])
                 THEN x.touched \cup {ItemName(x.todo[1]).video} ELSE x.touched
  /\ y.phase = x.phase
  /\ y.errors = IF Flawed(x.todo[1]) THEN 1 ELSE x.errors
  /\ x.todo[1].bytes \notin Broken

\* _import_corpus_items keeps the invariant.
LEMMA ImportsIs ==
  ASSUME LibraryOK, NEW x, NEW t, GoodVisit(x, t), VisitComplete(x), NEW y, Imports(x, y)
  PROVE  GoodVisit(y, t) /\ VisitComplete(y)
<1> DEFINE item == x.todo[1]
<1>1. VisitOK(x) /\ VisitRows(x) /\ Keeps(t, x.tables)
  BY DEF GoodVisit
<1>2. Takes(x, y) /\ Evolves(x, y) /\ y.tables = Taken(x.tables, item) /\ Supported(item.place[2])
  BY DEF Imports
<1>3. /\ item \in Items /\ y.todo \in Seq(Items)
      /\ x.feed = None /\ x.since = edits =>
           \A k \in DOMAIN y.todo : y.todo[k] = Item(y.todo[k].place)
      /\ \A place \in Places : Listed(y, place) /\ ~Listed(x, place) => place = item.place
      /\ x.since = edits => item = Item(item.place)
  BY <1>1, <1>2, TakeOne
<1>4. TablesOK(x.tables) /\ x.feed = None /\ x.phase = "items"
  BY <1>1, <1>2 DEF VisitOK, Takes
<1>5. RowsBut(x.tables, x.touched)
  BY <1>1, <1>4 DEF VisitRows, Owed
<1>6. /\ TablesOK(y.tables) /\ Keeps(x.tables, y.tables) /\ Learned(x.tables, y.tables, item)
  BY <1>2, <1>3, <1>4, TakenIs
<1>7. y.touched = IF Touches(x.tables, item) THEN x.touched \cup {ItemName(item).video} ELSE x.touched
  BY DEF Imports
<1>8. RowsBut(y.tables, y.touched)
  BY <1>2, <1>3, <1>4, <1>5, <1>7, RowsAfter
<1>9. VisitOK(y)
  BY <1>1, <1>2, <1>3, <1>6 DEF VisitOK, Imports, Takes, Evolves
<1>10. VisitRows(y)
  <2>1. Owed(y) = y.touched
    BY <1>2, <1>4 DEF Owed, Imports, Evolves
  <2>2. ASSUME NEW gone \in y.left PROVE gone[1] \in y.touched
    <3>1. CASE gone \in x.left
      BY <1>1, <1>7, <3>1 DEF VisitRows
    <3>2. CASE gone \notin x.left
      <4>1. PICK a \in Known(x.tables, item) :
              a.slug # item.slug /\ gone = <<ItemName(item).video, a.slug>>
        BY <2>2, <3>2 DEF Imports
      <4>2. Touches(x.tables, item)
        BY <4>1 DEF Touches
      <4> QED
        BY <1>7, <4>1, <4>2
    <3> QED
      BY <3>1, <3>2
  <2> QED
    BY <1>8, <2>1, <2>2 DEF VisitRows
<1>11. Keeps(t, y.tables)
  BY <1>1, <1>6, KeepsOn
<1>12. ASSUME x.since = edits, NEW place \in Places, Listed(x, place),
              Readable(place), Imported(x.tables, place)
       PROVE  Imported(y.tables, place)
  BY <1>3, <1>6, <1>12, ImportedKept
<1>13. ASSUME x.since = edits, NEW place \in Places, Listed(y, place), ~Listed(x, place)
       PROVE  /\ Imported(y.tables, place)
              /\ <<Artifacts[place[2]].video, SourceOf(place)>> \in y.seen
              /\ y.errors = 0 => Readable(place) /\ ~Flawed(Item(place))
  <2>1. place = item.place /\ item = Item(place)
    BY <1>3, <1>13
  <2>2. Imported(y.tables, place)
    BY <1>3, <1>6, <2>1, ImportedNow
  <2>3. item.bytes = library[place] /\ item.slug = SourceOf(place)
    BY <2>1, PlaceIs
  <2>4. Readable(place)
    BY <2>1, <2>3 DEF Imports, Readable
  <2>5. y.errors = 0 => ~Flawed(item)
    BY DEF Imports
  <2>6. <<Artifacts[place[2]].video, SourceOf(place)>> \in y.seen
    BY <2>1, <2>3 DEF Imports, ItemName
  <2> QED
    BY <2>1, <2>2, <2>4, <2>5, <2>6
<1>14. Continues(x, y)
  BY <1>3, <1>12, <1>13 DEF Continues
<1> QED
  BY <1>2, <1>9, <1>10, <1>11, <1>14, CompleteOn DEF GoodVisit

-----------------------------------------------------------------------------
(* CatalogContents: the end of an import, and discoveries.                  *)

\* A step that takes nothing, after which an import that was at work is further on.
Rests(x, y) ==
  /\ Evolves(x, y) /\ y.layouts = x.layouts /\ y.todo = x.todo
  /\ y.seen = x.seen /\ y.left = x.left /\ y.touched = x.touched /\ y.errors = x.errors
  /\ x.feed = None /\ x.layouts = <<>> /\ x.todo = <<>>

\* Such a step keeps what the import has done, if the tables do.
LEMMA RestsIs ==
  ASSUME NEW x, VisitOK(x), VisitComplete(x), NEW y, Rests(x, y), y.phase \in {"index", "done"},
         TablesOK(y.tables),
         \A place \in Places :
           /\ Readable(place) /\ Imported(x.tables, place)
           /\ <<Artifacts[place[2]].video, SourceOf(place)>> \in x.seen
           => Imported(y.tables, place)
  PROVE  VisitOK(y) /\ VisitComplete(y)
<1>1. VisitOK(y)
  BY DEF VisitOK, Rests, Evolves
<1>2. \A place : Listed(y, place) => Listed(x, place)
  BY DEF Listed, Rests
<1>3. x.feed = None /\ x.since = edits => \A k \in DOMAIN y.todo : y.todo[k] = Item(y.todo[k].place)
  BY DEF VisitComplete, Rests
<1>4. Continues(x, y)
  BY <1>2, <1>3 DEF Continues
<1> QED
  BY <1>1, <1>4, CompleteOn DEF Rests

\* Sources are dropped that nothing has confirmed.
Drops(x, y, gone) ==
  /\ Rests(x, y) /\ x.phase = "items" /\ y.phase = "index"
  /\ y.tables = [x.tables EXCEPT !.sources = @ \ gone]
  /\ \A s \in gone : <<s.video, s.slug>> \in x.left \ x.seen /\ ~s.url

\* The sources that are dropped are none that an import has seen, nor any with an address.
LEMMA DropsIs ==
  ASSUME NEW x, NEW t, GoodVisit(x, t), VisitComplete(x), NEW y, NEW gone, Drops(x, y, gone)
  PROVE  GoodVisit(y, t) /\ VisitComplete(y)
<1>1. VisitOK(x) /\ VisitRows(x) /\ Keeps(t, x.tables) /\ TablesOK(x.tables)
  BY DEF GoodVisit, VisitOK
<1>2. /\ Rests(x, y) /\ y.phase = "index" /\ y.feed = None /\ y.touched = x.touched
      /\ y.left = x.left
  BY DEF Drops, Rests, Evolves
<1>3. y.tables = [videos |-> x.tables.videos, sources |-> x.tables.sources \ gone,
                  artifacts |-> x.tables.artifacts, rows |-> x.tables.rows]
  BY <1>1 DEF Drops, TablesOK
<1>4. /\ y.tables.videos = x.tables.videos /\ y.tables.sources = x.tables.sources \ gone
      /\ y.tables.artifacts = x.tables.artifacts /\ y.tables.rows = x.tables.rows
      /\ y.tables = [videos |-> y.tables.videos, sources |-> y.tables.sources,
                     artifacts |-> y.tables.artifacts, rows |-> y.tables.rows]
  BY <1>3
<1>5. \A s \in gone : <<s.video, s.slug>> \in x.left /\ <<s.video, s.slug>> \notin x.seen /\ ~s.url
  BY DEF Drops
<1>6. TablesOK(y.tables)
  BY <1>1, <1>4 DEF TablesOK
<1>7. Keeps(x.tables, y.tables)
  BY <1>4, <1>5 DEF Keeps
<1>8. RowsBut(x.tables, x.touched) /\ \A v \in x.left : v[1] \in x.touched
  BY <1>1 DEF VisitRows, Owed, Drops, Rests
<1>9. RowsBut(y.tables, x.touched)
  <2>1. ASSUME NEW v \in Videos \ x.touched PROVE RowAgrees(y.tables, v)
    <3>1. \A s \in gone : s.video # v
      BY <1>5, <1>8
    <3>2. SourcesOf(y.tables, v) = SourcesOf(x.tables, v)
      BY <1>4, <3>1 DEF SourcesOf
    <3>3. TextsOf(y.tables, v) = TextsOf(x.tables, v)
      BY <1>4 DEF TextsOf
    <3> QED
      BY <1>4, <1>8, <3>2, <3>3, SameRow DEF RowsBut
  <2> QED
    BY <1>4, <1>8, <2>1 DEF RowsBut
<1>10. VisitRows(y)
  BY <1>2, <1>8, <1>9 DEF VisitRows, Owed
<1>11. ASSUME NEW place \in Places, Imported(x.tables, place),
              <<Artifacts[place[2]].video, SourceOf(place)>> \in x.seen
       PROVE  Imported(y.tables, place)
  <2>1. SourceOf(place) \in SourcesOf(y.tables, Artifacts[place[2]].video)
    <3>1. PICK s \in x.tables.sources : s.video = Artifacts[place[2]].video /\ s.slug = SourceOf(place)
      BY <1>11 DEF Imported, SourcesOf
    <3>2. s \notin gone
      BY <1>5, <1>11, <3>1
    <3> QED
      BY <1>4, <3>1, <3>2 DEF SourcesOf
  <2>2. Known(y.tables, Item(place)) = Known(x.tables, Item(place))
    BY <1>4 DEF Known
  <2> QED
    BY <1>11, <2>1, <2>2 DEF Imported
<1>12. VisitOK(y) /\ VisitComplete(y)
  BY <1>1, <1>2, <1>6, <1>11, RestsIs
<1> QED
  BY <1>1, <1>7, <1>10, <1>12, KeepsOn DEF GoodVisit

\* The rows of the videos that were touched are made again.
Reindexes(x, y) ==
  Rests(x, y) /\ x.phase = "index" /\ y.phase = "done" /\ y.tables = Reindexed(x.tables, x.touched)

\* Afterwards no row is owed.
LEMMA ReindexesIs ==
  ASSUME NEW x, NEW t, GoodVisit(x, t), VisitComplete(x), NEW y, Reindexes(x, y)
  PROVE  GoodVisit(y, t) /\ VisitComplete(y)
<1>1. VisitOK(x) /\ VisitRows(x) /\ Keeps(t, x.tables) /\ TablesOK(x.tables)
  BY DEF GoodVisit, VisitOK
<1>2. /\ Rests(x, y) /\ y.phase = "done" /\ y.tables = Reindexed(x.tables, x.touched)
      /\ y.left = x.left /\ y.touched = x.touched
  BY DEF Reindexes, Rests
<1>3. RowsBut(x.tables, x.touched) /\ \A v \in x.left : v[1] \in x.touched
  BY <1>1 DEF VisitRows, Owed, Reindexes, Rests
<1>4. /\ TablesOK(y.tables) /\ Keeps(x.tables, y.tables) /\ RowsBut(y.tables, {})
      /\ y.tables.sources = x.tables.sources /\ y.tables.artifacts = x.tables.artifacts
  BY <1>1, <1>2, <1>3, ReindexedIs
<1>5. VisitRows(y)
  BY <1>2, <1>3, <1>4 DEF VisitRows, Owed
<1>6. \A place \in Places : Imported(x.tables, place) => Imported(y.tables, place)
  BY <1>4 DEF Imported, SourcesOf, Known
<1>7. VisitOK(y) /\ VisitComplete(y)
  BY <1>1, <1>2, <1>4, <1>6, RestsIs
<1> QED
  BY <1>1, <1>4, <1>5, <1>7, KeepsOn DEF GoodVisit

\* The tables with a video a discovery has found.
Discovered(t, found, slug) ==
  Reindexed(WithSource(WithVideo(t, found.video, found.title), found.video, slug, TRUE),
            {found.video})

\* What ingest_discovery makes of the tables.
LEMMA DiscoveredIs ==
  ASSUME NEW t, TablesOK(t), RowsBut(t, {}), NEW found \in Feedback, NEW slug \in Slugs,
         NEW u, u = Discovered(t, found, slug)
  PROVE  TablesOK(u) /\ Keeps(t, u) /\ RowsBut(u, {})
<1> DEFINE video == found.video
           title == found.title
           t1 == WithVideo(t, video, title)
           always == TRUE
           t2 == WithSource(t1, video, slug, always)
<1>1. video \in Videos /\ title \in Titles \cup {None} /\ always \in BOOLEAN
  BY DEF Feedback
<1>2. u = Reindexed(t2, {video})
  BY DEF Discovered
<1> HIDE DEF video, title
<1>3. /\ TablesOK(t1) /\ Keeps(t, t1)
      /\ t1.sources = t.sources /\ t1.artifacts = t.artifacts /\ t1.rows = t.rows
      /\ t1.videos[video] # None
      /\ \A v \in Videos \ {video} : t1.videos[v] = t.videos[v]
  BY <1>1, WithVideoIs
<1> HIDE DEF t1, always
<1>4. /\ TablesOK(t2) /\ Keeps(t1, t2)
      /\ t2.videos = t1.videos /\ t2.artifacts = t1.artifacts /\ t2.rows = t1.rows
      /\ \A v \in Videos \ {video} : SourcesOf(t2, v) = SourcesOf(t1, v)
  BY <1>1, <1>3, WithSourceIs
<1> HIDE DEF t2
<1>5. RowsBut(t2, {video})
  <2>1. ASSUME NEW v \in Videos \ {video} PROVE RowAgrees(t2, v)
    <3>1. SourcesOf(t2, v) = SourcesOf(t, v) /\ TextsOf(t2, v) = TextsOf(t, v)
      BY <1>3, <1>4 DEF SourcesOf, TextsOf
    <3> QED
      BY <1>3, <1>4, <3>1, SameRow DEF RowsBut
  <2> QED
    BY <1>1, <1>3, <1>4, <2>1 DEF RowsBut
<1>6. TablesOK(u) /\ Keeps(t2, u) /\ RowsBut(u, {})
  BY <1>2, <1>4, <1>5, ReindexedIs
<1>7. Keeps(t1, u)
  BY <1>4, <1>6, KeepsOn
<1> QED
  BY <1>3, <1>6, <1>7, KeepsOn

\* A video of a discovery.
Ingests(x, y) ==
  /\ Evolves(x, y) /\ x.feed # None /\ x.todo # <<>>
  /\ y.layouts = x.layouts /\ y.todo = Tail(x.todo)
  /\ y.tables = Discovered(x.tables, x.todo[1], x.feed.slug)
  /\ y.left = x.left /\ y.touched = x.touched

\* A discovery owes no rows between its videos.
LEMMA IngestsIs ==
  ASSUME NEW x, NEW t, GoodVisit(x, t), NEW y, Ingests(x, y)
  PROVE  GoodVisit(y, t) /\ VisitComplete(y)
<1>1. VisitOK(x) /\ VisitRows(x) /\ Keeps(t, x.tables) /\ TablesOK(x.tables)
  BY DEF GoodVisit, VisitOK
<1>2. x.feed \in Feeds /\ x.feed.slug \in Slugs /\ x.feed # None /\ y.feed = x.feed
  BY <1>1, ContentsAssumption DEF VisitOK, Ingests, Evolves
<1>3. x.todo \in Seq(Feedback) /\ x.todo # <<>> /\ y.todo = Tail(x.todo)
  BY <1>1, <1>2 DEF VisitOK, Ingests
<1>4. x.todo[1] \in Feedback /\ y.todo \in Seq(Feedback)
  <2>1. Len(x.todo) \in Nat /\ Len(x.todo) # 0
    BY <1>3, EmptySeq
  <2> QED
    BY <1>3, <2>1, ElementOfSeq, HeadTailProperties
<1>5. RowsBut(x.tables, {}) /\ \A v \in x.left : v[1] \in x.touched
  BY <1>1, <1>2 DEF VisitRows, Owed
<1>6. y.tables = Discovered(x.tables, x.todo[1], x.feed.slug)
  BY DEF Ingests
<1>7. TablesOK(y.tables) /\ Keeps(x.tables, y.tables) /\ RowsBut(y.tables, {})
  BY <1>1, <1>2, <1>4, <1>5, <1>6, DiscoveredIs
<1>8. VisitOK(y)
  BY <1>1, <1>2, <1>4, <1>7 DEF VisitOK, Ingests, Evolves
<1>9. VisitRows(y)
  BY <1>2, <1>5, <1>7 DEF VisitRows, Owed, Ingests
<1>10. VisitComplete(y)
  BY <1>2 DEF VisitComplete
<1> QED
  BY <1>1, <1>7, <1>8, <1>9, <1>10, KeepsOn DEF GoodVisit

\* A discovery that has taken everything.
Finishes(x, y) ==
  /\ Shaped(y) /\ x.feed # None /\ y.feed = x.feed /\ y.since = x.since
  /\ y.layouts = x.layouts /\ y.todo = x.todo /\ y.tables = x.tables
  /\ y.left = x.left /\ y.touched = x.touched

\* Nor at its end.
LEMMA FinishesIs ==
  ASSUME NEW x, NEW t, GoodVisit(x, t), NEW y, Finishes(x, y)
  PROVE  GoodVisit(y, t) /\ VisitComplete(y)
<1>1. VisitOK(x) /\ VisitRows(x) /\ Keeps(t, x.tables)
  BY DEF GoodVisit
<1>2. VisitOK(y)
  BY <1>1 DEF VisitOK, Finishes
<1>3. VisitRows(y)
  BY <1>1 DEF VisitRows, Owed, Finishes
<1>4. VisitComplete(y) /\ Keeps(t, y.tables)
  BY <1>1 DEF VisitComplete, Finishes
<1> QED
  BY <1>2, <1>3, <1>4 DEF GoodVisit

-----------------------------------------------------------------------------
(* CatalogContents: the steps.                                             *)

\* What is said of a session before a step is true of it after the step.
LEMMA StillComplete ==
  ASSUME UNCHANGED <<library, labels, edits>>, NEW y, VisitComplete(y), visit' = y
  PROVE  VisitComplete(visit)'
BY DEF VisitComplete, Listed, Readable, Imported, Item, SourceOf

\* So is what was reported,
LEMMA StillReported ==
  ASSUME ImportsAreComplete, UNCHANGED <<library, labels, edits, tables, report>>
  PROVE  ImportsAreComplete'
BY DEF ImportsAreComplete, Item, SourceOf

\* what is published,
LEMMA StillStored ==
  ASSUME LibraryOK, RowsBut(tables, {}), UNCHANGED <<library, labels, edits, tables>>
  PROVE  LibraryOK' /\ RowsBut(tables, {})'
BY DEF LibraryOK

\* and what the session has of it.
LEMMA StillGood ==
  ASSUME NEW y, GoodVisit(y, tables), visit' = y, UNCHANGED tables
  PROVE  /\ VisitOK(visit)' /\ VisitRows(visit)'
         /\ Keeps(tables, visit.tables)'
BY DEF GoodVisit

\* A step to a session that satisfies the invariant keeps it.
LEMMA Arrives ==
  ASSUME ContentsInv, visit # None, NEW y, GoodVisit(y, tables), VisitComplete(y),
         y.since = visit.since, Step(y)
  PROVE  ContentsInv'
<1>1. /\ visit' = y /\ y.since <= edits
      /\ UNCHANGED <<library, labels, edits, tables, report>>
  BY DEF ContentsInv, Step
<1>2. LibraryOK' /\ RowsBut(tables, {})'
  BY <1>1, StillStored DEF ContentsInv
<1>3. ReportOK'
  BY <1>1 DEF ContentsInv, ReportOK
<1>4. VisitOK(visit)' /\ VisitRows(visit)' /\ Keeps(tables, visit.tables)'
  BY <1>1, StillGood
<1>5. VisitComplete(visit)' /\ visit'.since <= edits'
  BY <1>1, StillComplete
<1>6. ImportsAreComplete'
  BY <1>1, StillReported DEF ContentsInv
<1> QED
  BY <1>2, <1>3, <1>4, <1>5, <1>6 DEF ContentsInv

\* The directories in the order they are listed.
LEMMA LayoutsAre == Layouts \in Seq(Directories) /\ DOMAIN Layouts = 1..Len(Layouts)
<1>1. Layouts \in Seq(Slugs)
  BY ContentsAssumption
<1>2. DOMAIN Layouts = 1..Len(Layouts) /\ Len(Layouts) \in Nat
  BY <1>1
<1>3. \A k \in 1..Len(Layouts) : Layouts[k] \in Directories
  BY <1>2 DEF Directories
<1>4. Layouts = [k \in 1..Len(Layouts) |-> Layouts[k]]
  BY <1>1, <1>2
<1>5. Layouts \in [1..Len(Layouts) -> Directories]
  BY <1>3, <1>4
<1> QED
  BY <1>2, <1>5

\* A session that has just been opened on a copy of the tables.
Fresh(x) ==
  /\ Shaped(x) /\ x.tables = tables /\ x.left = {} /\ x.touched = {} /\ x.since = edits
  /\ x.phase = "items"
  /\ \/ x.feed = None /\ x.layouts = Layouts /\ x.todo = <<>>
     \/ x.feed \in Feeds /\ x.layouts = <<>> /\ x.todo = x.feed.videos

\* A fresh session satisfies the invariant.
LEMMA FreshIs ==
  ASSUME ContentsInv, NEW x, Fresh(x)
  PROVE  GoodVisit(x, tables) /\ VisitComplete(x)
<1>1. TablesOK(tables) /\ RowsBut(tables, {}) /\ edits \in Nat
  BY DEF ContentsInv, LibraryOK
<1>2. Keeps(tables, x.tables)
  BY KeepsItself DEF Fresh
<1>3. VisitRows(x)
  BY <1>1 DEF VisitRows, Owed, Fresh
<1>4. CASE x.feed = None /\ x.layouts = Layouts /\ x.todo = <<>>
  <2>1. VisitOK(x)
    BY <1>1, <1>4, LayoutsAre, EmptySeq DEF VisitOK, Fresh
  <2>2. ASSUME NEW place \in Places PROVE ~Listed(x, place)
    <3>1. place[1] \in Directories
      BY DEF Places
    <3> QED
      BY <1>4, <3>1 DEF Listed, Directories
  <2>3. VisitComplete(x)
    BY <1>4, <2>2 DEF VisitComplete
  <2> QED
    BY <1>2, <1>3, <2>1, <2>3 DEF GoodVisit
<1>5. CASE x.feed \in Feeds /\ x.layouts = <<>> /\ x.todo = x.feed.videos
  <2>1. x.feed # None
    BY <1>5, NoneIs
  <2>2. x.todo \in Seq(Feedback)
    BY <1>5, ContentsAssumption DEF Feedback
  <2>3. VisitOK(x)
    BY <1>1, <1>5, <2>1, <2>2, EmptySeq DEF VisitOK, Fresh
  <2>4. VisitComplete(x)
    BY <2>1 DEF VisitComplete
  <2> QED
    BY <1>2, <1>3, <2>3, <2>4 DEF GoodVisit
<1> QED
  BY <1>4, <1>5 DEF Fresh

\* So opening one keeps it.
LEMMA Opens ==
  ASSUME ContentsInv, NEW x, Fresh(x), visit' = x, report' = None,
         UNCHANGED <<library, labels, tables, edits>>
  PROVE  ContentsInv'
<1>1. GoodVisit(x, tables) /\ VisitComplete(x) /\ x.since = edits /\ edits \in Nat
  BY FreshIs DEF Fresh, ContentsInv, LibraryOK
<1>2. LibraryOK' /\ RowsBut(tables, {})'
  BY StillStored DEF ContentsInv
<1>3. ReportOK' /\ ImportsAreComplete'
  BY DEF ReportOK, ImportsAreComplete
<1>4. VisitOK(visit)' /\ VisitRows(visit)' /\ Keeps(tables, visit.tables)'
  BY <1>1, StillGood
<1>5. VisitComplete(visit)' /\ visit'.since <= edits'
  BY <1>1, StillComplete
<1> QED
  BY <1>2, <1>3, <1>4, <1>5 DEF ContentsInv

\* Whoever changes the corpus ends every claim about the imports so far.
LEMMA Edits ==
  ASSUME ContentsInv, Edit
  PROVE  ContentsInv'
<1>1. /\ edits \in Nat /\ edits' = edits + 1 /\ UNCHANGED <<tables, visit, report>>
  BY DEF Edit, Write, Move, Label, Edited, ContentsInv, LibraryOK
<1>2. library' \in [Places -> Contents \cup {None}] /\ labels' \in [Videos -> Slugs \cup {None}]
  BY DEF Edit, Write, Move, Label, ContentsInv, LibraryOK
<1>3. LibraryOK' /\ RowsBut(tables, {})'
  BY <1>1, <1>2 DEF LibraryOK, ContentsInv
<1>4. ReportOK'
  BY <1>1 DEF ReportOK, ContentsInv
<1>5. ImportsAreComplete'
  <2>1. report' # None => report'.since <= edits /\ report'.since \in Nat
    BY <1>1 DEF ReportOK, ContentsInv
  <2>2. report' # None => report'.since # edits'
    BY <1>1, <2>1
  <2> QED
    BY <2>2 DEF ImportsAreComplete
<1>6. ASSUME visit' # None
      PROVE  /\ VisitOK(visit)' /\ VisitRows(visit)' /\ Keeps(tables, visit.tables)'
             /\ visit'.since <= edits' /\ VisitComplete(visit)'
  <2>1. /\ VisitOK(visit) /\ VisitRows(visit) /\ Keeps(tables, visit.tables)
        /\ visit.since <= edits /\ visit.since \in Nat
    BY <1>1, <1>6 DEF ContentsInv, VisitOK
  <2>2. visit'.since <= edits' /\ visit'.since # edits'
    BY <1>1, <2>1
  <2>3. VisitComplete(visit)'
    BY <2>2 DEF VisitComplete
  <2> QED
    BY <1>1, <2>1, <2>2, <2>3
<1> QED
  BY <1>3, <1>4, <1>5, <1>6 DEF ContentsInv

\* What an import returns.
LEMMA Reports ==
  ASSUME ContentsInv, EndSession
  PROVE  ImportsAreComplete'
<1>1. /\ visit # None /\ visit.phase = "done" /\ tables' = visit.tables
      /\ report' = [import |-> visit.feed = None, since |-> visit.since,
                    status |-> IF visit.errors = 0 THEN "completed" ELSE "partial"]
      /\ UNCHANGED <<library, labels, edits>>
  BY DEF EndSession
<1>2. /\ report'.since = visit.since /\ report'.import = (visit.feed = None)
      /\ (report'.status = "completed" => visit.errors = 0)
  BY <1>1
<1>3. VisitOK(visit) /\ VisitComplete(visit)
  BY <1>1 DEF ContentsInv
<1>4. ASSUME visit.feed = None, visit.since = edits, NEW place \in Places, library[place] # None
      PROVE  /\ Readable(place) => Imported(visit.tables, place)
             /\ visit.errors = 0 => Readable(place) /\ ~Flawed(Item(place))
  <2>1. visit.layouts = <<>> /\ visit.todo = <<>>
    BY <1>1, <1>3, <1>4 DEF VisitOK
  <2>2. Listed(visit, place)
    BY <1>4, <2>1 DEF Listed
  <2> QED
    BY <1>3, <1>4, <2>2 DEF VisitComplete
<1>5. ASSUME report'.import, report'.since = edits'
      PROVE  visit.feed = None /\ visit.since = edits
  BY <1>1, <1>2, <1>5
<1> QED
  BY <1>1, <1>2, <1>4, <1>5 DEF ImportsAreComplete, Readable, Imported, Item, SourceOf

\* What the steps of a session make of it.
LEMMA StepsAre ==
  ASSUME ContentsInv, visit # None, NEW y, Step(y),
         \/ Passes(visit, y) \/ Imports(visit, y) \/ Reindexes(visit, y)
         \/ Ingests(visit, y) \/ Finishes(visit, y)
         \/ \E n, found : Enlists(visit, y, n, found)
         \/ \E gone : Drops(visit, y, gone)
  PROVE  ContentsInv'
<1>1. LibraryOK /\ GoodVisit(visit, tables) /\ VisitComplete(visit)
  BY DEF ContentsInv, GoodVisit
<1>2. GoodVisit(y, tables) /\ VisitComplete(y)
  <2>1. CASE Passes(visit, y) \/ Imports(visit, y)
    BY <1>1, <2>1, PassesIs, ImportsIs
  <2>2. CASE Reindexes(visit, y) \/ \E gone : Drops(visit, y, gone)
    BY <1>1, <2>2, ReindexesIs, DropsIs
  <2>3. CASE Ingests(visit, y) \/ Finishes(visit, y)
    BY <1>1, <2>3, IngestsIs, FinishesIs
  <2>4. CASE \E n, found : Enlists(visit, y, n, found)
    BY <1>1, <2>4, EnlistsIs
  <2> QED
    BY <2>1, <2>2, <2>3, <2>4
<1>3. y.since = visit.since
  BY DEF Passes, Imports, Reindexes, Ingests, Finishes, Enlists, Drops, Rests, Evolves
<1> QED
  BY <1>1, <1>2, <1>3, Arrives

\* Every step keeps the invariant.
LEMMA ContentsStep ==
  ASSUME ContentsInv, ContentsNext
  PROVE  ContentsInv'
<1>1. visit # None => Shaped(visit) /\ TablesOK(visit.tables)
  BY DEF ContentsInv, VisitOK
<1>2. CASE Edit
  BY <1>2, Edits
<1>3. CASE OpenImport \/ \E feed \in Feeds : OpenDiscovery(feed)
  <2>1. PICK x : Fresh(x) /\ visit' = x
    <3>1. CASE OpenImport
      BY <3>1 DEF OpenImport, OpenSession, Fresh, Shaped
    <3>2. CASE \E feed \in Feeds : OpenDiscovery(feed)
      BY <3>2 DEF OpenDiscovery, OpenSession, Fresh, Shaped
    <3> QED
      BY <1>3, <3>1, <3>2
  <2>2. report' = None /\ UNCHANGED <<library, labels, tables, edits>>
    BY <1>3 DEF OpenImport, OpenDiscovery, OpenSession
  <2> QED
    BY <2>1, <2>2, Opens
<1>4. CASE ListLayout
  <2>1. PICK n \in 0..Len(Artifacts) : \E found \in [1..n -> Present(Head(visit.layouts))] :
          /\ Lists(Head(visit.layouts), found)
          /\ Step([visit EXCEPT !.layouts = Tail(@),
                     !.todo = @ \o Inventory(Head(visit.layouts), found)])
    BY <1>4 DEF ListLayout
  <2>2. PICK found \in [1..n -> Present(Head(visit.layouts))] :
          /\ Lists(Head(visit.layouts), found)
          /\ Step([visit EXCEPT !.layouts = Tail(@),
                     !.todo = @ \o Inventory(Head(visit.layouts), found)])
    BY <2>1
  <2> DEFINE more == Inventory(Head(visit.layouts), found)
             z == [visit EXCEPT !.layouts = Tail(@), !.todo = @ \o more]
  <2>3. visit # None /\ visit.feed = None /\ visit.layouts # <<>> /\ Step(z)
    BY <1>4, <2>2 DEF ListLayout, Importing
  <2> HIDE DEF more
  <2>4. Shaped(visit)
    BY <1>1, <2>3
  <2>5. PICK y : y = z
    OBVIOUS
  <2>6. y = [layouts |-> Tail(visit.layouts), todo |-> visit.todo \o more,
           feed |-> visit.feed, tables |-> visit.tables, seen |-> visit.seen, left |-> visit.left,
           touched |-> visit.touched, errors |-> visit.errors, phase |-> visit.phase,
           since |-> visit.since]
    BY <2>4, <2>5 DEF Shaped
  <2> HIDE DEF z
  <2>7. Shaped(y)
    BY <2>6 DEF Shaped
  <2>8. Enlists(visit, y, n, found)
    <3>1. /\ y.feed = visit.feed /\ y.since = visit.since /\ y.layouts = Tail(visit.layouts)
          /\ y.todo = visit.todo \o more /\ y.tables = visit.tables /\ y.seen = visit.seen
          /\ y.left = visit.left /\ y.touched = visit.touched /\ y.errors = visit.errors
          /\ y.phase = visit.phase
      BY <2>6
    <3>2. Evolves(visit, y)
      BY <2>7, <3>1 DEF Evolves
    <3>3. n \in Nat
      OBVIOUS
    <3> QED
      BY <2>2, <2>3, <3>1, <3>2, <3>3 DEF Enlists, more
  <2>9. Step(y)
    BY <2>3, <2>5
  <2> QED
    BY <2>3, <2>8, <2>9, StepsAre
<1>5. CASE SkipItem
  <2> DEFINE z == [visit EXCEPT !.todo = Tail(@), !.errors = 1]
  <2>1. /\ visit # None /\ visit.feed = None /\ visit.layouts = <<>> /\ visit.phase = "items"
        /\ visit.todo # <<>> /\ ~Supported(visit.todo[1].place[2]) /\ Step(z)
    BY <1>5 DEF SkipItem, Ready, Importing, Next_
  <2>2. Shaped(visit)
    BY <1>1, <2>1
  <2>3. PICK y : y = z
    OBVIOUS
  <2>4. y = [layouts |-> visit.layouts, todo |-> Tail(visit.todo),
           feed |-> visit.feed, tables |-> visit.tables, seen |-> visit.seen, left |-> visit.left,
           touched |-> visit.touched, errors |-> 1, phase |-> visit.phase, since |-> visit.since]
    BY <2>2, <2>3 DEF Shaped
  <2> HIDE DEF z
  <2>5. Shaped(y)
    BY <2>4 DEF Shaped
  <2>6. Passes(visit, y)
    BY <2>1, <2>4, <2>5 DEF Passes, Takes, Evolves
  <2>7. Step(y)
    BY <2>1, <2>3
  <2> QED
    BY <2>1, <2>6, <2>7, StepsAre
<1>6. CASE FailItem
  <2> DEFINE new == <<Artifacts[visit.todo[1].place[2]].video, visit.todo[1].slug>>
             z == [visit EXCEPT !.todo = Tail(@), !.errors = 1, !.seen = @ \cup {new}]
  <2>1. /\ visit # None /\ visit.feed = None /\ visit.layouts = <<>> /\ visit.phase = "items"
        /\ visit.todo # <<>> /\ visit.todo[1].bytes \in Broken /\ Step(z)
    BY <1>6 DEF FailItem, Ready, Importing, Next_
  <2> HIDE DEF new
  <2>2. Shaped(visit)
    BY <1>1, <2>1
  <2>3. PICK y : y = z
    OBVIOUS
  <2>4. y = [layouts |-> visit.layouts, todo |-> Tail(visit.todo),
           feed |-> visit.feed, tables |-> visit.tables, seen |-> visit.seen \cup {new},
           left |-> visit.left, touched |-> visit.touched, errors |-> 1,
           phase |-> visit.phase, since |-> visit.since]
    BY <2>2, <2>3 DEF Shaped
  <2> HIDE DEF z
  <2>5. Shaped(y)
    BY <2>4 DEF Shaped
  <2>6. Passes(visit, y)
    BY <2>1, <2>4, <2>5 DEF Passes, Takes, Evolves
  <2>7. Step(y)
    BY <2>1, <2>3
  <2> QED
    BY <2>1, <2>6, <2>7, StepsAre
<1>7. CASE ImportItem
  <2> DEFINE item == visit.todo[1]
             video == ItemName(item).video
             errors == IF Flawed(item) THEN 1 ELSE visit.errors
             noticed == visit.seen \cup {<<video, item.slug>>}
             left == visit.left \cup
                       {<<video, a.slug>> : a \in {b \in Known(visit.tables, item) : b.slug # item.slug}}
             touched == IF Touches(visit.tables, item) THEN visit.touched \cup {video}
                        ELSE visit.touched
             after == Taken(visit.tables, item)
             z == [visit EXCEPT !.todo = Tail(@), !.errors = errors, !.seen = noticed,
                     !.left = left, !.tables = after, !.touched = touched]
  <2>1. /\ visit # None /\ visit.feed = None /\ visit.layouts = <<>> /\ visit.phase = "items"
        /\ visit.todo # <<>> /\ Supported(item.place[2]) /\ item.bytes \notin Broken
    BY <1>7, SMTT(30) DEF ImportItem, Ready, Importing, Next_
  <2>2. Step(z)
    BY <1>7 DEF ImportItem, Next_, Taken, ItemName
  <2> HIDE DEF errors, noticed, left, touched, after
  <2>3. Shaped(visit)
    BY <1>1, <2>1
  <2>4. PICK y : y = z
    OBVIOUS
  <2>5. y = [layouts |-> visit.layouts, todo |-> Tail(visit.todo),
           feed |-> visit.feed, tables |-> after, seen |-> noticed, left |-> left,
           touched |-> touched, errors |-> errors, phase |-> visit.phase, since |-> visit.since]
    BY <2>3, <2>4 DEF Shaped
  <2> HIDE DEF z
  <2>6. Shaped(y)
    BY <2>5 DEF Shaped
  <2>7. /\ Shaped(y) /\ y.feed = visit.feed /\ y.since = visit.since /\ y.layouts = visit.layouts
        /\ y.todo = Tail(visit.todo) /\ y.tables = after /\ y.seen = noticed /\ y.left = left
        /\ y.touched = touched /\ y.errors = errors /\ y.phase = visit.phase
    BY <2>5, <2>6
  <2>8. visit.seen \subseteq noticed /\ <<video, item.slug>> \in noticed /\ (errors = 0 => visit.errors = 0)
    BY DEF noticed, errors
  <2>9. Takes(visit, y) /\ Evolves(visit, y)
    BY <2>1, <2>7, <2>8 DEF Takes, Evolves
  <2>10. Imports(visit, y)
    BY <2>1, <2>7, <2>8, <2>9 DEF Imports, left, touched, errors, after
  <2>11. Step(y)
    BY <2>2, <2>4
  <2> QED
    BY <2>1, <2>10, <2>11, StepsAre
<1>8. CASE DropStale
  <2> DEFINE gone == Stale
             after == [visit.tables EXCEPT !.sources = @ \ gone]
             z == [visit EXCEPT !.phase = "index", !.tables = after]
  <2>1. /\ visit # None /\ visit.feed = None /\ visit.layouts = <<>> /\ visit.phase = "items"
        /\ visit.todo = <<>>
    BY <1>8 DEF DropStale, Importing
  <2>2. Step(z)
    BY <1>8 DEF DropStale
  <2>3. \A s \in gone : <<s.video, s.slug>> \in visit.left \ visit.seen /\ ~s.url
    BY DEF Stale
  <2> HIDE DEF gone, after
  <2>4. Shaped(visit)
    BY <1>1, <2>1
  <2>5. PICK y : y = z
    OBVIOUS
  <2>6. y = [layouts |-> visit.layouts, todo |-> visit.todo,
           feed |-> visit.feed, tables |-> after, seen |-> visit.seen, left |-> visit.left,
           touched |-> visit.touched, errors |-> visit.errors, phase |-> "index",
           since |-> visit.since]
    BY <2>4, <2>5 DEF Shaped
  <2> HIDE DEF z
  <2>7. Shaped(y)
    BY <2>6 DEF Shaped
  <2>8. Drops(visit, y, gone)
    BY <2>1, <2>3, <2>6, <2>7 DEF Drops, Rests, Evolves, after
  <2>9. Step(y)
    BY <2>2, <2>5
  <2> QED
    BY <2>1, <2>8, <2>9, StepsAre
<1>9. CASE Reindex
  <2> DEFINE after == Reindexed(visit.tables, visit.touched)
             z == [visit EXCEPT !.phase = "done", !.tables = after]
  <2>1. visit # None /\ visit.feed = None /\ visit.phase = "index"
    BY <1>9 DEF Reindex, Importing
  <2>2. visit.layouts = <<>> /\ visit.todo = <<>>
    BY <2>1 DEF ContentsInv, VisitOK
  <2>3. Step(z)
    BY <1>9 DEF Reindex
  <2> HIDE DEF after
  <2>4. Shaped(visit)
    BY <1>1, <2>1
  <2>5. PICK y : y = z
    OBVIOUS
  <2>6. y = [layouts |-> visit.layouts, todo |-> visit.todo,
           feed |-> visit.feed, tables |-> after, seen |-> visit.seen, left |-> visit.left,
           touched |-> visit.touched, errors |-> visit.errors, phase |-> "done",
           since |-> visit.since]
    BY <2>4, <2>5 DEF Shaped
  <2> HIDE DEF z
  <2>7. Shaped(y)
    BY <2>6 DEF Shaped
  <2>8. Reindexes(visit, y)
    BY <2>1, <2>2, <2>6, <2>7 DEF Reindexes, Rests, Evolves, after
  <2>9. Step(y)
    BY <2>3, <2>5
  <2> QED
    BY <2>1, <2>8, <2>9, StepsAre
<1>10. CASE IngestVideo
  <2> DEFINE after == Discovered(visit.tables, visit.todo[1], visit.feed.slug)
             z == [visit EXCEPT !.todo = Tail(@), !.tables = after]
  <2>1. visit # None /\ visit.feed # None /\ visit.todo # <<>>
    BY <1>10 DEF IngestVideo
  <2>2. Step(z)
    BY <1>10 DEF IngestVideo, Discovered
  <2> HIDE DEF after
  <2>3. Shaped(visit)
    BY <1>1, <2>1
  <2>4. PICK y : y = z
    OBVIOUS
  <2>5. y = [layouts |-> visit.layouts, todo |-> Tail(visit.todo),
           feed |-> visit.feed, tables |-> after, seen |-> visit.seen, left |-> visit.left,
           touched |-> visit.touched, errors |-> visit.errors, phase |-> visit.phase,
           since |-> visit.since]
    BY <2>3, <2>4 DEF Shaped
  <2> HIDE DEF z
  <2>6. Shaped(y)
    BY <2>5 DEF Shaped
  <2>7. Ingests(visit, y)
    BY <2>1, <2>5, <2>6 DEF Ingests, Evolves, after
  <2>8. Step(y)
    BY <2>2, <2>4
  <2> QED
    BY <2>1, <2>7, <2>8, StepsAre
<1>11. CASE EndDiscovery
  <2> DEFINE errors == IF visit.feed.errors THEN 1 ELSE 0
             z == [visit EXCEPT !.phase = "done", !.errors = errors]
  <2>1. visit # None /\ visit.feed # None /\ Step(z)
    BY <1>11 DEF EndDiscovery
  <2> HIDE DEF errors
  <2>2. Shaped(visit)
    BY <1>1, <2>1
  <2>3. PICK y : y = z
    OBVIOUS
  <2>4. y = [layouts |-> visit.layouts, todo |-> visit.todo,
           feed |-> visit.feed, tables |-> visit.tables, seen |-> visit.seen, left |-> visit.left,
           touched |-> visit.touched, errors |-> errors, phase |-> "done",
           since |-> visit.since]
    BY <2>2, <2>3 DEF Shaped
  <2> HIDE DEF z
  <2>5. Shaped(y)
    BY <2>4 DEF Shaped
  <2>6. Finishes(visit, y)
    BY <2>1, <2>4, <2>5 DEF Finishes
  <2>7. Step(y)
    BY <2>1, <2>3
  <2> QED
    BY <2>1, <2>6, <2>7, StepsAre
<1>12. CASE EndSession
  <2>1. /\ visit # None /\ visit.phase = "done" /\ tables' = visit.tables /\ visit' = None
        /\ report'.since = visit.since /\ UNCHANGED <<library, labels, edits>>
    BY <1>12 DEF EndSession
  <2>2. /\ VisitOK(visit) /\ VisitRows(visit) /\ visit.since <= edits
        /\ TablesOK(visit.tables) /\ visit.since \in Nat
    BY <2>1 DEF ContentsInv, VisitOK
  <2>3. RowsBut(visit.tables, {})
    BY <2>1, <2>2 DEF VisitRows, Owed
  <2>4. LibraryOK' /\ RowsBut(tables, {})'
    BY <2>1, <2>2, <2>3 DEF ContentsInv, LibraryOK
  <2>5. ReportOK'
    BY <2>1, <2>2 DEF ReportOK
  <2> QED
    BY <1>12, <2>1, <2>4, <2>5, Reports DEF ContentsInv
<1>13. CASE Abandon
  <2>1. visit' = None /\ UNCHANGED <<library, labels, tables, report, edits>>
    BY <1>13 DEF Abandon
  <2> QED
    BY <2>1, StillStored, StillReported DEF ContentsInv, ReportOK
<1> QED
  BY <1>2, <1>3, <1>4, <1>5, <1>6, <1>7, <1>8, <1>9, <1>10, <1>11, <1>12, <1>13 DEF ContentsNext

\* So do steps of others.
LEMMA ContentsIdle ==
  ASSUME ContentsInv, UNCHANGED contentsVars
  PROVE  ContentsInv'
<1>1. UNCHANGED <<library, labels, tables, visit, report, edits>>
  BY DEF contentsVars
<1>2. LibraryOK' /\ RowsBut(tables, {})' /\ ImportsAreComplete' /\ ReportOK'
  BY <1>1, StillStored, StillReported DEF ContentsInv, ReportOK
<1>3. ASSUME visit' # None
      PROVE  /\ VisitOK(visit)' /\ VisitRows(visit)' /\ Keeps(tables, visit.tables)'
             /\ visit'.since <= edits' /\ VisitComplete(visit)'
  <2>1. GoodVisit(visit, tables) /\ VisitComplete(visit) /\ visit.since <= edits
    BY <1>1, <1>3 DEF ContentsInv, GoodVisit
  <2> QED
    BY <1>1, <2>1, StillGood, StillComplete
<1> QED
  BY <1>2, <1>3 DEF ContentsInv

\* It holds in the beginning.
LEMMA ContentsInitially == ContentsInit => ContentsInv
<1> SUFFICES ASSUME ContentsInit PROVE ContentsInv
  OBVIOUS
<1>1. /\ tables = NoTables /\ visit = None /\ report = None /\ edits = 0
      /\ library = [place \in Places |-> None] /\ labels = [v \in Videos |-> None]
  BY DEF ContentsInit
<1>2. TablesOK(tables) /\ RowsBut(tables, {})
  BY <1>1 DEF NoTables, TablesOK, RowsBut, RowAgrees
<1>3. LibraryOK
  BY <1>1, <1>2 DEF LibraryOK
<1> QED
  BY <1>1, <1>2, <1>3 DEF ContentsInv, ReportOK, ImportsAreComplete

\* The invariant, from which the three properties of the contents follow, for any corpus,
\* any changes of it and any sessions.
\* The invariant, from which the three properties of the contents follow, for any corpus,
\* any changes of it and any sessions.
THEOREM CatalogKnows == ContentsSpec => []ContentsInv
<1>1. ContentsInv /\ [ContentsNext]_contentsVars => ContentsInv'
  BY ContentsStep, ContentsIdle
<1> QED
  BY <1>1, ContentsInitially, PTL DEF ContentsSpec

\* Every published row is made from the video's current title, sources and texts, whatever
\* videos the sessions have left unindexed (_reindex_video).
THEOREM RowsAlwaysAgree == ContentsSpec => []SearchRowsAgree
<1>1. ContentsInv => SearchRowsAgree
  BY DEF ContentsInv, RowsBut, RowAgrees, SearchRowsAgree
<1> QED
  BY <1>1, CatalogKnows, PTL

\* An import that has returned has every file of a corpus that has not changed since it
\* began, and "completed" means that no file was left out (import_corpus).
THEOREM ImportsDoAll == ContentsSpec => []ImportsAreComplete
<1>1. ContentsInv => ImportsAreComplete
  BY DEF ContentsInv
<1> QED
  BY <1>1, CatalogKnows, PTL

\* No session drops a video, a text or a discovered source (_import_corpus_items).
THEOREM NothingIsForgotten == ContentsSpec => NothingForgotten
<1>1. ASSUME ContentsInv, [ContentsNext]_contentsVars PROVE [KeepsKnown]_contentsVars
  <2>1. tables' = tables \/ Keeps(tables, tables')
    <3>1. CASE EndSession
      <4>1. visit # None /\ tables' = visit.tables
        BY <3>1 DEF EndSession
      <4>2. Keeps(tables, visit.tables)
        BY <4>1, <1>1 DEF ContentsInv
      <4> QED
        BY <4>1, <4>2
    <3>2. CASE ~EndSession
      BY <1>1, <3>2 DEF ContentsNext, contentsVars, Edit, Write, Move, Label, Edited, OpenImport,
        OpenDiscovery, OpenSession, ListLayout, SkipItem, FailItem, ImportItem, DropStale, Reindex,
        IngestVideo, EndDiscovery, Abandon, Step
    <3> QED
      BY <3>1, <3>2
  <2>2. Keeps(tables, tables')
    BY <2>1, KeepsItself
  <2>3. KeepsKnown
    BY <2>2 DEF Keeps, KeepsKnown
  <2> QED
    BY <2>3
<1> QED
  BY <1>1, CatalogKnows, PTL DEF ContentsSpec, NothingForgotten

-----------------------------------------------------------------------------
(* PassageChunking: numbers and ranks.                                     *)

LEMMA LeastOf ==
  ASSUME NEW S \in SUBSET Nat, S # {}
  PROVE  \E m \in S : \A k \in S : m <= k
<1>1. PICK m \in S : \A k \in S : ~(<<k, m>> \in OpToRel(<, Nat))
  BY NatLessThanWellFounded, WFMin
<1>2. ASSUME NEW k \in S, k < m PROVE FALSE
  <2>1. <<k, m>> \in OpToRel(<, Nat)
    BY <1>2 DEF OpToRel
  <2> QED
    BY <1>1, <2>1
<1>3. ASSUME NEW k \in S PROVE m <= k
  BY <1>2
<1> QED
  BY <1>3

LEMMA MinIs ==
  ASSUME NEW S \in SUBSET Nat, S # {}
  PROVE  Min(S) \in S /\ \A k \in S : Min(S) <= k
BY LeastOf DEF Min

\* Counting those before it gives each member of a finite linear order its place.
Linear(R, S) ==
  /\ \A x \in S : <<x, x>> \notin R
  /\ \A x, y \in S : x = y \/ <<x, y>> \in R \/ <<y, x>> \in R
  /\ \A x, y, z \in S : <<x, y>> \in R /\ <<y, z>> \in R => <<x, z>> \in R

Ranks(R, S) == [x \in S |-> 1 + Cardinality({y \in S : <<y, x>> \in R})]

LEMMA RankIsPlace ==
  ASSUME NEW S, NEW R, IsFiniteSet(S), Linear(R, S)
  PROVE  /\ Ranks(R, S) \in Bijection(S, 1..Cardinality(S))
         /\ \A x, y \in S : <<x, y>> \in R => Ranks(R, S)[x] < Ranks(R, S)[y]
<1> USE DEF Linear
<1> DEFINE Lower(x) == {y \in S : <<y, x>> \in R}
           rank == Ranks(R, S)
           n == Cardinality(S)
<1>1. n \in Nat
  BY FS_CardinalityType
<1>2. ASSUME NEW x \in S
      PROVE  /\ IsFiniteSet(Lower(x)) /\ Cardinality(Lower(x)) \in Nat
             /\ Cardinality(Lower(x)) < n
             /\ rank[x] = 1 + Cardinality(Lower(x))
  <2>1. Lower(x) \in SUBSET S /\ Lower(x) # S
    OBVIOUS
  <2> HIDE DEF Lower
  <2>2. /\ IsFiniteSet(Lower(x)) /\ Cardinality(Lower(x)) <= n
        /\ Cardinality(Lower(x)) # n
    BY <2>1, FS_Subset
  <2>3. Cardinality(Lower(x)) \in Nat
    BY <2>2, FS_CardinalityType
  <2>4. rank[x] = 1 + Cardinality(Lower(x))
    BY DEF Lower, Ranks
  <2> QED
    BY <1>1, <2>2, <2>3, <2>4
<1>0. rank = [x \in S |-> rank[x]]
  BY DEF Ranks
<1> HIDE DEF rank
<1>3. ASSUME NEW x \in S, NEW y \in S, <<x, y>> \in R
      PROVE  rank[x] < rank[y]
  <2>1. Lower(x) \in SUBSET Lower(y) /\ Lower(x) # Lower(y)
    BY <1>3
  <2> HIDE DEF Lower
  <2>2. /\ Cardinality(Lower(x)) <= Cardinality(Lower(y))
        /\ Cardinality(Lower(x)) # Cardinality(Lower(y))
    BY <1>2, <2>1, FS_Subset
  <2> QED
    BY <1>2, <2>2
<1>4. rank \in [S -> 1..n]
  <2>1. ASSUME NEW x \in S PROVE rank[x] \in 1..n
    <3> DEFINE c == Cardinality(Lower(x))
    <3>1. c \in Nat /\ c < n /\ rank[x] = 1 + c
      BY <1>2
    <3> HIDE DEF Lower, n, c
    <3> QED
      BY <1>1, <3>1
  <2> QED
    BY <1>0, <2>1
<1>5. rank \in Injection(S, 1..n)
  <2>1. ASSUME NEW x \in S, NEW y \in S, rank[x] = rank[y] PROVE x = y
    <3>1. rank[x] \in Nat /\ rank[y] \in Nat
      BY <1>1, <1>4
    <3>2. ~(rank[x] < rank[y]) /\ ~(rank[y] < rank[x])
      BY <2>1, <3>1
    <3>3. <<x, y>> \notin R /\ <<y, x>> \notin R
      BY <1>3, <3>2
    <3> QED
      BY <3>3
  <2> QED
    BY <1>4, <2>1 DEF Injection, IsInjective
<1>6. IsFiniteSet(1..n) /\ Cardinality(1..n) = n
  BY <1>1, FS_Interval
<1>7. rank \in Surjection(S, 1..n)
  BY <1>5, <1>6, FS_Injection
<1> QED
  BY <1>3, <1>5, <1>7 DEF Bijection, rank

-----------------------------------------------------------------------------
(* PassageChunking: what is read from a file.                              *)

\* The segments come in the order of their times.
InOrder(s) ==
  /\ s \in Seq([at : Nat, words : Nat])
  /\ \A k \in 1..(Len(s) - 1) : s[k].at <= s[k + 1].at

LEMMA Meeting ==
  ASSUME NEW low \in Int, NEW next \in Int, NEW k \in 1..(next - 1),
         low <= k, next <= low + 1
  PROVE  k = low /\ k = next - 1
OBVIOUS

LEMMA InOrderIs ==
  ASSUME NEW s, InOrder(s)
  PROVE  Len(s) \in Nat /\ \A i \in 1..Len(s) : s[i].at \in Nat
<1> DEFINE Segment == [at : Nat, words : Nat]
<1>1. s \in Seq(Segment)
  BY DEF InOrder
<1> HIDE DEF Segment
<1>2. Len(s) \in Nat /\ \A i \in 1..Len(s) : s[i] \in Segment
  BY <1>1
<1> QED
  BY <1>2 DEF Segment

LEMMA SegmentsInOrder ==
  ASSUME NEW file \in Files
  PROVE  InOrder(SegmentsOf(file))
<1> DEFINE F == Firsts(file)
           n == Cardinality(F)
           R == {p \in F \X F : Earlier(file, p[1], p[2])}
           rank == Ranks(R, F)
           order(k) == CHOOSE i \in F : Place(file, i) = k
           s == SegmentsOf(file)
<1>1. file \in Seq([at : Nat, text : DOMAIN WordsOf])
  BY ChunkingAssumption
<1>2. F \in SUBSET (1..Len(file)) /\ Len(file) \in Nat
  BY <1>1 DEF Firsts
<1>3. IsFiniteSet(F) /\ n \in Nat
  <2>1. IsFiniteSet(1..Len(file))
    BY <1>2, FS_Interval
  <2> HIDE DEF F
  <2> QED
    BY <1>2, <2>1, FS_Subset, FS_CardinalityType
<1>4. \A i \in F : i \in Nat /\ file[i].at \in Nat /\ WordsOf[file[i].text] \in Nat
  <2>1. \A i \in 1..Len(file) : file[i] \in [at : Nat, text : DOMAIN WordsOf]
    <3> DEFINE Caption == [at : Nat, text : DOMAIN WordsOf]
    <3>1. file \in Seq(Caption)
      BY <1>1
    <3> HIDE DEF Caption
    <3>2. \A i \in 1..Len(file) : file[i] \in Caption
      BY <3>1
    <3> QED
      BY <3>2 DEF Caption
  <2> HIDE DEF F
  <2> QED
    BY <1>2, <2>1, ChunkingAssumption
<1>5. \A i, j \in F : <<i, j>> \in R <=> Earlier(file, i, j)
  <2> HIDE DEF F
  <2> QED
    OBVIOUS
<1>6. \A i \in F : rank[i] = Place(file, i)
  <2>1. ASSUME NEW i \in F
        PROVE  {j \in F : <<j, i>> \in R} = {j \in F : Earlier(file, j, i)}
    <3> HIDE DEF F, R
    <3> QED
      BY <1>5
  <2> QED
    BY <2>1 DEF Place, Ranks
<1> HIDE DEF F, R, rank
<1>7. /\ rank \in Bijection(F, 1..n)
      /\ \A i, j \in F : <<i, j>> \in R => rank[i] < rank[j]
  <2>1. \A i \in F : <<i, i>> \notin R
    BY <1>4, <1>5 DEF Earlier
  <2>2. ASSUME NEW i \in F, NEW j \in F PROVE i = j \/ <<i, j>> \in R \/ <<j, i>> \in R
    BY <1>4, <1>5 DEF Earlier
  <2>3. \A i, j, k \in F : <<i, j>> \in R /\ <<j, k>> \in R => <<i, k>> \in R
    BY <1>4, <1>5 DEF Earlier
  <2>4. Linear(R, F)
    BY <2>1, <2>2, <2>3 DEF Linear
  <2> QED
    BY <1>3, <2>4, RankIsPlace DEF rank
<1>8. ASSUME NEW k \in 1..n PROVE order(k) \in F /\ rank[order(k)] = k
  <2>1. \E i \in F : rank[i] = k
    BY <1>7 DEF Bijection, Surjection
  <2> QED
    BY <1>6, <2>1
<1>9. \A k \in 1..n : /\ s[k].at = file[order(k)].at
                      /\ s[k].words = WordsOf[file[order(k)].text]
                      /\ s[k] \in [at : Nat, words : Nat]
  BY <1>4, <1>8 DEF SegmentsOf, F
<1>10. s \in Seq([at : Nat, words : Nat]) /\ Len(s) = n
  <2>1. s = [k \in 1..n |-> s[k]]
    BY DEF SegmentsOf, F
  <2> DEFINE Segment == [at : Nat, words : Nat]
  <2>2. \A k \in 1..n : s[k] \in Segment
    BY <1>9
  <2> HIDE DEF s, n, Segment
  <2>3. s \in [1..n -> Segment]
    BY <2>1, <2>2
  <2>4. s \in Seq(Segment) /\ Len(s) = n
    BY <1>3, <2>3
  <2> QED
    BY <2>4 DEF Segment
<1> HIDE DEF order, s
<1>11. ASSUME NEW k \in 1..(n - 1) PROVE s[k].at <= s[k + 1].at
  <2>1. k \in 1..n /\ k + 1 \in 1..n
    BY <1>3
  <2>2. rank[order(k)] < rank[order(k + 1)] /\ order(k) \in F /\ order(k + 1) \in F
    BY <1>8, <2>1
  <2>3. Earlier(file, order(k), order(k + 1))
    <3>0. rank[order(k)] = k /\ rank[order(k + 1)] = k + 1 /\ k \in Nat
      BY <1>8, <2>1
    <3>1. ~Earlier(file, order(k + 1), order(k)) /\ order(k) # order(k + 1)
      <4>1. ASSUME <<order(k + 1), order(k)>> \in R PROVE FALSE
        <5>1. rank[order(k + 1)] < rank[order(k)]
          BY <1>7, <2>2, <4>1
        <5> QED
          BY <2>2, <3>0, <5>1
      <4> QED
        BY <1>5, <2>2, <3>0, <4>1
    <3> QED
      BY <1>4, <2>2, <3>1 DEF Earlier
  <2> QED
    BY <1>4, <1>9, <2>1, <2>2, <2>3 DEF Earlier
<1> QED
  BY <1>10, <1>11 DEF InOrder, s

-----------------------------------------------------------------------------
(* PassageChunking: where a passage ends and the next one starts.          *)

\* What fits and what is enough depends on the segments only.
LEMMA LimitsStay ==
  ASSUME segments' = segments
  PROVE  \A i, j : Fits(i, j)' = Fits(i, j)
<1> SUFFICES ASSUME NEW i, NEW j PROVE Fits(i, j)' = Fits(i, j)
  OBVIOUS
<1> QED
  BY DEF Fits, WordsIn, Duration, MapThenSumSet, MapThenFoldSet

LEMMA LastOfIs ==
  ASSUME Len(segments) \in Nat, NEW first \in 1..Len(segments)
  PROVE  /\ LastOf(first) \in first..Len(segments)
         /\ \A l \in (first + 1)..LastOf(first) : Fits(first, l)
         /\ \/ LastOf(first) = Len(segments)
            \/ LastOf(first) > first
            \/ ~Fits(first, LastOf(first) + 1)
<1> DEFINE Stops(l) == \/ l = Len(segments)
                       \/ l > first /\ Enough(first, l)
                       \/ ~Fits(first, l + 1)
           S == {l \in first..Len(segments) : Stops(l)}
           Right(last) == /\ \A l \in (first + 1)..last : Fits(first, l)
                          /\ \A l \in (first + 1)..(last - 1) : ~Enough(first, l)
                          /\ Stops(last)
<1>1. S \in SUBSET Nat /\ S # {}
  <2>1. Len(segments) \in S
    OBVIOUS
  <2> QED
    BY <2>1
<1>2. PICK m \in S : \A l \in S : m <= l
  <2> HIDE DEF S
  <2> QED
    BY <1>1, LeastOf
<1>3. m \in first..Len(segments) /\ Stops(m)
  OBVIOUS
<1>4. ASSUME NEW l \in first..Len(segments), l < m PROVE ~Stops(l)
  BY <1>2, <1>3, <1>4
<1>5. ASSUME NEW l \in (first + 1)..m PROVE Fits(first, l)
  <2>1. l - 1 \in first..Len(segments) /\ l - 1 < m /\ (l - 1) + 1 = l
    BY <1>3, <1>5
  <2>2. ~Stops(l - 1)
    BY <1>4, <2>1
  <2> QED
    BY <2>1, <2>2
<1>6. ASSUME NEW l \in (first + 1)..(m - 1) PROVE ~Enough(first, l)
  <2>1. l \in first..Len(segments) /\ l < m /\ l > first
    BY <1>3, <1>6
  <2> QED
    BY <1>4, <2>1
<1>7. m \in first..Len(segments) /\ Right(m)
  BY <1>3, <1>5, <1>6
<1>8. LastOf(first) = CHOOSE last \in first..Len(segments) : Right(last)
  BY DEF LastOf
<1> HIDE DEF Right
<1>9. LastOf(first) \in first..Len(segments) /\ Right(LastOf(first))
  BY <1>7, <1>8
<1> QED
  BY <1>9 DEF Right

LEMMA StartAfterIs ==
  ASSUME InOrder(segments), NEW first \in 1..Len(segments),
         NEW last \in first..(Len(segments) - 1)
  PROVE  /\ StartAfter(first, last) \in (first + 1)..(last + 1)
         /\ \A i \in (first + 1)..(StartAfter(first, last) - 1) :
              Duration(i, last + 1) > Overlap
<1> DEFINE after == segments[last + 1].at
           S == {i \in (first + 1)..Len(segments) : segments[i].at >= EndOf(last) - Overlap}
<1>1. Len(segments) \in Nat /\ \A i \in 1..Len(segments) : segments[i].at \in Nat
  BY InOrderIs
<1>2. EndOf(last) = after /\ after \in Nat /\ Overlap \in Nat
  BY <1>1, ChunkingAssumption DEF EndOf
<1>3. last + 1 \in S /\ S \in SUBSET Nat
  BY <1>1, <1>2
<1>4. StartAfter(first, last) = Min(S)
  BY DEF StartAfter
<1> HIDE DEF S
<1>5. Min(S) \in S /\ \A i \in S : Min(S) <= i
  BY <1>3, MinIs
<1>6. StartAfter(first, last) \in (first + 1)..(last + 1)
  <2>1. Min(S) \in (first + 1)..Len(segments)
    BY <1>5 DEF S
  <2> QED
    BY <1>3, <1>4, <1>5, <2>1
<1>7. ASSUME NEW i \in (first + 1)..(StartAfter(first, last) - 1)
      PROVE  Duration(i, last + 1) > Overlap
  <2>1. i \in (first + 1)..Len(segments) /\ i < Min(S)
    BY <1>1, <1>4, <1>6
  <2>2. i \notin S
    BY <1>1, <1>4, <1>5, <1>6, <2>1
  <2>3. ~(segments[i].at >= after - Overlap)
    BY <1>2, <2>1, <2>2 DEF S
  <2>4. segments[i].at \in Nat
    BY <1>1, <2>1
  <2> HIDE DEF after
  <2>5. after - segments[i].at > Overlap
    BY <1>2, <2>3, <2>4
  <2> QED
    BY <2>5 DEF Duration, after
<1> QED
  BY <1>6, <1>7

-----------------------------------------------------------------------------
(* PassageChunking: the invariant.                                         *)

Passage == [first : Nat, last : Nat, end : Nat]

\* Up to here all segments are in passages.
Done == IF start = 0 THEN Len(segments) ELSE start - 1

SegmentsOK ==
  /\ InOrder(segments)
  /\ start \in 0..Len(segments)
  /\ segments = Unread => start = 1 /\ passages = <<>>

PassagesOK ==
  /\ passages \in Seq(Passage)
  /\ \A k \in 1..Len(passages) :
       /\ passages[k].first \in 1..passages[k].last
       /\ passages[k].last \in 1..Len(segments)
       /\ start # 0 => passages[k].first < start

ForwardOK ==
  \A k \in 1..Len(passages) :
    /\ k > 1 => passages[k].first > passages[k - 1].first
    /\ passages[k].end >= segments[passages[k].last].at
    /\ \/ passages[k].first = passages[k].last
       \/ Fits(passages[k].first, passages[k].last)

CoveredOK ==
  \A i \in 1..Done :
    /\ Together(i, i)
    /\ i < Len(segments) /\ Fits(i, i + 1) /\ Duration(i, i + 1) <= Overlap
         => Together(i, i + 1)

PassageInv == SegmentsOK /\ PassagesOK /\ ForwardOK /\ CoveredOK

LEMMA UnreadInOrder == InOrder(Unread) /\ Len(Unread) = 1
BY DEF InOrder, Unread

LEMMA PassageInvInit == ChunkInit => PassageInv
<1> SUFFICES ASSUME ChunkInit PROVE PassageInv
  OBVIOUS
<1> USE DEF ChunkInit
<1>1. SegmentsOK
  BY UnreadInOrder DEF SegmentsOK
<1>2. PassagesOK /\ ForwardOK
  BY DEF PassagesOK, ForwardOK
<1>3. CoveredOK
  BY DEF CoveredOK, Done
<1> QED
  BY <1>1, <1>2, <1>3 DEF PassageInv

LEMMA ParseKeeps ==
  ASSUME PassageInv, Parse
  PROVE  PassageInv'
<1>1. PICK file \in Files : segments' = SegmentsOf(file)
  BY DEF Parse
<1>2. /\ InOrder(segments') /\ Len(segments') \in Nat
      /\ passages = <<>> /\ passages' = <<>>
      /\ start' = IF segments' = <<>> THEN 0 ELSE 1
  <2>1. InOrder(segments')
    BY <1>1, SegmentsInOrder
  <2>2. passages = <<>>
    BY DEF PassageInv, SegmentsOK, Parse
  <2> QED
    BY <2>1, <2>2 DEF Parse, InOrder
<1>3. start' \in 0..1 /\ (start' = 1 <=> Len(segments') > 0)
  <2>1. segments' \in Seq([at : Nat, words : Nat])
    BY <1>2 DEF InOrder
  <2>2. segments' = <<>> <=> Len(segments') = 0
    <3> DEFINE Segment == [at : Nat, words : Nat]
    <3>1. segments' \in Seq(Segment)
      BY <2>1
    <3> HIDE DEF Segment
    <3> QED
      BY <3>1
  <2> QED
    BY <1>2, <2>2
<1>4. SegmentsOK'
  <2>1. segments' = Unread => Len(segments') = 1
    BY UnreadInOrder
  <2> QED
    BY <1>2, <1>3, <2>1 DEF SegmentsOK
<1>5. PassagesOK' /\ ForwardOK'
  BY <1>2 DEF PassagesOK, ForwardOK
<1>6. Done' = 0
  BY <1>2, <1>3 DEF Done
<1>7. CoveredOK'
  BY <1>6 DEF CoveredOK
<1> QED
  BY <1>4, <1>5, <1>7 DEF PassageInv

LEMMA ChunkKeeps ==
  ASSUME PassageInv, Chunk
  PROVE  PassageInv'
<1> DEFINE last == LastOf(start)
           n == Len(passages)
           p == [first |-> start, last |-> last, end |-> EndOf(last)]
<1>1. /\ segments' = segments /\ start # 0 /\ segments # Unread
      /\ passages' = Append(passages, p)
      /\ start' = IF last = Len(segments) THEN 0 ELSE StartAfter(start, last)
  BY DEF Chunk
<1>2. /\ Len(segments) \in Nat /\ start \in 1..Len(segments)
      /\ \A i \in 1..Len(segments) : segments[i].at \in Nat
  BY <1>1, InOrderIs DEF PassageInv, SegmentsOK
<1>3. /\ last \in start..Len(segments)
      /\ \A l \in (start + 1)..last : Fits(start, l)
      /\ last = Len(segments) \/ last > start \/ ~Fits(start, last + 1)
  BY <1>2, LastOfIs
<1>4. EndOf(last) \in Nat /\ EndOf(last) >= segments[last].at
  <2>1. last \in 1..Len(segments)
    BY <1>2, <1>3
  <2>2. CASE last < Len(segments)
    <3> HIDE DEF last
    <3>1. last \in 1..(Len(segments) - 1) /\ last + 1 \in 1..Len(segments)
      BY <1>2, <2>1, <2>2
    <3>2. segments[last].at <= segments[last + 1].at
      BY <3>1 DEF PassageInv, SegmentsOK, InOrder
    <3> QED
      BY <1>2, <2>1, <2>2, <3>1, <3>2 DEF EndOf
  <2>3. CASE ~(last < Len(segments))
    BY <1>2, <2>1, <2>3 DEF EndOf
  <2> QED
    BY <2>2, <2>3
<1>5. ASSUME last # Len(segments)
      PROVE  /\ start' \in (start + 1)..(last + 1)
             /\ \A i \in (start + 1)..(start' - 1) : Duration(i, last + 1) > Overlap
  <2>1. last \in start..(Len(segments) - 1)
    BY <1>2, <1>3, <1>5
  <2>2. InOrder(segments) /\ start' = StartAfter(start, last)
    BY <1>1, <1>5 DEF PassageInv, SegmentsOK
  <2> HIDE DEF last
  <2> QED
    BY <1>2, <2>1, <2>2, StartAfterIs
<1>6. p \in Passage
  BY <1>2, <1>3, <1>4 DEF Passage
<1>7. p.first = start /\ p.last = last /\ p.end = EndOf(last)
  OBVIOUS
<1> HIDE DEF p, last
<1>8. /\ passages' \in Seq(Passage) /\ Len(passages') = n + 1 /\ n \in Nat
      /\ \A k \in 1..n : passages'[k] = passages[k]
      /\ passages'[n + 1] = p
  <2>1. passages \in Seq(Passage)
    BY DEF PassageInv, PassagesOK
  <2> QED
    BY <1>1, <1>6, <2>1
<1>9. SegmentsOK'
  <2>1. start' \in 0..Len(segments)
    <3>1. CASE last = Len(segments)
      BY <1>1, <1>2, <3>1
    <3>2. CASE last # Len(segments)
      BY <1>2, <1>3, <1>5, <3>2
    <3> QED
      BY <3>1, <3>2
  <2> QED
    BY <1>1, <2>1 DEF PassageInv, SegmentsOK
<1>10. start' # 0 => start' > start
  <2>1. CASE last = Len(segments)
    BY <1>1, <2>1
  <2>2. CASE last # Len(segments)
    BY <1>2, <1>3, <1>5, <2>2
  <2> QED
    BY <2>1, <2>2
<1>11. /\ \A k \in 1..n : /\ passages[k].first \in 1..passages[k].last
                          /\ passages[k].last \in 1..Len(segments)
                          /\ passages[k].first < start
       /\ ForwardOK
  BY <1>1 DEF PassageInv, PassagesOK
<1>12. PassagesOK'
  <2>1. ASSUME NEW k \in 1..(n + 1)
        PROVE  /\ passages'[k].first \in 1..passages'[k].last
               /\ passages'[k].last \in 1..Len(segments)
               /\ start' # 0 => passages'[k].first < start'
    <3>0. start' \in 0..Len(segments)
      BY <1>1, <1>9 DEF SegmentsOK
    <3>1. CASE k = n + 1
      BY <1>2, <1>3, <1>7, <1>8, <1>10, <3>1
    <3>2. CASE k \in 1..n
      <4>1. passages'[k] = passages[k]
        BY <1>8, <3>2
      <4>2. /\ passages[k].first \in 1..passages[k].last
            /\ passages[k].last \in 1..Len(segments)
            /\ passages[k].first < start
        BY <1>11, <3>2
      <4> QED
        BY <1>2, <1>10, <3>0, <4>1, <4>2
    <3> QED
      BY <1>8, <3>1, <3>2
  <2> QED
    BY <1>1, <1>8, <2>1 DEF PassagesOK
<1>13. ForwardOK'
  <2>1. ASSUME NEW k \in 1..(n + 1)
        PROVE  /\ k > 1 => passages'[k].first > passages'[k - 1].first
               /\ passages'[k].end >= segments[passages'[k].last].at
               /\ \/ passages'[k].first = passages'[k].last
                  \/ Fits(passages'[k].first, passages'[k].last)
    <3>1. CASE k = n + 1
      <4>1. k > 1 => passages'[k].first > passages'[k - 1].first
        <5>1. ASSUME k > 1 PROVE passages'[k].first > passages'[k - 1].first
          <6>1. k - 1 \in 1..n
            BY <1>8, <3>1, <5>1
          <6>2. passages'[k - 1] = passages[k - 1] /\ passages[k - 1].first < start
            BY <1>8, <1>11, <6>1
          <6>3. passages[k - 1].first \in Nat
            BY <1>11, <6>1
          <6> QED
            BY <1>2, <1>7, <1>8, <3>1, <6>2, <6>3
        <5> QED
          BY <5>1
      <4>2. start = last \/ Fits(start, last)
        BY <1>2, <1>3
      <4> QED
        BY <1>4, <1>7, <1>8, <3>1, <4>1, <4>2
    <3>2. CASE k \in 1..n
      <4>1. passages'[k] = passages[k] /\ (k > 1 => passages'[k - 1] = passages[k - 1])
        BY <1>8, <3>2
      <4> QED
        BY <1>11, <3>2, <4>1 DEF ForwardOK
    <3> QED
      BY <1>8, <3>1, <3>2
  <2> QED
    BY <1>1, <1>8, <2>1, LimitsStay DEF ForwardOK
<1>14. ASSUME NEW i, NEW j, Together(i, j) PROVE Together(i, j)'
  <2>1. PICK k \in 1..n : passages[k].first <= i /\ j <= passages[k].last
    BY <1>14 DEF Together
  <2>2. passages'[k] = passages[k] /\ k \in 1..Len(passages')
    BY <1>8
  <2> QED
    BY <2>1, <2>2 DEF Together
<1>15. ASSUME NEW i \in Int, NEW j \in Int, start <= i, j <= last PROVE Together(i, j)'
  <2>1. n + 1 \in 1..Len(passages')
    BY <1>8
  <2> QED
    BY <1>7, <1>8, <1>15, <2>1 DEF Together
<1>16. CoveredOK'
  <2>1. ASSUME NEW i \in 1..Done'
        PROVE  /\ Together(i, i)'
               /\ i < Len(segments) /\ Fits(i, i + 1) /\ Duration(i, i + 1) <= Overlap
                    => Together(i, i + 1)'
    <3>1. CASE i < start
      <4>1. i \in 1..Done
        BY <1>1, <1>2, <2>1, <3>1 DEF Done
      <4>2. /\ Together(i, i)
            /\ i < Len(segments) /\ Fits(i, i + 1) /\ Duration(i, i + 1) <= Overlap
                 => Together(i, i + 1)
        BY <4>1 DEF PassageInv, CoveredOK
      <4> QED
        BY <1>14, <4>2
    <3>2. CASE start <= i /\ i + 1 <= last
      <4>1. i \in Int /\ i + 1 \in Int /\ i <= last
        BY <1>2, <1>3, <3>2, <2>1
      <4> QED
        BY <1>15, <3>2, <4>1
    <3>3. CASE start <= i /\ last <= i
      <4>0. i \in Nat
        OBVIOUS
      <4>1. CASE last = Len(segments)
        <5>1. i = last
          BY <1>1, <1>2, <3>3, <4>0, <4>1 DEF Done
        <5>2. Together(i, i)'
          BY <1>15, <3>3, <4>0, <5>1
        <5> QED
          BY <1>2, <4>1, <5>1, <5>2
      <4>2. CASE last # Len(segments)
        <5>1. start' \in (start + 1)..(last + 1) /\ Done' = start' - 1
          BY <1>2, <1>5, <4>2 DEF Done
        <5>2. i = last /\ i = start' - 1
          <6>1. start' \in Int /\ start' <= last + 1
            BY <1>2, <1>3, <5>1
          <6>2. i \in 1..(start' - 1)
            BY <5>1
          <6>3. last \in Int
            BY <1>2, <1>3
          <6> QED
            BY <3>3, <6>1, <6>2, <6>3, Meeting
        <5>3. Together(i, i)'
          BY <1>15, <3>3, <4>0, <5>2
        <5>4. ~(Fits(i, i + 1) /\ Duration(i, i + 1) <= Overlap)
          <6>1. CASE last = start
            <7>1. ~Fits(start, start + 1)
              BY <1>2, <1>3, <4>2, <6>1
            <7> QED
              BY <5>2, <6>1, <7>1
          <6>2. CASE last # start
            <7>1. i \in (start + 1)..(start' - 1)
              BY <1>2, <1>3, <4>0, <5>2, <6>2
            <7>2. Duration(i, last + 1) > Overlap
              BY <1>5, <4>2, <7>1
            <7>3. last \in 1..Len(segments) /\ last + 1 \in 1..Len(segments)
              BY <1>2, <1>3, <4>2
            <7>4. Duration(i, i + 1) \in Int
              BY <1>2, <5>2, <7>3 DEF Duration
            <7> QED
              BY <5>2, <7>2, <7>4, ChunkingAssumption
          <6> QED
            BY <6>1, <6>2
        <5> QED
          BY <5>3, <5>4
      <4> QED
        BY <4>1, <4>2
    <3> QED
      BY <1>2, <1>3, <3>1, <3>2, <3>3, <2>1
  <2>2. \A i : Duration(i, i + 1)' = Duration(i, i + 1)
    BY <1>1 DEF Duration
  <2> QED
    BY <1>1, <2>1, <2>2, LimitsStay DEF CoveredOK
<1> QED
  BY <1>9, <1>12, <1>13, <1>16 DEF PassageInv

LEMMA PassageInvInvariant == ChunkSpec => []PassageInv
<1>1. PassageInv /\ [ChunkNext]_chunkVars => PassageInv'
  <2> SUFFICES ASSUME PassageInv, [ChunkNext]_chunkVars PROVE PassageInv'
    OBVIOUS
  <2>1. CASE Parse
    BY <2>1, ParseKeeps
  <2>2. CASE Chunk
    BY <2>2, ChunkKeeps
  <2>3. CASE UNCHANGED chunkVars
    <3>1. segments' = segments /\ start' = start /\ passages' = passages
      BY <2>3 DEF chunkVars
    <3>2. \A i : Duration(i, i + 1)' = Duration(i, i + 1)
      BY <3>1 DEF Duration
    <3>3. SegmentsOK' /\ PassagesOK'
      BY <3>1 DEF PassageInv, SegmentsOK, PassagesOK
    <3>4. ForwardOK'
      BY <3>1, LimitsStay DEF PassageInv, ForwardOK
    <3>5. CoveredOK'
      <4>1. Done' = Done
        BY <3>1 DEF Done
      <4>2. \A i, j : Together(i, j)' <=> Together(i, j)
        BY <3>1 DEF Together
      <4> QED
        BY <3>1, <3>2, <4>1, <4>2, LimitsStay DEF PassageInv, CoveredOK
    <3> QED
      BY <3>3, <3>4, <3>5 DEF PassageInv
  <2> QED
    BY <2>1, <2>2, <2>3 DEF ChunkNext
<1> QED
  BY <1>1, PassageInvInit, PTL DEF ChunkSpec

\* What is said in a video is found by a passage: of every transcript, and whatever the
\* limits, the passages go forward, keep within the limits, leave no segment out and hold
\* together what is said within the overlap (build_passages, OVERLAP_SECONDS).
THEOREM PassagesAreFindable == ChunkSpec => []Findable
<1>1. PassageInv => Findable
  <2> SUFFICES ASSUME PassageInv PROVE Findable
    OBVIOUS
  <2>1. ASSUME start = 0
        PROVE  /\ \A i \in 1..Len(segments) : Together(i, i)
               /\ \A i \in 1..(Len(segments) - 1) :
                    Fits(i, i + 1) /\ Duration(i, i + 1) <= Overlap => Together(i, i + 1)
    <3>1. Done = Len(segments) /\ Len(segments) \in Nat
      BY <2>1 DEF Done, PassageInv, SegmentsOK, InOrder
    <3> QED
      BY <3>1 DEF PassageInv, CoveredOK
  <2> QED
    BY <2>1 DEF PassageInv, ForwardOK, Findable
<1> QED
  BY <1>1, PassageInvInvariant, PTL

\* A passage is of segments that are there, and so is the place where the next one starts
\* (build_passages indexes its segments without a check).
THEOREM ChunkTypes == ChunkSpec => []ChunkTypeOK
<1>1. PassageInv => ChunkTypeOK
  BY DEF PassageInv, SegmentsOK, PassagesOK, ChunkTypeOK
<1> QED
  BY <1>1, PassageInvInvariant, PTL

-----------------------------------------------------------------------------
(* TopicDiscovery: channels take turns.                                    *)

LEMMA MaxIs ==
  ASSUME NEW S \in SUBSET Nat, S # {}, IsFiniteSet(S)
  PROVE  \E m \in S : \A k \in S : k <= m
<1> DEFINE R == {p \in S \X S : p[1] < p[2]}
           n == Cardinality(S)
           rank == Ranks(R, S)
<1>1. \A x, y \in S : <<x, y>> \in R <=> x < y
  OBVIOUS
<1> HIDE DEF R
<1>2. Linear(R, S)
  <2>1. \A x \in S : <<x, x>> \notin R
    BY <1>1
  <2>2. ASSUME NEW x \in S, NEW y \in S PROVE x = y \/ <<x, y>> \in R \/ <<y, x>> \in R
    <3>1. x = y \/ x < y \/ y < x
      OBVIOUS
    <3> QED
      BY <1>1, <3>1
  <2>3. \A x, y, z \in S : <<x, y>> \in R /\ <<y, z>> \in R => <<x, z>> \in R
    BY <1>1
  <2> QED
    BY <2>1, <2>2, <2>3 DEF Linear
<1>3. /\ rank \in Bijection(S, 1..n) /\ n \in Nat
      /\ \A x, y \in S : <<x, y>> \in R => rank[x] < rank[y]
  BY <1>2, RankIsPlace, FS_CardinalityType
<1> HIDE DEF rank
<1>4. n # 0
  BY FS_EmptySet
<1>5. PICK m \in S : rank[m] = n
  BY <1>3, <1>4 DEF Bijection, Surjection
<1>6. ASSUME NEW k \in S PROVE k <= m
  <2>1. rank[k] \in 1..n
    BY <1>3 DEF Bijection, Injection
  <2>2. ~(n < rank[k])
    BY <1>3, <2>1
  <2>3. <<m, k>> \notin R
    BY <1>3, <1>5, <2>2
  <2> QED
    BY <1>1, <2>3
<1> QED
  BY <1>6

LEMMA PeersAre ==
  ASSUME NEW list, NEW S \in SUBSET Nat, IsFiniteSet(S), NEW k \in S
  PROVE  /\ Peers(list, S, k) \in SUBSET S /\ k \in Peers(list, S, k)
         /\ IsFiniteSet(Peers(list, S, k))
         /\ Leader(list, S, k) \in Peers(list, S, k)
         /\ Offset(list, S, k) \in Nat
         /\ \A j \in S : list[j].channel = list[k].channel <=>
                           Peers(list, S, j) = Peers(list, S, k)
<1>1. Peers(list, S, k) \in SUBSET S /\ k \in Peers(list, S, k)
  BY DEF Peers
<1>2. IsFiniteSet(Peers(list, S, k))
  BY <1>1, FS_Subset
<1>3. Leader(list, S, k) \in Peers(list, S, k)
  BY <1>1, MinIs DEF Leader
<1>4. Offset(list, S, k) \in Nat
  <2> DEFINE before == {j \in Peers(list, S, k) : j < k}
  <2>1. before \in SUBSET Peers(list, S, k)
    OBVIOUS
  <2>2. Offset(list, S, k) = Cardinality(before)
    BY DEF Offset
  <2> HIDE DEF before
  <2> QED
    BY <1>2, <2>1, <2>2, FS_Subset, FS_CardinalityType
<1>5. ASSUME NEW j \in S
      PROVE  list[j].channel = list[k].channel <=> Peers(list, S, j) = Peers(list, S, k)
  <2>1. ASSUME list[j].channel = list[k].channel PROVE Peers(list, S, j) = Peers(list, S, k)
    BY <2>1 DEF Peers
  <2>2. ASSUME Peers(list, S, j) = Peers(list, S, k) PROVE list[j].channel = list[k].channel
    <3>1. j \in Peers(list, S, k)
      BY <2>2 DEF Peers
    <3> QED
      BY <3>1 DEF Peers
  <2> QED
    BY <2>1, <2>2
<1> QED
  BY <1>1, <1>2, <1>3, <1>4, <1>5

LEMMA OffsetsGrow ==
  ASSUME NEW list, NEW S \in SUBSET Nat, IsFiniteSet(S), NEW j \in S, NEW k \in S,
         list[j].channel = list[k].channel, j < k
  PROVE  Offset(list, S, j) < Offset(list, S, k)
<1> DEFINE Prior(i) == {h \in Peers(list, S, i) : h < i}
<1>1. /\ Peers(list, S, j) = Peers(list, S, k) /\ IsFiniteSet(Peers(list, S, k))
      /\ Peers(list, S, k) \in SUBSET Nat /\ j \in Peers(list, S, k)
  <2>1. Peers(list, S, k) \in SUBSET S /\ IsFiniteSet(Peers(list, S, k))
    BY PeersAre
  <2>2. Peers(list, S, j) = Peers(list, S, k) /\ j \in Peers(list, S, k)
    BY DEF Peers
  <2> QED
    BY <2>1, <2>2
<1>2. Prior(j) \in SUBSET Prior(k) /\ Prior(j) # Prior(k)
  BY <1>1
<1>3. Prior(k) \in SUBSET Peers(list, S, k)
  OBVIOUS
<1>4. Offset(list, S, j) = Cardinality(Prior(j)) /\ Offset(list, S, k) = Cardinality(Prior(k))
  BY DEF Offset
<1>5. Offset(list, S, j) \in Nat /\ Offset(list, S, k) \in Nat
  BY PeersAre
<1> HIDE DEF Prior
<1>6. IsFiniteSet(Prior(k))
  BY <1>1, <1>3, FS_Subset
<1>7. Cardinality(Prior(j)) <= Cardinality(Prior(k)) /\ Cardinality(Prior(j)) # Cardinality(Prior(k))
  BY <1>2, <1>6, FS_Subset
<1> QED
  BY <1>4, <1>5, <1>7

\* The order of the turns, spelled out.
LEMMA SoonerIs ==
  ASSUME NEW list, NEW S, NEW j, NEW k,
         NEW a, a = Offset(list, S, j), NEW b, b = Offset(list, S, k),
         NEW l, l = Leader(list, S, j), NEW m, m = Leader(list, S, k)
  PROVE  Sooner(list, S, j, k) <=>
           \/ a < b
           \/ a = b /\ list[l].rank < list[m].rank
           \/ a = b /\ list[l].rank = list[m].rank /\ l < m
<1> DEFINE p == <<a, list[l].rank, l>>
           q == <<b, list[m].rank, m>>
<1>1. Sooner(list, S, j, k) <=>
        \E i \in 1..3 : p[i] < q[i] /\ \A h \in 1..(i - 1) : p[h] = q[h]
  BY DEF Sooner
<1> DEFINE At3(i) == p[i] < q[i] /\ \A h \in 1..(i - 1) : p[h] = q[h]
<1>2. At3(1) <=> a < b
  OBVIOUS
<1>3. At3(2) <=> list[l].rank < list[m].rank /\ a = b
  <2>1. 1..(2 - 1) = {1}
    OBVIOUS
  <2> QED
    BY <2>1
<1>4. At3(3) <=> l < m /\ a = b /\ list[l].rank = list[m].rank
  <2>1. 1..(3 - 1) = {1, 2}
    OBVIOUS
  <2> QED
    BY <2>1
<1>5. Sooner(list, S, j, k) <=> \E i \in 1..3 : At3(i)
  BY <1>1
<1>6. 1..3 = {1, 2, 3}
  OBVIOUS
<1> HIDE DEF At3
<1>7. Sooner(list, S, j, k) <=> At3(1) \/ At3(2) \/ At3(3)
  BY <1>5, <1>6
<1> QED
  BY <1>2, <1>3, <1>4, <1>7

\* Numbers whose candidates have ranks.
HasRanks(list, S) ==
  S \in SUBSET Nat /\ IsFiniteSet(S) /\ \A k \in S : list[k].rank \in Nat

LEMMA TurnsAre ==
  ASSUME NEW list, NEW S, HasRanks(list, S)
  PROVE  /\ [k \in S |-> Turn(list, S, k)] \in Bijection(S, 1..Cardinality(S))
         /\ \A j, k \in S : Sooner(list, S, j, k) => Turn(list, S, j) < Turn(list, S, k)
<1> DEFINE O(k) == Offset(list, S, k)
           L(k) == Leader(list, S, k)
           K(k) == list[L(k)].rank
           R == {p \in S \X S : Sooner(list, S, p[1], p[2])}
           rank == Ranks(R, S)
<1>0. S \in SUBSET Nat /\ IsFiniteSet(S) /\ \A k \in S : list[k].rank \in Nat
  BY DEF HasRanks
<1>1. \A k \in S : O(k) \in Nat /\ L(k) \in S /\ L(k) \in Nat /\ K(k) \in Nat
  BY <1>0, PeersAre
<1>2. ASSUME NEW j \in S, NEW k \in S
      PROVE  Sooner(list, S, j, k) <=> \/ O(j) < O(k)
                                       \/ O(j) = O(k) /\ K(j) < K(k)
                                       \/ O(j) = O(k) /\ K(j) = K(k) /\ L(j) < L(k)
  BY SoonerIs
<1>3. ASSUME NEW j \in S, NEW k \in S, O(j) = O(k), L(j) = L(k) PROVE j = k
  <2>1. L(j) \in Peers(list, S, j) /\ L(k) \in Peers(list, S, k)
    BY <1>0, PeersAre
  <2>2. list[j].channel = list[k].channel
    BY <1>3, <2>1 DEF Peers
  <2>3. ~(j < k) /\ ~(k < j)
    BY <1>0, <1>1, <1>3, <2>2, OffsetsGrow
  <2> QED
    BY <1>0, <2>3
<1> HIDE DEF O, L, K
<1>4. \A j, k \in S : <<j, k>> \in R <=> Sooner(list, S, j, k)
  OBVIOUS
<1>5. \A k \in S : rank[k] = Turn(list, S, k)
  <2>1. ASSUME NEW k \in S PROVE {j \in S : <<j, k>> \in R} = {j \in S : Sooner(list, S, j, k)}
    <3> HIDE DEF R
    <3> QED
      BY <1>4
  <2> QED
    BY <2>1 DEF Turn, Ranks
<1>6. rank = [k \in S |-> rank[k]]
  BY DEF Ranks
<1> HIDE DEF R, rank
<1>7. Linear(R, S)
  <2>1. \A j \in S : <<j, j>> \notin R
    BY <1>1, <1>2, <1>4
  <2>2. ASSUME NEW j \in S, NEW k \in S PROVE j = k \/ <<j, k>> \in R \/ <<k, j>> \in R
    BY <1>1, <1>2, <1>3, <1>4
  <2>3. ASSUME NEW i \in S, NEW j \in S, NEW k \in S, <<i, j>> \in R, <<j, k>> \in R
        PROVE  <<i, k>> \in R
    BY <1>1, <1>2, <1>4, <2>3
  <2> QED
    BY <2>1, <2>2, <2>3 DEF Linear
<1>8. /\ rank \in Bijection(S, 1..Cardinality(S))
      /\ \A j, k \in S : <<j, k>> \in R => rank[j] < rank[k]
  BY <1>0, <1>7, RankIsPlace DEF rank
<1>9. rank = [k \in S |-> Turn(list, S, k)]
  BY <1>5, <1>6
<1> QED
  BY <1>4, <1>5, <1>8, <1>9

\* The candidates of a channel whose turn comes in time.
InTurn(list, S, m, channel) ==
  {k \in S : list[k].channel = channel /\ Turn(list, S, k) <= m}

Candidates(list, S, channel) == {k \in S : list[k].channel = channel}

LEMMA TurnsAreFair ==
  ASSUME NEW list, NEW S, HasRanks(list, S), NEW m \in Nat, NEW c, NEW d,
         Cardinality(InTurn(list, S, m, c)) > Cardinality(InTurn(list, S, m, d)) + 1
  PROVE  InTurn(list, S, m, d) = Candidates(list, S, d)
<1> DEFINE O(k) == Offset(list, S, k)
           T(k) == Turn(list, S, k)
           C == InTurn(list, S, m, c)
           D == InTurn(list, S, m, d)
           Late == Candidates(list, S, d) \ D
<1> SUFFICES ASSUME Late # {} PROVE FALSE
  BY DEF InTurn, Candidates
<1>0. S \in SUBSET Nat /\ IsFiniteSet(S) /\ \A k \in S : list[k].rank \in Nat
  BY DEF HasRanks
<1>1. \A k \in S : O(k) \in Nat /\ T(k) \in Nat
  <2> DEFINE turns == [k \in S |-> Turn(list, S, k)]
  <2>1. turns \in Bijection(S, 1..Cardinality(S))
    BY TurnsAre
  <2>2. \A k \in S : turns[k] = T(k)
    OBVIOUS
  <2> HIDE DEF turns, T
  <2>3. \A k \in S : T(k) \in 1..Cardinality(S)
    BY <2>1, <2>2 DEF Bijection, Injection
  <2> QED
    BY <1>0, <2>3, PeersAre
<1>2. ASSUME NEW j \in S, NEW k \in S, O(j) < O(k) PROVE T(j) < T(k)
  <2>1. Sooner(list, S, j, k)
    BY <1>2, SoonerIs
  <2> QED
    BY <2>1, TurnsAre
<1>3. /\ C \in SUBSET S /\ IsFiniteSet(C) /\ Cardinality(C) \in Nat
      /\ D \in SUBSET S /\ IsFiniteSet(D) /\ Cardinality(D) \in Nat
  <2>1. C \in SUBSET S /\ D \in SUBSET S
    BY DEF InTurn
  <2> HIDE DEF C, D
  <2> QED
    BY <1>0, <2>1, FS_Subset, FS_CardinalityType
<1>4. PICK x \in Late : \A k \in Late : x <= k
  <2>1. Late \in SUBSET Nat
    BY <1>0 DEF Candidates
  <2> QED
    BY <2>1, LeastOf
<1>5. x \in S /\ x \in Nat /\ list[x].channel = d /\ T(x) > m
  BY <1>0, <1>1, <1>4 DEF Candidates, InTurn
<1>6. D = {j \in Peers(list, S, x) : j < x}
  <2>1. ASSUME NEW j \in D PROVE j \in Peers(list, S, x) /\ j < x
    <3>1. j \in S /\ list[j].channel = d /\ T(j) <= m /\ j \in Nat
      BY <1>0 DEF InTurn
    <3>2. ~(x < j)
      <4>1. SUFFICES ASSUME x < j PROVE FALSE
        OBVIOUS
      <4>2. O(x) < O(j)
        BY <1>0, <1>5, <3>1, <4>1, OffsetsGrow
      <4>3. T(x) < T(j)
        BY <1>2, <1>5, <3>1, <4>2
      <4> QED
        BY <1>1, <1>5, <3>1, <4>3
    <3>3. x # j
      BY <1>1, <1>5, <3>1
    <3> QED
      BY <1>5, <3>1, <3>2, <3>3 DEF Peers
  <2>2. ASSUME NEW j \in Peers(list, S, x), j < x PROVE j \in D
    <3>1. j \in S /\ list[j].channel = d /\ j \in Nat
      BY <1>0, <1>5 DEF Peers
    <3>2. j \notin Late
      BY <1>4, <1>5, <2>2, <3>1
    <3> QED
      BY <3>1, <3>2 DEF Candidates
  <2> QED
    BY <2>1, <2>2
<1>7. O(x) = Cardinality(D)
  BY <1>6 DEF Offset
<1>8. C # {}
  <2>1. Cardinality(C) # 0
    BY <1>3
  <2> HIDE DEF C
  <2> QED
    BY <2>1, FS_EmptySet
<1>9. PICK y \in C : \A k \in C : k <= y
  <2>1. C \in SUBSET Nat
    BY <1>0, <1>3
  <2> HIDE DEF C
  <2> QED
    BY <1>3, <1>8, <2>1, MaxIs
<1>10. y \in S /\ y \in Nat /\ list[y].channel = c /\ T(y) <= m
  BY <1>0, <1>9 DEF InTurn
<1>11. Cardinality(C) <= O(y) + 1
  <2> DEFINE B == {j \in Peers(list, S, y) : j < y}
  <2>1. C \in SUBSET (B \cup {y})
    <3>1. ASSUME NEW k \in C, k # y PROVE k \in B
      <4>1. k \in S /\ list[k].channel = c /\ k <= y /\ k \in Nat
        BY <1>0, <1>9 DEF InTurn
      <4> QED
        BY <1>10, <3>1, <4>1 DEF Peers
    <3> QED
      BY <3>1
  <2>2. IsFiniteSet(B) /\ Cardinality(B) = O(y)
    <3>1. B \in SUBSET S
      BY DEF Peers
    <3>2. Cardinality(B) = O(y)
      BY DEF Offset
    <3> HIDE DEF B
    <3> QED
      BY <1>0, <3>1, <3>2, FS_Subset
  <2>3. y \notin B
    BY <1>10
  <2> HIDE DEF B, C
  <2>4. IsFiniteSet(B \cup {y}) /\ Cardinality(B \cup {y}) = O(y) + 1
    BY <2>2, <2>3, FS_AddElement
  <2>5. Cardinality(C) <= Cardinality(B \cup {y})
    BY <2>1, <2>4, FS_Subset
  <2> QED
    BY <2>4, <2>5
<1>12. O(x) < O(y)
  <2> HIDE DEF C, D
  <2>1. Cardinality(C) > Cardinality(D) + 1
    BY DEF C, D
  <2> QED
    BY <1>1, <1>3, <1>5, <1>7, <1>10, <1>11, <2>1
<1>13. T(x) < T(y)
  BY <1>2, <1>5, <1>10, <1>12
<1> QED
  BY <1>1, <1>5, <1>10, <1>13

-----------------------------------------------------------------------------
(* TopicDiscovery: what is found, and what is offered of it.               *)

Candidate == [video : Videos, rank : Nat, channel : Uploaders \cup Videos \cup {None},
              queries : SUBSET Nat]

\* No video is found twice.
GoodList(list) ==
  /\ list \in Seq(Candidate)
  /\ \A j, k \in 1..Len(list) : list[j].video = list[k].video => j = k

LEMMA GoodListIs ==
  ASSUME NEW list, GoodList(list)
  PROVE  /\ Len(list) \in Nat /\ DOMAIN list = 1..Len(list)
         /\ \A k \in 1..Len(list) :
              list[k] \in Candidate /\ list[k].video \in Videos /\ list[k].rank \in Nat
<1>1. list \in Seq(Candidate)
  BY DEF GoodList
<1>2. Len(list) \in Nat /\ DOMAIN list = 1..Len(list) /\ \A k \in 1..Len(list) : list[k] \in Candidate
  BY <1>1
<1> QED
  BY <1>2 DEF Candidate

\* The promise on what is offered of what was found.
IsFair(found, known, offered) ==
  LET total == Cardinality(Unseen(found, known))
  IN /\ Len(offered) = IF total < Limit THEN total ELSE Limit
     /\ \A m, n \in DOMAIN offered :
          /\ offered[n].video \notin known
          /\ offered[m].video = offered[n].video => m = n
     /\ \A c, d :
          LET OfferedOf(x) == {n \in DOMAIN offered : offered[n].channel = x}
          IN Cardinality(OfferedOf(c)) > Cardinality(OfferedOf(d)) + 1 =>
               Cardinality(OfferedOf(d)) =
                 Cardinality({k \in DOMAIN found : found[k].channel = d /\ found[k].video \notin known})

LEMMA OfferIsFair ==
  ASSUME NEW found, GoodList(found), NEW known
  PROVE  IsFair(found, known, RoundRobin(found, Unseen(found, known), Limit))
<1> DEFINE S == Unseen(found, known)
           n == Cardinality(S)
           m == Room(S, Limit)
           T(k) == Turn(found, S, k)
           turns == [k \in S |-> Turn(found, S, k)]
           order(i) == CHOOSE k \in S : Turn(found, S, k) = i
           offered == RoundRobin(found, S, Limit)
           OfferedOf(x) == {i \in DOMAIN offered : offered[i].channel = x}
<1>1. S \in SUBSET (1..Len(found)) /\ Len(found) \in Nat /\ \A k \in S : found[k].video \notin known
  BY GoodListIs DEF Unseen
<1>2. /\ IsFiniteSet(S) /\ n \in Nat /\ S \in SUBSET Nat
      /\ \A k \in S : found[k] \in Candidate /\ found[k].rank \in Nat
  <2>1. IsFiniteSet(1..Len(found))
    BY <1>1, FS_Interval
  <2>2. \A k \in 1..Len(found) : found[k] \in Candidate /\ found[k].rank \in Nat
    BY GoodListIs
  <2> HIDE DEF S
  <2>3. IsFiniteSet(S) /\ Cardinality(S) \in Nat
    BY <1>1, <2>1, FS_Subset, FS_CardinalityType
  <2> QED
    BY <1>1, <2>2, <2>3
<1> HIDE DEF S
<1>3. HasRanks(found, S)
  BY <1>2 DEF HasRanks
<1>4. m \in Nat /\ m <= n /\ m = IF n < Limit THEN n ELSE Limit
  BY <1>2, DiscoveryAssumption DEF Room
<1>5. turns \in Bijection(S, 1..n)
  BY <1>3, TurnsAre
<1>6. \A k \in S : turns[k] = T(k)
  OBVIOUS
<1> HIDE DEF turns
<1>7. /\ \A k \in S : T(k) \in 1..n
      /\ \A j, k \in S : T(j) = T(k) => j = k
      /\ \A i \in 1..n : \E k \in S : T(k) = i
  BY <1>5, <1>6 DEF Bijection, Injection, IsInjective, Surjection
<1> HIDE DEF n
<1>8. ASSUME NEW i \in 1..m PROVE order(i) \in S /\ T(order(i)) = i
  <2>1. i \in 1..n
    BY <1>2, <1>4
  <2> QED
    BY <1>7, <2>1
<1>9. offered = [i \in 1..m |-> found[order(i)]]
  BY DEF RoundRobin, Room
<1> HIDE DEF m, order, T, offered
<1>10. offered \in Seq(Candidate) /\ Len(offered) = m /\ DOMAIN offered = 1..m
  <2>1. offered \in [1..m -> Candidate]
    BY <1>2, <1>8, <1>9
  <2> QED
    BY <1>4, <2>1
<1>11. \A i \in 1..m : offered[i] = found[order(i)]
  BY <1>9
<1>12. ASSUME NEW i \in 1..m, NEW j \in 1..m
       PROVE  /\ offered[i].video \notin known
              /\ offered[j].video = offered[i].video => j = i
  <2>1. offered[i].video \notin known
    BY <1>1, <1>8, <1>11
  <2>2. ASSUME offered[j].video = offered[i].video PROVE j = i
    <3>1. order(i) \in 1..Len(found) /\ order(j) \in 1..Len(found)
      BY <1>1, <1>8
    <3>2. order(i) = order(j)
      BY <1>11, <2>2, <3>1 DEF GoodList
    <3> QED
      BY <1>8, <3>2
  <2> QED
    BY <2>1, <2>2
<1>13. ASSUME NEW c PROVE Cardinality(OfferedOf(c)) = Cardinality(InTurn(found, S, m, c))
  <2> DEFINE C == InTurn(found, S, m, c)
             f == [k \in C |-> T(k)]
  <2>1. C \in SUBSET S /\ \A k \in C : found[k].channel = c /\ T(k) <= m
    BY DEF InTurn, T
  <2>2. \A k \in S : found[k].channel = c /\ T(k) <= m => k \in C
    BY DEF InTurn, T
  <2>3. \A i \in OfferedOf(c) : i \in 1..m /\ found[order(i)].channel = c
    BY <1>10, <1>11
  <2>4. \A i \in 1..m : found[order(i)].channel = c => i \in OfferedOf(c)
    BY <1>10, <1>11
  <2> DEFINE I == OfferedOf(c)
  <2> HIDE DEF C, I
  <2>5. ASSUME NEW k \in C PROVE f[k] = T(k) /\ T(k) \in I
    <3>1. T(k) \in 1..m
      BY <1>2, <1>4, <1>7, <2>1
    <3>2. order(T(k)) = k
      BY <1>7, <1>8, <2>1, <3>1
    <3> QED
      BY <2>1, <2>4, <3>1, <3>2 DEF I
  <2>6. f \in [C -> I]
    BY <2>5
  <2>7. \A j, k \in C : f[j] = f[k] => j = k
    BY <1>7, <2>1, <2>5
  <2>8. ASSUME NEW i \in I PROVE \E k \in C : f[k] = i
    <3>1. i \in 1..m /\ found[order(i)].channel = c
      BY <2>3 DEF I
    <3>2. order(i) \in S /\ T(order(i)) = i
      BY <1>8, <3>1
    <3>3. order(i) \in C
      BY <1>4, <2>2, <3>1, <3>2
    <3> QED
      BY <2>5, <3>2, <3>3
  <2> HIDE DEF f
  <2>9. f \in Bijection(C, I)
    BY <2>6, <2>7, <2>8 DEF Bijection, Injection, IsInjective, Surjection
  <2>10. IsFiniteSet(C)
    BY <1>2, <2>1, FS_Subset
  <2>11. Cardinality(I) = Cardinality(C)
    BY <2>9, <2>10, FS_Bijection DEF ExistsBijection
  <2> QED
    BY <2>11 DEF I, C
<1>14. ASSUME NEW c, NEW d, Cardinality(OfferedOf(c)) > Cardinality(OfferedOf(d)) + 1
       PROVE  Cardinality(OfferedOf(d)) =
                Cardinality({k \in DOMAIN found : found[k].channel = d /\ found[k].video \notin known})
  <2>1. /\ Cardinality(OfferedOf(c)) = Cardinality(InTurn(found, S, m, c))
        /\ Cardinality(OfferedOf(d)) = Cardinality(InTurn(found, S, m, d))
    BY <1>13
  <2>2. Cardinality(InTurn(found, S, m, c)) > Cardinality(InTurn(found, S, m, d)) + 1
    BY <1>14, <2>1
  <2>3. InTurn(found, S, m, d) = Candidates(found, S, d)
    BY <1>3, <1>4, <2>2, TurnsAreFair
  <2>4. Candidates(found, S, d) =
          {k \in DOMAIN found : found[k].channel = d /\ found[k].video \notin known}
    BY DEF Candidates, S, Unseen
  <2> QED
    BY <2>1, <2>3, <2>4
<1> QED
  BY <1>4, <1>10, <1>12, <1>14 DEF IsFair, S, n, offered

\* The fields of a discovery.
IsTopic(now) ==
  now = [phase |-> now.phase, query |-> now.query, found |-> now.found, errors |-> now.errors,
         known |-> now.known, offered |-> now.offered]

LEMMA WithErrors ==
  ASSUME NEW now, IsTopic(now), NEW errors
  PROVE  LET next == [now EXCEPT !.errors = errors]
         IN IsTopic(next) /\ next.found = now.found /\ next.query = now.query
<1> DEFINE next == [now EXCEPT !.errors = errors]
<1>1. next = [phase |-> now.phase, query |-> now.query, found |-> now.found, errors |-> errors,
              known |-> now.known, offered |-> now.offered]
  BY DEF IsTopic
<1> QED
  BY <1>1 DEF IsTopic

Notes(now, query) == IsTopic(now) /\ GoodList(now.found) /\ now.query = query

Record == [video : Videos \cup {None}, channel : Uploaders \cup {None}]

LEMMA NotedKeeps ==
  ASSUME NEW query \in Nat, NEW now, Notes(now, query), NEW record \in Record, NEW rank \in Nat
  PROVE  Notes(Noted(now, record, rank, query), query)
<1> DEFINE next == Noted(now, record, rank, query)
           list == now.found
<1>0. IsTopic(now) /\ GoodList(list) /\ now.query = query
  BY DEF Notes
<1>1. CASE record.video = None
  <2>1. next = [now EXCEPT !.errors = @ \cup {"invalid_metadata_record"}]
    BY <1>1 DEF Noted
  <2> QED
    BY <1>0, <2>1 DEF Notes, IsTopic
<1>2. CASE record.video # None /\ FoundBefore(list, record.video) # {}
  <2> DEFINE new == FoundAgain(list, record.video, query)
  <2>1. next = [now EXCEPT !.found = new]
    BY <1>2 DEF Noted
  <2>2. ASSUME NEW k \in 1..Len(list)
        PROVE  new[k] \in Candidate /\ new[k].video = list[k].video
    BY <1>0, GoodListIs DEF Candidate, FoundAgain
  <2>3. Len(list) \in Nat /\ DOMAIN list = 1..Len(list)
    BY <1>0, GoodListIs
  <2>4. new = [k \in 1..Len(list) |-> new[k]]
    BY <2>3 DEF FoundAgain
  <2> HIDE DEF new
  <2>5. new \in Seq(Candidate) /\ Len(new) = Len(list)
    <3>1. new \in [1..Len(list) -> Candidate]
      BY <2>2, <2>4
    <3> QED
      BY <2>3, <3>1
  <2>6. GoodList(new)
    BY <1>0, <2>2, <2>5 DEF GoodList
  <2> QED
    BY <1>0, <2>1, <2>6 DEF Notes, IsTopic
<1>3. CASE record.video # None /\ FoundBefore(list, record.video) = {}
  <2> DEFINE c == [video |-> record.video, rank |-> rank,
                   channel |-> IF record.channel = None THEN record.video ELSE record.channel,
                   queries |-> {query}]
             new == Append(list, c)
  <2>1. next = [now EXCEPT !.found = new]
    BY <1>3 DEF Noted
  <2>2. c \in Candidate /\ c.video = record.video
    BY <1>3 DEF Candidate, Record
  <2>3. Len(list) \in Nat /\ DOMAIN list = 1..Len(list) /\ list \in Seq(Candidate)
    BY <1>0, GoodListIs DEF GoodList
  <2> HIDE DEF c
  <2>4. /\ new \in Seq(Candidate) /\ Len(new) = Len(list) + 1
        /\ new[Len(list) + 1] = c /\ \A k \in 1..Len(list) : new[k] = list[k]
    BY <2>2, <2>3
  <2> HIDE DEF new
  <2>5. \A k \in 1..Len(list) : list[k].video # c.video
    BY <1>3, <2>2, <2>3 DEF FoundBefore
  <2>6. ASSUME NEW j \in 1..(Len(list) + 1), NEW k \in 1..(Len(list) + 1),
               new[j].video = new[k].video
        PROVE  j = k
    <3>1. CASE j \in 1..Len(list) /\ k \in 1..Len(list)
      BY <1>0, <2>4, <2>6, <3>1 DEF GoodList
    <3>2. CASE j = Len(list) + 1 /\ k \in 1..Len(list)
      BY <2>4, <2>5, <2>6, <3>2
    <3>3. CASE j \in 1..Len(list) /\ k = Len(list) + 1
      BY <2>4, <2>5, <2>6, <3>3
    <3> QED
      BY <2>3, <3>1, <3>2, <3>3
  <2>7. GoodList(new)
    BY <2>4, <2>6 DEF GoodList
  <2> QED
    BY <1>0, <2>1, <2>7 DEF Notes, IsTopic
<1> QED
  BY <1>1, <1>2, <1>3

\* An answer has been noted up to its m-th record.
NotedSoFar(f, m, base, records, query) ==
  f = [k \in 0..m |-> IF k = 0 THEN base ELSE Noted(f[k - 1], records[k], k, query)]

LEMMA NotedIsDefined ==
  ASSUME NEW n \in Nat, NEW base, NEW records, NEW query
  PROVE  \E f : NotedSoFar(f, n, base, records, query)
<1> DEFINE Good(m) == \E f : NotedSoFar(f, m, base, records, query)
           Bad == {m \in Nat : ~Good(m)}
<1>1. Good(0)
  <2>1. NotedSoFar([k \in 0..0 |-> base], 0, base, records, query)
    BY DEF NotedSoFar
  <2> QED
    BY <2>1
<1>2. ASSUME NEW m \in Nat, Good(m) PROVE Good(m + 1)
  <2>1. PICK f : NotedSoFar(f, m, base, records, query)
    BY <1>2
  <2> DEFINE g == [k \in 0..(m + 1) |-> IF k = m + 1
                     THEN Noted(f[m], records[m + 1], m + 1, query) ELSE f[k]]
  <2>2. f = [k \in 0..m |-> IF k = 0 THEN base ELSE Noted(f[k - 1], records[k], k, query)]
    BY <2>1 DEF NotedSoFar
  <2>3. ASSUME NEW k \in 0..(m + 1)
        PROVE  g[k] = IF k = 0 THEN base ELSE Noted(g[k - 1], records[k], k, query)
    <3>1. CASE k = m + 1
      <4>1. g[k - 1] = f[m] /\ g[k] = Noted(f[m], records[m + 1], m + 1, query)
        BY <3>1
      <4> QED
        BY <3>1, <4>1
    <3>2. CASE k # m + 1 /\ k # 0
      <4>1. k \in 0..m /\ k - 1 \in 0..m /\ k - 1 # m + 1 /\ k - 1 \in 0..(m + 1)
        BY <3>2
      <4>2. g[k] = f[k] /\ g[k - 1] = f[k - 1]
        BY <3>2, <4>1
      <4>3. f[k] = Noted(f[k - 1], records[k], k, query)
        BY <2>2, <3>2, <4>1
      <4> QED
        BY <3>2, <4>2, <4>3
    <3>3. CASE k = 0
      <4>1. g[0] = f[0] /\ f[0] = base
        BY <2>2
      <4> QED
        BY <3>3, <4>1
    <3> QED
      BY <3>1, <3>2, <3>3
  <2>4. g = [k \in 0..(m + 1) |-> g[k]]
    OBVIOUS
  <2> HIDE DEF g
  <2>5. g = [k \in 0..(m + 1) |-> IF k = 0 THEN base ELSE Noted(g[k - 1], records[k], k, query)]
    BY <2>3, <2>4
  <2> QED
    BY <2>5 DEF NotedSoFar
<1> HIDE DEF Good
<1>3. Bad = {}
  <2> SUFFICES ASSUME Bad # {} PROVE FALSE
    OBVIOUS
  <2>1. PICK m \in Bad : \A k \in Bad : m <= k
    <3>1. Bad \in SUBSET Nat
      OBVIOUS
    <3> HIDE DEF Bad
    <3> QED
      BY <3>1, LeastOf
  <2>2. m \in Nat /\ ~Good(m) /\ m # 0
    BY <1>1
  <2>3. m - 1 \in Nat /\ (m - 1) + 1 = m /\ ~(m <= m - 1)
    BY <2>2
  <2>4. Good(m - 1)
    BY <2>1, <2>3
  <2> QED
    BY <1>2, <2>2, <2>3, <2>4
<1>4. Good(n)
  BY <1>3
<1> QED
  BY <1>4 DEF Good

LEMMA NotedUpToIs ==
  ASSUME NEW answer, answer.videos \in Seq(Record), topic.query \in Nat,
         IsTopic(topic), GoodList(topic.found)
  PROVE  Notes(NotedUpTo(answer), topic.query)
<1> DEFINE records == answer.videos
           n == Len(records)
           query == topic.query
           base == [topic EXCEPT !.errors = @ \cup answer.problems]
           f == CHOOSE f : f = [k \in 0..n |-> IF k = 0 THEN base
                                  ELSE Noted(f[k - 1], records[k], k, query)]
<1>1. n \in Nat /\ \A k \in 1..n : records[k] \in Record
  OBVIOUS
<1>2. NotedUpTo(answer) = f[n]
  BY DEF NotedUpTo
<1>3. Notes(base, query)
  <2> DEFINE errors == topic.errors \cup answer.problems
  <2>1. base = [topic EXCEPT !.errors = errors]
    OBVIOUS
  <2> HIDE DEF errors, base
  <2>2. IsTopic(base) /\ base.found = topic.found /\ base.query = topic.query
    BY <2>1, WithErrors
  <2> QED
    BY <2>2 DEF Notes
<1> HIDE DEF base, records, n, query
<1>4. NotedSoFar(f, n, base, records, query)
  <2>1. PICK g : NotedSoFar(g, n, base, records, query)
    BY <1>1, NotedIsDefined
  <2> QED
    BY <2>1 DEF NotedSoFar
<1>5. /\ f[0] = base
      /\ \A k \in 1..n : f[k] = Noted(f[k - 1], records[k], k, query)
  <2> HIDE DEF f
  <2>1. f = [k \in 0..n |-> IF k = 0 THEN base ELSE Noted(f[k - 1], records[k], k, query)]
    BY <1>4 DEF NotedSoFar
  <2> QED
    BY <1>1, <2>1
<1> HIDE DEF f
<1> DEFINE Bad == {k \in 0..n : ~Notes(f[k], query)}
<1>6. Bad = {}
  <2> SUFFICES ASSUME Bad # {} PROVE FALSE
    OBVIOUS
  <2>1. PICK m \in Bad : \A k \in Bad : m <= k
    <3>1. Bad \in SUBSET Nat
      BY <1>1
    <3> HIDE DEF Bad
    <3> QED
      BY <3>1, LeastOf
  <2>2. m \in 0..n /\ ~Notes(f[m], query)
    OBVIOUS
  <2>3. m \in 1..n
    BY <1>1, <1>3, <1>5, <2>2
  <2>4. m - 1 \in 0..n /\ ~(m <= m - 1) /\ m \in Nat
    BY <1>1, <2>3
  <2>5. Notes(f[m - 1], query)
    BY <2>1, <2>4
  <2>6. Notes(f[m], query)
    BY <1>1, <1>5, <2>3, <2>4, <2>5, NotedKeeps DEF query
  <2> QED
    BY <2>2, <2>6
<1>7. Notes(f[n], query)
  BY <1>1, <1>6
<1> QED
  BY <1>2, <1>7 DEF query

TopicInv ==
  /\ IsTopic(topic) /\ topic.query \in Nat /\ GoodList(topic.found)
  /\ topic.phase = "offered" => IsFair(topic.found, topic.known, topic.offered)

LEMMA EmptyIsGood == GoodList(<<>>)
BY DEF GoodList

LEMMA AdvanceKeeps ==
  ASSUME NEW now, IsTopic(now), GoodList(now.found), now.query \in Nat,
         topic' = Advance(now)
  PROVE  TopicInv'
<1>1. topic' = [phase |-> IF topic.query = TopicQueries THEN "look" ELSE "search",
                query |-> now.query + 1, found |-> now.found, errors |-> now.errors,
                known |-> now.known, offered |-> now.offered]
  BY DEF Advance, IsTopic
<1>2. /\ topic'.found = now.found /\ topic'.query = now.query + 1
      /\ topic'.phase # "offered" /\ IsTopic(topic')
  BY <1>1 DEF IsTopic
<1> QED
  BY <1>2 DEF TopicInv

LEMMA NextTopicInv ==
  ASSUME TopicInv, [DiscoveryNext]_discoveryVars
  PROVE  TopicInv'
<1>1. CASE StartDiscovery
  <2>1. topic' = [phase |-> "search", query |-> 1, found |-> <<>>, errors |-> {}, known |-> {},
                  offered |-> <<>>]
    BY <1>1 DEF StartDiscovery, NoTopic
  <2> QED
    BY <2>1, EmptyIsGood DEF TopicInv, IsTopic
<1>2. ASSUME NEW answer \in Answers, Fetch(answer) PROVE TopicInv'
  <2> DEFINE now == NotedUpTo(answer)
  <2>1. answer.videos \in Seq(Record)
    BY DiscoveryAssumption DEF Record
  <2>2. Notes(now, topic.query)
    BY <2>1, NotedUpToIs DEF TopicInv
  <2>3. topic' = Advance(now)
    BY <1>2 DEF Fetch
  <2> HIDE DEF now
  <2>4. IsTopic(now) /\ GoodList(now.found) /\ now.query \in Nat
    BY <2>2 DEF TopicInv, Notes
  <2> QED
    BY <2>3, <2>4, AdvanceKeeps
<1>3. ASSUME NEW problem, FetchFails(problem) PROVE TopicInv'
  <2> DEFINE now == [topic EXCEPT !.errors = @ \cup {problem}]
  <2>1. topic' = Advance(now)
    BY <1>3 DEF FetchFails
  <2>2. IsTopic(now) /\ now.found = topic.found /\ now.query = topic.query
    BY WithErrors DEF TopicInv
  <2> HIDE DEF now
  <2> QED
    BY <2>1, <2>2, AdvanceKeeps DEF TopicInv
<1>4. CASE Look
  <2> DEFINE offered == RoundRobin(topic.found, Unseen(topic.found, InCatalog), Limit)
  <2>1. IsFair(topic.found, InCatalog, offered)
    BY OfferIsFair DEF TopicInv
  <2>2. topic' = [topic EXCEPT !.phase = "offered", !.known = InCatalog, !.offered = offered,
                    !.errors = IF offered = <<>> THEN @ \cup {"no_candidates"} ELSE @]
    BY <1>4 DEF Look
  <2> HIDE DEF offered
  <2>3. /\ topic'.found = topic.found /\ topic'.known = InCatalog /\ topic'.offered = offered
        /\ topic'.query = topic.query /\ IsTopic(topic')
    BY <2>2 DEF TopicInv, IsTopic
  <2> QED
    BY <2>1, <2>3 DEF TopicInv
<1>5. CASE LookFails
  BY <1>5 DEF LookFails, TopicInv, IsTopic
<1>6. CASE UNCHANGED topic
  BY <1>6 DEF TopicInv
<1> QED
  BY <1>1, <1>2, <1>3, <1>4, <1>5, <1>6 DEF DiscoveryNext, Provider, discoveryVars

LEMMA TopicInvariant == DiscoverySpec => []TopicInv
<1>1. DiscoveryInit => TopicInv
  BY EmptyIsGood DEF DiscoveryInit, NoTopic, TopicInv, IsTopic
<1> QED
  BY <1>1, NextTopicInv, PTL DEF DiscoverySpec

\* What a discovery offers is new, without duplicates and as much as there is room for, and no
\* channel gets two turns more than one that has candidates left, whatever the searches
\* return (YtDlpDiscoveryProvider._round_robin_channels).
THEOREM OffersAreFair == DiscoverySpec => []FairOffer
<1>1. TopicInv => FairOffer
  <2> SUFFICES ASSUME TopicInv, topic.phase = "offered" PROVE FairOffer
    BY DEF FairOffer
  <2>1. IsFair(topic.found, topic.known, topic.offered)
    BY DEF TopicInv
  <2>2. Unseen(topic.found, topic.known) =
          {k \in DOMAIN topic.found : topic.found[k].video \notin topic.known}
    BY DEF Unseen
  <2> DEFINE total == Cardinality({k \in DOMAIN topic.found :
                                    topic.found[k].video \notin topic.known})
  <2>3. Len(topic.offered) = IF total < Limit THEN total ELSE Limit
    BY <2>1, <2>2 DEF IsFair
  <2>4. \A m, n \in DOMAIN topic.offered :
          /\ topic.offered[n].video \notin topic.known
          /\ topic.offered[m].video = topic.offered[n].video => m = n
    BY <2>1 DEF IsFair
  <2>5. \A c, d : Cardinality(Offered(c)) > Cardinality(Offered(d)) + 1 =>
                    Cardinality(Offered(d)) = Cardinality(Available(d))
    BY <2>1 DEF IsFair, Offered, Available
  <2> HIDE DEF total
  <2> QED
    BY <2>3, <2>4, <2>5 DEF FairOffer, total
<1> QED
  BY <1>1, TopicInvariant, PTL

================================================================================
