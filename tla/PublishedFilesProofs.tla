-------------------------- MODULE PublishedFilesProofs --------------------------
(***************************************************************************)
(* What the three programs that publish files beside others guarantee, for  *)
(* any number of writers, edits and faults: proofs for DossierPublication,   *)
(* TranscriptExport and SetupTransaction.  The modules share no state, and   *)
(* every theorem is about the specification of one of them.                 *)
(***************************************************************************)
EXTENDS SetupTransaction, DossierPublication, TranscriptExport, SequenceTheorems,
        FiniteSetTheorems, TLAPS

-----------------------------------------------------------------------------
(* Nobody loses a dossier to an export that fails.                         *)

Steps == {"start", "stage", "compare", "rename", "moved", "publish", "published", "remove",
          "removing", "restore", "clean", "retire", "discard", "done", "error", "crashed"}

\* Of the contents only the domain matters here.
DossierTypeOK ==
  /\ at \in [Entries -> Directories \cup {None}]
  /\ content = [d \in Directories |-> content[d]]
  /\ step \in [Writers -> Steps] /\ force \in [Writers -> BOOLEAN]
  /\ initial \in [Writers -> Directories \cup {None}]
  /\ committed \subseteq Writers

\* A writer retires a backup only once its own dossier is committed, and a writer that
\* is committed takes no step back.
RetiresCommitted ==
  /\ \A w \in Writers : step[w] \in {"retire", "discard"} => w \in committed
  /\ \A w \in committed : step[w] \in {"retire", "discard", "done", "crashed"}

DossierInv == DossierTypeOK /\ RetiresCommitted

LEMMA EntriesOf ==
  ASSUME NEW w \in Writers
  PROVE  /\ Dest \in Entries /\ Staging(w) \in Entries
         /\ Backup(w) \in Entries /\ Cleanup(w) \in Entries
         /\ w \in Directories
BY DEF Entries, Dest, Staging, Backup, Cleanup, Directories

\* A rename within the parent directory keeps the type.
LEMMA MoveTyped ==
  ASSUME DossierTypeOK, NEW from \in Entries, NEW to \in Entries, MoveEntry(from, to)
  PROVE  at' \in [Entries -> Directories \cup {None}]
BY DEF DossierTypeOK, MoveEntry

LEMMA InitDossierInv == DossierInit => DossierInv
<1> SUFFICES ASSUME DossierInit PROVE DossierInv
  OBVIOUS
<1>1. at \in [Entries -> Directories \cup {None}]
  BY DEF DossierInit, Directories
<1>2. content = [d \in Directories |-> content[d]]
  BY DEF DossierInit
<1> QED
  BY <1>1, <1>2 DEF DossierInit, DossierInv, DossierTypeOK, RetiresCommitted, Steps

\* The steps of one writer, one by one.
LEMMA WriterStep ==
  ASSUME DossierInv, NEW w \in Writers, Step(w) \/ StepFails(w) \/ ExportKilled(w)
  PROVE  DossierInv'
<1> USE DEF DossierInv, DossierTypeOK, RetiresCommitted, Steps, Goto
<1>1. ASSUME NEW f \in BOOLEAN, Look(w, f) PROVE DossierInv'
  BY <1>1, EntriesOf DEF Look
<1>2. CASE StageDossier(w)
  BY <1>2, EntriesOf DEF StageDossier
<1>3. CASE Compare(w)
  BY <1>3 DEF Compare
<1>4. CASE Rename(w)
  BY <1>4, EntriesOf, MoveTyped DEF Rename
<1>5. CASE CheckBackup(w)
  BY <1>5 DEF CheckBackup
<1>6. CASE PublishStage(w)
  BY <1>6, EntriesOf, MoveTyped DEF PublishStage
<1>7. CASE Commit(w)
  BY <1>7 DEF Commit
<1>8. CASE RemovePublished(w)
  BY <1>8, EntriesOf DEF RemovePublished
<1>9. CASE Removing(w)
  BY <1>9, EntriesOf DEF Removing
<1>10. CASE RestorePrior(w)
  BY <1>10, EntriesOf, MoveTyped DEF RestorePrior
<1>11. CASE Clean(w)
  BY <1>11, EntriesOf DEF Clean
<1>12. CASE Retire(w)
  BY <1>12, EntriesOf, MoveTyped DEF Retire
<1>13. CASE Discard(w)
  BY <1>13, EntriesOf DEF Discard
<1>14. CASE StepFails(w)
  BY <1>14 DEF StepFails, After, Running
<1>15. CASE ExportKilled(w)
  BY <1>15 DEF ExportKilled, Running
<1> QED
  BY <1>1, <1>2, <1>3, <1>4, <1>5, <1>6, <1>7, <1>8, <1>9, <1>10, <1>11, <1>12, <1>13,
     <1>14, <1>15 DEF Step

LEMMA NextDossierInv == DossierInv /\ [DossierNext]_dossierVars => DossierInv'
<1> SUFFICES ASSUME DossierInv, [DossierNext]_dossierVars PROVE DossierInv'
  OBVIOUS
<1>1. CASE Intrude
  BY <1>1, EntriesOf DEF Intrude, writerVars, DossierInv, DossierTypeOK, RetiresCommitted,
     Directories, Entries
<1>2. CASE UNCHANGED dossierVars
  BY <1>2 DEF dossierVars, writerVars, DossierInv, DossierTypeOK, RetiresCommitted
<1> QED
  BY <1>1, <1>2, WriterStep DEF DossierNext

LEMMA DossierInvariant == DossierSpec => []DossierInv
BY InitDossierInv, NextDossierInv, PTL DEF DossierSpec

\* Only the discarding of a validated backup, and the steps an export takes in its own
\* directory before it is committed, change the content of a directory that is there.
LEMMA WriterReplaces ==
  ASSUME DossierInv, NEW w \in Writers, Step(w) \/ StepFails(w) \/ ExportKilled(w),
         NEW d \in {Prior, Foreign} \cup committed,
         content[d] \in {"whole", "foreign"}, content'[d] # content[d]
  PROVE  \E v \in committed : initial[v] = d /\ step[v] = "discard"
<1> USE DEF DossierInv, DossierTypeOK, RetiresCommitted, Goto
<1>1. d \in Directories /\ d # None /\ (w \in committed \/ d # w)
  BY DossierAssumption DEF Directories
<1>2. ~(\E f \in BOOLEAN : Look(w, f)) /\ ~Compare(w) /\ ~Rename(w) /\ ~CheckBackup(w)
      /\ ~Commit(w) /\ ~RestorePrior(w) /\ ~Retire(w) /\ ~StepFails(w) /\ ~ExportKilled(w)
  BY DEF Look, Compare, Rename, CheckBackup, Commit, RestorePrior, Retire, StepFails,
         ExportKilled
<1>3. ~StageDossier(w)
  BY <1>1 DEF StageDossier
<1>4. ~PublishStage(w)
  BY <1>1 DEF PublishStage, Free
<1>5. ~RemovePublished(w)
  BY <1>1 DEF RemovePublished
<1>6. ~Removing(w)
  BY <1>1 DEF Removing
<1>7. ~Clean(w)
  BY <1>1 DEF Clean
<1>8. CASE Discard(w)
  BY <1>1, <1>8 DEF Discard
<1> QED
  BY <1>2, <1>3, <1>4, <1>5, <1>6, <1>7, <1>8 DEF Step

\* The prior dossier, a dossier whose export has succeeded and the directory of somebody
\* else lose their files only to a committed export that validated them as its prior
\* dossier (_publish_stage, _remove_published_dossier, _retire_prior_dossier).
THEOREM OnlyCommittedReplaces == DossierSpec => ReplacedOnlyByCommitted
<1>1. DossierInv /\ [DossierNext]_dossierVars =>
        [\A d \in {Prior, Foreign} \cup committed :
           content[d] \in {"whole", "foreign"} /\ content'[d] # content[d] =>
             \E w \in committed : initial[w] = d /\ step[w] = "discard"]_dossierVars
  <2> SUFFICES ASSUME DossierInv, DossierNext,
                      NEW d \in {Prior, Foreign} \cup committed,
                      content[d] \in {"whole", "foreign"}, content'[d] # content[d]
               PROVE  \E w \in committed : initial[w] = d /\ step[w] = "discard"
    OBVIOUS
  <2>1. ~Intrude
    <3>1. d # Foreign => d \in Directories
      BY DEF Directories, DossierInv, DossierTypeOK
    <3> QED
      BY <3>1 DEF Intrude, DossierInv, DossierTypeOK
  <2> QED
    BY <2>1, WriterReplaces DEF DossierNext
<1> QED
  BY <1>1, DossierInvariant, PTL DEF DossierSpec, ReplacedOnlyByCommitted

-----------------------------------------------------------------------------
(* An export that fails alone takes everything back.                       *)

\* Nobody but w has used the destination so far, and w met no error while it took its
\* steps back.
Alone(w) ==
  /\ content[Foreign] = "gone" /\ w \notin lapsed
  /\ \A v \in Writers \ {w} : step[v] = "start"

Only(entries) == \A e \in Entries \ entries : at[e] = None

\* Where the directories are at each step of an export that is alone.  Without force
\* it goes on only if it found nothing at the destination.
Untouched(w) == at[Dest] = initial[w] /\ Only({Dest})
Staged(w) == at[Dest] = initial[w] /\ at[Staging(w)] = w /\ Only({Dest, Staging(w)})
BackedUp(w) == at[Backup(w)] = initial[w] /\ Only({Dest, Staging(w), Backup(w)})

ShapeOf(w) ==
  /\ step[w] = "start" => Only({Dest})
  /\ step[w] \in {"stage", "error"} => Untouched(w)
  /\ step[w] = "compare" => Staged(w)
  /\ step[w] = "rename" => Staged(w) /\ force[w]
  /\ step[w] = "moved" => BackedUp(w) /\ at[Dest] = None /\ at[Staging(w)] = w /\ force[w]
  /\ step[w] = "publish" =>
       IF force[w] THEN BackedUp(w) /\ at[Dest] = None /\ at[Staging(w)] = w ELSE Staged(w)
  /\ step[w] \in {"published", "remove", "removing"} =>
       /\ at[Dest] = w /\ at[Staging(w)] = None
       /\ IF force[w] THEN BackedUp(w) ELSE initial[w] = None /\ Only({Dest})
  /\ step[w] = "restore" =>
       force[w] /\ BackedUp(w) /\ at[Dest] = None /\ at[Staging(w)] \in {w, None}
  /\ step[w] = "clean" =>
       at[Dest] = initial[w] /\ at[Staging(w)] \in {w, None} /\ Only({Dest, Staging(w)})
  /\ step[w] \in {"stage", "compare", "publish"} /\ ~force[w] => initial[w] = None
  /\ step[w] \in {"compare", "rename", "moved", "publish", "published", "remove"} =>
       content[w] = "whole"
  /\ step[w] = "removing" => content[w] \in {"part", "empty"}

AloneShape == \A w \in Writers : Alone(w) => ShapeOf(w)

\* The directory of somebody else appears once, and is then never taken for a prior
\* dossier; so that it is not there tells that it never was.
ForeignStays ==
  /\ content[Foreign] \in {"gone", "foreign"}
  /\ \A e \in Entries : at[e] = Foreign => content[Foreign] = "foreign"
  /\ \A w \in Writers : initial[w] = Foreign => step[w] = "error"

LEMMA EntriesDiffer ==
  ASSUME NEW w \in Writers
  PROVE  /\ Dest # Staging(w) /\ Dest # Backup(w) /\ Dest # Cleanup(w)
         /\ Staging(w) # Backup(w) /\ Staging(w) # Cleanup(w) /\ Backup(w) # Cleanup(w)
BY DEF Entries, Dest, Staging, Backup, Cleanup

LEMMA InitForeignStays == DossierInit => ForeignStays
<1> SUFFICES ASSUME DossierInit PROVE ForeignStays
  OBVIOUS
<1>1. \A e \in Entries : at[e] # Foreign
  BY DossierAssumption DEF DossierInit, Entries
<1>2. content[Foreign] = "gone"
  BY DossierAssumption, <1>1 DEF DossierInit, Directories, Entries
<1> QED
  BY <1>1, <1>2, DossierAssumption DEF DossierInit, ForeignStays

LEMMA NextForeignStays ==
  DossierInv /\ ForeignStays /\ [DossierNext]_dossierVars => ForeignStays'
<1> SUFFICES ASSUME DossierInv, ForeignStays, [DossierNext]_dossierVars
             PROVE  ForeignStays'
  OBVIOUS
<1> USE DossierAssumption DEF ForeignStays, DossierInv, DossierTypeOK, Goto
<1>1. Foreign \in Directories
  BY DEF Directories
<1>2. ASSUME NEW w \in Writers, Step(w) \/ StepFails(w) \/ ExportKilled(w)
      PROVE  ForeignStays'
  <2> USE <1>1, EntriesOf
  <2>1. ASSUME NEW f \in BOOLEAN, Look(w, f) PROVE ForeignStays'
    BY <2>1 DEF Look
  <2>2. CASE StageDossier(w)
    BY <2>2 DEF StageDossier
  <2>3. CASE Compare(w)
    BY <2>3 DEF Compare
  <2>4. CASE Rename(w)
    BY <2>4 DEF Rename, MoveEntry
  <2>5. CASE CheckBackup(w)
    BY <2>5 DEF CheckBackup
  <2>6. CASE PublishStage(w)
    BY <2>6 DEF PublishStage, MoveEntry, Free
  <2>7. CASE Commit(w)
    BY <2>7 DEF Commit
  <2>8. CASE RemovePublished(w)
    BY <2>8 DEF RemovePublished
  <2>9. CASE Removing(w)
    BY <2>9 DEF Removing
  <2>10. CASE RestorePrior(w)
    BY <2>10 DEF RestorePrior, MoveEntry
  <2>11. CASE Clean(w)
    BY <2>11 DEF Clean
  <2>12. CASE Retire(w)
    BY <2>12 DEF Retire, MoveEntry
  <2>13. CASE Discard(w)
    BY <2>13 DEF Discard
  <2>14. CASE StepFails(w)
    <3>1. step[w] # "error"
      BY <2>14 DEF StepFails, Running
    <3> QED
      BY <2>14, <3>1 DEF StepFails
  <2>15. CASE ExportKilled(w)
    BY <2>15 DEF ExportKilled, Running
  <2> QED
    BY <1>2, <2>1, <2>2, <2>3, <2>4, <2>5, <2>6, <2>7, <2>8, <2>9, <2>10, <2>11, <2>12,
       <2>13, <2>14, <2>15 DEF Step
<1>3. CASE Intrude
  BY <1>1, <1>3 DEF Intrude, writerVars
<1>4. CASE UNCHANGED dossierVars
  BY <1>4 DEF dossierVars, writerVars
<1> QED
  BY <1>2, <1>3, <1>4 DEF DossierNext

LEMMA InitAloneShape == DossierInit => AloneShape
BY DossierAssumption DEF DossierInit, AloneShape, ShapeOf, Only, Entries

\* Where an error takes an export that has not yet taken any step back.
LEMMA Aftermath ==
  ASSUME NEW w \in Writers
  PROVE  /\ step[w] = "stage" => After(w) = "error"
         /\ step[w] = "compare" => After(w) = "clean"
         /\ step[w] = "rename" => After(w) = "clean"
         /\ step[w] = "moved" => After(w) = "restore"
         /\ step[w] = "publish" /\ force[w] => After(w) = "restore"
         /\ step[w] = "publish" /\ ~force[w] => After(w) = "clean"
         /\ step[w] = "published" => After(w) = "remove"
         /\ step[w] \in {"retire", "discard"} => After(w) = "done"
BY Zenon DEF After

\* The steps of an export that is alone.
LEMMA AloneStep ==
  ASSUME DossierInv, ForeignStays, NEW w \in Writers, Alone(w), ShapeOf(w),
         Step(w) \/ StepFails(w) \/ ExportKilled(w), w \notin lapsed'
  PROVE  ShapeOf(w)'
<1> USE EntriesOf, EntriesDiffer, DossierAssumption
    DEF ShapeOf, Only, Untouched, Staged, BackedUp, DossierInv, DossierTypeOK, Goto
<1>0. w # None
  OBVIOUS
<1>1. ASSUME NEW f \in BOOLEAN, Look(w, f) PROVE ShapeOf(w)'
  BY <1>1 DEF Look
<1>2. CASE StageDossier(w)
  BY <1>2 DEF StageDossier
<1>3. CASE Compare(w)
  BY <1>3 DEF Compare
<1>4. CASE Rename(w)
  BY <1>4 DEF Rename, MoveEntry
<1>5. CASE CheckBackup(w)
  BY <1>5 DEF CheckBackup
<1>6. CASE PublishStage(w)
  <2>1. at[Dest] = None
    BY <1>6 DEF PublishStage
  <2>2. content' = content
    <3>1. \A d \in Directories : d # at[Dest]
      BY <2>1 DEF Directories
    <3> QED
      BY <1>6, <2>1, <3>1 DEF PublishStage, Free
  <2> QED
    BY <1>0, <1>6, <2>1, <2>2 DEF PublishStage, MoveEntry, Free
<1>7. CASE Commit(w)
  BY <1>7 DEF Commit
<1>8. CASE RemovePublished(w)
  BY <1>8 DEF RemovePublished, Emptied
<1>9. CASE Removing(w)
  BY <1>9 DEF Removing, Emptied
<1>10. CASE RestorePrior(w)
  BY <1>10 DEF RestorePrior, MoveEntry
<1>11. CASE Clean(w)
  BY <1>0, <1>11 DEF Clean
<1>12. CASE Retire(w)
  BY <1>12 DEF Retire
<1>13. CASE Discard(w)
  BY <1>13 DEF Discard
<1>14. CASE StepFails(w)
  <2>1. step[w] \in {"stage", "compare", "rename", "moved", "publish", "published",
                     "retire", "discard"}
    BY <1>14 DEF StepFails, Running, Steps
  <2> QED
    BY <1>0, <1>14, <2>1, Aftermath DEF StepFails
<1>15. CASE ExportKilled(w)
  BY <1>15 DEF ExportKilled, Running
<1> QED
  BY <1>1, <1>2, <1>3, <1>4, <1>5, <1>6, <1>7, <1>8, <1>9, <1>10, <1>11, <1>12, <1>13,
     <1>14, <1>15 DEF Step

\* An export that has begun has left the point at which all exports start.
LEMMA Begun ==
  ASSUME DossierInv, NEW v \in Writers, Step(v) \/ StepFails(v) \/ ExportKilled(v)
  PROVE  step'[v] # "start" /\ \A w \in Writers \ {v} : step'[w] = step[w]
<1> USE DEF DossierInv, DossierTypeOK, Goto
<1>1. CASE Step(v)
  BY <1>1 DEF Step, Look, StageDossier, Compare, Rename, CheckBackup, PublishStage, Commit,
     RemovePublished, Removing, RestorePrior, Clean, Retire, Discard
<1>2. CASE StepFails(v)
  <2>1. After(v) # "start"
    BY <1>2 DEF StepFails, After, Running, Steps
  <2> QED
    BY <1>2, <2>1 DEF StepFails
<1>3. CASE ExportKilled(v)
  BY <1>3 DEF ExportKilled
<1> QED
  BY <1>1, <1>2, <1>3

LEMMA LapsedGrows ==
  ASSUME NEW v \in Writers, Step(v) \/ StepFails(v) \/ ExportKilled(v)
  PROVE  lapsed \subseteq lapsed'
BY DEF Step, Look, StageDossier, Compare, Rename, CheckBackup, PublishStage, Commit,
   RemovePublished, Removing, RestorePrior, Clean, Retire, Discard, StepFails, ExportKilled

\* The directory of somebody else does not go away.
LEMMA ForeignWas ==
  ASSUME DossierInv, ForeignStays, NEW v \in Writers,
         Step(v) \/ StepFails(v) \/ ExportKilled(v), content'[Foreign] = "gone"
  PROVE  content[Foreign] = "gone"
<1> SUFFICES ASSUME content[Foreign] = "foreign" PROVE FALSE
  BY DEF ForeignStays
<1>1. PICK u \in committed : initial[u] = Foreign /\ step[u] = "discard"
  BY WriterReplaces
<1> QED
  BY <1>1 DEF ForeignStays, DossierInv, DossierTypeOK

LEMMA NextAloneShape ==
  DossierInv /\ ForeignStays /\ AloneShape /\ [DossierNext]_dossierVars => AloneShape'
<1> SUFFICES ASSUME DossierInv, ForeignStays, AloneShape, [DossierNext]_dossierVars,
                    NEW w \in Writers, Alone(w)'
             PROVE  ShapeOf(w)'
  BY DEF AloneShape
<1>1. ASSUME NEW v \in Writers, Step(v) \/ StepFails(v) \/ ExportKilled(v)
      PROVE  ShapeOf(w)'
  <2>1. v = w
    BY <1>1, Begun DEF Alone
  <2>2. Alone(w)
    BY <1>1, <2>1, Begun, LapsedGrows, ForeignWas DEF Alone
  <2> QED
    BY <1>1, <2>1, <2>2, AloneStep DEF AloneShape, Alone
<1>2. ~Intrude
  BY DossierAssumption DEF Intrude, Alone, Directories, DossierInv, DossierTypeOK
<1>3. CASE UNCHANGED dossierVars
  BY <1>3 DEF dossierVars, writerVars, Alone, AloneShape, ShapeOf, Only, Untouched, Staged,
     BackedUp
<1> QED
  BY <1>1, <1>2, <1>3 DEF DossierNext

\* An export that fails while nobody else uses the destination leaves it as it found it,
\* with nothing under a private name, at whatever step it failed.
THEOREM FailedExportTakesBack == DossierSpec => []FailedExportRestores
<1>1. AloneShape => FailedExportRestores
  BY DEF AloneShape, Alone, ShapeOf, Untouched, Only, FailedExportRestores
<1> QED
  BY <1>1, DossierInvariant, InitForeignStays, NextForeignStays, InitAloneShape,
     NextAloneShape, PTL DEF DossierSpec

-----------------------------------------------------------------------------
(* TranscriptExport: an export is one text of its source.                  *)

Inodes == 0..MaxRewrites

\* Points at which an export holds a descriptor, and those after the comparison.
Reading == {"first", "second", "confirm"}
Confirmed == {"named", "target", "create", "write", "link", "remove", "directory", "done"}
Points == {"start", "resolve", "inspect", "open", "failed", "killed"} \cup Reading \cup Confirmed

Records ==
  [point : Points, language : Languages \cup {Nothing}, force : BOOLEAN, given : BOOLEAN,
   room : Rooms \cup {Nothing}, source : Sources \cup {Nothing},
   inode : Inodes \cup {Nothing}, mtime : Inodes \cup {Nothing},
   first : Inodes \cup {Nothing}, second : Inodes \cup {Nothing}, ok : BOOLEAN]

ExportTypeOK ==
  /\ source \in [Sources -> Inodes \cup {Nothing}]
  /\ text \in [Inodes -> Inodes]
  /\ written \in [Exporters -> {"nothing", "whole"}]
  /\ export \in [Exporters -> Records]
  /\ room \in Rooms
  /\ rewrites \in Inodes

\* Texts are told by the change that wrote them, and changes are counted.
TextsArePast == \A i \in Inodes : text[i] <= rewrites

\* What an export x has read of its descriptor is not older than when it was opened,
\* and what it reads later is not older than what it has read; so equal times tell
\* that all of it is the same.
Ordered(x) ==
  /\ x.point = "inspect" => x.source \in Sources
  /\ x.point \in {"open"} \cup Reading => x.inode \in Inodes
  /\ x.point \in Reading => x.mtime \in Inodes /\ x.mtime <= text[x.inode]
  /\ x.point \in {"second", "confirm"} =>
       x.first \in Inodes /\ x.mtime <= x.first /\ x.first <= text[x.inode]
  /\ x.point = "confirm" =>
       x.second \in Inodes /\ x.first <= x.second /\ x.second <= text[x.inode]
  /\ x.point \in Confirmed => x.first = x.second

\* Nothing is written before the comparison.
Consistent(x) == x.point \in Confirmed \cup {"failed", "killed"} /\ x.first = x.second

ReadsAreOrdered == \A e \in Exporters : Ordered(export[e])

WrittenAfter == \A e \in Exporters : written[e] = "whole" => Consistent(export[e])

ExportInv == ExportTypeOK /\ TextsArePast /\ ReadsAreOrdered /\ WrittenAfter

LEMMA InitExportInv == ExportInit => ExportInv
<1> SUFFICES ASSUME ExportInit PROVE ExportInv
  OBVIOUS
<1>1. Idle \in Records /\ Idle.point = "start"
  BY DEF Idle, Records, Points
<1>2. 0 \in Inodes
  BY ExportAssumption DEF Inodes
<1> HIDE DEF Idle
<1>3. ExportTypeOK
  <2>1. source \in [Sources -> Inodes \cup {Nothing}]
    BY <1>2 DEF ExportInit
  <2>2. text \in [Inodes -> Inodes]
    BY <1>2 DEF ExportInit, Inodes
  <2> QED
    BY <1>1, <1>2, <2>1, <2>2 DEF ExportInit, ExportTypeOK
<1>4. TextsArePast
  BY DEF ExportInit, TextsArePast, Inodes
<1>5. ReadsAreOrdered /\ WrittenAfter
  BY <1>1 DEF ExportInit, ReadsAreOrdered, Ordered, WrittenAfter, Reading, Confirmed
<1> QED
  BY <1>3, <1>4, <1>5 DEF ExportInv

\* One export goes on; the corpus is as it was.
LEMMA OneGoesOn ==
  ASSUME ExportInv, NEW e \in Exporters, NEW x \in Records, Ordered(x),
         export' = [export EXCEPT ![e] = x],
         UNCHANGED <<corpusFiles, room, rewrites>>,
         written' \in [Exporters -> {"nothing", "whole"}],
         \A f \in Exporters \ {e} : written'[f] = written[f],
         written'[e] = "whole" => Consistent(x)
  PROVE  ExportInv'
<1> USE DEF ExportInv, ExportTypeOK, corpusFiles
<1>1. ExportTypeOK' /\ TextsArePast'
  BY DEF TextsArePast
<1>2. \A f \in Exporters : export'[f] = IF f = e THEN x ELSE export[f]
  OBVIOUS
<1>3. ReadsAreOrdered'
  BY <1>2 DEF ReadsAreOrdered, Ordered
<1>4. WrittenAfter'
  BY <1>2 DEF WrittenAfter, Consistent
<1> QED
  BY <1>1, <1>3, <1>4

\* The same when nothing but the point changes, and what the new point asks for is known.
LEMMA OneContinues ==
  ASSUME ExportInv, NEW e \in Exporters, NEW point \in Points, Continue(e, point),
         UNCHANGED <<corpusFiles, room, rewrites, written>>,
         \/ point \in {"failed", "killed"}
         \/ export[e].point \in Confirmed /\ point \in Confirmed
  PROVE  ExportInv'
<1> DEFINE x == [export[e] EXCEPT !.point = point]
<1>1. x \in Records /\ x.point = point /\ x.first = export[e].first /\ x.second = export[e].second
  BY DEF ExportInv, ExportTypeOK, Records
<1>2. export' = [export EXCEPT ![e] = x]
  BY DEF Continue
<1>3. export[e].point \in Confirmed => export[e].first = export[e].second
  BY DEF ExportInv, ReadsAreOrdered, Ordered
<1>4. Ordered(x)
  BY <1>1, <1>3 DEF Ordered, Confirmed, Reading
<1>5. written[e] = "whole" => Consistent(x)
  BY <1>1 DEF ExportInv, WrittenAfter, Consistent
<1> HIDE DEF x
<1> QED
  BY <1>1, <1>2, <1>4, <1>5, OneGoesOn DEF ExportInv, ExportTypeOK

\* The steps up to the comparison.
LEMMA ReadingStep ==
  ASSUME ExportInv, NEW e \in Exporters,
         \/ \E language \in Languages \cup {Nothing}, replace, given \in BOOLEAN :
              Request(e, language, replace, given)
         \/ Resolve(e) \/ Inspect(e) \/ OpenSource(e) \/ ReadFirst(e) \/ ReadSecond(e)
         \/ Confirm(e)
  PROVE  ExportInv'
<1>1. export[e] \in Records /\ Ordered(export[e]) /\ UNCHANGED written
  BY DEF ExportInv, ExportTypeOK, ReadsAreOrdered, Request, Resolve, Inspect, OpenSource,
     ReadFirst, ReadSecond, Confirm, exportedFiles
<1>2. export[e].point \in {"start", "resolve", "inspect", "open"} \cup Reading
  BY DEF Reading, Request, Resolve, Inspect, OpenSource, ReadFirst, ReadSecond, Confirm, Ready
<1>3. written[e] # "whole"
  BY <1>2 DEF ExportInv, WrittenAfter, Consistent, Confirmed, Reading
<1>4. ASSUME NEW x \in Records, Ordered(x), export' = [export EXCEPT ![e] = x],
             UNCHANGED <<corpusFiles, room, rewrites>>
      PROVE  ExportInv'
  BY <1>1, <1>3, <1>4, OneGoesOn DEF ExportInv, ExportTypeOK
<1>5. ASSUME Give(e), UNCHANGED <<corpusFiles, room, rewrites>> PROVE ExportInv'
  BY <1>1, <1>5, OneContinues DEF Give, Points
<1> USE DEF Ready
<1>6. ASSUME NEW language \in Languages \cup {Nothing}, NEW replace \in BOOLEAN,
             NEW given \in BOOLEAN, Request(e, language, replace, given)
      PROVE  ExportInv'
  <2> DEFINE x == [Idle EXCEPT !.point = "resolve", !.language = language,
                               !.force = replace, !.given = given, !.room = OpenedRoom(given)]
  <2>1. x \in Records /\ x.point = "resolve"
    BY DEF Idle, Records, Points, OpenedRoom, ExportInv, ExportTypeOK
  <2>2. Ordered(x)
    BY <2>1 DEF Ordered, Reading, Confirmed
  <2> HIDE DEF x
  <2>3. export' = [export EXCEPT ![e] = x]
    BY <1>6 DEF Request, x
  <2> QED
    BY <1>4, <1>6, <2>1, <2>2, <2>3 DEF Request
<1>7. CASE Resolve(e)
  <2>1. CASE TheOne(export[e].language) = {}
    BY <1>5, <1>7, <2>1 DEF Resolve
  <2>2. ASSUME TheOne(export[e].language) # {} PROVE ExportInv'
    <3>1. PICK s \in TheOne(export[e].language) :
            export' = [export EXCEPT ![e] = [export[e] EXCEPT !.point = "inspect", !.source = s]]
      BY <1>7, <2>2 DEF Resolve
    <3> DEFINE x == [export[e] EXCEPT !.point = "inspect", !.source = s]
    <3>2. s \in Sources
      BY DEF TheOne, Candidates
    <3>3. x \in Records /\ x.point = "inspect" /\ x.source = s
      BY <1>1, <3>2 DEF Records, Points
    <3>4. Ordered(x)
      BY <3>2, <3>3 DEF Ordered, Reading, Confirmed
    <3> HIDE DEF x
    <3> QED
      BY <1>4, <1>7, <3>1, <3>3, <3>4 DEF Resolve, x
  <2> QED
    BY <2>1, <2>2
<1>8. CASE Inspect(e)
  <2>1. CASE There(e) = Nothing
    BY <1>5, <1>8, <2>1 DEF Inspect
  <2>2. ASSUME There(e) # Nothing PROVE ExportInv'
    <3> DEFINE x == [export[e] EXCEPT !.point = "open", !.inode = There(e)]
    <3>1. There(e) \in Inodes
      BY <1>1, <1>8, <2>2 DEF Inspect, There, Ordered, ExportInv, ExportTypeOK
    <3>2. x \in Records /\ x.point = "open" /\ x.inode = There(e)
      BY <1>1, <3>1 DEF Records, Points
    <3>3. Ordered(x)
      BY <3>1, <3>2 DEF Ordered, Reading, Confirmed
    <3>4. export' = [export EXCEPT ![e] = x]
      BY <1>8, <2>2 DEF Inspect
    <3> HIDE DEF x
    <3> QED
      BY <1>4, <1>8, <3>2, <3>3, <3>4 DEF Inspect
  <2> QED
    BY <2>1, <2>2
<1>9. CASE OpenSource(e)
  <2>1. CASE There(e) # export[e].inode
    BY <1>5, <1>9, <2>1 DEF OpenSource
  <2>2. ASSUME There(e) = export[e].inode PROVE ExportInv'
    <3> DEFINE x == [export[e] EXCEPT !.point = "first", !.mtime = text[There(e)]]
    <3>1. export[e].inode \in Inodes
      BY <1>1, <1>9 DEF OpenSource, Ordered
    <3>2. text[There(e)] \in Inodes /\ text[There(e)] <= text[export[e].inode]
      BY <2>2, <3>1 DEF ExportInv, ExportTypeOK, Inodes
    <3>3. x \in Records /\ x.point = "first" /\ x.inode = export[e].inode
          /\ x.mtime = text[There(e)]
      BY <1>1, <3>2 DEF Records, Points, Reading
    <3>4. Ordered(x)
      BY <3>1, <3>2, <3>3 DEF Ordered, Reading, Confirmed
    <3>5. export' = [export EXCEPT ![e] = x]
      BY <1>9, <2>2 DEF OpenSource
    <3> HIDE DEF x
    <3> QED
      BY <1>4, <1>9, <3>3, <3>4, <3>5 DEF OpenSource
  <2> QED
    BY <2>1, <2>2
<1>10. CASE ReadFirst(e)
  <2> DEFINE x == [export[e] EXCEPT !.point = "second", !.first = text[export[e].inode]]
  <2>1. /\ export[e].inode \in Inodes /\ export[e].mtime \in Inodes
        /\ export[e].mtime <= text[export[e].inode]
    BY <1>1, <1>10 DEF ReadFirst, Ordered, Reading
  <2>2. text[export[e].inode] \in Inodes /\ text[export[e].inode] <= text[export[e].inode]
    BY <2>1 DEF ExportInv, ExportTypeOK, Inodes
  <2>3. x \in Records /\ x.point = "second" /\ x.inode = export[e].inode
        /\ x.mtime = export[e].mtime /\ x.first = text[export[e].inode]
    BY <1>1, <2>2 DEF Records, Points, Reading
  <2>4. Ordered(x)
    BY <2>1, <2>2, <2>3 DEF Ordered, Reading, Confirmed
  <2>5. export' = [export EXCEPT ![e] = x]
    BY <1>10 DEF ReadFirst
  <2> HIDE DEF x
  <2> QED
    BY <1>4, <1>10, <2>3, <2>4, <2>5 DEF ReadFirst
<1>11. CASE ReadSecond(e)
  <2> DEFINE x == [export[e] EXCEPT !.point = "confirm", !.second = text[export[e].inode]]
  <2>1. /\ export[e].inode \in Inodes /\ export[e].mtime \in Inodes
        /\ export[e].mtime <= text[export[e].inode]
        /\ export[e].first \in Inodes /\ export[e].mtime <= export[e].first
        /\ export[e].first <= text[export[e].inode]
    BY <1>1, <1>11 DEF ReadSecond, Ordered, Reading
  <2>2. text[export[e].inode] \in Inodes /\ text[export[e].inode] <= text[export[e].inode]
    BY <2>1 DEF ExportInv, ExportTypeOK, Inodes
  <2>3. x \in Records /\ x.point = "confirm" /\ x.inode = export[e].inode
        /\ x.mtime = export[e].mtime /\ x.first = export[e].first
        /\ x.second = text[export[e].inode]
    BY <1>1, <2>2 DEF Records, Points, Reading
  <2>4. Ordered(x)
    BY <2>1, <2>2, <2>3 DEF Ordered, Reading, Confirmed
  <2>5. export' = [export EXCEPT ![e] = x]
    BY <1>11 DEF ReadSecond
  <2> HIDE DEF x
  <2> QED
    BY <1>4, <1>11, <2>3, <2>4, <2>5 DEF ReadSecond
<1>12. CASE Confirm(e)
  <2>1. CASE text[export[e].inode] # export[e].mtime
    BY <1>5, <1>12, <2>1 DEF Confirm
  <2>2. ASSUME text[export[e].inode] = export[e].mtime PROVE ExportInv'
    <3> DEFINE x == [export[e] EXCEPT !.point = "named"]
    <3>1. export[e].first = export[e].second
      BY <1>1, <1>12, <2>2 DEF Confirm, Ordered, Reading, Inodes
    <3>2. x \in Records /\ x.point = "named" /\ x.first = x.second
      BY <1>1, <3>1 DEF Records, Points, Confirmed
    <3>3. Ordered(x)
      BY <3>2 DEF Ordered, Reading
    <3>4. export' = [export EXCEPT ![e] = x]
      BY <1>12, <2>2 DEF Confirm, Continue
    <3> HIDE DEF x
    <3> QED
      BY <1>4, <1>12, <3>2, <3>3, <3>4 DEF Confirm
  <2> QED
    BY <2>1, <2>2
<1> QED
  BY <1>6, <1>7, <1>8, <1>9, <1>10, <1>11, <1>12

\* The steps after the comparison: the text that was read does not change any more.
LEMMA PublishingStep ==
  ASSUME ExportInv, NEW e \in Exporters,
         \/ ConfirmName(e) \/ CheckTarget(e) \/ Create(e) \/ WritePayload(e) \/ Link(e)
         \/ RemoveTemporary(e) \/ CheckDirectory(e) \/ DirectoryTrouble(e) \/ Trouble(e)
         \/ KillExport(e)
  PROVE  ExportInv'
<1> USE DEF Ready, Give, corpusFiles
<1>1. ASSUME ConfirmName(e) \/ CheckTarget(e) \/ Create(e) PROVE ExportInv'
  BY <1>1, OneContinues DEF ConfirmName, CheckTarget, Create, Confirmed, Points, exportedFiles
<1>2. ASSUME RemoveTemporary(e) \/ CheckDirectory(e) \/ DirectoryTrouble(e) PROVE ExportInv'
  <2>1. AfterRemoval(e) \in {"failed", "done", "directory"}
    BY DEF AfterRemoval
  <2> QED
    BY <1>2, <2>1, OneContinues
    DEF RemoveTemporary, CheckDirectory, DirectoryTrouble, Confirmed, Points
<1>3. CASE WritePayload(e)
  <2> DEFINE x == [export[e] EXCEPT !.point = "link"]
  <2>1. export[e] \in Records /\ export[e].first = export[e].second
    BY <1>3 DEF WritePayload, ExportInv, ExportTypeOK, ReadsAreOrdered, Ordered, Confirmed
  <2>2. x \in Records /\ x.point = "link" /\ x.first = x.second
    BY <2>1 DEF Records, Points, Confirmed
  <2>3. Ordered(x) /\ Consistent(x)
    BY <2>2 DEF Ordered, Consistent, Reading, Confirmed
  <2>4. export' = [export EXCEPT ![e] = x]
    BY <1>3 DEF WritePayload, Continue
  <2>5. /\ written' \in [Exporters -> {"nothing", "whole"}]
        /\ \A f \in Exporters \ {e} : written'[f] = written[f]
    BY <1>3 DEF WritePayload, ExportInv, ExportTypeOK
  <2> HIDE DEF x
  <2> QED
    BY <1>3, <2>2, <2>3, <2>4, <2>5, OneGoesOn DEF WritePayload
<1>4. CASE Link(e)
  <2>1. CASE Continue(e, "remove")
    BY <1>4, <2>1, OneContinues DEF Link, Confirmed, Points
  <2>2. ASSUME export' = [export EXCEPT ![e].point = "remove", ![e].ok = TRUE]
        PROVE  ExportInv'
    <3> DEFINE x == [export[e] EXCEPT !.point = "remove", !.ok = TRUE]
    <3>1. export[e] \in Records /\ export[e].first = export[e].second
      BY <1>4 DEF Link, ExportInv, ExportTypeOK, ReadsAreOrdered, Ordered, Confirmed
    <3>2. x \in Records /\ x.point = "remove" /\ x.first = x.second
      BY <3>1 DEF Records, Points, Confirmed
    <3>3. Ordered(x) /\ Consistent(x)
      BY <3>2 DEF Ordered, Consistent, Reading, Confirmed
    <3>4. export' = [export EXCEPT ![e] = x]
      BY <2>2
    <3> HIDE DEF x
    <3> QED
      BY <1>4, <3>2, <3>3, <3>4, OneGoesOn DEF Link, ExportInv, ExportTypeOK
  <2> QED
    BY <1>4, <2>1, <2>2 DEF Link
<1>5. CASE Trouble(e)
  BY <1>5, OneContinues DEF Trouble, Confirmed, Points, exportedFiles
<1>6. CASE KillExport(e)
  BY <1>6, OneContinues DEF KillExport, Points, exportedFiles
<1> QED
  BY <1>1, <1>2, <1>3, <1>4, <1>5, <1>6

\* A change of the corpus is later than everything that has been read.
LEMMA CorpusStep ==
  ASSUME ExportInv, NEW s \in Sources, Rewrite(s)
  PROVE  ExportInv'
<1> USE DEF ExportInv, ExportTypeOK, Inodes
<1>1. rewrites' \in Inodes /\ rewrites' = rewrites + 1
  BY ExportAssumption DEF Rewrite
<1>2. ASSUME NEW i \in Inodes, text' = [text EXCEPT ![i] = rewrites']
      PROVE  /\ text' \in [Inodes -> Inodes] /\ TextsArePast'
             /\ \A j \in Inodes : text[j] <= text'[j]
  BY <1>1, <1>2 DEF TextsArePast
<1>3. /\ text' \in [Inodes -> Inodes] /\ TextsArePast'
      /\ \A j \in Inodes : text[j] <= text'[j]
  <2>1. CASE source[s] # Nothing /\ text' = [text EXCEPT ![source[s]] = rewrites']
    BY <1>2, <2>1
  <2>2. CASE text' = [text EXCEPT ![rewrites + 1] = rewrites']
    BY <1>1, <1>2, <2>2
  <2>3. CASE UNCHANGED text
    <3>1. text \in [Inodes -> Inodes] /\ \A i \in Inodes : text[i] <= rewrites
      BY DEF TextsArePast
    <3>2. \A j \in Inodes : text[j] \in Nat /\ text[j] <= text[j] /\ text[j] <= rewrites + 1
      BY <3>1, ExportAssumption
    <3> QED
      BY <1>1, <2>3, <3>1, <3>2 DEF TextsArePast
  <2> QED
    BY <1>1, <2>1, <2>2, <2>3 DEF Rewrite
<1>4. ExportTypeOK'
  BY <1>1, <1>3 DEF Rewrite, exportedFiles
<1>5. ReadsAreOrdered'
  <2> SUFFICES ASSUME NEW e \in Exporters PROVE Ordered(export[e])'
    BY DEF ReadsAreOrdered
  <2>1. Ordered(export[e]) /\ export' = export
    BY DEF ReadsAreOrdered, Rewrite
  <2> DEFINE i == export[e].inode
  <2>2. i \in Inodes => text[i] \in Nat /\ text'[i] \in Nat /\ text[i] <= text'[i]
    BY <1>3
  <2>3. \A n \in Inodes : i \in Inodes /\ n <= text[i] => n <= text'[i]
    BY <2>2
  <2>4. /\ export[e].point \in Reading => i \in Inodes /\ export[e].mtime \in Inodes
        /\ export[e].point \in {"second", "confirm"} => export[e].first \in Inodes
        /\ export[e].point = "confirm" => export[e].second \in Inodes
    BY <2>1 DEF Ordered, Reading
  <2> HIDE DEF Inodes
  <2> QED
    BY <2>1, <2>3, <2>4 DEF Ordered, Reading, Rewrite
<1>6. WrittenAfter'
  BY DEF Rewrite, WrittenAfter, Consistent, exportedFiles
<1> QED
  BY <1>3, <1>4, <1>5, <1>6

LEMMA NextExportInv == ExportInv /\ [ExportNext]_exportVars => ExportInv'
<1> SUFFICES ASSUME ExportInv, [ExportNext]_exportVars PROVE ExportInv'
  OBVIOUS
<1>1. ASSUME NEW e \in Exporters, ExportStep(e) PROVE ExportInv'
  BY <1>1, ReadingStep, PublishingStep DEF ExportStep
<1>2. ASSUME NEW r \in Rooms, Swap(r) PROVE ExportInv'
  BY <1>2 DEF Swap, ExportInv, ExportTypeOK, TextsArePast, ReadsAreOrdered, Ordered,
     WrittenAfter, Consistent, corpusFiles, exportedFiles
<1>3. CASE UNCHANGED exportVars
  BY <1>3 DEF exportVars, ExportInv, ExportTypeOK, TextsArePast, ReadsAreOrdered, Ordered,
     WrittenAfter, Consistent, corpusFiles, exportedFiles
<1> QED
  BY <1>1, <1>2, <1>3, CorpusStep DEF ExportNext

\* What an export writes is a text that its source had at one instant, although it is
\* read in chunks while the source may change (_read_source_snapshot).
THEOREM ExportedIsOneText == ExportSpec => []ExportIsOneText
<1>1. ExportInv => ExportIsOneText
  BY DEF ExportInv, WrittenAfter, Consistent, ExportIsOneText
<1> QED
  BY <1>1, InitExportInv, NextExportInv, PTL DEF ExportSpec

-----------------------------------------------------------------------------
(* TranscriptExport: two exports that share the names of an output.        *)

\* Points at which an export has done with its temporary file.
Passed == {"remove", "directory", "done", "failed", "killed"}

\* Points at which the file of a successful export is there.
Placed == {"remove", "directory", "done"}

\* What an export x knows of itself at each point.
Knows(x) ==
  /\ x.point # "start" => x.given \/ x.room \in Rooms
  /\ x.point \notin {"start", "resolve", "failed", "killed"} => x.source \in Sources
  /\ x.point \notin Passed => ~x.ok
  /\ x.point \in {"directory", "done"} => x.ok

AtMostTwo(o) == \A e, f, g \in Users(o) : e = f \/ f = g \/ e = g

\* The temporary file of an export is its own until it is published; or it was taken
\* away, but then by the one other export, which does not come back.
OwnTemporary(o) ==
  \A e \in Users(o) : export[e].point \in {"write", "link"} =>
    \/ temporary[o] = e
    \/ temporary[o] = Nothing /\ \E f \in Users(o) \ {e} : export[f].point \in Passed

WholeThere(o) == output[o] # Nothing => written[output[o]] = "whole"

Displaces(f) == export[f].ok /\ (export[f].force \/ export[f].point = "failed")

StaysThere(o) ==
  \A e \in Users(o) : export[e].ok /\ export[e].point \in Placed =>
    output[o] = e \/ \E f \in Users(o) \ {e} : Displaces(f)

NamesTyped ==
  /\ output \in [Outputs -> Exporters \cup {Nothing}]
  /\ temporary \in [Outputs -> Exporters \cup {Nothing}]

SharedInv ==
  /\ NamesTyped
  /\ \A e \in Exporters : Knows(export[e])
  /\ \A e \in Exporters : export[e].point = "link" => written[e] = "whole"
  /\ \A o \in Outputs : AtMostTwo(o) => OwnTemporary(o) /\ WholeThere(o) /\ StaysThere(o)

LEMMA AtMostTwoOf ==
  ASSUME NEW o \in Outputs, Cardinality(Users(o)) <= 2
  PROVE  AtMostTwo(o)
<1>1. IsFiniteSet(Users(o))
  BY ExportAssumption, FS_Subset DEF Users
<1>2. SUFFICES ASSUME NEW e \in Users(o), NEW f \in Users(o), NEW g \in Users(o),
                      e # f, f # g, e # g
               PROVE  FALSE
  BY DEF AtMostTwo
<1>3. IsFiniteSet({e}) /\ Cardinality({e}) = 1
  BY FS_Singleton
<1>4. IsFiniteSet({e} \cup {f}) /\ Cardinality({e} \cup {f}) = 2
  <2>1. f \notin {e}
    BY <1>2
  <2>2. Cardinality({e} \cup {f}) = Cardinality({e}) + 1 /\ IsFiniteSet({e} \cup {f})
    BY <1>3, <2>1, FS_AddElement
  <2> QED
    BY <1>3, <2>2
<1>5. Cardinality(({e} \cup {f}) \cup {g}) = 3
  BY <1>2, <1>4, FS_AddElement
<1>6. Cardinality(({e} \cup {f}) \cup {g}) <= Cardinality(Users(o))
  BY <1>1, FS_Subset
<1>7. Cardinality(Users(o)) \in Nat
  BY <1>1, FS_CardinalityType
<1> QED
  BY <1>5, <1>6, <1>7

LEMMA InitSharedInv == ExportInit => SharedInv
<1> SUFFICES ASSUME ExportInit PROVE SharedInv
  OBVIOUS
<1>1. \A e \in Exporters : export[e] = Idle /\ Idle.point = "start" /\ ~Idle.ok
  BY DEF ExportInit, Idle
<1>2. \A e \in Exporters : Knows(export[e])
  BY <1>1 DEF Knows
<1>3. \A o \in Outputs : Users(o) = {} /\ output[o] = Nothing
  BY <1>1 DEF ExportInit, Users
<1>4. NamesTyped
  BY DEF ExportInit, NamesTyped
<1> QED
  BY <1>1, <1>2, <1>3, <1>4 DEF SharedInv, OwnTemporary, WholeThere, StaysThere

\* The names an export uses are those of an output, and one output only.
LEMMA OutputIsOne ==
  ASSUME NEW e \in Exporters, Knows(export[e]), export[e] \in Records,
         export[e].source # Nothing, export[e].point # "start"
  PROVE  Output(e) \in Outputs
<1>1. export[e].source \in Sources /\ (export[e].given \/ export[e].room \in Rooms)
  BY DEF Knows, Records
<1>2. export[e].source[2] \in Languages
  BY <1>1 DEF Sources
<1> QED
  BY <1>1, <1>2 DEF Output, Outputs

Using == {"create", "write", "link", "remove", "directory", "done", "failed", "killed"}

\* One export e goes on to x; an output it has the names of stays the same.
GoesOnTo(e, x) ==
  /\ export' = [export EXCEPT ![e] = x]
  /\ export[e].point \in Using =>
       /\ x.point \in Using
       /\ x.given = export[e].given /\ x.room = export[e].room
       /\ x.source = export[e].source /\ x.force = export[e].force

LEMMA UsersStay ==
  ASSUME NEW e \in Exporters, NEW x, GoesOnTo(e, x), ExportTypeOK, NEW o \in Outputs
  PROVE  /\ Users(o) \subseteq Users(o)' /\ (AtMostTwo(o)' => AtMostTwo(o))
         /\ \A f \in Exporters \ {e} : f \in Users(o) <=> f \in Users(o)'
         /\ export'[e] = x /\ \A f \in Exporters \ {e} : export'[f] = export[f]
<1>1. \A f \in Exporters : export'[f] = IF f = e THEN x ELSE export[f]
  BY DEF GoesOnTo, ExportTypeOK
<1>2. \A f \in Exporters \ {e} : f \in Users(o) <=> f \in Users(o)'
  BY <1>1 DEF Users, Output
<1>3. e \in Users(o) => e \in Users(o)'
  BY <1>1 DEF Users, Output, GoesOnTo, Using
<1>4. Users(o) \subseteq Users(o)'
  BY <1>2, <1>3 DEF Users
<1> QED
  BY <1>1, <1>2, <1>4 DEF AtMostTwo

\* A step that leaves the files alone.
LEMMA SharedUntouched ==
  ASSUME ExportTypeOK, SharedInv, NEW e \in Exporters, NEW x, GoesOnTo(e, x), Knows(x),
         UNCHANGED exportedFiles,
         x.point \notin {"write", "link"},
         export[e].point \in Passed => x.point \in Passed,
         export[e].point = "failed" => x.point = "failed",
         x.ok = export[e].ok, x.ok /\ x.point \in Placed => export[e].point \in Placed
  PROVE  SharedInv'
<1>1. \A f \in Exporters : export'[f] = IF f = e THEN x ELSE export[f]
  BY DEF GoesOnTo, ExportTypeOK
<1>2. /\ NamesTyped' /\ \A f \in Exporters : Knows(export'[f])
      /\ \A f \in Exporters : export'[f].point = "link" => written'[f] = "whole"
  BY <1>1 DEF SharedInv, NamesTyped, exportedFiles
<1>3. ASSUME NEW o \in Outputs, AtMostTwo(o)'
      PROVE  OwnTemporary(o)' /\ WholeThere(o)' /\ StaysThere(o)'
  <2>1. /\ Users(o) \subseteq Users(o)' /\ AtMostTwo(o)
        /\ \A f \in Exporters \ {e} : f \in Users(o) <=> f \in Users(o)'
    BY <1>3, UsersStay
  <2>2. OwnTemporary(o) /\ WholeThere(o) /\ StaysThere(o)
    BY <2>1 DEF SharedInv
  <2>3. OwnTemporary(o)'
    <3> SUFFICES ASSUME NEW f \in Users(o)', export'[f].point \in {"write", "link"}
                 PROVE  \/ temporary'[o] = f
                        \/ /\ temporary'[o] = Nothing
                           /\ \E g \in Users(o)' \ {f} : export'[g].point \in Passed
      BY DEF OwnTemporary
    <3>1. f # e /\ f \in Users(o) /\ export'[f] = export[f]
      BY <1>1, <2>1 DEF Users
    <3>2. CASE temporary[o] = f
      BY <3>2 DEF exportedFiles
    <3>3. CASE temporary[o] # f
      <4>1. temporary[o] = Nothing /\ \E g \in Users(o) \ {f} : export[g].point \in Passed
        BY <2>2, <3>1, <3>3 DEF OwnTemporary
      <4>2. PICK g \in Users(o) \ {f} : export[g].point \in Passed
        BY <4>1
      <4>3. export'[g].point \in Passed /\ g \in Users(o)'
        BY <1>1, <2>1, <4>2 DEF Users
      <4> QED
        BY <4>1, <4>3, <4>2 DEF exportedFiles
    <3> QED
      BY <3>2, <3>3
  <2>4. StaysThere(o)'
    <3> SUFFICES ASSUME NEW f \in Users(o)', export'[f].ok, export'[f].point \in Placed
                 PROVE  output'[o] = f \/ \E g \in Users(o)' \ {f} : Displaces(g)'
      BY DEF StaysThere
    <3>1. f \in Exporters /\ export[f].ok /\ export[f].point \in Placed
      BY <1>1 DEF Users
    <3>2. f \in Users(o)
      <4>1. CASE f = e
        BY <1>1, <3>1, <4>1 DEF Users, Output, GoesOnTo, Using, Placed
      <4> QED
        BY <2>1, <3>1, <4>1
    <3>3. CASE output[o] = f
      BY <3>3 DEF exportedFiles
    <3>4. CASE output[o] # f
      <4>1. PICK g \in Users(o) \ {f} : Displaces(g)
        BY <2>2, <3>1, <3>2, <3>4 DEF StaysThere
      <4>2. g \in Exporters /\ g \in Users(o)' \ {f}
        BY <2>1 DEF Users
      <4>3. Displaces(g)'
        <5>1. CASE g # e
          BY <1>1, <4>1, <4>2, <5>1 DEF Displaces
        <5>2. CASE g = e
          <6>1. x.force = export[e].force /\ (export[e].point = "failed" => x.point = "failed")
            BY <4>1, <5>2 DEF GoesOnTo, Users, Using
          <6> QED
            BY <1>1, <4>1, <4>2, <5>2, <6>1 DEF Displaces
        <5> QED
          BY <5>1, <5>2
      <4> QED
        BY <4>2, <4>3
    <3> QED
      BY <3>3, <3>4
  <2> QED
    BY <2>2, <2>3, <2>4 DEF WholeThere, exportedFiles
<1> QED
  BY <1>2, <1>3 DEF SharedInv

\* Such a step when nothing but the point changes.
LEMMA SharedContinues ==
  ASSUME ExportTypeOK, SharedInv, NEW e \in Exporters, NEW point \in Points,
         Continue(e, point), UNCHANGED exportedFiles,
         point \notin {"start", "write", "link"},
         export[e].point \notin {"start", "failed", "killed"},
         point \in {"failed", "killed"} \/ export[e].source \in Sources,
         point \in {"directory", "done"} => export[e].ok,
         point \notin Passed => ~export[e].ok,
         export[e].point \in Using => point \in Using,
         export[e].point \in Passed => point \in Passed
  PROVE  SharedInv'
<1> DEFINE x == [export[e] EXCEPT !.point = point]
<1>1. /\ x.point = point /\ x.ok = export[e].ok /\ x.source = export[e].source
      /\ x.given = export[e].given /\ x.room = export[e].room /\ x.force = export[e].force
  BY DEF ExportTypeOK, Records
<1>2. export' = [export EXCEPT ![e] = x]
  BY DEF Continue
<1>3. Knows(export[e])
  BY DEF SharedInv
<1> HIDE DEF x
<1>4. GoesOnTo(e, x)
  BY <1>1, <1>2 DEF GoesOnTo
<1>5. Knows(x)
  BY <1>1, <1>3 DEF Knows
<1>6. x.ok /\ x.point \in Placed => export[e].point \in Placed
  BY <1>1, <1>3 DEF Knows, Passed, Placed
<1> QED
  BY <1>1, <1>4, <1>5, <1>6, SharedUntouched

\* Before the comparison an export has no names yet.
ReadsOn(e, x) ==
  /\ x.point \in {"resolve", "inspect", "open", "first", "second", "confirm"}
  /\ export[e].point \in {"start", "resolve", "inspect", "open", "first", "second"}
  /\ x.given \/ x.room \in Rooms
  /\ x.point # "resolve" => x.source \in Sources
  /\ x.ok = FALSE
  /\ export' = [export EXCEPT ![e] = x]
  /\ UNCHANGED exportedFiles

LEMMA SharedReads ==
  ASSUME ExportTypeOK, SharedInv, NEW e \in Exporters, NEW x, ReadsOn(e, x)
  PROVE  SharedInv'
<1> USE DEF ReadsOn
<1>1. export[e] \in Records /\ Knows(export[e])
  BY DEF ExportTypeOK, SharedInv
<1>2. GoesOnTo(e, x) /\ Knows(x) /\ export[e].ok = FALSE
  BY <1>1 DEF GoesOnTo, Knows, Using, Passed, Records
<1> QED
  BY <1>1, <1>2, SharedUntouched DEF Passed

LEMMA EarlyShares ==
  ASSUME ExportInv, SharedInv, NEW e \in Exporters,
         \/ \E language \in Languages \cup {Nothing}, forced, given \in BOOLEAN :
              Request(e, language, forced, given)
         \/ Resolve(e) \/ Inspect(e) \/ OpenSource(e) \/ ReadFirst(e) \/ ReadSecond(e)
         \/ Confirm(e) \/ ConfirmName(e) \/ CheckTarget(e)
  PROVE  SharedInv'
<1>1. ExportTypeOK /\ export[e] \in Records /\ Knows(export[e])
  BY DEF ExportInv, ExportTypeOK, SharedInv
<1>2. ASSUME NEW point \in {"failed", "named", "target", "create"}, Continue(e, point),
             export[e].point \in {"resolve", "inspect", "open", "confirm", "named", "target"},
             point = "failed" \/ export[e].point \in {"confirm", "named", "target"},
             UNCHANGED exportedFiles
      PROVE  SharedInv'
  <2>1. point \in Points /\ point \notin {"start", "write", "link"}
    BY <1>2 DEF Points, Confirmed
  <2>2. point \in {"failed", "killed"} \/ export[e].source \in Sources
    BY <1>1, <1>2 DEF Knows
  <2>3. ~export[e].ok /\ export[e].point \notin Using \cup Passed
    BY <1>1, <1>2 DEF Knows, Passed, Using
  <2> QED
    BY <1>1, <1>2, <2>1, <2>2, <2>3, SharedContinues
<1>3. ASSUME NEW language \in Languages \cup {Nothing}, NEW forced \in BOOLEAN,
             NEW given \in BOOLEAN, Request(e, language, forced, given)
      PROVE  SharedInv'
  <2> DEFINE x == [Idle EXCEPT !.point = "resolve", !.language = language, !.force = forced,
                               !.given = given, !.room = OpenedRoom(given)]
  <2>1. x.point = "resolve" /\ x.ok = FALSE /\ x.given = given /\ x.room = OpenedRoom(given)
    BY DEF Idle
  <2>2. given \/ OpenedRoom(given) \in Rooms
    BY <1>1 DEF OpenedRoom, ExportTypeOK
  <2>3. /\ export' = [export EXCEPT ![e] = x] /\ UNCHANGED exportedFiles
        /\ export[e].point = "start"
    BY <1>3 DEF Request, Ready
  <2> HIDE DEF x
  <2>4. ReadsOn(e, x)
    BY <2>1, <2>2, <2>3 DEF ReadsOn
  <2> QED
    BY <1>1, <2>4, SharedReads
<1>4. ~export[e].ok \/ export[e].point \in Passed
  BY <1>1 DEF Knows
<1>5. CASE Resolve(e)
  <2>1. ASSUME NEW s \in TheOne(export[e].language),
               export' = [export EXCEPT ![e].point = "inspect", ![e].source = s]
        PROVE  SharedInv'
    <3> DEFINE x == [export[e] EXCEPT !.point = "inspect", !.source = s]
    <3>1. /\ x.point = "inspect" /\ x.source = s /\ x.ok = export[e].ok
          /\ x.given = export[e].given /\ x.room = export[e].room
      BY <1>1 DEF Records
    <3>2. export' = [export EXCEPT ![e] = x] /\ s \in Sources
      BY <2>1 DEF TheOne, Candidates
    <3>3. export[e].point = "resolve" /\ UNCHANGED exportedFiles
      BY <1>5 DEF Resolve, Ready
    <3> HIDE DEF x
    <3>4. ReadsOn(e, x)
      BY <1>1, <1>4, <3>1, <3>2, <3>3 DEF ReadsOn, Knows, Records, Passed
    <3> QED
      BY <1>1, <3>4, SharedReads
  <2> QED
    BY <1>2, <1>5, <2>1 DEF Resolve, Give, Ready
<1>6. CASE Inspect(e)
  <2> DEFINE x == [export[e] EXCEPT !.point = "open", !.inode = There(e)]
  <2>1. /\ x.point = "open" /\ x.given = export[e].given /\ x.room = export[e].room
        /\ x.source = export[e].source /\ x.ok = export[e].ok
    BY <1>1 DEF Records
  <2>2. /\ Give(e) \/ export' = [export EXCEPT ![e] = x]
        /\ export[e].point = "inspect" /\ UNCHANGED exportedFiles
    BY <1>6 DEF Inspect, Ready
  <2> HIDE DEF x
  <2>3. CASE export' = [export EXCEPT ![e] = x]
    <3>1. ReadsOn(e, x)
      BY <1>1, <1>4, <2>1, <2>2, <2>3 DEF ReadsOn, Knows, Records, Passed
    <3> QED
      BY <1>1, <3>1, SharedReads
  <2> QED
    BY <1>2, <2>2, <2>3 DEF Give
<1>7. CASE OpenSource(e)
  <2> DEFINE x == [export[e] EXCEPT !.point = "first", !.mtime = text[There(e)]]
  <2>1. /\ x.point = "first" /\ x.given = export[e].given /\ x.room = export[e].room
        /\ x.source = export[e].source /\ x.ok = export[e].ok
    BY <1>1 DEF Records
  <2>2. /\ Give(e) \/ export' = [export EXCEPT ![e] = x]
        /\ export[e].point = "open" /\ UNCHANGED exportedFiles
    BY <1>7 DEF OpenSource, Ready
  <2> HIDE DEF x
  <2>3. CASE export' = [export EXCEPT ![e] = x]
    <3>1. ReadsOn(e, x)
      BY <1>1, <1>4, <2>1, <2>2, <2>3 DEF ReadsOn, Knows, Records, Passed
    <3> QED
      BY <1>1, <3>1, SharedReads
  <2> QED
    BY <1>2, <2>2, <2>3 DEF Give
<1>8. CASE ReadFirst(e)
  <2> DEFINE x == [export[e] EXCEPT !.point = "second", !.first = text[export[e].inode]]
  <2>1. /\ x.point = "second" /\ x.given = export[e].given /\ x.room = export[e].room
        /\ x.source = export[e].source /\ x.ok = export[e].ok
    BY <1>1 DEF Records
  <2>2. /\ export' = [export EXCEPT ![e] = x]
        /\ export[e].point = "first" /\ UNCHANGED exportedFiles
    BY <1>8 DEF ReadFirst, Ready
  <2> HIDE DEF x
  <2>3. ReadsOn(e, x)
    BY <1>1, <1>4, <2>1, <2>2 DEF ReadsOn, Knows, Records, Passed
  <2> QED
    BY <1>1, <2>3, SharedReads
<1>9. CASE ReadSecond(e)
  <2> DEFINE x == [export[e] EXCEPT !.point = "confirm", !.second = text[export[e].inode]]
  <2>1. /\ x.point = "confirm" /\ x.given = export[e].given /\ x.room = export[e].room
        /\ x.source = export[e].source /\ x.ok = export[e].ok
    BY <1>1 DEF Records
  <2>2. /\ export' = [export EXCEPT ![e] = x]
        /\ export[e].point = "second" /\ UNCHANGED exportedFiles
    BY <1>9 DEF ReadSecond, Ready
  <2> HIDE DEF x
  <2>3. ReadsOn(e, x)
    BY <1>1, <1>4, <2>1, <2>2 DEF ReadsOn, Knows, Records, Passed
  <2> QED
    BY <1>1, <2>3, SharedReads
<1>10. CASE Confirm(e) \/ ConfirmName(e) \/ CheckTarget(e)
  BY <1>2, <1>10 DEF Confirm, ConfirmName, CheckTarget, Give, Ready
<1> QED
  BY <1>3, <1>5, <1>6, <1>7, <1>8, <1>9, <1>10

\* Nor do these steps change a file.
LEMMA LateShares ==
  ASSUME ExportInv, SharedInv, NEW e \in Exporters,
         \/ CheckDirectory(e) /\ SameRoom(e)
         \/ Create(e) /\ temporary[Output(e)] # Nothing
         \/ Link(e) /\ Continue(e, "remove") /\ UNCHANGED <<output, temporary>>
         \/ Trouble(e) \/ KillExport(e)
  PROVE  SharedInv'
<1>1. ExportTypeOK /\ export[e] \in Records /\ Knows(export[e])
  BY DEF ExportInv, ExportTypeOK, SharedInv
<1>2. ASSUME NEW point \in {"remove", "done", "failed", "killed"}, Continue(e, point),
             export[e].point \notin {"start", "failed", "killed"}, UNCHANGED exportedFiles,
             point = "remove" => export[e].point \in {"create", "write", "link"},
             point = "done" => export[e].point = "directory"
      PROVE  SharedInv'
  <2>1. point \in Points \cap Using \cap Passed
    BY <1>2 DEF Points, Confirmed, Using, Passed
  <2>2. point \in {"failed", "killed"} \/ export[e].source \in Sources
    BY <1>1, <1>2 DEF Knows
  <2>3. point = "done" => export[e].ok
    BY <1>1, <1>2 DEF Knows
  <2> QED
    BY <1>1, <1>2, <2>1, <2>2, <2>3, SharedContinues
<1>3. CASE CheckDirectory(e) /\ SameRoom(e)
  BY <1>2, <1>3 DEF CheckDirectory, Ready, exportedFiles
<1>4. CASE Create(e) /\ temporary[Output(e)] # Nothing
  BY <1>2, <1>4 DEF Create, Ready, exportedFiles
<1>5. CASE Link(e) /\ Continue(e, "remove") /\ UNCHANGED <<output, temporary>>
  BY <1>2, <1>5 DEF Link, Ready, exportedFiles
<1>6. CASE Trouble(e)
  BY <1>2, <1>6 DEF Trouble
<1>7. CASE KillExport(e)
  BY <1>2, <1>7 DEF KillExport
<1> QED
  BY <1>3, <1>4, <1>5, <1>6, <1>7

\* Steps of an export at the names of its output, o.
LEMMA UsersSame ==
  ASSUME ExportTypeOK, NEW e \in Exporters, NEW x, GoesOnTo(e, x), NEW o \in Outputs,
         e \in Users(o), NEW p \in Outputs
  PROVE  /\ Users(p)' = Users(p) /\ (AtMostTwo(p)' <=> AtMostTwo(p))
         /\ p # o => e \notin Users(p)
         /\ export'[e] = x /\ \A f \in Exporters \ {e} : export'[f] = export[f]
<1>1. \A f \in Exporters : export'[f] = IF f = e THEN x ELSE export[f]
  BY DEF GoesOnTo, ExportTypeOK
<1>2. \A f \in Exporters \ {e} : f \in Users(p) <=> f \in Users(p)'
  BY <1>1 DEF Users, Output
<1>3. export[e].point \in Using /\ export[e].source # Nothing /\ Output(e) = o
  BY DEF Users, Using
<1>4. x.point \in Using /\ x.source = export[e].source /\ Output(e)' = Output(e)
  BY <1>1, <1>3 DEF GoesOnTo, Output
<1>5. e \in Users(p) <=> e \in Users(p)'
  BY <1>1, <1>3, <1>4 DEF Users, Using
<1>6. Users(p)' = Users(p)
  BY <1>2, <1>5 DEF Users
<1> QED
  BY <1>1, <1>3, <1>6 DEF AtMostTwo, Users

\* No other output is touched.
LEMMA SharedFiles ==
  ASSUME ExportTypeOK, SharedInv, NEW e \in Exporters, NEW x, GoesOnTo(e, x), Knows(x),
         NEW o \in Outputs, e \in Users(o), NamesTyped',
         \A p \in Outputs \ {o} : output'[p] = output[p] /\ temporary'[p] = temporary[p],
         \A f \in Exporters : written[f] = "whole" => written'[f] = "whole",
         x.point = "link" => written'[e] = "whole",
         AtMostTwo(o) => OwnTemporary(o)' /\ WholeThere(o)' /\ StaysThere(o)'
  PROVE  SharedInv'
<1>1. export'[e] = x /\ \A f \in Exporters \ {e} : export'[f] = export[f]
  BY UsersSame
<1>2. /\ \A f \in Exporters : Knows(export'[f])
      /\ \A f \in Exporters : export'[f].point = "link" => written'[f] = "whole"
  BY <1>1 DEF SharedInv
<1>3. ASSUME NEW p \in Outputs \ {o}, AtMostTwo(p)'
      PROVE  OwnTemporary(p)' /\ WholeThere(p)' /\ StaysThere(p)'
  <2>1. Users(p)' = Users(p) /\ AtMostTwo(p) /\ e \notin Users(p)
    BY <1>3, UsersSame
  <2>2. OwnTemporary(p) /\ WholeThere(p) /\ StaysThere(p)
    BY <2>1 DEF SharedInv
  <2>3. \A f \in Users(p) : f \in Exporters /\ export'[f] = export[f]
    BY <1>1, <2>1 DEF Users
  <2>4. output'[p] = output[p] /\ temporary'[p] = temporary[p]
    BY <1>3
  <2>5. OwnTemporary(p)'
    BY <2>1, <2>2, <2>3, <2>4 DEF OwnTemporary
  <2>6. WholeThere(p)'
    BY <2>2, <2>4 DEF WholeThere, SharedInv, NamesTyped
  <2>7. StaysThere(p)'
    BY <2>1, <2>2, <2>3, <2>4 DEF StaysThere, Displaces
  <2> QED
    BY <2>5, <2>6, <2>7
<1>4. AtMostTwo(o)' => OwnTemporary(o)' /\ WholeThere(o)' /\ StaysThere(o)'
  BY UsersSame
<1> QED
  BY <1>2, <1>3, <1>4 DEF SharedInv

\* The export e goes to the given point at its output o.
At(e, o, point) ==
  /\ o \in Outputs /\ e \in Users(o) /\ Output(e) = o
  /\ export[e].point = point /\ export[e] \in Records /\ Knows(export[e])

LEMMA AtNames ==
  ASSUME ExportTypeOK, SharedInv, NEW e \in Exporters,
         NEW from \in {"create", "write", "link", "remove", "directory"}, Ready(e, from)
  PROVE  \E o \in Outputs : At(e, o, from)
<1>1. export[e] \in Records /\ Knows(export[e]) /\ export[e].point = from
  BY DEF ExportTypeOK, SharedInv, Ready
<1>2. export[e].source \in Sources /\ export[e].point # "start"
  BY <1>1 DEF Knows
<1>3. export[e].source # Nothing
  BY <1>2, ExportAssumption
<1>4. Output(e) \in Outputs
  BY <1>1, <1>2, <1>3, OutputIsOne
<1>5. e \in Users(Output(e))
  BY <1>1, <1>3 DEF Users
<1> QED
  BY <1>1, <1>4, <1>5 DEF At

\* An export at the names of o becomes x: it goes on to another point, and is ok or not.
Becomes(e, o, x, from, to, ok) ==
  /\ At(e, o, from) /\ GoesOnTo(e, x) /\ Knows(x)
  /\ x.point = to /\ x.ok = ok /\ x.force = export[e].force
  /\ Users(o)' = Users(o) /\ export'[e] = x
  /\ \A f \in Users(o) \ {e} : export'[f] = export[f]

LEMMA GoesOn ==
  ASSUME ExportTypeOK, SharedInv, NEW e \in Exporters,
         NEW from \in {"create", "write", "link", "remove", "directory"}, Ready(e, from),
         NEW to \in Using, NEW ok \in BOOLEAN,
         export' = [export EXCEPT ![e] = [export[e] EXCEPT !.point = to, !.ok = ok]],
         to \in {"directory", "done"} => ok, to \notin Passed => ~ok
  PROVE  \E o \in Outputs, x \in Records : Becomes(e, o, x, from, to, ok)
<1>1. PICK o \in Outputs : At(e, o, from)
  BY AtNames
<1> DEFINE y == [export[e] EXCEPT !.point = to, !.ok = ok]
<1>2. /\ y.point = to /\ y.ok = ok /\ y.force = export[e].force
      /\ y.source = export[e].source /\ y.given = export[e].given
      /\ y.room = export[e].room /\ y \in Records
  <2>1. to \in Points
    BY DEF Using, Points, Confirmed
  <2> QED
    BY <1>1, <2>1 DEF At, Records
<1>3. export[e].source \in Sources /\ (export[e].given \/ export[e].room \in Rooms)
  BY <1>1 DEF At, Knows
<1>4. PICK x \in Records : x = y
  BY <1>2
<1>5. GoesOnTo(e, x) /\ Knows(x)
  BY <1>2, <1>3, <1>4 DEF GoesOnTo, Knows
<1>6. Users(o)' = Users(o) /\ export'[e] = x /\ \A f \in Users(o) \ {e} : export'[f] = export[f]
  <2>1. e \in Users(o)
    BY <1>1 DEF At
  <2>2. \A f \in Users(o) : f \in Exporters
    BY DEF Users
  <2> QED
    BY <1>5, <2>1, <2>2, UsersSame
<1> QED
  BY <1>1, <1>2, <1>4, <1>5, <1>6 DEF Becomes

\* Beside e, at most one export has used the names of o.
LEMMA TheOther ==
  ASSUME NEW o \in Outputs, AtMostTwo(o), NEW e \in Users(o), NEW f \in Users(o) \ {e}
  PROVE  \A g \in Users(o) \ {f} : g = e
BY DEF AtMostTwo

\* A temporary file is made when nobody is about to publish one by that name.
LEMMA CreateShares ==
  ASSUME ExportInv, SharedInv, NEW e \in Exporters, Create(e),
         temporary[Output(e)] = Nothing
  PROVE  SharedInv'
<1>1. ExportTypeOK /\ Ready(e, "create") /\ UNCHANGED <<output, written>>
      /\ temporary' = [temporary EXCEPT ![Output(e)] = e]
  BY DEF ExportInv, Create
<1>2. export' = [export EXCEPT ![e] = [export[e] EXCEPT !.point = "write", !.ok = FALSE]]
  <2>1. export[e] \in Records /\ export[e].ok = FALSE
    BY <1>1 DEF ExportTypeOK, SharedInv, Knows, Passed, Records, Ready
  <2>2. [export[e] EXCEPT !.point = "write"] = [export[e] EXCEPT !.point = "write", !.ok = FALSE]
    BY <2>1 DEF Records
  <2> QED
    BY <2>2 DEF Create, Continue
<1>3. PICK o \in Outputs, x \in Records : Becomes(e, o, x, "create", "write", FALSE)
  BY <1>1, <1>2, GoesOn DEF Using, Passed
<1>4. e \in Users(o) /\ Output(e) = o /\ export[e].point = "create"
  BY <1>3 DEF Becomes, At
<1>5. /\ NamesTyped' /\ temporary'[o] = e
      /\ \A p \in Outputs \ {o} : temporary'[p] = temporary[p]
  BY <1>1, <1>4 DEF SharedInv, NamesTyped
<1>6. ASSUME AtMostTwo(o) PROVE OwnTemporary(o)' /\ WholeThere(o)' /\ StaysThere(o)'
  <2>1. OwnTemporary(o) /\ WholeThere(o) /\ StaysThere(o)
    BY <1>6 DEF SharedInv
  <2>2. OwnTemporary(o)'
    <3>1. ASSUME NEW f \in Users(o) \ {e}, export[f].point \in {"write", "link"}
          PROVE  FALSE
      <4>1. f # Nothing /\ temporary[o] = Nothing
        BY <1>4, ExportAssumption DEF Users
      <4>2. \E g \in Users(o) \ {f} : export[g].point \in Passed
        BY <2>1, <3>1, <4>1 DEF OwnTemporary
      <4> QED
        BY <1>4, <1>6, <4>2, TheOther DEF Passed
    <3> QED
      BY <1>3, <1>5, <3>1 DEF OwnTemporary, Becomes
  <2>3. WholeThere(o)'
    BY <1>1, <2>1 DEF WholeThere
  <2>4. StaysThere(o)'
    <3>1. export[e].ok = FALSE
      BY <1>3 DEF Becomes, At, Knows, Passed, Records
    <3> QED
      BY <1>1, <1>3, <2>1, <3>1 DEF StaysThere, Displaces, Becomes
  <2> QED
    BY <2>2, <2>3, <2>4
<1> QED
  BY <1>1, <1>3, <1>4, <1>5, <1>6, SharedFiles DEF Becomes

LEMMA WriteShares ==
  ASSUME ExportInv, SharedInv, NEW e \in Exporters, WritePayload(e)
  PROVE  SharedInv'
<1>1. ExportTypeOK /\ Ready(e, "write") /\ UNCHANGED <<output, temporary>>
      /\ written' = [written EXCEPT ![e] = "whole"]
  BY DEF ExportInv, WritePayload
<1>2. export' = [export EXCEPT ![e] = [export[e] EXCEPT !.point = "link", !.ok = FALSE]]
  <2>1. export[e] \in Records /\ export[e].ok = FALSE
    BY <1>1 DEF ExportTypeOK, SharedInv, Knows, Passed, Records, Ready
  <2>2. [export[e] EXCEPT !.point = "link"] = [export[e] EXCEPT !.point = "link", !.ok = FALSE]
    BY <2>1 DEF Records
  <2> QED
    BY <2>2 DEF WritePayload, Continue
<1>3. PICK o \in Outputs, x \in Records : Becomes(e, o, x, "write", "link", FALSE)
  BY <1>1, <1>2, GoesOn DEF Using, Passed
<1>4. e \in Users(o) /\ export[e].point = "write"
  BY <1>3 DEF Becomes, At
<1>5. /\ NamesTyped /\ NamesTyped' /\ written'[e] = "whole"
      /\ \A f \in Exporters : written[f] = "whole" => written'[f] = "whole"
  BY <1>1 DEF SharedInv, NamesTyped, ExportTypeOK
<1>6. ASSUME AtMostTwo(o) PROVE OwnTemporary(o)' /\ WholeThere(o)' /\ StaysThere(o)'
  <2>1. OwnTemporary(o) /\ WholeThere(o) /\ StaysThere(o)
    BY <1>6 DEF SharedInv
  <2>2. OwnTemporary(o)'
    <3>1. \A f \in Users(o) : export'[f].point \in {"write", "link"} =>
            export[f].point \in {"write", "link"}
      BY <1>3, <1>4 DEF Becomes
    <3>2. \A g \in Users(o) : export[g].point \in Passed => export'[g].point \in Passed
      BY <1>3, <1>4 DEF Becomes, Passed
    <3>3. Users(o)' = Users(o)
      BY <1>3 DEF Becomes
    <3> QED
      BY <1>1, <2>1, <3>1, <3>2, <3>3 DEF OwnTemporary
  <2>3. WholeThere(o)'
    <3>1. output[o] \in Exporters \cup {Nothing}
      BY <1>5 DEF NamesTyped
    <3> QED
      BY <1>1, <1>5, <2>1, <3>1 DEF WholeThere
  <2>4. StaysThere(o)'
    <3>1. export[e].ok = FALSE
      BY <1>3 DEF Becomes, At, Knows, Passed, Records
    <3> QED
      BY <1>1, <1>3, <2>1, <3>1 DEF StaysThere, Displaces, Becomes
  <2> QED
    BY <2>2, <2>3, <2>4
<1> QED
  BY <1>1, <1>3, <1>4, <1>5, <1>6, SharedFiles DEF Becomes

\* What is published is the export's own temporary file.
LEMMA LinkShares ==
  ASSUME ExportInv, SharedInv, NEW e \in Exporters, Link(e)
  PROVE  SharedInv'
<1>1. CASE Continue(e, "remove") /\ UNCHANGED <<output, temporary>>
  BY <1>1, LateShares
<1>2. ASSUME temporary[Output(e)] # Nothing, export[e].force \/ output[Output(e)] = Nothing,
             output' = [output EXCEPT ![Output(e)] = temporary[Output(e)]],
             temporary' = IF export[e].force THEN [temporary EXCEPT ![Output(e)] = Nothing]
                          ELSE temporary,
             export' = [export EXCEPT ![e] = [export[e] EXCEPT !.point = "remove", !.ok = TRUE]]
      PROVE  SharedInv'
  <2>1. ExportTypeOK /\ Ready(e, "link") /\ written' = written
    BY DEF ExportInv, Link
  <2>2. PICK o \in Outputs, x \in Records : Becomes(e, o, x, "link", "remove", TRUE)
    BY <1>2, <2>1, GoesOn DEF Using, Passed
  <2>3. /\ e \in Users(o) /\ export[e].point = "link" /\ Output(e) = o /\ export[e].ok = FALSE
        /\ NamesTyped /\ written[e] = "whole" /\ e # Nothing
    BY <2>2, ExportAssumption DEF Becomes, At, SharedInv, Knows, Passed, Records
  <2>4. /\ NamesTyped' /\ output'[o] = temporary[o]
        /\ \A p \in Outputs \ {o} : output'[p] = output[p] /\ temporary'[p] = temporary[p]
    BY <1>2, <2>3 DEF NamesTyped
  <2>5. ASSUME AtMostTwo(o) PROVE OwnTemporary(o)' /\ WholeThere(o)' /\ StaysThere(o)'
    <3>1. OwnTemporary(o) /\ WholeThere(o) /\ StaysThere(o)
      BY <2>5 DEF SharedInv
    <3>2. temporary[o] = e
      BY <1>2, <2>3, <3>1 DEF OwnTemporary
    <3>3. OwnTemporary(o)'
      <4>1. \A f \in Users(o) \ {e} : export[f].point \notin {"write", "link"}
        BY <2>3, <3>1, <3>2 DEF OwnTemporary
      <4> QED
        BY <2>2, <4>1 DEF OwnTemporary, Becomes
    <3>4. WholeThere(o)'
      BY <2>1, <2>3, <2>4, <3>2 DEF WholeThere
    <3>5. StaysThere(o)'
      <4>1. ASSUME NEW f \in Users(o) \ {e}, export[f].ok, export[f].point \in Placed
            PROVE  Displaces(e)'
        <5>1. output[o] = f \/ \E g \in Users(o) \ {f} : Displaces(g)
          BY <3>1, <4>1 DEF StaysThere
        <5>2. ~Displaces(e) /\ \A g \in Users(o) \ {f} : g = e
          BY <2>3, <2>5, <4>1, TheOther DEF Displaces
        <5>3. f # Nothing
          BY ExportAssumption DEF Users
        <5>4. export[e].force
          BY <1>2, <2>3, <5>1, <5>2, <5>3
        <5> QED
          BY <2>2, <5>4 DEF Displaces, Becomes
      <4> QED
        BY <2>2, <2>3, <2>4, <3>2, <4>1 DEF StaysThere, Becomes
    <3> QED
      BY <3>3, <3>4, <3>5
  <2> QED
    BY <2>1, <2>2, <2>3, <2>4, <2>5, SharedFiles DEF Becomes
<1> QED
  BY <1>1, <1>2 DEF Link

\* An export that removes the temporary file has passed, and publishes nothing more.
LEMMA RemoveShares ==
  ASSUME ExportInv, SharedInv, NEW e \in Exporters, RemoveTemporary(e)
  PROVE  SharedInv'
<1> DEFINE to == AfterRemoval(e)
<1>1. /\ ExportTypeOK /\ Ready(e, "remove") /\ UNCHANGED <<output, written>>
      /\ temporary' = [temporary EXCEPT ![Output(e)] = Nothing]
  BY DEF ExportInv, RemoveTemporary
<1>2. /\ export[e] \in Records /\ export[e].ok \in BOOLEAN
      /\ export' = [export EXCEPT ![e] = [export[e] EXCEPT !.point = to, !.ok = export[e].ok]]
  <2>1. export[e] \in Records /\ export[e].ok \in BOOLEAN
    BY <1>1 DEF ExportTypeOK, Records
  <2>2. [export[e] EXCEPT !.point = to] = [export[e] EXCEPT !.point = to, !.ok = export[e].ok]
    BY <2>1 DEF Records
  <2> QED
    BY <2>1, <2>2 DEF RemoveTemporary, Continue
<1>3. /\ to \in {"failed", "done", "directory"}
      /\ to \in {"directory", "done"} => export[e].ok
  BY DEF AfterRemoval
<1> HIDE DEF to
<1>4. PICK ok \in BOOLEAN, point \in {"failed", "done", "directory"} :
        ok = export[e].ok /\ point = to
  BY <1>2, <1>3
<1>5. PICK o \in Outputs, x \in Records : Becomes(e, o, x, "remove", point, ok)
  <2>1. /\ export' = [export EXCEPT ![e] = [export[e] EXCEPT !.point = point, !.ok = ok]]
        /\ point \in {"directory", "done"} => ok
    BY <1>2, <1>3, <1>4
  <2>2. point \in Using /\ point \in Passed
    BY DEF Using, Passed
  <2> QED
    BY <1>1, <2>1, <2>2, GoesOn
<1>6. e \in Users(o) /\ Output(e) = o /\ export[e].point = "remove"
  BY <1>5 DEF Becomes, At
<1>7. /\ NamesTyped' /\ temporary'[o] = Nothing
      /\ \A p \in Outputs \ {o} : temporary'[p] = temporary[p]
  BY <1>1, <1>6 DEF SharedInv, NamesTyped
<1>8. ASSUME AtMostTwo(o) PROVE OwnTemporary(o)' /\ WholeThere(o)' /\ StaysThere(o)'
  <2>1. OwnTemporary(o) /\ WholeThere(o) /\ StaysThere(o)
    BY <1>8 DEF SharedInv
  <2>2. OwnTemporary(o)'
    <3>1. export'[e].point \in Passed /\ export'[e].point \notin {"write", "link"}
      BY <1>5 DEF Becomes, Passed
    <3> QED
      BY <1>5, <1>6, <1>7, <3>1 DEF OwnTemporary, Becomes
  <2>3. WholeThere(o)'
    BY <1>1, <2>1 DEF WholeThere
  <2>4. StaysThere(o)'
    <3>1. \A f \in Users(o) : export'[f].ok /\ export'[f].point \in Placed =>
            export[f].ok /\ export[f].point \in Placed
      BY <1>4, <1>5, <1>6 DEF Becomes, Placed
    <3>2. \A f \in Users(o) : Displaces(f) => Displaces(f)'
      BY <1>4, <1>5, <1>6 DEF Becomes, Displaces
    <3>3. Users(o)' = Users(o)
      BY <1>5 DEF Becomes
    <3> QED
      BY <1>1, <2>1, <3>1, <3>2, <3>3 DEF StaysThere
  <2> QED
    BY <2>2, <2>3, <2>4
<1> QED
  BY <1>1, <1>5, <1>6, <1>7, <1>8, SharedFiles DEF Becomes

\* An export whose directory has moved, or cannot be looked at, takes away what is there.
LEMMA WithdrawShares ==
  ASSUME ExportInv, SharedInv, NEW e \in Exporters,
         (CheckDirectory(e) /\ ~SameRoom(e)) \/ DirectoryTrouble(e)
  PROVE  SharedInv'
<1>1. /\ ExportTypeOK /\ Ready(e, "directory") /\ UNCHANGED <<temporary, written>>
      /\ output' \in {output, [output EXCEPT ![Output(e)] = Nothing]}
  BY DEF ExportInv, CheckDirectory, DirectoryTrouble
<1>2. export' = [export EXCEPT ![e] = [export[e] EXCEPT !.point = "failed", !.ok = TRUE]]
  <2>1. export[e] \in Records /\ export[e].ok = TRUE
    BY <1>1 DEF ExportTypeOK, SharedInv, Knows, Records, Ready
  <2>2. [export[e] EXCEPT !.point = "failed"] = [export[e] EXCEPT !.point = "failed", !.ok = TRUE]
    BY <2>1 DEF Records
  <2> QED
    BY <2>2 DEF CheckDirectory, DirectoryTrouble, Give, Continue
<1>3. PICK o \in Outputs, x \in Records : Becomes(e, o, x, "directory", "failed", TRUE)
  BY <1>1, <1>2, GoesOn DEF Using, Passed
<1>4. e \in Users(o) /\ Output(e) = o /\ export[e].point = "directory"
  BY <1>3 DEF Becomes, At
<1>5. /\ NamesTyped' /\ output'[o] \in {output[o], Nothing}
      /\ \A p \in Outputs \ {o} : output'[p] = output[p]
  BY <1>1, <1>4 DEF SharedInv, NamesTyped
<1>6. ASSUME AtMostTwo(o) PROVE OwnTemporary(o)' /\ WholeThere(o)' /\ StaysThere(o)'
  <2>1. OwnTemporary(o) /\ WholeThere(o) /\ StaysThere(o)
    BY <1>6 DEF SharedInv
  <2>2. OwnTemporary(o)'
    <3>1. export'[e].point \in Passed /\ export'[e].point \notin {"write", "link"}
      BY <1>3 DEF Becomes, Passed
    <3>2. \A g \in Users(o) : export[g].point \in Passed => export'[g].point \in Passed
      BY <1>3, <3>1 DEF Becomes
    <3>3. \A f \in Users(o) : export'[f].point \in {"write", "link"} =>
            export[f].point \in {"write", "link"}
      BY <1>3, <3>1 DEF Becomes
    <3>4. Users(o)' = Users(o)
      BY <1>3 DEF Becomes
    <3> QED
      BY <1>1, <2>1, <3>2, <3>3, <3>4 DEF OwnTemporary
  <2>3. WholeThere(o)'
    BY <1>1, <1>5, <2>1 DEF WholeThere
  <2>4. StaysThere(o)'
    <3>1. Displaces(e)' /\ export'[e].point \notin Placed
      BY <1>3 DEF Displaces, Becomes, Placed
    <3> QED
      BY <1>3, <1>4, <3>1 DEF StaysThere, Becomes
  <2> QED
    BY <2>2, <2>3, <2>4
<1> QED
  BY <1>1, <1>3, <1>4, <1>5, <1>6, SharedFiles DEF Becomes

LEMMA NextSharedInv ==
  ExportInv /\ SharedInv /\ [ExportNext]_exportVars => SharedInv'
<1> SUFFICES ASSUME ExportInv, SharedInv, [ExportNext]_exportVars PROVE SharedInv'
  OBVIOUS
<1>1. ASSUME NEW e \in Exporters, ExportStep(e) PROVE SharedInv'
  <2>1. CASE Create(e)
    BY <2>1, CreateShares, LateShares
  <2>2. CASE CheckDirectory(e)
    BY <2>2, WithdrawShares, LateShares
  <2> QED
    BY <1>1, <2>1, <2>2, EarlyShares, LateShares, WriteShares, LinkShares, RemoveShares,
       WithdrawShares DEF ExportStep
<1>2. ASSUME UNCHANGED <<exportedFiles, export>> PROVE SharedInv'
  <2>1. \A o \in Outputs : Users(o)' = Users(o)
    BY <1>2 DEF Users, Output
  <2> QED
    BY <1>2, <2>1 DEF SharedInv, NamesTyped, AtMostTwo, OwnTemporary, WholeThere, StaysThere,
       Displaces, exportedFiles
<1>3. CASE \E s \in Sources : Rewrite(s)
  BY <1>2, <1>3 DEF Rewrite
<1>4. CASE \E r \in Rooms : Swap(r)
  BY <1>2, <1>4 DEF Swap
<1>5. CASE UNCHANGED exportVars
  BY <1>2, <1>5 DEF exportVars
<1> QED
  BY <1>1, <1>3, <1>4, <1>5 DEF ExportNext

\* As long as no more than two exports have used the names of an output, the file there
\* is whole, and what a successful export has published stays, unless the other replaces
\* it with force or removes it when it gives up its own (_write_atomic_at).
THEOREM TwoExportsShareNames == ExportSpec => []TwoExportsAreSafe
<1>1. ExportInv /\ SharedInv => TwoExportsAreSafe
  <2> SUFFICES ASSUME SharedInv, NEW o \in Outputs, Cardinality(Users(o)) <= 2
               PROVE  /\ WholeThere(o)
                      /\ \A e \in Users(o) :
                           Ready(e, "done") =>
                             \/ output[o] = e
                             \/ \E f \in Users(o) \ {e} :
                                  export[f].ok /\ (export[f].force \/ Ready(f, "failed"))
    BY DEF TwoExportsAreSafe, WholeThere
  <2>1. WholeThere(o) /\ StaysThere(o)
    BY AtMostTwoOf DEF SharedInv
  <2>2. ASSUME NEW e \in Users(o), Ready(e, "done")
        PROVE  export[e].ok /\ export[e].point \in Placed
    BY <2>2 DEF SharedInv, Knows, Users, Ready, Placed
  <2> QED
    BY <2>1, <2>2 DEF StaysThere, Displaces, Ready
<1> QED
  BY <1>1, InitExportInv, NextExportInv, InitSharedInv, NextSharedInv, PTL DEF ExportSpec

-----------------------------------------------------------------------------
(* SetupTransaction: what a run of the assistant setup knows of each file.  *)

Writing == pc \in {"check", "move", "moved", "publish", "published"}

Forward == Writing \/ pc \in {"recheck", "next", "manifest", "register"}

Undoing == pc \in {"undo", "taken"}

\* Entries this run has put beside a file.
Of(f, as) == {e \in aside[f] : e.as = as /\ e.run = run}

Actions == {"stage", "live", "restore", "retire", "unregister"}

Items == [do : Actions, of : Files \cup ToSet(Clients)]

HasItem(do, f) == Item(do, f) \in ToSet(undo)

AsideTyped ==
  /\ aside = [f \in Files |-> aside[f]]
  /\ \A f \in Files : \A e \in aside[f] :
       e = [as |-> e.as, run |-> e.run, file |-> e.file] /\ e.run \in 0..run

\* What is in a file is left open: only who made it matters here.
FilesTyped ==
  /\ live = [f \in Files |-> live[f]] /\ seen = [f \in Files |-> seen[f]]
  /\ edited = [f \in Files |-> edited[f]]
  /\ \A f \in Files : edited[f] = [when |-> edited[f].when, left |-> edited[f].left,
                                   all |-> edited[f].all]

RunTyped ==
  /\ run \in 0..MaxRuns /\ edits \in Nat /\ faults \in Nat /\ lapse \in BOOLEAN
  /\ file \in Files /\ created \in Seq(Files) /\ replaced \in Seq(Files)
  /\ clients \in Seq(ToSet(Clients)) /\ register \in Seq(ToSet(Clients))
  /\ attempted \in Seq(ToSet(Clients)) /\ undo \in Seq(Items)

SetupTypeOK == FilesTyped /\ AsideTyped /\ RunTyped

\* Where a run is in its program, and what it may rely on there.
Phases ==
  /\ pc = "idle" \/ Forward \/ Undoing
  /\ Forward => status = "running"
  /\ Undoing => \/ status = "rolled_back"
                \/ pc = "undo" /\ status = "installed"
  /\ pc = "taken" => undo # <<>> /\ Head(undo).do = "live"
  /\ pc # "idle" => /\ run > 0 /\ version \in Versions
                    /\ Conflicts(clients, seen, version) = {}
  /\ Undoing /\ status = "installed" => \A x \in ToSet(undo) : x.do = "retire"

\* The transaction's two lists, and the file that is being written.
ListsOK ==
  /\ Forward => /\ IsInjective(created) /\ IsInjective(replaced)
                /\ \A f \in ToSet(created) : ~Replaced(f)
                /\ \A f \in ToSet(replaced) : Replaced(f)
                /\ Installed \subseteq Chosen \cup {Manifest}
  /\ pc = "recheck" => Installed = {}
  /\ Forward /\ Manifest \in Installed => pc \in {"manifest", "register"}
  /\ Writing => file \in (Chosen \cup {Manifest}) \ Installed
  /\ pc \in {"check", "move", "moved"} => Replaced(file)

\* The names that taking back one item uses are there.
ItemReady(x) ==
  /\ x.do # "unregister" => x.of \in Files
  /\ x.do = "stage" => Of(x.of, "stage") # {}
  /\ x.do \in {"restore", "retire"} \/ (x.do = "live" /\ Replaced(x.of))
       => Of(x.of, "backup") # {}

\* The names that the next steps use are there.
NamesThere ==
  /\ pc # "idle" => \A f \in Files : \A e \in Of(f, "stage") : e.file = Mine(f)
  /\ pc \in {"check", "move", "moved", "publish"} => Of(file, "stage") # {}
  /\ pc \in {"moved", "publish", "published"} /\ Replaced(file) => Of(file, "backup") # {}
  /\ Forward => \A f \in ToSet(replaced) : Of(f, "backup") # {}
  /\ Undoing => \A x \in ToSet(undo) : ItemReady(x)
  /\ pc = "taken" => Of(Target, "quarantine") # {}

\* No name is taken back twice.
SameName(x, y) ==
  /\ x.of = y.of /\ "unregister" \notin {x.do, y.do}
  /\ (x.do = "stage" <=> y.do = "stage")

Once(s) == \A i, j \in DOMAIN s : SameName(s[i], s[j]) => i = j

ShapeInv == SetupTypeOK /\ Phases /\ ListsOK /\ NamesThere /\ Once(undo)

\* Where a file is while a run goes forward or back: not touched or done with,
\* moved away, published, or taken from its path to be looked at.
Published(f) ==
  IF Forward THEN f \in Installed \/ (f = file /\ pc = "published")
             ELSE HasItem("live", f) /\ ~(pc = "taken" /\ f = Target)

Away(f) ==
  IF Forward THEN f = file /\ (pc = "moved" \/ (pc = "publish" /\ Replaced(f)))
             ELSE HasItem("restore", f)

BeingLookedAt(f) == pc = "taken" /\ f = Target

Elsewhere(f) == Published(f) \/ Away(f) \/ BeingLookedAt(f)

\* What x at the path of f would be for somebody who edited f: what they left, or,
\* where they removed it, what was there before.
Owed(f, x) ==
  IF edited[f].when = "no" THEN x = seen[f]
  ELSE \/ x = edited[f].left
       \/ edited[f].left = NoFile /\ x \in {seen[f]} \cup edited[f].all

\* A directory or a link that was taken is not put back.
Welcome(f, x) ==
  Owed(f, x) \/ (edited[f].when # "no" /\ edited[f].left.content = "special")

\* b is to return to the path of f unless somebody puts a file there.
Returns(f, b) ==
  /\ b \in {seen[f]} \cup edited[f].all
  /\ IF edited[f].when = "no" THEN live[f] = NoFile /\ b = seen[f]
     ELSE Welcome(f, IF live[f] = NoFile THEN b ELSE live[f])

IsMine(f) ==
  IF edited[f].when = "no" THEN live[f] = Mine(f)
  ELSE \/ live[f] = edited[f].left
       \/ live[f] = Mine(f) /\ edited[f].left \in {NoFile, seen[f]}

\* A file nobody edited is the one the plan saw, this run's, or on its way back; of
\* one that was edited, what its editor left or what it is to return to.
FileOK(f) ==
  /\ Forward => Of(f, "quarantine") = {}
  /\ Forward /\ ~Elsewhere(f) =>
       /\ live[f] = IF edited[f].when = "no" THEN seen[f] ELSE edited[f].left
       /\ Of(f, "backup") = {}
  /\ Undoing /\ ~Elsewhere(f) => Welcome(f, live[f])
  /\ Published(f) =>
       /\ IsMine(f) /\ Of(f, "quarantine") = {}
       /\ \A e \in Of(f, "backup") : e.file = seen[f]
  /\ Away(f) => \A e \in Of(f, "backup") :
       /\ Returns(f, e.file) /\ (Forward /\ live[f] = NoFile => Owed(f, e.file))
       /\ pc = "moved" => Of(f, "backup") = {e}
       /\ pc = "publish" => e.file = seen[f]
  /\ BeingLookedAt(f) =>
       /\ \A e \in Of(f, "backup") : e.file = seen[f]
       /\ \A e \in Of(f, "quarantine") :
            IF e.file = Mine(f) THEN Returns(f, seen[f])
            ELSE e.file \in edited[f].all \ {NoFile} /\ Returns(f, e.file)

\* Who edits leaves files that are not the setup's.
EditsOK ==
  \A f \in Files :
    LET e == edited[f] IN
      /\ e.when = "no" <=> e.all = {}
      /\ e.when # "no" => e.left \in e.all
      /\ \A x \in e.all : x = NoFile \/ x.by > MaxRuns
      /\ edits = 0 => e.when = "no"

\* The clients that were tried are registered while the run goes on; once it takes
\* them back, those that still are registered are to be done or are named in the report.
ClientsOK ==
  /\ Forward /\ pc # "register" => attempted = <<>>
  /\ pc = "register" => \A i \in DOMAIN attempted :
       i \in DOMAIN register /\ attempted[i] = register[i] /\ attempted[i] \in registered
  /\ status = "installed" => ToSet(register) \subseteq registered
  /\ Undoing /\ status = "rolled_back" =>
       \A c \in ToSet(attempted) \cap registered : c \in failed \/ HasItem("unregister", c)
  /\ Ended("rolled_back") => ToSet(attempted) \cap registered \subseteq failed

\* After a clean-up step that met an error a file may stay where it is.
FilesInv ==
  (Forward \/ Undoing) /\ status # "installed" /\ ~lapse => \A f \in Files : FileOK(f)

EndedInv == Ended("rolled_back") /\ ~lapse => \A f \in Files : Welcome(f, live[f])

RestoreInv == EditsOK /\ ClientsOK /\ FilesInv /\ EndedInv

\* The run has looked at all assets, or at the manifest, after it wrote them.
AssetsPast ==
  \/ pc \in {"manifest", "register"} \/ status = "installed"
  \/ Writing /\ file = Manifest

ManifestPast == pc = "register" \/ status = "installed"

CompleteInv ==
  /\ AssetsPast =>
       /\ AssetsDone
       /\ \A f \in Chosen : edited[f].when = "late" \/ live[f] = Expected(f)
  /\ ManifestPast =>
       /\ ManifestDone
       /\ edited[Manifest].when = "late" \/ live[Manifest] = Expected(Manifest)

Quiet == edits = 0 /\ faults = 0

\* Nobody edits and nothing fails: the run takes nothing back, and what it leaves
\* where it stops is no conflict.
QuietInv ==
  Quiet =>
    /\ ~lapse
    /\ pc # "idle" => status # "rolled_back"
    /\ Undoing \/ Ended("crashed") => Conflicts(clients, live, version) = {}

-----------------------------------------------------------------------------
(* Lists of files and of names to take back.                               *)

LEMMA AppendToSet ==
  ASSUME NEW S, NEW s \in Seq(S), NEW x \in S
  PROVE  Append(s, x) \in Seq(S) /\ ToSet(Append(s, x)) = ToSet(s) \cup {x}
<1>1. /\ Append(s, x) \in Seq(S) /\ DOMAIN Append(s, x) = DOMAIN s \cup {Len(s) + 1}
      /\ Append(s, x)[Len(s) + 1] = x
      /\ \A i \in DOMAIN s : Append(s, x)[i] = s[i]
  OBVIOUS
<1>2. \A y : y \in ToSet(Append(s, x)) <=> y \in ToSet(s) \/ y = x
  BY <1>1 DEF ToSet
<1> QED
  BY <1>1, <1>2

LEMMA TailToSet ==
  ASSUME NEW S, NEW s \in Seq(S), s # <<>>
  PROVE  /\ Tail(s) \in Seq(S) /\ Head(s) \in S
         /\ ToSet(s) = {Head(s)} \cup ToSet(Tail(s))
<1>1. Tail(s) \in Seq(S) /\ Head(s) \in S /\ Len(s) > 0
  OBVIOUS
<1>2. ASSUME NEW i \in DOMAIN s PROVE s[i] \in {Head(s)} \cup ToSet(Tail(s))
  <2>1. CASE i = 1
    BY <2>1
  <2>2. CASE i # 1
    <3>1. i - 1 \in DOMAIN Tail(s) /\ Tail(s)[i - 1] = s[i]
      BY <1>1, <2>2
    <3> QED
      BY <3>1 DEF ToSet
  <2> QED
    BY <2>1, <2>2
<1>3. Head(s) \in ToSet(s)
  BY <1>1 DEF ToSet
<1>4. ASSUME NEW i \in DOMAIN Tail(s) PROVE Tail(s)[i] \in ToSet(s)
  <2>1. i + 1 \in DOMAIN s /\ Tail(s)[i] = s[i + 1]
    BY <1>1
  <2> QED
    BY <2>1 DEF ToSet
<1> QED
  BY <1>1, <1>2, <1>3, <1>4 DEF ToSet

LEMMA CatToSet ==
  ASSUME NEW S, NEW s \in Seq(S), NEW t \in Seq(S)
  PROVE  s \o t \in Seq(S) /\ ToSet(s \o t) = ToSet(s) \cup ToSet(t)
<1>1. \A i \in DOMAIN (s \o t) : (s \o t)[i] \in ToSet(s) \cup ToSet(t)
  BY DEF ToSet
<1>2. ASSUME NEW i \in DOMAIN s PROVE s[i] \in ToSet(s \o t)
  <2>1. i \in DOMAIN (s \o t) /\ (s \o t)[i] = s[i]
    OBVIOUS
  <2> QED
    BY <2>1 DEF ToSet
<1>3. ASSUME NEW i \in DOMAIN t PROVE t[i] \in ToSet(s \o t)
  <2>1. Len(s) + i \in DOMAIN (s \o t) /\ (s \o t)[Len(s) + i] = t[i]
    OBVIOUS
  <2> QED
    BY <2>1 DEF ToSet
<1>4. ToSet(s \o t) \subseteq ToSet(s) \cup ToSet(t)
  BY <1>1 DEF ToSet
<1>5. ToSet(s) \subseteq ToSet(s \o t) /\ ToSet(t) \subseteq ToSet(s \o t)
  BY <1>2, <1>3 DEF ToSet
<1>6. s \o t \in Seq(S)
  OBVIOUS
<1> QED
  BY <1>4, <1>5, <1>6

LEMMA ReverseToSet ==
  ASSUME NEW S, NEW s \in Seq(S)
  PROVE  /\ Reverse(s) \in Seq(S) /\ Len(Reverse(s)) = Len(s)
         /\ ToSet(Reverse(s)) = ToSet(s)
         /\ IsInjective(s) => IsInjective(Reverse(s))
<1>1. /\ Reverse(s) \in Seq(S) /\ Len(Reverse(s)) = Len(s)
      /\ \A i \in 1..Len(s) : Reverse(s)[i] = s[Len(s) - i + 1]
  BY DEF Reverse
<1>2. ASSUME NEW i \in 1..Len(s) PROVE Len(s) - i + 1 \in 1..Len(s)
  OBVIOUS
<1>3. \A i \in 1..Len(s) : s[i] \in ToSet(Reverse(s))
  <2>1. SUFFICES ASSUME NEW i \in 1..Len(s) PROVE s[i] \in ToSet(Reverse(s))
    OBVIOUS
  <2>2. Reverse(s)[Len(s) - i + 1] = s[i]
    BY <1>1
  <2> QED
    BY <1>1, <1>2, <2>2 DEF ToSet
<1>4. ToSet(Reverse(s)) = ToSet(s)
  <2>1. DOMAIN Reverse(s) = 1..Len(s) /\ DOMAIN s = 1..Len(s)
    BY <1>1
  <2>2. \A y : y \in ToSet(Reverse(s)) <=> y \in ToSet(s)
    BY <1>1, <1>2, <1>3, <2>1 DEF ToSet
  <2> QED
    BY <2>2
<1>5. ASSUME IsInjective(s) PROVE IsInjective(Reverse(s))
  <2>1. DOMAIN Reverse(s) = 1..Len(s) /\ DOMAIN s = 1..Len(s)
    BY <1>1
  <2>2. SUFFICES ASSUME NEW i \in 1..Len(s), NEW j \in 1..Len(s), Reverse(s)[i] = Reverse(s)[j]
                 PROVE  i = j
    BY <2>1 DEF IsInjective
  <2>3. Len(s) - i + 1 = Len(s) - j + 1
    BY <1>1, <1>2, <1>5, <2>1, <2>2 DEF IsInjective
  <2> QED
    BY <2>3
<1> QED
  BY <1>1, <1>4, <1>5

LEMMA OnceTail ==
  ASSUME NEW s \in Seq(Items), s # <<>>, Once(s)
  PROVE  Once(Tail(s)) /\ \A x \in ToSet(Tail(s)) : ~SameName(Head(s), x)
<1>1. \A i \in DOMAIN Tail(s) : i + 1 \in DOMAIN s /\ Tail(s)[i] = s[i + 1]
  OBVIOUS
<1>2. \A i \in DOMAIN Tail(s) : i + 1 # 1
  OBVIOUS
<1>3. 1 \in DOMAIN s /\ Head(s) = s[1]
  OBVIOUS
<1> QED
  BY <1>1, <1>2, <1>3 DEF Once, ToSet

LEMMA OnceCat ==
  ASSUME NEW s \in Seq(Items), NEW t \in Seq(Items), Once(s), Once(t),
         \A x \in ToSet(s), y \in ToSet(t) : ~SameName(x, y)
  PROVE  Once(s \o t)
<1>1. \A i \in DOMAIN (s \o t) :
        IF i <= Len(s) THEN i \in DOMAIN s /\ (s \o t)[i] = s[i]
        ELSE i - Len(s) \in DOMAIN t /\ (s \o t)[i] = t[i - Len(s)]
  OBVIOUS
<1>2. \A i \in DOMAIN s : s[i] \in ToSet(s)
  BY DEF ToSet
<1>3. \A i \in DOMAIN t : t[i] \in ToSet(t)
  BY DEF ToSet
<1>4. SUFFICES ASSUME NEW i \in DOMAIN (s \o t), NEW j \in DOMAIN (s \o t),
                      SameName((s \o t)[i], (s \o t)[j])
               PROVE  i = j
  BY DEF Once
<1>5. \A x, y : SameName(x, y) => SameName(y, x)
  BY DEF SameName
<1>6. CASE i <= Len(s) /\ j <= Len(s)
  BY <1>1, <1>4, <1>6 DEF Once
<1>7. CASE ~(i <= Len(s)) /\ ~(j <= Len(s))
  <2>1. i - Len(s) = j - Len(s)
    BY <1>1, <1>4, <1>7 DEF Once
  <2> QED
    BY <2>1
<1> QED
  BY <1>1, <1>2, <1>3, <1>4, <1>5, <1>6, <1>7

\* What is taken back: every file that was written, each once.
LEMMA RollbackItems ==
  ASSUME SetupTypeOK, IsInjective(created), IsInjective(replaced),
         ToSet(created) \cap ToSet(replaced) = {}
  PROVE  /\ Rollback \in Seq(Items) /\ Once(Rollback)
         /\ ToSet(Rollback) = {Item("live", f) : f \in Installed}
<1> DEFINE r == Reverse(replaced)
           c == Reverse(created)
           back == r \o c
<1>1. created \in Seq(Files) /\ replaced \in Seq(Files)
  BY DEF SetupTypeOK, RunTyped
<1>2. /\ r \in Seq(Files) /\ c \in Seq(Files) /\ IsInjective(r) /\ IsInjective(c)
      /\ ToSet(r) = ToSet(replaced) /\ ToSet(c) = ToSet(created)
  BY <1>1, ReverseToSet
<1> HIDE DEF r, c
<1>3. back \in Seq(Files) /\ ToSet(back) = Installed
  BY <1>2, CatToSet DEF Installed
<1>4. IsInjective(back)
  <2>1. \A i \in DOMAIN back :
          IF i <= Len(r) THEN i \in DOMAIN r /\ back[i] = r[i]
          ELSE i - Len(r) \in DOMAIN c /\ back[i] = c[i - Len(r)]
    BY <1>2
  <2>2. \A i \in DOMAIN r, j \in DOMAIN c : r[i] # c[j]
    BY <1>2 DEF ToSet
  <2>3. SUFFICES ASSUME NEW i \in DOMAIN back, NEW j \in DOMAIN back, back[i] = back[j]
                 PROVE  i = j
    BY DEF IsInjective
  <2>4. CASE i <= Len(r) /\ j <= Len(r)
    BY <1>2, <2>1, <2>3, <2>4 DEF IsInjective
  <2>5. CASE ~(i <= Len(r)) /\ ~(j <= Len(r))
    <3>1. i - Len(r) = j - Len(r)
      BY <1>2, <2>1, <2>3, <2>5 DEF IsInjective
    <3> QED
      BY <1>2, <1>3, <3>1
  <2> QED
    BY <2>1, <2>2, <2>3, <2>4, <2>5
<1> HIDE DEF back
<1>5. Rollback = [i \in DOMAIN back |-> Item("live", back[i])]
  BY DEF Rollback, back, r, c
<1>6. \A f \in Files : Item("live", f) \in Items
  BY DEF Items, Item, Actions
<1>7. Rollback \in Seq(Items) /\ DOMAIN Rollback = DOMAIN back
  BY <1>3, <1>5, <1>6
<1>8. Once(Rollback)
  BY <1>4, <1>5, <1>7 DEF Once, SameName, Item, IsInjective
<1>9. ToSet(Rollback) = {Item("live", f) : f \in ToSet(back)}
  BY <1>5, <1>7 DEF ToSet
<1> QED
  BY <1>3, <1>7, <1>8, <1>9

-----------------------------------------------------------------------------
(* Entries beside a file.                                                  *)

LEMMA PlanKept ==
  ASSUME UNCHANGED planVars
  PROVE  /\ Chosen' = Chosen
         /\ Conflicts(clients, seen, version)' = Conflicts(clients, seen, version)
         /\ \A f : Mine(f)' = Mine(f) /\ Replaced(f)' = Replaced(f)
<1> USE DEF planVars
<1>1. Chosen' = Chosen
  BY DEF Chosen
<1>2. Lists' = Lists
  BY <1>1 DEF Lists
<1>3. Conflicts(clients, seen, version)' = Conflicts(clients, seen, version)
  BY DEF Conflicts, State
<1> QED
  BY <1>1, <1>2, <1>3 DEF Mine, Replaced

LEMMA EntryOf ==
  ASSUME NEW f, NEW as, Of(f, as) # {}
  PROVE  Entry(f, as) \in Of(f, as)
BY DEF Of, Entry

\* Of the entries beside other files, and under other names, nothing changes.
LEMMA PutAdds ==
  ASSUME SetupTypeOK, NEW g \in Files, NEW as, NEW x, aside' = Put(g, as, x), run' = run
  PROVE  /\ AsideTyped'
         /\ Of(g, as)' = Of(g, as) \cup {[as |-> as, run |-> run, file |-> x]}
         /\ \A f \in Files : \A a : f # g \/ a # as => Of(f, a)' = Of(f, a)
<1> DEFINE new == [as |-> as, run |-> run, file |-> x]
<1>0. AsideTyped /\ run \in Nat /\ run \in 0..run /\ run' = run
  BY SetupAssumption DEF SetupTypeOK, RunTyped
<1>1. aside' = [f \in Files |-> IF f = g THEN aside[f] \cup {new} ELSE aside[f]]
  BY <1>0 DEF AsideTyped, Put
<1>2. /\ new.as = as /\ new.run = run /\ new.file = x
      /\ new = [as |-> new.as, run |-> new.run, file |-> new.file]
  OBVIOUS
<1> HIDE DEF new
<1>3. AsideTyped'
  BY <1>0, <1>1, <1>2 DEF AsideTyped
<1>4. Of(g, as)' = Of(g, as) \cup {new}
  BY <1>0, <1>1, <1>2 DEF Of
<1>5. \A f \in Files : \A a : f # g \/ a # as => Of(f, a)' = Of(f, a)
  BY <1>0, <1>1, <1>2 DEF Of
<1> QED
  BY <1>3, <1>4, <1>5 DEF new

LEMMA DroppedGoes ==
  ASSUME SetupTypeOK, NEW g \in Files, NEW as, NEW e \in Of(g, as),
         aside' = Dropped(g, e), run' = run
  PROVE  /\ AsideTyped'
         /\ Of(g, as)' = Of(g, as) \ {e}
         /\ \A f \in Files : \A a : f # g \/ a # as => Of(f, a)' = Of(f, a)
<1>0. AsideTyped /\ run' = run
  BY DEF SetupTypeOK, RunTyped
<1>1. e \in aside[g] /\ e.as = as /\ e.run = run
  BY DEF Of
<1>2. aside' = [f \in Files |-> IF f = g THEN aside[f] \ {e} ELSE aside[f]]
  BY <1>0 DEF AsideTyped, Dropped
<1>3. AsideTyped'
  BY <1>0, <1>2 DEF AsideTyped
<1>4. Of(g, as)' = Of(g, as) \ {e}
  BY <1>0, <1>1, <1>2 DEF Of
<1>5. \A f \in Files : \A a : f # g \/ a # as => Of(f, a)' = Of(f, a)
  BY <1>0, <1>1, <1>2 DEF Of
<1> QED
  BY <1>3, <1>4, <1>5

LEMMA SameEntries ==
  ASSUME UNCHANGED <<aside, run>>
  PROVE  (AsideTyped <=> AsideTyped') /\ \A f, a : Of(f, a)' = Of(f, a)
BY DEF Of, AsideTyped

-----------------------------------------------------------------------------
(* The shape of a run: its names are there, and each is used once.         *)

LEMMA InitShape == SetupInit => ShapeInv
<1> SUFFICES ASSUME SetupInit PROVE ShapeInv
  OBVIOUS
<1>1. /\ pc = "idle" /\ run = 0 /\ aside = [f \in Files |-> {}] /\ seen = live
      /\ edited = [f \in Files |-> NotEdited] /\ created = <<>> /\ replaced = <<>>
      /\ clients = <<>> /\ register = <<>> /\ attempted = <<>> /\ undo = <<>>
      /\ edits = 0 /\ faults = 0 /\ lapse = FALSE /\ file = Manifest
  BY DEF SetupInit
<1>2. live = [f \in Files |-> live[f]]
  BY DEF SetupInit
<1>3. AsideTyped
  BY <1>1 DEF AsideTyped
<1>4. FilesTyped
  BY <1>1, <1>2 DEF FilesTyped, NotEdited
<1>5. RunTyped
  <2>1. Manifest \in Files /\ 0 \in 0..MaxRuns
    BY SetupAssumption DEF Files
  <2>2. \A S : <<>> \in Seq(S)
    OBVIOUS
  <2> QED
    BY <1>1, <2>1, <2>2 DEF RunTyped
<1>6. IsInjective(<<>>)
  BY DEF IsInjective
<1> QED
  BY <1>1, <1>3, <1>4, <1>5, <1>6
     DEF SetupTypeOK, ShapeInv, Phases, ListsOK, NamesThere, Once, Forward, Writing, Undoing

LEMMA RequestsAreClients ==
  ASSUME NEW cs \in Requests
  PROVE  cs \in Seq(ToSet(Clients))
<1>1. ASSUME NEW c \in ToSet(Clients) PROVE <<c>> \in Seq(ToSet(Clients))
  OBVIOUS
<1> QED
  BY <1>1, SetupAssumption DEF Requests

LEMMA ShapeStart ==
  ASSUME ShapeInv, NEW cs \in Requests, NEW v \in Versions, NEW only \in BOOLEAN,
         Start(cs, v, only)
  PROVE  ShapeInv'
<1>1. /\ run' = run + 1 /\ run < MaxRuns
      /\ clients' = cs /\ register' \in {<<>>, cs} /\ version' = v /\ seen' = live
      /\ created' = <<>> /\ replaced' = <<>> /\ attempted' = <<>> /\ lapse' = FALSE
      /\ edited' = [f \in Files |-> NotEdited]
      /\ UNCHANGED <<live, aside, edits, faults, file, undo>>
      /\ \/ pc' = "idle"
         \/ pc' = "recheck" /\ Conflicts(cs, live, v) = {} /\ status' = "running"
  BY DEF Start, diskVars
<1>2. run \in 0..MaxRuns /\ MaxRuns \in Nat /\ AsideTyped /\ FilesTyped /\ RunTyped
  BY SetupAssumption DEF ShapeInv, SetupTypeOK, RunTyped
<1>3. run \in 0..run' /\ run' \in 0..MaxRuns /\ run' > 0
  BY <1>1, <1>2
<1>4. SetupTypeOK'
  <2>1. AsideTyped'
    BY <1>1, <1>2 DEF AsideTyped
  <2>2. FilesTyped'
    BY <1>1, <1>2 DEF FilesTyped, NotEdited
  <2>3. <<>> \in Seq(Files) /\ <<>> \in Seq(ToSet(Clients))
    OBVIOUS
  <2>4. RunTyped'
    BY <1>1, <1>2, <1>3, <2>3, RequestsAreClients DEF RunTyped
  <2> QED
    BY <2>1, <2>2, <2>4 DEF SetupTypeOK
<1>5. \A f \in Files : \A as : Of(f, as)' = {}
  <2>1. \A f \in Files : \A e \in aside[f] : e.run # run'
    BY <1>1, <1>2 DEF AsideTyped
  <2> QED
    BY <1>1, <2>1 DEF Of
<1>6. ToSet(created') = {} /\ ToSet(replaced') = {} /\ Installed' = {}
  BY <1>1 DEF ToSet, Installed
<1>7. Phases'
  <2>1. Conflicts(clients, seen, version)' = Conflicts(cs, live, v)
    BY <1>1 DEF Conflicts, State
  <2> QED
    BY <1>1, <1>3, <2>1 DEF Phases, Forward, Writing, Undoing
<1>8. ListsOK'
  <2>1. IsInjective(<<>>)
    BY DEF IsInjective
  <2> QED
    BY <1>1, <1>6, <2>1 DEF ListsOK, Forward, Writing
<1>9. NamesThere'
  BY <1>1, <1>5, <1>6 DEF NamesThere, Forward, Writing, Undoing
<1>10. Once(undo)'
  BY <1>1 DEF ShapeInv, Once
<1> QED
  BY <1>4, <1>7, <1>8, <1>9, <1>10 DEF ShapeInv

\* Steps that change the place in the program only.
LEMMA ShapeGoesOn ==
  ASSUME ShapeInv, Rechecked \/ Check \/ End
  PROVE  ShapeInv'
<1>1. UNCHANGED <<diskVars, registered, faults, planVars, writeVars, undo, outVars, userVars>>
  BY DEF Rechecked, Check, End
<1>2. UNCHANGED <<live, aside, faults, run, version, clients, register, seen, file, created,
                  replaced, attempted, undo, status, lapse, edits, edited>>
  BY <1>1 DEF diskVars, planVars, writeVars, outVars, userVars
<1>3. SetupTypeOK'
  BY <1>2 DEF ShapeInv, SetupTypeOK, FilesTyped, RunTyped, AsideTyped
<1>4. /\ Chosen' = Chosen /\ Installed' = Installed
      /\ Conflicts(clients, seen, version)' = Conflicts(clients, seen, version)
      /\ \A f : Mine(f)' = Mine(f) /\ Replaced(f)' = Replaced(f)
      /\ \A f, a : Of(f, a)' = Of(f, a)
  BY <1>1, <1>2, PlanKept, SameEntries DEF Installed
<1>5. \/ pc = "recheck" /\ pc' = "next"
      \/ pc = "next" /\ pc' = "manifest"
      \/ pc = "manifest" /\ pc' = "register"
      \/ pc = "check" /\ pc' = "move"
      \/ pc = "moved" /\ pc' = "publish"
      \/ pc = "undo" /\ pc' = "idle"
  BY DEF Rechecked, Check, End
<1>6. Phases'
  BY <1>2, <1>4, <1>5 DEF ShapeInv, Phases, Forward, Writing, Undoing
<1>7. ListsOK'
  BY <1>2, <1>4, <1>5 DEF ShapeInv, ListsOK, Forward, Writing
<1>8. NamesThere'
  BY <1>2, <1>4, <1>5 DEF ShapeInv, NamesThere, ItemReady, Forward, Writing, Undoing
<1>9. Once(undo)'
  BY <1>2 DEF ShapeInv, Once
<1> QED
  BY <1>3, <1>6, <1>7, <1>8, <1>9 DEF ShapeInv

LEMMA ShapeCrash ==
  ASSUME ShapeInv, Crash
  PROVE  ShapeInv'
<1>1. /\ UNCHANGED <<live, aside, faults, run, version, clients, register, seen, file, created,
                     replaced, attempted, lapse, edits, edited>>
      /\ pc' = "idle" /\ undo' = <<>>
  BY DEF Crash, diskVars, planVars, writeVars, outVars, userVars
<1>2. SetupTypeOK'
  <2>1. <<>> \in Seq(Items)
    OBVIOUS
  <2> QED
    BY <1>1, <2>1 DEF ShapeInv, SetupTypeOK, FilesTyped, RunTyped, AsideTyped
<1> QED
  BY <1>1, <1>2 DEF ShapeInv, Phases, ListsOK, NamesThere, Once, Forward, Writing, Undoing

LEMMA ShapeEdit ==
  ASSUME ShapeInv, NEW f \in Files, Edit(f)
  PROVE  ShapeInv'
<1>1. /\ UNCHANGED <<aside, registered, faults, pc, planVars, writeVars, undo, outVars>>
      /\ UNCHANGED <<aside, faults, pc, run, version, clients, register, seen, file, created,
                     replaced, attempted, undo, status, lapse>>
      /\ edits' = edits + 1
      /\ \E x : live' = [live EXCEPT ![f] = x]
      /\ \E e, l, a : edited' = [edited EXCEPT ![f] = [when |-> e, left |-> l, all |-> a]]
  BY DEF Edit, planVars, writeVars, outVars
<1>2. SetupTypeOK'
  <2>1. FilesTyped /\ AsideTyped /\ RunTyped
    BY DEF ShapeInv, SetupTypeOK
  <2>2. PICK x : live' = [live EXCEPT ![f] = x]
    BY <1>1
  <2>3. PICK e, l, a : edited' = [edited EXCEPT ![f] = [when |-> e, left |-> l, all |-> a]]
    BY <1>1
  <2>4. live' = [g \in Files |-> live'[g]] /\ seen' = [g \in Files |-> seen'[g]]
    BY <1>1, <2>1, <2>2 DEF FilesTyped
  <2>5. edited' = [g \in Files |-> IF g = f THEN [when |-> e, left |-> l, all |-> a]
                                   ELSE edited[g]]
    BY <2>1, <2>3 DEF FilesTyped
  <2>6. FilesTyped'
    BY <2>1, <2>4, <2>5 DEF FilesTyped
  <2>7. AsideTyped' /\ RunTyped'
    BY <1>1, <2>1 DEF AsideTyped, RunTyped
  <2> QED
    BY <2>6, <2>7 DEF SetupTypeOK
<1>3. /\ Chosen' = Chosen /\ Installed' = Installed
      /\ Conflicts(clients, seen, version)' = Conflicts(clients, seen, version)
      /\ \A g : Mine(g)' = Mine(g) /\ Replaced(g)' = Replaced(g)
      /\ \A g, a : Of(g, a)' = Of(g, a)
  BY <1>1, PlanKept, SameEntries DEF Installed
<1>4. Phases'
  BY <1>1, <1>3 DEF ShapeInv, Phases, Forward, Writing, Undoing
<1>5. ListsOK'
  BY <1>1, <1>3 DEF ShapeInv, ListsOK, Forward, Writing
<1>6. NamesThere'
  BY <1>1, <1>3 DEF ShapeInv, NamesThere, ItemReady, Forward, Writing, Undoing, Target
<1>7. Once(undo)'
  BY <1>1 DEF ShapeInv, Once
<1> QED
  BY <1>2, <1>4, <1>5, <1>6, <1>7 DEF ShapeInv

-----------------------------------------------------------------------------
(* The steps of writing keep the shape.                                    *)

LEMMA FilesStayTyped ==
  ASSUME FilesTyped, UNCHANGED <<seen, edited>>,
         live' = live \/ \E g, x : live' = [live EXCEPT ![g] = x]
  PROVE  FilesTyped'
BY DEF FilesTyped

LEMMA ShapeStage ==
  ASSUME ShapeInv, NEW f \in Files, Stage(f)
  PROVE  ShapeInv'
<1>1. /\ UNCHANGED <<live, registered, faults, planVars, created, replaced, attempted, undo,
                     outVars, userVars>>
      /\ file' = f /\ aside' = Put(f, "stage", Mine(f))
      /\ pc' = IF Replaced(f) THEN "check" ELSE "publish"
      /\ \/ pc = "next" /\ Todo(f)
         \/ pc = "manifest" /\ ~ManifestDone /\ f = Manifest
  BY DEF Stage
<1>2. UNCHANGED <<run, version, clients, register, seen, status, lapse, edits, edited>>
  BY <1>1 DEF planVars, outVars, userVars
<1>3. /\ Chosen' = Chosen /\ Installed' = Installed
      /\ Conflicts(clients, seen, version)' = Conflicts(clients, seen, version)
      /\ \A g : Mine(g)' = Mine(g) /\ Replaced(g)' = Replaced(g)
  BY <1>1, PlanKept DEF Installed
<1>4. /\ AsideTyped'
      /\ Of(f, "stage")' = Of(f, "stage") \cup {[as |-> "stage", run |-> run, file |-> Mine(f)]}
      /\ \A g \in Files : \A a : g # f \/ a # "stage" => Of(g, a)' = Of(g, a)
  BY <1>1, <1>2, PutAdds DEF ShapeInv
<1>5. SetupTypeOK'
  BY <1>1, <1>2, <1>4 DEF ShapeInv, SetupTypeOK, FilesTyped, RunTyped
<1>6. Phases'
  BY <1>1, <1>2, <1>3 DEF ShapeInv, Phases, Forward, Writing, Undoing
<1>7. f \in (Chosen \cup {Manifest}) \ Installed /\ Manifest \notin Installed
  BY <1>1 DEF ShapeInv, ListsOK, Todo, ManifestDone, Forward, Writing
<1>8. ListsOK'
  BY <1>1, <1>2, <1>3, <1>7 DEF ShapeInv, ListsOK, Forward, Writing
<1>9. NamesThere'
  <2>1. \A g \in Files : \A e \in Of(g, "stage")' : e.file = Mine(g)
    BY <1>1, <1>4 DEF ShapeInv, NamesThere
  <2>2. \A g \in Files : Of(g, "backup")' = Of(g, "backup")
    BY <1>4
  <2>3. ToSet(replaced) \subseteq Files
    BY DEF ShapeInv, SetupTypeOK, RunTyped, ToSet
  <2> QED
    BY <1>1, <1>2, <1>3, <1>4, <2>1, <2>2, <2>3 DEF ShapeInv, NamesThere, Forward, Writing, Undoing
<1>10. Once(undo)'
  BY <1>1 DEF ShapeInv, Once
<1> QED
  BY <1>5, <1>6, <1>8, <1>9, <1>10 DEF ShapeInv

LEMMA ShapeMove ==
  ASSUME ShapeInv, Move
  PROVE  ShapeInv'
<1>1. /\ UNCHANGED <<registered, faults, planVars, writeVars, undo, outVars, userVars>>
      /\ aside' = Put(file, "backup", live[file]) /\ live' = [live EXCEPT ![file] = NoFile]
      /\ pc = "move" /\ pc' = "moved"
  BY DEF Move
<1>2. /\ UNCHANGED <<run, version, clients, register, seen, file, created, replaced, attempted,
                     undo, status, lapse, faults, edits, edited>>
      /\ file \in Files
  BY <1>1 DEF planVars, writeVars, outVars, userVars, ShapeInv, SetupTypeOK, RunTyped
<1>3. /\ Chosen' = Chosen /\ Installed' = Installed
      /\ Conflicts(clients, seen, version)' = Conflicts(clients, seen, version)
      /\ \A g : Mine(g)' = Mine(g) /\ Replaced(g)' = Replaced(g)
  BY <1>1, <1>2, PlanKept DEF Installed
<1>4. /\ AsideTyped'
      /\ Of(file, "backup")' =
           Of(file, "backup") \cup {[as |-> "backup", run |-> run, file |-> live[file]]}
      /\ \A g \in Files : \A a : g # file \/ a # "backup" => Of(g, a)' = Of(g, a)
  BY <1>1, <1>2, PutAdds DEF ShapeInv
<1>5. SetupTypeOK'
  BY <1>1, <1>2, <1>4, FilesStayTyped DEF ShapeInv, SetupTypeOK, RunTyped
<1>6. Phases'
  BY <1>1, <1>2, <1>3 DEF ShapeInv, Phases, Forward, Writing, Undoing
<1>7. ListsOK'
  BY <1>1, <1>2, <1>3 DEF ShapeInv, ListsOK, Forward, Writing
<1>8. NamesThere'
  <2>1. \A g \in Files : Of(g, "stage")' = Of(g, "stage")
    BY <1>4
  <2>2. ASSUME NEW g \in Files, Of(g, "backup") # {} PROVE Of(g, "backup")' # {}
    <3>1. CASE g = file
      BY <1>2, <1>4, <3>1
    <3>2. CASE g # file
      BY <1>4, <2>2, <3>2
    <3> QED
      BY <3>1, <3>2
  <2>3. ToSet(replaced) \subseteq Files
    BY DEF ShapeInv, SetupTypeOK, RunTyped, ToSet
  <2> QED
    BY <1>1, <1>2, <1>3, <1>4, <2>1, <2>2, <2>3 DEF ShapeInv, NamesThere, Forward, Writing, Undoing
<1>9. Once(undo)'
  BY <1>2 DEF ShapeInv, Once
<1> QED
  BY <1>5, <1>6, <1>7, <1>8, <1>9 DEF ShapeInv

LEMMA ShapePublish ==
  ASSUME ShapeInv, Publish
  PROVE  ShapeInv'
<1>1. /\ UNCHANGED <<registered, faults, planVars, writeVars, undo, outVars, userVars>>
      /\ aside' = Dropped(file, Entry(file, "stage"))
      /\ live' = [live EXCEPT ![file] = Mine(file)]
      /\ pc = "publish" /\ pc' = "published"
  BY DEF Publish
<1>2. /\ UNCHANGED <<run, version, clients, register, seen, file, created, replaced, attempted,
                     undo, status, lapse, faults, edits, edited>>
      /\ file \in Files
  BY <1>1 DEF planVars, writeVars, outVars, userVars, ShapeInv, SetupTypeOK, RunTyped
<1>3. /\ Chosen' = Chosen /\ Installed' = Installed
      /\ Conflicts(clients, seen, version)' = Conflicts(clients, seen, version)
      /\ \A g : Mine(g)' = Mine(g) /\ Replaced(g)' = Replaced(g)
  BY <1>1, <1>2, PlanKept DEF Installed
<1>4. Entry(file, "stage") \in Of(file, "stage")
  BY <1>1, EntryOf DEF ShapeInv, NamesThere
<1>5. /\ AsideTyped'
      /\ Of(file, "stage")' = Of(file, "stage") \ {Entry(file, "stage")}
      /\ \A g \in Files : \A a : g # file \/ a # "stage" => Of(g, a)' = Of(g, a)
  BY <1>1, <1>2, <1>4, DroppedGoes DEF ShapeInv
<1>6. SetupTypeOK'
  BY <1>1, <1>2, <1>5, FilesStayTyped DEF ShapeInv, SetupTypeOK, RunTyped
<1>7. Phases'
  BY <1>1, <1>2, <1>3 DEF ShapeInv, Phases, Forward, Writing, Undoing
<1>8. ListsOK'
  BY <1>1, <1>2, <1>3 DEF ShapeInv, ListsOK, Forward, Writing
<1>9. NamesThere'
  <2>1. ASSUME NEW g \in Files PROVE Of(g, "stage")' \subseteq Of(g, "stage")
    <3>1. CASE g = file
      BY <1>2, <1>5, <3>1
    <3>2. CASE g # file
      BY <1>5, <3>2
    <3> QED
      BY <3>1, <3>2
  <2>2. \A g \in Files : Of(g, "backup")' = Of(g, "backup")
    BY <1>5
  <2>3. ToSet(replaced) \subseteq Files
    BY DEF ShapeInv, SetupTypeOK, RunTyped, ToSet
  <2> QED
    BY <1>1, <1>2, <1>3, <2>1, <2>2, <2>3 DEF ShapeInv, NamesThere, Forward, Writing, Undoing
<1>10. Once(undo)'
  BY <1>2 DEF ShapeInv, Once
<1> QED
  BY <1>6, <1>7, <1>8, <1>9, <1>10 DEF ShapeInv

LEMMA InjectiveAppend ==
  ASSUME NEW S, NEW s \in Seq(S), NEW x \in S, IsInjective(s), x \notin ToSet(s)
  PROVE  IsInjective(Append(s, x))
<1>1. /\ DOMAIN Append(s, x) = DOMAIN s \cup {Len(s) + 1}
      /\ Append(s, x)[Len(s) + 1] = x
      /\ \A i \in DOMAIN s : Append(s, x)[i] = s[i]
  OBVIOUS
<1>2. \A i \in DOMAIN s : s[i] # x
  BY DEF ToSet
<1> QED
  BY <1>1, <1>2 DEF IsInjective

LEMMA ShapeVerify ==
  ASSUME ShapeInv, Verify
  PROVE  ShapeInv'
<1>1. /\ UNCHANGED <<diskVars, registered, faults, planVars, file, attempted, undo, outVars,
                     userVars>>
      /\ IF Replaced(file) THEN replaced' = Append(replaced, file) /\ created' = created
                           ELSE created' = Append(created, file) /\ replaced' = replaced
      /\ pc = "published" /\ pc' = IF file = Manifest THEN "manifest" ELSE "next"
  BY DEF Verify
<1>2. /\ UNCHANGED <<live, aside, run, version, clients, register, seen, file, attempted,
                     undo, status, lapse, faults, edits, edited>>
      /\ file \in Files /\ created \in Seq(Files) /\ replaced \in Seq(Files)
  BY <1>1 DEF diskVars, planVars, outVars, userVars, ShapeInv, SetupTypeOK, RunTyped
<1>3. /\ Chosen' = Chosen
      /\ Conflicts(clients, seen, version)' = Conflicts(clients, seen, version)
      /\ \A g : Mine(g)' = Mine(g) /\ Replaced(g)' = Replaced(g)
      /\ \A g, a : Of(g, a)' = Of(g, a)
  BY <1>1, <1>2, PlanKept, SameEntries
<1>4. /\ ToSet(Append(replaced, file)) = ToSet(replaced) \cup {file}
      /\ ToSet(Append(created, file)) = ToSet(created) \cup {file}
      /\ Append(replaced, file) \in Seq(Files) /\ Append(created, file) \in Seq(Files)
  BY <1>2, AppendToSet
<1>5. /\ file \in (Chosen \cup {Manifest}) \ Installed
      /\ IsInjective(created) /\ IsInjective(replaced)
      /\ Manifest \notin Installed
  BY <1>1 DEF ShapeInv, ListsOK, Forward, Writing
<1>6. IsInjective(Append(replaced, file)) /\ IsInjective(Append(created, file))
  BY <1>2, <1>5, InjectiveAppend DEF Installed
<1>7. Installed' = Installed \cup {file}
  BY <1>1, <1>4 DEF Installed
<1>8. SetupTypeOK'
  BY <1>1, <1>2, <1>4 DEF ShapeInv, SetupTypeOK, FilesTyped, RunTyped, AsideTyped
<1>9. Phases'
  BY <1>1, <1>2, <1>3 DEF ShapeInv, Phases, Forward, Writing, Undoing
<1>10. ListsOK'
  <2>1. Forward
    BY <1>1 DEF Forward, Writing
  <2>2. /\ \A f \in ToSet(created)' : ~Replaced(f)
        /\ \A f \in ToSet(replaced)' : Replaced(f)
    BY <1>1, <1>4, <2>1 DEF ShapeInv, ListsOK
  <2>3. IsInjective(created)' /\ IsInjective(replaced)'
    BY <1>1, <1>5, <1>6 DEF IsInjective
  <2>4. Installed \subseteq Chosen \cup {Manifest}
    BY <2>1 DEF ShapeInv, ListsOK
  <2> QED
    BY <1>1, <1>3, <1>5, <1>7, <2>2, <2>3, <2>4 DEF ListsOK, Forward, Writing
<1>11. NamesThere'
  <2>1. \A f \in ToSet(replaced)' : Of(f, "backup") # {}
    <3>1. \A f \in ToSet(replaced) : Of(f, "backup") # {}
      BY <1>1 DEF ShapeInv, NamesThere, Forward, Writing
    <3>2. Replaced(file) => Of(file, "backup") # {}
      BY <1>1 DEF ShapeInv, NamesThere
    <3> QED
      BY ZenonT(40), <1>1, <1>4, <3>1, <3>2
  <2> QED
    BY <1>1, <1>2, <1>3, <2>1 DEF ShapeInv, NamesThere, Forward, Writing, Undoing
<1>12. Once(undo)'
  BY <1>2 DEF ShapeInv, Once
<1> QED
  BY <1>8, <1>9, <1>10, <1>11, <1>12 DEF ShapeInv

-----------------------------------------------------------------------------
(* A run that fails has everything it needs to take back what it did.       *)

LEMMA SmallLists ==
  ASSUME NEW S, NEW x \in S, NEW y \in S
  PROVE  /\ <<>> \in Seq(S) /\ ToSet(<<>>) = {}
         /\ <<x>> \in Seq(S) /\ ToSet(<<x>>) = {x}
         /\ <<x, y>> \in Seq(S) /\ ToSet(<<x, y>>) = {x, y}
<1>1. DOMAIN <<x>> = {1} /\ DOMAIN <<x, y>> = {1, 2} /\ DOMAIN <<>> = {}
  OBVIOUS
<1>2. ToSet(<<>>) = {} /\ ToSet(<<x>>) = {x}
  BY <1>1 DEF ToSet
<1>3. \A z : z \in ToSet(<<x, y>>) <=> z = x \/ z = y
  BY <1>1 DEF ToSet
<1> QED
  BY <1>2, <1>3

LEMMA PairIsCat ==
  ASSUME NEW S, NEW x \in S, NEW y \in S
  PROVE  <<x>> \o <<y>> = <<x, y>>
<1> DEFINE a == <<x>> \o <<y>>
           b == <<x, y>>
<1>1. a \in Seq(S) /\ Len(a) = 2 /\ a[1] = x /\ a[2] = y
  OBVIOUS
<1>2. b \in Seq(S) /\ Len(b) = 2 /\ b[1] = x /\ b[2] = y
  OBVIOUS
<1>3. \A i \in 1..2 : i = 1 \/ i = 2
  OBVIOUS
<1> HIDE DEF a, b
<1>4. a = b
  BY <1>1, <1>2, <1>3, SeqEqual
<1> QED
  BY <1>4 DEF a, b

\* What the except blocks take back for the file that is being written.
LEMMA UnwrittenItems ==
  ASSUME ShapeInv
  PROVE  /\ Unwritten \in Seq(Items) /\ Once(Unwritten)
         /\ ToSet(Unwritten) = {Item(do, file) : do \in
              {d \in {"stage", "restore", "live"} :
                 \/ d = "stage" /\ pc \in {"check", "move", "moved", "publish"}
                 \/ d = "live" /\ pc = "published"
                 \/ d = "restore" /\ pc = "publish" /\ Replaced(file)
                 \/ d = "restore" /\ pc = "moved" /\ Entry(file, "backup").file.content # "special"}}
<1> DEFINE s == Item("stage", file)
           r == Item("restore", file)
           l == Item("live", file)
<1>1. file \in Files
  BY DEF ShapeInv, SetupTypeOK, RunTyped
<1>2. s \in Items /\ r \in Items /\ l \in Items
  BY <1>1 DEF Items, Item, Actions
<1>3. ~SameName(s, r) /\ ~SameName(r, s)
  BY DEF SameName, Item
<1>4. pc = "moved" => Replaced(file)
  BY DEF ShapeInv, ListsOK
<1> HIDE DEF s, r, l
<1>5. /\ Once(<<>>) /\ Once(<<s>>) /\ Once(<<r>>) /\ Once(<<l>>)
      /\ Once(<<s, r>>) /\ Once(<<r, s>>)
  <2>1. \A x : DOMAIN <<x>> = {1}
    OBVIOUS
  <2>2. \A x, y : DOMAIN <<x, y>> = {1, 2} /\ <<x, y>>[1] = x /\ <<x, y>>[2] = y
    OBVIOUS
  <2>3. DOMAIN <<>> = {}
    OBVIOUS
  <2> QED
    BY <1>3, <2>1, <2>2, <2>3 DEF Once
<1>6. <<>> \o <<s>> = <<s>> /\ <<r>> \o <<s>> = <<r, s>> /\ <<s>> \o <<r>> = <<s, r>>
      /\ <<s>> \o <<>> = <<s>>
  <2>1. <<>> \in Seq(Items) /\ <<s>> \in Seq(Items) /\ <<r>> \in Seq(Items)
    BY <1>2
  <2>2. <<r>> \o <<s>> = <<r, s>> /\ <<s>> \o <<r>> = <<s, r>>
    BY <1>2, PairIsCat
  <2>3. <<>> \o <<s>> = <<s>> /\ <<s>> \o <<>> = <<s>>
    BY <2>1
  <2> QED
    BY <2>2, <2>3
<1> DEFINE Do == {d \in {"stage", "restore", "live"} :
                 \/ d = "stage" /\ pc \in {"check", "move", "moved", "publish"}
                 \/ d = "live" /\ pc = "published"
                 \/ d = "restore" /\ pc = "publish" /\ Replaced(file)
                 \/ d = "restore" /\ pc = "moved" /\ Entry(file, "backup").file.content # "special"}
<1>7. CASE pc \in {"check", "move"}
  <2>1. Unwritten = <<s>>
    BY <1>7 DEF Unwritten, s
  <2>2. Do = {"stage"}
    BY <1>7
  <2>3. {Item(do, file) : do \in Do} = {s}
    BY <2>2 DEF s
  <2> QED
    BY <1>2, <1>5, <2>1, <2>3, SmallLists
<1>8. CASE pc = "moved"
  <2>1. CASE Entry(file, "backup").file.content = "special"
    <3>1. Unwritten = <<s>>
      BY <1>6, <1>8, <2>1 DEF Unwritten, s
    <3>2. Do = {"stage"}
      BY <1>8, <2>1
    <3>3. {Item(do, file) : do \in Do} = {s}
      BY <3>2 DEF s
    <3> QED
      BY <1>2, <1>5, <3>1, <3>3, SmallLists
  <2>2. CASE Entry(file, "backup").file.content # "special"
    <3>1. Unwritten = <<r, s>>
      BY <1>4, <1>6, <1>8, <2>2 DEF Unwritten, s, r
    <3>2. Do = {"stage", "restore"}
      BY <1>8, <2>2
    <3>3. {Item(do, file) : do \in Do} = {r, s}
      BY <3>2 DEF s, r
    <3> QED
      BY <1>2, <1>5, <3>1, <3>3, SmallLists
  <2> QED
    BY <2>1, <2>2
<1>9. CASE pc = "publish"
  <2>1. CASE ~Replaced(file)
    <3>1. Unwritten = <<s>>
      BY <1>6, <1>9, <2>1 DEF Unwritten, s
    <3>2. Do = {"stage"}
      BY <1>9, <2>1
    <3>3. {Item(do, file) : do \in Do} = {s}
      BY <3>2 DEF s
    <3> QED
      BY <1>2, <1>5, <3>1, <3>3, SmallLists
  <2>2. CASE Replaced(file)
    <3>1. Unwritten = <<s, r>>
      BY <1>6, <1>9, <2>2 DEF Unwritten, s, r
    <3>2. Do = {"stage", "restore"}
      BY <1>9, <2>2
    <3>3. {Item(do, file) : do \in Do} = {s, r}
      BY <3>2 DEF s, r
    <3> QED
      BY <1>2, <1>5, <3>1, <3>3, SmallLists
  <2> QED
    BY <2>1, <2>2
<1>10. CASE pc = "published"
  <2>1. Unwritten = <<l>>
    BY <1>10 DEF Unwritten, l
  <2>2. Do = {"live"}
    BY <1>10
  <2>3. {Item(do, file) : do \in Do} = {l}
    BY <2>2 DEF l
  <2> QED
    BY <1>2, <1>5, <2>1, <2>3, SmallLists
<1>11. CASE ~Writing
  <2>1. Unwritten = <<>>
    BY <1>11 DEF Unwritten, Writing
  <2>2. Do = {}
    BY <1>11 DEF Writing
  <2>3. {Item(do, file) : do \in Do} = {}
    BY <2>2
  <2> QED
    BY <1>2, <1>5, <2>1, <2>3, SmallLists
<1> QED
  BY <1>7, <1>8, <1>9, <1>10, <1>11 DEF Writing

\* The list to take back, its first part being for the file that is being written
\* or for the clients that were registered.
LEMMA ShapeFails ==
  ASSUME ShapeInv, Forward, NEW first \in Seq(Items), Once(first), Fail(first),
         \A x \in ToSet(first) : ItemReady(x) /\ (x.do = "unregister" \/ x.of \notin Installed),
         UNCHANGED <<diskVars, planVars, file, created, replaced, lapse, userVars>>,
         attempted' \in Seq(ToSet(Clients)), faults' \in Nat
  PROVE  /\ ShapeInv'
         /\ ToSet(undo)' = ToSet(first) \cup {Item("live", f) : f \in Installed}
<1>1. /\ undo' = first \o Rollback /\ pc' = "undo" /\ status' = "rolled_back"
      /\ UNCHANGED <<live, aside, run, version, clients, register, seen, file, created,
                     replaced, lapse, edits, edited>>
  BY DEF Fail, diskVars, planVars, userVars
<1>2. SetupTypeOK /\ ListsOK /\ NamesThere /\ Phases
  BY DEF ShapeInv
<1>3. /\ IsInjective(created) /\ IsInjective(replaced)
      /\ ToSet(created) \cap ToSet(replaced) = {}
  BY <1>2 DEF ListsOK
<1>4. /\ Rollback \in Seq(Items) /\ Once(Rollback)
      /\ ToSet(Rollback) = {Item("live", f) : f \in Installed}
  BY <1>2, <1>3, RollbackItems
<1>5. undo' \in Seq(Items) /\ ToSet(undo)' = ToSet(first) \cup {Item("live", f) : f \in Installed}
  BY <1>1, <1>4, CatToSet
<1>6. Once(undo)'
  <2>1. ASSUME NEW x \in ToSet(first), NEW f \in Installed PROVE ~SameName(x, Item("live", f))
    BY DEF SameName, Item
  <2>2. Once(first \o Rollback)
    BY <1>4, <2>1, OnceCat
  <2> QED
    BY <1>1, <2>2 DEF Once
<1>7. SetupTypeOK'
  BY <1>1, <1>2, <1>5 DEF SetupTypeOK, FilesTyped, AsideTyped, RunTyped
<1>8. /\ Chosen' = Chosen /\ Installed' = Installed
      /\ Conflicts(clients, seen, version)' = Conflicts(clients, seen, version)
      /\ \A f : Mine(f)' = Mine(f) /\ Replaced(f)' = Replaced(f)
      /\ \A f, a : Of(f, a)' = Of(f, a)
  BY <1>1, PlanKept, SameEntries DEF Installed
<1>9. Phases'
  BY <1>1, <1>2, <1>8 DEF Phases, Forward, Writing, Undoing
<1>10. ListsOK'
  BY <1>1 DEF ListsOK, Forward, Writing
<1>11. ASSUME NEW f \in Installed PROVE ItemReady(Item("live", f))
  <2>1. created \in Seq(Files) /\ replaced \in Seq(Files)
    BY <1>2 DEF SetupTypeOK, RunTyped
  <2>2. f \in Files
    BY <2>1 DEF Installed, ToSet
  <2>3. Replaced(f) => Of(f, "backup") # {}
    BY <1>2 DEF NamesThere, ListsOK, Installed
  <2> QED
    BY <2>2, <2>3 DEF ItemReady, Item
<1>12. \A x : ItemReady(x)' <=> ItemReady(x)
  BY <1>8 DEF ItemReady
<1>13. NamesThere'
  <2>1. \A x \in ToSet(undo)' : ItemReady(x)'
    BY <1>5, <1>11, <1>12
  <2>2. \A f \in Files : \A e \in Of(f, "stage")' : e.file = Mine(f)'
    BY <1>2, <1>8 DEF NamesThere, Forward, Writing
  <2> QED
    BY <1>1, <2>1, <2>2 DEF NamesThere, Forward, Writing
<1> QED
  BY <1>5, <1>6, <1>7, <1>9, <1>10, <1>13 DEF ShapeInv

LEMMA FailsForward ==
  ASSUME ShapeInv, Refuse \/ Error
  PROVE  /\ Forward /\ Fail(Unwritten) /\ faults' \in Nat
         /\ UNCHANGED <<diskVars, registered, planVars, writeVars, reported, failed, lapse, userVars>>
<1>1. Forward
  <2>1. ASSUME Refuse PROVE Forward
    BY <2>1 DEF Refuse, Surprise, Forward, Writing
  <2>2. ASSUME Error PROVE Forward
    BY <2>2 DEF Error, ShapeInv, Phases, Undoing
  <2> QED
    BY <2>1, <2>2
<1>2. faults \in Nat
  BY DEF ShapeInv, SetupTypeOK, RunTyped
<1> QED
  BY <1>1, <1>2 DEF Refuse, Error, Fault

LEMMA ShapeFailsWriting ==
  ASSUME ShapeInv, Refuse \/ Error
  PROVE  /\ ShapeInv'
         /\ ToSet(undo)' = ToSet(Unwritten) \cup {Item("live", f) : f \in Installed}
<1>1. /\ Forward /\ Fail(Unwritten) /\ faults' \in Nat
      /\ UNCHANGED <<diskVars, registered, planVars, writeVars, reported, failed, lapse, userVars>>
  BY FailsForward
<1>2. UNCHANGED <<file, created, replaced, attempted>> /\ attempted \in Seq(ToSet(Clients))
      /\ file \in Files
  BY <1>1 DEF writeVars, ShapeInv, SetupTypeOK, RunTyped
<1>3. ASSUME NEW x \in ToSet(Unwritten) PROVE ItemReady(x) /\ x.of \notin Installed
  <2>1. PICK d : /\ x = Item(d, file)
                 /\ \/ d = "stage" /\ pc \in {"check", "move", "moved", "publish"}
                    \/ d = "live" /\ pc = "published"
                    \/ d = "restore" /\ ((pc = "publish" /\ Replaced(file)) \/ pc = "moved")
    BY UnwrittenItems
  <2>2. x.do = d /\ x.of = file
    BY <2>1 DEF Item
  <2>3. file \notin Installed
    BY <2>1 DEF ShapeInv, ListsOK, Writing
  <2>4. pc = "moved" => Replaced(file)
    BY DEF ShapeInv, ListsOK
  <2> QED
    BY <1>2, <2>1, <2>2, <2>3, <2>4 DEF ItemReady, ShapeInv, NamesThere
<1>4. Unwritten \in Seq(Items) /\ Once(Unwritten)
  BY UnwrittenItems
<1> QED
  BY <1>1, <1>2, <1>3, <1>4, ShapeFails

\* The clients that were registered, the last one first.
LEMMA Unregistrations ==
  ASSUME NEW cs \in Seq(ToSet(Clients)),
         NEW first, first = Reverse([i \in DOMAIN cs |-> Item("unregister", cs[i])])
  PROVE  /\ first \in Seq(Items) /\ Once(first)
         /\ ToSet(first) = {Item("unregister", c) : c \in ToSet(cs)}
<1> DEFINE items == [i \in DOMAIN cs |-> Item("unregister", cs[i])]
<1>1. \A c \in ToSet(Clients) : Item("unregister", c) \in Items
  BY DEF Items, Item, Actions
<1>2. items \in Seq(Items) /\ DOMAIN items = DOMAIN cs
  BY <1>1
<1>3. ToSet(items) = {Item("unregister", c) : c \in ToSet(cs)}
  BY DEF ToSet
<1>4. first \in Seq(Items) /\ ToSet(first) = {Item("unregister", c) : c \in ToSet(cs)}
  <2>1. first = Reverse(items)
    OBVIOUS
  <2> HIDE DEF items
  <2>2. Reverse(items) \in Seq(Items) /\ ToSet(Reverse(items)) = ToSet(items)
    BY <1>2, ReverseToSet
  <2> QED
    BY <1>3, <2>1, <2>2
<1>5. \A i \in DOMAIN first : first[i].do = "unregister"
  <2>1. \A i \in DOMAIN first : first[i] \in ToSet(first)
    BY DEF ToSet
  <2> QED
    BY <1>4, <2>1 DEF Item
<1>6. Once(first)
  BY <1>5 DEF Once, SameName
<1> QED
  BY <1>4, <1>6

LEMMA ShapeRegister ==
  ASSUME ShapeInv, NEW c \in ToSet(Clients), Register(c)
  PROVE  /\ ShapeInv'
         /\ pc' = pc \/ /\ pc' = "undo" /\ status' = "rolled_back"
                        /\ ToSet(undo)' = {Item("unregister", d) : d \in ToSet(attempted')} \cup
                                            {Item("live", f) : f \in Installed}
<1> DEFINE all == Append(attempted, c)
           first == Reverse([i \in DOMAIN all |-> Item("unregister", all[i])])
<1>1. /\ pc = "register" /\ attempted' = all
      /\ \/ UNCHANGED <<faults, pc, undo, status>>
         \/ Fault /\ Fail(first)
      /\ UNCHANGED <<diskVars, planVars, file, created, replaced, reported, failed, lapse, userVars>>
  BY DEF Register
<1>2. all \in Seq(ToSet(Clients)) /\ attempted \in Seq(ToSet(Clients)) /\ faults \in Nat
  BY AppendToSet DEF ShapeInv, SetupTypeOK, RunTyped
<1> HIDE DEF all
<1>3. ASSUME UNCHANGED <<faults, pc, undo, status>> PROVE ShapeInv'
  <2>1. UNCHANGED <<live, aside, run, version, clients, register, seen, file, created, replaced,
                    undo, pc, status, lapse, faults, edits, edited>>
    BY <1>1, <1>3 DEF diskVars, planVars, userVars
  <2>2. SetupTypeOK'
    BY <1>1, <1>2, <2>1 DEF ShapeInv, SetupTypeOK, FilesTyped, AsideTyped, RunTyped
  <2>3. /\ Chosen' = Chosen /\ Installed' = Installed
        /\ Conflicts(clients, seen, version)' = Conflicts(clients, seen, version)
        /\ \A f : Mine(f)' = Mine(f) /\ Replaced(f)' = Replaced(f)
        /\ \A f, a : Of(f, a)' = Of(f, a)
    BY <1>1, <2>1, PlanKept, SameEntries DEF Installed
  <2>4. Phases'
    BY <2>1, <2>3 DEF ShapeInv, Phases, Forward, Writing, Undoing
  <2>5. ListsOK'
    BY <2>1, <2>3 DEF ShapeInv, ListsOK, Forward, Writing
  <2>6. NamesThere'
    BY <1>1, <2>1, <2>3 DEF ShapeInv, NamesThere, Forward, Writing, Undoing
  <2>7. Once(undo)'
    BY <2>1 DEF ShapeInv, Once
  <2> QED
    BY <2>2, <2>4, <2>5, <2>6, <2>7 DEF ShapeInv
<1>4. ASSUME Fault, Fail(first)
      PROVE  /\ ShapeInv'
             /\ pc' = "undo" /\ status' = "rolled_back"
             /\ ToSet(undo)' = {Item("unregister", d) : d \in ToSet(attempted')} \cup
                                 {Item("live", f) : f \in Installed}
  <2>1. /\ first \in Seq(Items) /\ Once(first)
        /\ ToSet(first) = {Item("unregister", d) : d \in ToSet(all)}
    BY <1>2, Unregistrations
  <2> HIDE DEF first
  <2>2. \A x \in ToSet(first) : x.do = "unregister" /\ ItemReady(x)
    BY <2>1 DEF Item, ItemReady
  <2>3. Forward /\ faults' \in Nat /\ attempted' \in Seq(ToSet(Clients))
    BY <1>1, <1>2, <1>4 DEF Forward, Fault
  <2>4. ShapeInv' /\ ToSet(undo)' = ToSet(first) \cup {Item("live", f) : f \in Installed}
    BY <1>1, <1>4, <2>1, <2>2, <2>3, ShapeFails
  <2> QED
    BY <1>1, <1>4, <2>1, <2>4 DEF Fail
<1> QED
  BY <1>1, <1>3, <1>4

LEMMA ShapeFinish ==
  ASSUME ShapeInv, Finish
  PROVE  /\ ShapeInv'
         /\ ToSet(undo)' = {Item("retire", f) : f \in ToSet(replaced)}
<1>1. /\ UNCHANGED <<live, aside, faults, run, version, clients, register, seen, file, created,
                     replaced, attempted, lapse, edits, edited>>
      /\ UNCHANGED planVars
      /\ undo' = [i \in DOMAIN replaced |-> Item("retire", replaced[i])]
      /\ pc = "register" /\ pc' = "undo" /\ status' = "installed"
  BY DEF Finish, diskVars, planVars, writeVars, userVars
<1>2. /\ replaced \in Seq(Files) /\ IsInjective(replaced)
      /\ \A f \in ToSet(replaced) : Of(f, "backup") # {}
  BY <1>1 DEF ShapeInv, SetupTypeOK, RunTyped, ListsOK, NamesThere, Forward
<1>3. \A f \in Files : Item("retire", f) \in Items
  BY DEF Items, Item, Actions
<1>4. undo' \in Seq(Items) /\ DOMAIN undo' = DOMAIN replaced
  BY <1>1, <1>2, <1>3
<1>5. ToSet(undo') = {Item("retire", f) : f \in ToSet(replaced)}
  BY <1>1, <1>4 DEF ToSet
<1>6. Once(undo')
  BY <1>1, <1>2, <1>4 DEF Once, SameName, Item, IsInjective
<1>7. SetupTypeOK'
  BY <1>1, <1>4 DEF ShapeInv, SetupTypeOK, FilesTyped, AsideTyped, RunTyped
<1>8. /\ Conflicts(clients, seen, version)' = Conflicts(clients, seen, version)
      /\ \A f : Mine(f)' = Mine(f) /\ Replaced(f)' = Replaced(f)
      /\ \A f, a : Of(f, a)' = Of(f, a)
  BY <1>1, PlanKept, SameEntries
<1>9. \A x \in ToSet(undo') : x.do = "retire" /\ x.of \in ToSet(replaced) /\ x.of \in Files
  BY <1>2, <1>5 DEF Item, ToSet
<1>10. Phases'
  BY <1>1, <1>8, <1>9 DEF ShapeInv, Phases, Forward, Writing, Undoing
<1>11. ListsOK'
  BY <1>1 DEF ListsOK, Forward, Writing
<1>12. NamesThere'
  <2>1. \A x \in ToSet(undo') : ItemReady(x)'
    BY <1>2, <1>8, <1>9 DEF ItemReady
  <2>2. \A f \in Files : \A e \in Of(f, "stage")' : e.file = Mine(f)'
    BY <1>1, <1>8 DEF ShapeInv, NamesThere
  <2> QED
    BY <1>1, <2>1, <2>2 DEF NamesThere, Forward, Writing
<1> QED
  BY <1>5, <1>6, <1>7, <1>10, <1>11, <1>12 DEF ShapeInv, Once

-----------------------------------------------------------------------------
(* Taking back keeps the shape.                                            *)

\* Of all entries of this run, some of one file change, under two names.
OnlyMoves(g, as, to) ==
  /\ AsideTyped' /\ Of(g, as)' \subseteq Of(g, as)
  /\ \A f \in Files : \A a : f # g \/ (a # as /\ a # to) => Of(f, a)' = Of(f, a)

LEMMA RenamedStays ==
  ASSUME SetupTypeOK, NEW g \in Files, NEW as, NEW e \in Of(g, as), NEW to,
         aside' = Renamed(g, e, to), run' = run
  PROVE  OnlyMoves(g, as, to)
<1> DEFINE new == [e EXCEPT !.as = to]
<1>0. AsideTyped /\ run \in Nat /\ run \in 0..run /\ run' = run
  BY SetupAssumption DEF SetupTypeOK, RunTyped
<1>1. /\ e \in aside[g] /\ e.as = as /\ e.run = run
      /\ e = [as |-> e.as, run |-> e.run, file |-> e.file]
  BY <1>0 DEF Of, AsideTyped
<1>2. new = [as |-> to, run |-> run, file |-> e.file]
  BY <1>1
<1>3. new.as = to /\ new.run = run /\ new.file = e.file /\ (to = as => new = e)
  BY <1>1, <1>2
<1> HIDE DEF new
<1>4. aside' = [f \in Files |-> IF f = g THEN (aside[f] \ {e}) \cup {new} ELSE aside[f]]
  BY <1>0 DEF AsideTyped, Renamed, new
<1>5. AsideTyped'
  BY <1>0, <1>2, <1>3, <1>4 DEF AsideTyped
<1>6. Of(g, as)' \subseteq Of(g, as)
  BY <1>0, <1>1, <1>3, <1>4 DEF Of
<1>7. \A f \in Files : \A a : f # g \/ (a # as /\ a # to) => Of(f, a)' = Of(f, a)
  BY <1>0, <1>1, <1>3, <1>4 DEF Of
<1> QED
  BY <1>5, <1>6, <1>7 DEF OnlyMoves

\* A name that is kept for recovery: without an error it is the only one to change.
LEMMA KeepMoves ==
  ASSUME SetupTypeOK, NEW g \in Files, NEW as, NEW e \in Of(g, as), run' = run
  PROVE  as # "kept" /\ e = Entry(g, as) /\ Keep(g, as) =>
           /\ AsideTyped' /\ faults' \in Nat /\ lapse' \in BOOLEAN /\ (lapse => lapse')
           /\ Of(g, as)' \subseteq Of(g, as)
           /\ \A f \in Files : \A a :
                f # g \/ (a # as /\ a # "kept" /\ (a # "quarantine" \/ ~lapse')) =>
                  Of(f, a)' = Of(f, a)
<1>1. SUFFICES ASSUME as # "kept", e = Entry(g, as), Keep(g, as)
               PROVE  /\ AsideTyped' /\ faults' \in Nat /\ lapse' \in BOOLEAN /\ (lapse => lapse')
                      /\ Of(g, as)' \subseteq Of(g, as)
                      /\ \A f \in Files : \A a :
                           f # g \/ (a # as /\ a # "kept" /\ (a # "quarantine" \/ ~lapse')) =>
                             Of(f, a)' = Of(f, a)
  OBVIOUS
<1>2. \/ aside' = Renamed(g, e, "kept") /\ UNCHANGED <<faults, lapse>>
      \/ /\ Fault /\ lapse' = TRUE
         /\ \/ UNCHANGED aside
            \/ \E new \in {"quarantine", "kept"} : aside' = Renamed(g, e, new)
  BY <1>1 DEF Keep
<1>3. /\ faults \in Nat /\ lapse \in BOOLEAN /\ AsideTyped
  BY DEF SetupTypeOK, RunTyped
<1>4. faults' = faults \/ faults' = faults + 1
  BY <1>2, Zenon DEF Fault
<1>5. lapse' = lapse \/ lapse' = TRUE
  BY <1>2
<1>6. faults' \in Nat /\ lapse' \in BOOLEAN /\ (lapse => lapse')
  <2>1. faults' \in Nat
    BY <1>3, <1>4
  <2> QED
    BY <1>3, <1>5, <2>1
<1>7. \A to : aside' = Renamed(g, e, to) => OnlyMoves(g, as, to)
  BY RenamedStays
<1>8. CASE aside' = Renamed(g, e, "kept")
  BY <1>6, <1>7, <1>8 DEF OnlyMoves
<1>9. CASE UNCHANGED aside
  BY <1>3, <1>6, <1>9, SameEntries
<1>10. CASE lapse' = TRUE /\ aside' = Renamed(g, e, "quarantine")
  BY <1>6, <1>7, <1>10 DEF OnlyMoves
<1> QED
  BY <1>2, <1>8, <1>9, <1>10

LEMMA RestItems ==
  ASSUME ShapeInv, Undoing, undo # <<>>
  PROVE  /\ Head(undo) \in Items /\ Head(undo) \in ToSet(undo)
         /\ Tail(undo) \in Seq(Items) /\ Once(Tail(undo))
         /\ ToSet(undo) = {Head(undo)} \cup ToSet(Tail(undo))
         /\ \A x \in ToSet(Tail(undo)) : ~SameName(Head(undo), x)
         /\ Head(undo).do = "live" =>
              /\ Target \in Files /\ Rest \in Seq(Items) /\ Once(Rest)
              /\ ToSet(Rest) = ToSet(Tail(undo)) \cup
                   (IF Replaced(Target) THEN {Item("restore", Target)} ELSE {})
<1>1. undo \in Seq(Items) /\ Once(undo)
  BY DEF ShapeInv, SetupTypeOK, RunTyped
<1>2. /\ Tail(undo) \in Seq(Items) /\ Head(undo) \in Items
      /\ ToSet(undo) = {Head(undo)} \cup ToSet(Tail(undo))
  BY <1>1, TailToSet
<1>3. /\ Once(Tail(undo)) /\ \A x \in ToSet(Tail(undo)) : ~SameName(Head(undo), x)
  BY <1>1, OnceTail
<1>4. ASSUME Head(undo).do = "live"
      PROVE  /\ Target \in Files /\ Rest \in Seq(Items) /\ Once(Rest)
             /\ ToSet(Rest) = ToSet(Tail(undo)) \cup
                  (IF Replaced(Target) THEN {Item("restore", Target)} ELSE {})
  <2> DEFINE r == Item("restore", Target)
  <2>1. ItemReady(Head(undo))
    BY <1>2 DEF ShapeInv, NamesThere
  <2>2. Target \in Files
    BY <1>4, <2>1 DEF ItemReady, Target
  <2>3. r \in Items
    BY <2>2 DEF Items, Item, Actions
  <2>4. ASSUME NEW x \in ToSet(Tail(undo)) PROVE ~SameName(r, x)
    BY <1>3, <1>4 DEF SameName, Item, Target
  <2>5. CASE ~Replaced(Target)
    BY <1>2, <1>3, <2>2, <2>5 DEF Rest
  <2>6. CASE Replaced(Target)
    <3> HIDE DEF r
    <3>1. Rest = <<r>> \o Tail(undo)
      BY <2>6 DEF Rest, r
    <3>2. <<r>> \in Seq(Items) /\ ToSet(<<r>>) = {r}
      BY <2>3, SmallLists
    <3>3. Once(<<r>>)
      <4>1. DOMAIN <<r>> = {1}
        OBVIOUS
      <4> QED
        BY <4>1 DEF Once
    <3>4. Once(Rest)
      BY <1>2, <1>3, <2>4, <3>1, <3>2, <3>3, OnceCat
    <3>5. Rest \in Seq(Items) /\ ToSet(Rest) = {r} \cup ToSet(Tail(undo))
      <4> DEFINE one == <<r>>
                 rest == Tail(undo)
      <4>1. one \in Seq(Items) /\ rest \in Seq(Items)
        BY <1>2, <3>2
      <4> HIDE DEF one, rest
      <4>2. one \o rest \in Seq(Items) /\ ToSet(one \o rest) = ToSet(one) \cup ToSet(rest)
        BY <4>1, CatToSet
      <4> QED
        BY <3>1, <3>2, <4>2 DEF one, rest
    <3> QED
      BY <2>2, <2>6, <3>4, <3>5 DEF r
  <2> QED
    BY <2>5, <2>6
<1> QED
  BY <1>2, <1>3, <1>4

\* One item less, or the restoration in the place of the item that was taken back.
LEMMA ShapeUndoes ==
  ASSUME ShapeInv, Undoing, undo # <<>>, pc' = "undo",
         UNCHANGED <<planVars, writeVars, status, userVars>>,
         faults' \in Nat, lapse' \in BOOLEAN, AsideTyped', FilesTyped',
         undo' = Tail(undo) \/ (undo' = Rest /\ Head(undo).do = "live"),
         \A f \in Files : Of(f, "stage")' \subseteq Of(f, "stage"),
         \A f \in Files : \A a \in {"stage", "backup"} :
            \/ Of(f, a)' = Of(f, a)
            \/ /\ f = Target /\ Head(undo).do # "unregister" /\ undo' = Tail(undo)
               /\ a = "stage" <=> Head(undo).do = "stage"
  PROVE  ShapeInv'
<1>1. /\ UNCHANGED <<run, version, clients, register, seen, file, created, replaced, attempted,
                     edits, edited>>
  BY DEF planVars, writeVars, userVars
<1>2. SetupTypeOK /\ Phases /\ ListsOK /\ NamesThere /\ Once(undo)
  BY DEF ShapeInv
<1>3. /\ Head(undo) \in Items /\ Head(undo) \in ToSet(undo)
      /\ Tail(undo) \in Seq(Items) /\ Once(Tail(undo))
      /\ ToSet(undo) = {Head(undo)} \cup ToSet(Tail(undo))
      /\ \A x \in ToSet(Tail(undo)) : ~SameName(Head(undo), x)
      /\ Head(undo).do = "live" =>
           /\ Target \in Files /\ Rest \in Seq(Items) /\ Once(Rest)
           /\ ToSet(Rest) = ToSet(Tail(undo)) \cup
                (IF Replaced(Target) THEN {Item("restore", Target)} ELSE {})
  BY RestItems
<1>4. undo' \in Seq(Items) /\ Once(undo')
  BY <1>3
<1>5. SetupTypeOK'
  BY <1>1, <1>2, <1>4 DEF SetupTypeOK, RunTyped
<1>6. /\ Chosen' = Chosen
      /\ Conflicts(clients, seen, version)' = Conflicts(clients, seen, version)
      /\ \A f : Mine(f)' = Mine(f) /\ Replaced(f)' = Replaced(f)
  BY PlanKept
<1>7. ASSUME NEW x \in ToSet(undo') PROVE ItemReady(x)'
  <2>1. ItemReady(Head(undo)) /\ \A y \in ToSet(Tail(undo)) : ItemReady(y)
    BY <1>2, <1>3 DEF NamesThere
  <2>2. CASE x \in ToSet(Tail(undo))
    <3>1. ~SameName(Head(undo), x) /\ ItemReady(x)
      BY <1>3, <2>1, <2>2
    <3>2. ASSUME x.do # "unregister", Head(undo).do # "unregister", x.of = Target
          PROVE  ~(x.do = "stage" <=> Head(undo).do = "stage")
      BY <3>1, <3>2 DEF SameName, Target
    <3>3. x.do = "stage" => Of(x.of, "stage")' = Of(x.of, "stage")
      BY <3>1, <3>2 DEF ItemReady
    <3>4. x.do \notin {"stage", "unregister"} => Of(x.of, "backup")' = Of(x.of, "backup")
      BY <3>1, <3>2 DEF ItemReady
    <3> QED
      BY <1>6, <3>1, <3>3, <3>4 DEF ItemReady
  <2>3. CASE x = Item("restore", Target) /\ undo' = Rest /\ Replaced(Target)
             /\ Head(undo).do = "live" /\ x \notin ToSet(Tail(undo))
    <3>1. Target \in Files /\ Of(Target, "backup") # {}
      BY <1>3, <2>1, <2>3 DEF ItemReady, Target
    <3>2. undo' # Tail(undo)
      BY <2>3
    <3>3. \A f \in Files : Of(f, "backup")' = Of(f, "backup")
      BY <3>2
    <3>4. x.do = "restore" /\ x.of = Target
      BY <2>3 DEF Item
    <3>5. Of(x.of, "backup")' # {} /\ x.of \in Files
      BY <3>1, <3>3, <3>4
    <3> QED
      BY <3>4, <3>5 DEF ItemReady
  <2> QED
    BY <1>3, <2>2, <2>3
<1>8. Phases'
  <2>1. status = "installed" => undo' = Tail(undo)
    BY <1>2, <1>3 DEF Phases
  <2>2. status = "installed" => \A x \in ToSet(undo') : x.do = "retire"
    BY <1>2, <1>3, <2>1 DEF Phases
  <2> QED
    BY <1>1, <1>2, <1>6, <2>2 DEF Phases, Forward, Writing, Undoing
<1>9. ListsOK'
  BY DEF ListsOK, Forward, Writing
<1>10. NamesThere'
  <2>1. \A f \in Files : \A e \in Of(f, "stage")' : e.file = Mine(f)'
    BY <1>2, <1>6 DEF NamesThere, Undoing
  <2> QED
    BY <1>7, <2>1 DEF NamesThere, Forward, Writing
<1> QED
  BY <1>4, <1>5, <1>8, <1>9, <1>10 DEF ShapeInv, Once

LEMMA DoingItem ==
  ASSUME ShapeInv, Undoing, undo # <<>>
  PROVE  /\ ItemReady(Head(undo)) /\ Head(undo) \in Items
         /\ status = "installed" => Head(undo).do = "retire"
         /\ Head(undo).do # "unregister" => Target \in Files
<1>1. Head(undo) \in ToSet(undo) /\ Head(undo) \in Items
  BY RestItems
<1> QED
  BY <1>1 DEF ShapeInv, NamesThere, Phases, ItemReady, Target

LEMMA ShapeUnregister ==
  ASSUME ShapeInv, Unregister
  PROVE  ShapeInv'
<1>1. /\ pc = "undo" /\ undo # <<>> /\ Undoing /\ undo' = Tail(undo) /\ pc' = "undo"
      /\ UNCHANGED <<diskVars, planVars, writeVars, status, lapse, userVars>>
      /\ UNCHANGED <<live, aside, run, seen, edited, lapse>>
      /\ faults' = faults \/ faults' = faults + 1
  BY DEF Unregister, Doing, Undoing, diskVars, planVars, userVars, Fault
<1>2. faults \in Nat /\ lapse \in BOOLEAN /\ AsideTyped /\ FilesTyped
  BY DEF ShapeInv, SetupTypeOK, RunTyped
<1>3. faults' \in Nat /\ lapse' \in BOOLEAN
  BY <1>1, <1>2
<1>4. AsideTyped' /\ \A f, a : Of(f, a)' = Of(f, a)
  BY <1>1, <1>2, SameEntries
<1>5. FilesTyped'
  BY <1>1, <1>2, FilesStayTyped
<1>6. \A f \in Files : \A a \in {"stage", "backup"} :
        \/ Of(f, a)' = Of(f, a)
        \/ /\ f = Target /\ Head(undo).do # "unregister" /\ undo' = Tail(undo)
           /\ a = "stage" <=> Head(undo).do = "stage"
  BY <1>4
<1>7. \A f \in Files : Of(f, "stage")' \subseteq Of(f, "stage")
  BY <1>4
<1> QED
  BY <1>1, <1>3, <1>4, <1>5, <1>6, <1>7, ShapeUndoes

LEMMA ShapeKeepItem ==
  ASSUME ShapeInv, KeepItem
  PROVE  ShapeInv'
<1>1. /\ pc = "undo" /\ undo # <<>> /\ Undoing /\ undo' = Tail(undo) /\ pc' = "undo"
      /\ UNCHANGED <<planVars, writeVars, status, userVars>> /\ UNCHANGED <<live, run, seen, edited>>
      /\ \/ Head(undo).do = "stage" /\ Keep(Target, "stage")
         \/ Head(undo).do = "retire" /\ Keep(Target, "backup")
  BY DEF KeepItem, Doing, Undoing, planVars, userVars
<1>2. SetupTypeOK /\ FilesTyped
  BY DEF ShapeInv, SetupTypeOK
<1>3. PICK as \in {"stage", "backup"} :
        /\ Keep(Target, as) /\ Of(Target, as) # {} /\ Head(undo).do # "unregister"
        /\ as = "stage" <=> Head(undo).do = "stage"
  BY <1>1, DoingItem DEF ItemReady, Target
<1>4. PICK g \in Files : g = Target
  BY <1>1, <1>3, DoingItem
<1>5. PICK e \in Of(g, as) : e = Entry(g, as)
  BY <1>3, <1>4, EntryOf
<1>6. as # "kept" /\ Keep(g, as)
  BY <1>3, <1>4
<1>7. /\ AsideTyped' /\ faults' \in Nat /\ lapse' \in BOOLEAN
      /\ Of(g, as)' \subseteq Of(g, as)
      /\ \A f \in Files : \A a :
           f # g \/ (a # as /\ a # "kept" /\ (a # "quarantine" \/ ~lapse')) =>
             Of(f, a)' = Of(f, a)
  BY <1>1, <1>2, <1>5, <1>6, KeepMoves
<1>8. FilesTyped'
  BY <1>1, <1>2, FilesStayTyped
<1>9. ASSUME NEW f \in Files, NEW a \in {"stage", "backup"}
      PROVE  \/ Of(f, a)' = Of(f, a)
             \/ /\ f = Target /\ Head(undo).do # "unregister" /\ undo' = Tail(undo)
                /\ a = "stage" <=> Head(undo).do = "stage"
  BY <1>1, <1>3, <1>4, <1>7
<1>10. ASSUME NEW f \in Files PROVE Of(f, "stage")' \subseteq Of(f, "stage")
  <2>1. CASE f = g /\ as = "stage"
    BY <1>7, <2>1
  <2>2. CASE f # g \/ as # "stage"
    BY <1>7, <2>2
  <2> QED
    BY <2>1, <2>2
<1> QED
  BY <1>1, <1>7, <1>8, <1>9, <1>10, ShapeUndoes

\* Where an entry moves from "quarantine", the names the undo list uses are as before.
LEMMA ShapeQuarantine ==
  ASSUME ShapeInv, Undoing, undo # <<>>, Head(undo).do = "live", pc' = "undo", undo' = Rest,
         UNCHANGED <<planVars, writeVars, status, userVars>>,
         faults' \in Nat, lapse' \in BOOLEAN, AsideTyped',
         live' = live \/ \E g, x : live' = [live EXCEPT ![g] = x],
         \A f \in Files : \A a \in {"stage", "backup"} : Of(f, a)' = Of(f, a)
  PROVE  ShapeInv'
<1>1. UNCHANGED <<seen, edited>>
  BY DEF planVars, userVars
<1>2. FilesTyped'
  BY <1>1, FilesStayTyped DEF ShapeInv, SetupTypeOK
<1>3. \A f \in Files : \A a \in {"stage", "backup"} :
        \/ Of(f, a)' = Of(f, a)
        \/ /\ f = Target /\ Head(undo).do # "unregister" /\ undo' = Tail(undo)
           /\ a = "stage" <=> Head(undo).do = "stage"
  OBVIOUS
<1>4. \A f \in Files : Of(f, "stage")' \subseteq Of(f, "stage")
  OBVIOUS
<1> QED
  BY <1>2, <1>3, <1>4, ShapeUndoes

LEMMA ShapeTake ==
  ASSUME ShapeInv, Take
  PROVE  ShapeInv'
<1>1. /\ pc = "undo" /\ undo # <<>> /\ Undoing /\ Head(undo).do = "live"
      /\ UNCHANGED <<planVars, writeVars, status, userVars>> /\ UNCHANGED <<run, seen, edited>>
      /\ \/ /\ aside' = Put(Target, "quarantine", live[Target])
            /\ live' = [live EXCEPT ![Target] = NoFile]
            /\ pc' = "taken" /\ UNCHANGED <<undo, faults, lapse>>
         \/ undo' = Rest /\ pc' = "undo" /\ UNCHANGED <<live, aside, faults, lapse>>
         \/ undo' = Rest /\ pc' = "undo" /\ UNCHANGED <<live, aside>>
              /\ faults' = faults + 1 /\ lapse' = TRUE
  BY DEF Take, Doing, Undoing, planVars, userVars, diskVars, Fault
<1>2. faults \in Nat /\ lapse \in BOOLEAN /\ AsideTyped /\ FilesTyped /\ SetupTypeOK
  BY DEF ShapeInv, SetupTypeOK, RunTyped
<1>3. CASE UNCHANGED <<live, aside>> /\ undo' = Rest /\ pc' = "undo"
           /\ faults' \in Nat /\ lapse' \in BOOLEAN
  <2>1. AsideTyped' /\ \A f, a : Of(f, a)' = Of(f, a)
    BY <1>1, <1>2, <1>3, SameEntries
  <2> QED
    BY <1>1, <1>3, <2>1, ShapeQuarantine
<1>4. CASE /\ aside' = Put(Target, "quarantine", live[Target])
           /\ live' = [live EXCEPT ![Target] = NoFile]
           /\ pc' = "taken" /\ UNCHANGED <<undo, faults, lapse>>
  <2>1. Target \in Files /\ Target' = Target /\ status = "rolled_back"
    BY <1>1, <1>4, DoingItem DEF Target, ShapeInv, Phases
  <2>2. /\ AsideTyped' /\ Of(Target, "quarantine")' # {}
        /\ \A f \in Files : \A a : a # "quarantine" => Of(f, a)' = Of(f, a)
    <3>1. PICK g \in Files : g = Target
      BY <2>1
    <3>2. aside' = Put(g, "quarantine", live[g])
      BY <1>4, <3>1
    <3>3. /\ AsideTyped'
          /\ Of(g, "quarantine")' =
               Of(g, "quarantine") \cup {[as |-> "quarantine", run |-> run, file |-> live[g]]}
          /\ \A f \in Files : \A a : f # g \/ a # "quarantine" => Of(f, a)' = Of(f, a)
      BY <1>1, <1>2, <3>2, PutAdds
    <3>4. Of(g, "quarantine")' # {}
      BY <3>3
    <3> QED
      BY <2>1, <3>1, <3>3, <3>4
  <2>3. SetupTypeOK'
    <3>1. FilesTyped'
      BY <1>1, <1>2, <1>4, FilesStayTyped
    <3>2. RunTyped'
      BY <1>1, <1>2, <1>4 DEF SetupTypeOK, RunTyped, planVars, writeVars, userVars
    <3> QED
      BY <2>2, <3>1, <3>2 DEF SetupTypeOK
  <2>4. /\ Conflicts(clients, seen, version)' = Conflicts(clients, seen, version)
        /\ \A f : Mine(f)' = Mine(f) /\ Replaced(f)' = Replaced(f)
    BY <1>1, PlanKept
  <2>5. Phases'
    BY <1>1, <1>4, <2>1, <2>4 DEF planVars, ShapeInv, Phases, Forward, Writing, Undoing
  <2>6. ListsOK'
    BY <1>4 DEF ListsOK, Forward, Writing
  <2>7. \A x \in ToSet(undo) : ItemReady(x)'
    <3>1. \A x \in ToSet(undo) : ItemReady(x)
      BY <1>1 DEF ShapeInv, NamesThere
    <3> QED
      BY <2>2, <2>4, <3>1 DEF ItemReady
  <2>8. NamesThere'
    <3>1. \A f \in Files : \A e \in Of(f, "stage")' : e.file = Mine(f)'
      BY <1>1, <2>2, <2>4 DEF ShapeInv, NamesThere
    <3> QED
      BY <1>4, <2>2, <2>7, <3>1 DEF NamesThere, Forward, Writing
  <2>9. Once(undo)'
    BY <1>4 DEF ShapeInv, Once
  <2> QED
    BY <2>3, <2>5, <2>6, <2>8, <2>9 DEF ShapeInv
<1>5. faults' = faults \/ faults' = faults + 1
  BY <1>1
<1>6. faults' \in Nat
  BY <1>2, <1>5
<1>7. lapse' \in BOOLEAN
  <2>1. lapse' = lapse \/ lapse' = TRUE
    BY <1>1
  <2> QED
    BY <1>2, <2>1
<1> QED
  BY <1>1, <1>3, <1>4, <1>6, <1>7, Zenon

LEMMA ShapeTaken ==
  ASSUME ShapeInv, Taken
  PROVE  ShapeInv'
<1>1. /\ pc = "taken" /\ Undoing /\ pc' = "undo" /\ undo' = Rest
      /\ UNCHANGED <<planVars, writeVars, status, userVars>> /\ UNCHANGED run
  BY DEF Taken, Undoing, planVars
<1>2. undo # <<>> /\ Head(undo).do = "live" /\ SetupTypeOK /\ Of(Target, "quarantine") # {}
  BY <1>1 DEF ShapeInv, Phases, NamesThere
<1>3. PICK g \in Files : g = Target
  BY <1>1, <1>2, DoingItem
<1>4. PICK e \in Of(g, "quarantine") : e = Entry(g, "quarantine")
  BY <1>2, <1>3, EntryOf
<1>5. faults \in Nat /\ lapse \in BOOLEAN /\ AsideTyped
  BY DEF ShapeInv, SetupTypeOK, RunTyped
<1>6. \/ Keep(g, "quarantine") /\ UNCHANGED live
      \/ UNCHANGED <<live, aside, faults, lapse>>
      \/ GiveBack(g, e) /\ UNCHANGED <<faults, lapse>>
      \/ /\ faults' = faults + 1 /\ lapse' = TRUE /\ UNCHANGED live
         /\ UNCHANGED aside \/ aside' = Renamed(g, e, "conflict")
  BY <1>3, <1>4 DEF Taken, diskVars, Fault
<1>7. CASE Keep(g, "quarantine") /\ UNCHANGED live
  <2>1. PICK as : as = "quarantine"
    OBVIOUS
  <2>2. as # "kept" /\ e = Entry(g, as) /\ Keep(g, as) /\ e \in Of(g, as)
    BY <1>4, <1>7, <2>1
  <2>3. /\ AsideTyped' /\ faults' \in Nat /\ lapse' \in BOOLEAN
        /\ \A f \in Files : \A a :
             f # g \/ (a # as /\ a # "kept" /\ (a # "quarantine" \/ ~lapse')) =>
               Of(f, a)' = Of(f, a)
    BY <1>1, <1>2, <2>2, KeepMoves
  <2>4. \A f \in Files : \A a \in {"stage", "backup"} : Of(f, a)' = Of(f, a)
    BY <2>1, <2>3
  <2> QED
    BY <1>1, <1>2, <1>7, <2>3, <2>4, ShapeQuarantine
<1>8. CASE UNCHANGED <<live, aside>> /\ faults' \in Nat /\ lapse' \in BOOLEAN
  <2>1. AsideTyped' /\ \A f, a : Of(f, a)' = Of(f, a)
    BY <1>1, <1>5, <1>8, SameEntries
  <2> QED
    BY <1>1, <1>2, <1>8, <2>1, ShapeQuarantine
<1>9. CASE /\ aside' = Renamed(g, e, "conflict") /\ faults' \in Nat /\ lapse' \in BOOLEAN
           /\ (live' = live \/ \E h, x : live' = [live EXCEPT ![h] = x])
  <2>1. PICK as, to : as = "quarantine" /\ to = "conflict"
    OBVIOUS
  <2>2. e \in Of(g, as) /\ aside' = Renamed(g, e, to)
    BY <1>4, <1>9, <2>1
  <2>3. OnlyMoves(g, as, to)
    BY <1>1, <1>2, <2>2, RenamedStays
  <2>4. AsideTyped' /\ \A f \in Files : \A a \in {"stage", "backup"} : Of(f, a)' = Of(f, a)
    BY <2>1, <2>3 DEF OnlyMoves
  <2> QED
    BY <1>1, <1>2, <1>9, <2>4, ShapeQuarantine
<1>10. CASE UNCHANGED <<faults, lapse>> \/ (faults' = faults + 1 /\ lapse' = TRUE)
  <2>1. faults' = faults \/ faults' = faults + 1
    BY <1>10
  <2>2. faults' \in Nat
    BY <1>5, <2>1
  <2>3. lapse' = lapse \/ lapse' = TRUE
    BY <1>10
  <2>4. lapse' \in BOOLEAN
    BY <1>5, <2>3
  <2>5. GiveBack(g, e) => /\ aside' = Renamed(g, e, "conflict")
                         /\ (live' = live \/ \E h, x : live' = [live EXCEPT ![h] = x])
    BY DEF GiveBack
  <2> QED
    BY <1>6, <1>7, <1>8, <1>9, <2>2, <2>4, <2>5, Zenon
<1> QED
  BY <1>6, <1>7, <1>10, Zenon

LEMMA ShapeRestore ==
  ASSUME ShapeInv, Restore
  PROVE  ShapeInv'
<1>1. /\ pc = "undo" /\ undo # <<>> /\ Undoing /\ Head(undo).do = "restore"
      /\ undo' = Tail(undo) /\ pc' = "undo"
      /\ UNCHANGED <<planVars, writeVars, status, userVars>> /\ UNCHANGED <<run, seen, edited>>
  BY DEF Restore, Doing, Undoing, planVars, userVars
<1>2. SetupTypeOK /\ FilesTyped /\ Of(Target, "backup") # {} /\ Target \in Files
  BY <1>1, DoingItem DEF ShapeInv, SetupTypeOK, ItemReady, Target
<1>3. PICK g \in Files : g = Target
  BY <1>2
<1>4. PICK as : as = "backup"
  OBVIOUS
<1>5. PICK e \in Of(g, as) : e = Entry(g, as)
  BY <1>2, <1>3, <1>4, EntryOf
<1>6. \/ /\ live' = [live EXCEPT ![g] = e.file] /\ aside' = Dropped(g, e)
         /\ UNCHANGED <<faults, lapse>>
      \/ Keep(g, as) /\ UNCHANGED live
      \/ faults' = faults + 1 /\ lapse' = TRUE /\ UNCHANGED <<live, aside>>
  BY <1>3, <1>4, <1>5 DEF Restore, diskVars, Fault
<1>7. faults \in Nat /\ lapse \in BOOLEAN /\ AsideTyped
  BY DEF ShapeInv, SetupTypeOK, RunTyped
<1>8. /\ AsideTyped' /\ faults' \in Nat /\ lapse' \in BOOLEAN
      /\ \A f \in Files : Of(f, "stage")' = Of(f, "stage")
      /\ \A f \in Files : f # g => Of(f, "backup")' = Of(f, "backup")
  <2>1. CASE aside' = Dropped(g, e) /\ UNCHANGED <<faults, lapse>>
    <3>1. /\ AsideTyped' /\ \A f \in Files : \A a : f # g \/ a # as => Of(f, a)' = Of(f, a)
      BY <1>1, <1>2, <2>1, DroppedGoes
    <3> QED
      BY <1>4, <1>7, <2>1, <3>1
  <2>2. CASE Keep(g, as)
    <3>1. as # "kept"
      BY <1>4
    <3>2. /\ AsideTyped' /\ faults' \in Nat /\ lapse' \in BOOLEAN
          /\ \A f \in Files : \A a :
               f # g \/ (a # as /\ a # "kept" /\ (a # "quarantine" \/ ~lapse')) =>
                 Of(f, a)' = Of(f, a)
      BY ZenonT(40), <1>1, <1>2, <1>5, <2>2, <3>1, KeepMoves
    <3> QED
      BY <1>4, <3>2
  <2>3. CASE UNCHANGED aside /\ faults' = faults + 1 /\ lapse' = TRUE
    BY <1>1, <1>7, <2>3, SameEntries
  <2> QED
    BY <1>6, <2>1, <2>2, <2>3
<1>9. FilesTyped'
  BY <1>1, <1>2, <1>6, FilesStayTyped
<1>10. ASSUME NEW f \in Files, NEW a \in {"stage", "backup"}
       PROVE  \/ Of(f, a)' = Of(f, a)
              \/ /\ f = Target /\ Head(undo).do # "unregister" /\ undo' = Tail(undo)
                 /\ a = "stage" <=> Head(undo).do = "stage"
  BY <1>1, <1>3, <1>8
<1> QED
  BY <1>1, <1>8, <1>9, <1>10, ShapeUndoes

LEMMA ShapeStep ==
  ASSUME ShapeInv, [SetupNext]_setupVars
  PROVE  ShapeInv'
<1>1. CASE UNCHANGED setupVars
  <2>1. /\ UNCHANGED <<live, aside, faults, pc, run, version, clients, register, seen, file, created,
                       replaced, attempted, undo, status, lapse, edits, edited>>
        /\ UNCHANGED planVars
    BY <1>1 DEF setupVars, diskVars, planVars, writeVars, outVars, userVars
  <2>2. SetupTypeOK'
    BY <2>1 DEF ShapeInv, SetupTypeOK, FilesTyped, RunTyped, AsideTyped
  <2>3. /\ Chosen' = Chosen /\ Installed' = Installed
        /\ Conflicts(clients, seen, version)' = Conflicts(clients, seen, version)
        /\ \A f : Mine(f)' = Mine(f) /\ Replaced(f)' = Replaced(f)
        /\ \A f, a : Of(f, a)' = Of(f, a)
    BY <2>1, PlanKept, SameEntries DEF Installed
  <2>4. Phases'
    BY <2>1, <2>3 DEF ShapeInv, Phases, Forward, Writing, Undoing
  <2>5. ListsOK'
    BY <2>1, <2>3 DEF ShapeInv, ListsOK, Forward, Writing
  <2>6. NamesThere'
    BY <2>1, <2>3 DEF ShapeInv, NamesThere, ItemReady, Forward, Writing, Undoing, Target
  <2>7. Once(undo)'
    BY <2>1 DEF ShapeInv, Once
  <2> QED
    BY <2>2, <2>4, <2>5, <2>6, <2>7 DEF ShapeInv
<1>2. CASE \E cs \in Requests, v \in Versions, assetsOnly \in BOOLEAN : Start(cs, v, assetsOnly)
  BY <1>2, ShapeStart
<1>3. CASE \E f \in Files : Stage(f)
  BY <1>3, ShapeStage
<1>4. CASE \E c \in ToSet(Clients) : Register(c)
  BY <1>4, ShapeRegister
<1>5. CASE \E f \in Files : Edit(f)
  BY <1>5, ShapeEdit
<1>6. CASE Rechecked \/ Check \/ End
  BY <1>6, ShapeGoesOn
<1>7. CASE Refuse \/ Error
  BY <1>7, ShapeFailsWriting
<1>8. CASE Move
  BY <1>8, ShapeMove
<1>9. CASE Publish
  BY <1>9, ShapePublish
<1>10. CASE Verify
  BY <1>10, ShapeVerify
<1>11. CASE Finish
  BY <1>11, ShapeFinish
<1>12. CASE Unregister
  BY <1>12, ShapeUnregister
<1>13. CASE KeepItem
  BY <1>13, ShapeKeepItem
<1>14. CASE Take
  BY <1>14, ShapeTake
<1>15. CASE Taken
  BY <1>15, ShapeTaken
<1>16. CASE Restore
  BY <1>16, ShapeRestore
<1>17. CASE Crash
  BY <1>17, ShapeCrash
<1> QED
  BY <1>1, <1>2, <1>3, <1>4, <1>5, <1>6, <1>7, <1>8, <1>9, <1>10, <1>11, <1>12, <1>13, <1>14,
     <1>15, <1>16, <1>17 DEF SetupNext

\* Every step of a run finds the private names it goes on with: the stage it
\* publishes, the backup it restores, what it took from a path to look at.
THEOREM SetupShape == SetupSpec => []ShapeInv
<1>1. SetupInit => ShapeInv
  BY InitShape
<1>2. ShapeInv /\ [SetupNext]_setupVars => ShapeInv'
  BY ShapeStep
<1> QED
  BY <1>1, <1>2, PTL DEF SetupSpec

-----------------------------------------------------------------------------
(* No step but an edit takes the last name of a file.                      *)

Held(f) == {e.file : e \in aside[f]}

LEMMA PutHolds ==
  ASSUME SetupTypeOK, NEW g \in Files, NEW as, NEW x, aside' = Put(g, as, x)
  PROVE  /\ \A f \in Files : Held(f) \subseteq Held(f)'
         /\ x \in Held(g)'
<1> DEFINE new == [as |-> as, run |-> run, file |-> x]
<1>1. aside' = [f \in Files |-> IF f = g THEN aside[f] \cup {new} ELSE aside[f]]
  BY DEF SetupTypeOK, AsideTyped, Put
<1>2. new.file = x
  OBVIOUS
<1> HIDE DEF new
<1> QED
  BY <1>1, <1>2 DEF Held

LEMMA RenamedHolds ==
  ASSUME SetupTypeOK, NEW g \in Files, NEW e \in aside[g], NEW to, aside' = Renamed(g, e, to)
  PROVE  \A f \in Files : Held(f) \subseteq Held(f)'
<1> DEFINE new == [e EXCEPT !.as = to]
<1>1. AsideTyped
  BY DEF SetupTypeOK
<1>2. e = [as |-> e.as, run |-> e.run, file |-> e.file]
  BY <1>1 DEF AsideTyped
<1>3. new.file = e.file
  BY <1>2
<1> HIDE DEF new
<1>4. aside' = [f \in Files |-> IF f = g THEN (aside[f] \ {e}) \cup {new} ELSE aside[f]]
  BY <1>1 DEF AsideTyped, Renamed, new
<1> QED
  BY <1>3, <1>4 DEF Held

LEMMA DroppedHolds ==
  ASSUME SetupTypeOK, NEW g \in Files, NEW e \in aside[g], aside' = Dropped(g, e)
  PROVE  \A f \in Files : Held(f) \subseteq Held(f)' \cup (IF f = g THEN {e.file} ELSE {})
<1>1. aside' = [f \in Files |-> IF f = g THEN aside[f] \ {e} ELSE aside[f]]
  BY DEF SetupTypeOK, AsideTyped, Dropped
<1> QED
  BY <1>1 DEF Held

LEMMA KeepHolds ==
  ASSUME SetupTypeOK, NEW g \in Files, NEW as, NEW e \in Of(g, as)
  PROVE  e = Entry(g, as) /\ Keep(g, as) => \A f \in Files : Held(f) \subseteq Held(f)'
<1>1. SUFFICES ASSUME e = Entry(g, as), Keep(g, as)
               PROVE  \A f \in Files : Held(f) \subseteq Held(f)'
  OBVIOUS
<1>2. e \in aside[g]
  BY DEF Of
<1>3. UNCHANGED aside \/ \E new : aside' = Renamed(g, e, new)
  BY <1>1 DEF Keep
<1>4. CASE UNCHANGED aside
  BY <1>4 DEF Held
<1>5. ASSUME NEW new, aside' = Renamed(g, e, new)
      PROVE  \A f \in Files : Held(f) \subseteq Held(f)'
  BY <1>2, <1>5, RenamedHolds
<1> QED
  BY <1>3, <1>4, <1>5

NamesStay == \A f \in Files : Names(f) \subseteq Names(f)'

LEMMA HeldNames ==
  ASSUME \A f \in Files : Held(f) \subseteq Held(f)' \cup {live'[f]},
         \A f \in Files : live[f] \in {NoFile, live'[f]} \cup Held(f)'
  PROVE  NamesStay
BY DEF NamesStay, Names, Held

\* A path is emptied when what was there is aside, and filled when it is free.
LEMMA WritingKeepsNames ==
  ASSUME ShapeInv, Move \/ Publish \/ \E f \in Files : Stage(f)
  PROVE  NamesStay
<1>1. SetupTypeOK /\ file \in Files /\ live = [f \in Files |-> live[f]]
  BY DEF ShapeInv, SetupTypeOK, RunTyped, FilesTyped
<1>2. PICK g \in Files : g = file
  BY <1>1
<1>3. CASE Move
  <2>1. PICK as : as = "backup"
    OBVIOUS
  <2>2. aside' = Put(g, as, live[g]) /\ live' = [live EXCEPT ![g] = NoFile]
    BY <1>2, <1>3, <2>1 DEF Move
  <2>3. (\A f \in Files : Held(f) \subseteq Held(f)') /\ live[g] \in Held(g)'
    BY <1>1, <2>2, PutHolds
  <2>4. \A f \in Files : live[f] \in {NoFile, live'[f]} \cup Held(f)'
    BY <1>1, <2>2, <2>3
  <2> QED
    BY <2>3, <2>4, HeldNames
<1>4. CASE Publish
  <2>1. /\ pc = "publish" /\ live[g] = NoFile /\ live' = [live EXCEPT ![g] = Mine(g)]
        /\ aside' = Dropped(g, Entry(g, "stage"))
    BY <1>2, <1>4 DEF Publish, Surprise
  <2>2. Of(g, "stage") # {} /\ \A e \in Of(g, "stage") : e.file = Mine(g)
    BY <1>2, <2>1 DEF ShapeInv, NamesThere
  <2>3. PICK e \in aside[g] : e = Entry(g, "stage") /\ e.file = Mine(g)
    BY <2>2, EntryOf DEF Of
  <2>4. aside' = Dropped(g, e)
    BY <2>1, <2>3
  <2>5. \A f \in Files : Held(f) \subseteq Held(f)' \cup (IF f = g THEN {e.file} ELSE {})
    BY <1>1, <2>4, DroppedHolds
  <2>6. live'[g] = Mine(g) /\ \A f \in Files : f # g => live'[f] = live[f]
    BY <1>1, <2>1
  <2>7. \A f \in Files : Held(f) \subseteq Held(f)' \cup {live'[f]}
    BY <2>3, <2>5, <2>6
  <2>8. \A f \in Files : live[f] \in {NoFile, live'[f]} \cup Held(f)'
    BY <2>1, <2>6
  <2> QED
    BY <2>7, <2>8, HeldNames
<1>5. CASE \E f \in Files : Stage(f)
  <2>1. PICK f \in Files : live' = live /\ \E x, as : aside' = Put(f, as, x)
    BY <1>5 DEF Stage
  <2>2. \A h \in Files : Held(h) \subseteq Held(h)'
    BY <1>1, <2>1, PutHolds
  <2> QED
    BY <2>1, <2>2, HeldNames
<1> QED
  BY <1>3, <1>4, <1>5

LEMMA TakingBackKeepsNames ==
  ASSUME ShapeInv, KeepItem \/ Take \/ Taken \/ Restore
  PROVE  NamesStay
<1>1. SetupTypeOK /\ live = [f \in Files |-> live[f]] /\ Undoing /\ undo # <<>>
  BY DEF ShapeInv, SetupTypeOK, FilesTyped, KeepItem, Take, Taken, Restore, Doing, Undoing, Phases
<1>2. ItemReady(Head(undo)) /\ (Head(undo).do # "unregister" => Target \in Files)
  BY <1>1, DoingItem
<1>3. CASE KeepItem
  <2>1. PICK as : Keep(Target, as) /\ Of(Target, as) # {} /\ live' = live /\ Target \in Files
    BY <1>2, <1>3 DEF KeepItem, Doing, ItemReady, Target
  <2>2. PICK g \in Files : g = Target
    BY <2>1
  <2>3. PICK e \in Of(g, as) : e = Entry(g, as)
    BY <2>1, <2>2, EntryOf
  <2>4. Keep(g, as)
    BY <2>1, <2>2
  <2>5. \A f \in Files : Held(f) \subseteq Held(f)'
    BY <1>1, <2>3, <2>4, KeepHolds
  <2> QED
    BY <2>1, <2>5, HeldNames
<1>4. CASE Take
  <2>1. PICK g \in Files : g = Target
    BY <1>2, <1>4 DEF Take, Doing
  <2>2. \/ UNCHANGED <<live, aside>>
        \/ \E as : aside' = Put(g, as, live[g]) /\ live' = [live EXCEPT ![g] = NoFile]
    BY <1>4, <2>1 DEF Take, diskVars
  <2>3. CASE UNCHANGED <<live, aside>>
    BY <2>3 DEF NamesStay, Names
  <2>4. ASSUME NEW as, aside' = Put(g, as, live[g]), live' = [live EXCEPT ![g] = NoFile]
        PROVE  NamesStay
    <3>1. (\A f \in Files : Held(f) \subseteq Held(f)') /\ live[g] \in Held(g)'
      BY <1>1, <2>4, PutHolds
    <3>2. \A f \in Files : live[f] \in {NoFile, live'[f]} \cup Held(f)'
      BY <1>1, <2>4, <3>1
    <3> QED
      BY <3>1, <3>2, HeldNames
  <2> QED
    BY <2>2, <2>3, <2>4
<1>5. CASE Taken
  <2>1. pc = "taken" /\ Head(undo).do = "live" /\ Of(Target, "quarantine") # {}
    BY <1>5 DEF Taken, ShapeInv, Phases, NamesThere
  <2>2. PICK g \in Files : g = Target
    BY <1>2, <2>1
  <2>3. PICK as : as = "quarantine"
    OBVIOUS
  <2>4. PICK e \in Of(g, as) : e = Entry(g, as)
    BY <2>1, <2>2, <2>3, EntryOf
  <2>5. e \in aside[g]
    BY DEF Of
  <2>6. \/ Keep(g, as) /\ live' = live
        \/ UNCHANGED <<live, aside>>
        \/ GiveBack(g, e)
        \/ live' = live /\ aside' = Renamed(g, e, "conflict")
    BY <1>5, <2>2, <2>3, <2>4 DEF Taken, diskVars
  <2>7. CASE Keep(g, as) /\ live' = live
    <3>1. \A f \in Files : Held(f) \subseteq Held(f)'
      BY <1>1, <2>4, <2>7, KeepHolds
    <3> QED
      BY <2>7, <3>1, HeldNames
  <2>8. CASE UNCHANGED <<live, aside>>
    BY <2>8 DEF NamesStay, Names
  <2>9. CASE GiveBack(g, e) \/ (live' = live /\ aside' = Renamed(g, e, "conflict"))
    <3>1. \E to : aside' = Renamed(g, e, to)
      BY <2>9 DEF GiveBack
    <3>2. \A f \in Files : Held(f) \subseteq Held(f)'
      BY <1>1, <2>5, <3>1, RenamedHolds
    <3>3. \A f \in Files : live[f] \in {NoFile, live'[f]}
      BY <1>1, <2>9 DEF GiveBack
    <3> QED
      BY <3>2, <3>3, HeldNames
  <2> QED
    BY <2>6, <2>7, <2>8, <2>9
<1>6. CASE Restore
  <2>1. Head(undo).do = "restore" /\ Of(Target, "backup") # {}
    BY <1>2, <1>6 DEF Restore, Doing, ItemReady, Target
  <2>2. PICK g \in Files : g = Target
    BY <1>2, <2>1
  <2>3. PICK as : as = "backup"
    OBVIOUS
  <2>4. PICK e \in Of(g, as) : e = Entry(g, as)
    BY <2>1, <2>2, <2>3, EntryOf
  <2>5. e \in aside[g]
    BY DEF Of
  <2>6. \/ live[g] = NoFile /\ live' = [live EXCEPT ![g] = e.file] /\ aside' = Dropped(g, e)
        \/ Keep(g, as) /\ live' = live
        \/ UNCHANGED <<live, aside>>
    BY <1>6, <2>2, <2>3, <2>4 DEF Restore, diskVars
  <2>7. CASE live[g] = NoFile /\ live' = [live EXCEPT ![g] = e.file] /\ aside' = Dropped(g, e)
    <3>1. \A f \in Files : Held(f) \subseteq Held(f)' \cup (IF f = g THEN {e.file} ELSE {})
      BY <1>1, <2>5, <2>7, DroppedHolds
    <3>2. live'[g] = e.file /\ \A f \in Files : f # g => live'[f] = live[f]
      BY <1>1, <2>7
    <3>3. \A f \in Files : Held(f) \subseteq Held(f)' \cup {live'[f]}
      BY <3>1, <3>2
    <3>4. \A f \in Files : live[f] \in {NoFile, live'[f]} \cup Held(f)'
      BY <2>7, <3>2
    <3> QED
      BY <3>3, <3>4, HeldNames
  <2>8. CASE Keep(g, as) /\ live' = live
    <3>1. \A f \in Files : Held(f) \subseteq Held(f)'
      BY <1>1, <2>4, <2>8, KeepHolds
    <3> QED
      BY <2>8, <3>1, HeldNames
  <2>9. CASE UNCHANGED <<live, aside>>
    BY <2>9 DEF NamesStay, Names
  <2> QED
    BY <2>6, <2>7, <2>8, <2>9
<1> QED
  BY <1>3, <1>4, <1>5, <1>6

\* Whatever is written, taken back or interrupted, and whoever edits meanwhile,
\* the command never removes the last name of a file (the exclusive renames of
\* assistant_setup.py): only an edit does, of the file at the path it edits.
THEOREM FilesAreKept == SetupSpec => NoFileIsLost
<1> DEFINE OnlyEdited ==
             \A f \in Files : \A x \in Names(f) \ Names(f)' : x = live[f] /\ edits' > edits
<1>1. ASSUME ShapeInv, [SetupNext]_setupVars PROVE [OnlyEdited]_setupVars
  <2>1. CASE UNCHANGED setupVars
    BY <2>1
  <2>2. ASSUME NEW f \in Files, Edit(f) PROVE OnlyEdited
    <3>1. aside' = aside /\ edits' = edits + 1 /\ \A g \in Files : g # f => live'[g] = live[g]
      BY <2>2 DEF Edit
    <3>2. edits \in Nat
      BY <1>1 DEF ShapeInv, SetupTypeOK, RunTyped
    <3>3. edits' > edits
      BY <3>1, <3>2
    <3> QED
      BY <3>1, <3>3 DEF Names
  <2>3. ASSUME NamesStay PROVE OnlyEdited
    BY <2>3 DEF NamesStay
  <2>4. CASE UNCHANGED <<live, aside>>
    BY <2>3, <2>4 DEF NamesStay, Names
  <2>5. CASE \/ Move \/ Publish \/ (\E f \in Files : Stage(f))
             \/ KeepItem \/ Take \/ Taken \/ Restore
    BY <1>1, <2>3, <2>5, WritingKeepsNames, TakingBackKeepsNames
  <2>6. CASE \/ \E cs \in Requests, v \in Versions, assetsOnly \in BOOLEAN : Start(cs, v, assetsOnly)
             \/ Rechecked \/ Check \/ Verify \/ Refuse \/ Error \/ Finish
             \/ (\E c \in ToSet(Clients) : Register(c)) \/ Unregister \/ End \/ Crash
    <3>1. UNCHANGED <<live, aside>>
      BY <2>6 DEF Start, Rechecked, Check, Verify, Refuse, Error, Finish, Register, Unregister,
                  End, Crash, diskVars
    <3> QED
      BY <2>4, <3>1
  <2> QED
    BY <1>1, <2>1, <2>2, <2>5, <2>6 DEF SetupNext
<1>2. SetupSpec => []ShapeInv
  BY SetupShape
<1> QED
  BY <1>1, <1>2, PTL DEF SetupSpec, NoFileIsLost

-----------------------------------------------------------------------------
(* A run that reports installed has looked at everything.                   *)

LEMMA WrittenSame ==
  ASSUME UNCHANGED <<planVars, created, replaced>>
  PROVE  /\ Chosen' = Chosen /\ Installed' = Installed
         /\ \A f : Expected(f)' = Expected(f)
         /\ \A f : State(f, seen, version)' = State(f, seen, version)
         /\ AssetsDone' = AssetsDone /\ ManifestDone' = ManifestDone
<1>1. Chosen' = Chosen /\ Installed' = Installed /\ UNCHANGED <<seen, version>>
      /\ \A f : Mine(f)' = Mine(f) /\ Replaced(f)' = Replaced(f)
  BY PlanKept DEF Installed, planVars
<1>2. \A f : Expected(f)' = Expected(f)
  BY <1>1 DEF Expected
<1>3. \A f : State(f, seen, version)' = State(f, seen, version)
  BY <1>1 DEF State
<1>4. AssetsDone' = AssetsDone
  BY <1>1, <1>3 DEF AssetsDone, Todo
<1>5. Lists' = Lists
  BY <1>1 DEF Lists
<1>6. ManifestDone' = ManifestDone
  BY <1>1, <1>5 DEF ManifestDone
<1> QED
  BY <1>1, <1>2, <1>3, <1>4, <1>6

LEMMA ChosenAreAssets ==
  ASSUME SetupTypeOK
  PROVE  Chosen \subseteq Assets
<1>1. clients \in Seq(ToSet(Clients))
  BY DEF SetupTypeOK, RunTyped
<1>2. \A i \in DOMAIN clients : clients[i] \in ToSet(Clients)
  BY <1>1
<1>3. \A c \in ToSet(Clients) : AssetsOf[c] \subseteq Assets
  BY SetupAssumption
<1> QED
  BY <1>2, <1>3 DEF Chosen

LEMMA CompleteStays ==
  ASSUME CompleteInv, UNCHANGED <<planVars, created, replaced, edited>>,
         AssetsPast' => AssetsPast /\ \A f \in Chosen : live'[f] = live[f],
         ManifestPast' => ManifestPast /\ live'[Manifest] = live[Manifest]
  PROVE  CompleteInv'
<1>1. /\ Chosen' = Chosen /\ AssetsDone' = AssetsDone /\ ManifestDone' = ManifestDone
      /\ \A f : Expected(f)' = Expected(f)
  BY WrittenSame
<1> QED
  BY <1>1 DEF CompleteInv

LEMMA CompleteStep ==
  ASSUME ShapeInv, CompleteInv, [SetupNext]_setupVars
  PROVE  CompleteInv'
<1> USE DEF AssetsPast, ManifestPast
<1>1. CASE UNCHANGED setupVars
  <2>1. UNCHANGED <<planVars, created, replaced, edited, live, pc, status, file>>
    BY <1>1 DEF setupVars, diskVars, planVars, writeVars, outVars, userVars
  <2> QED
    BY <2>1, CompleteStays DEF Writing
<1>2. CASE \E cs \in Requests, v \in Versions, assetsOnly \in BOOLEAN : Start(cs, v, assetsOnly)
  <2>1. pc' \in {"idle", "recheck"} /\ status' \in {"blocked", "running"}
    BY <1>2 DEF Start
  <2> QED
    BY <2>1 DEF CompleteInv, Writing
<1>3. CASE Rechecked
  <2>1. UNCHANGED <<planVars, created, replaced, edited, live, status, file>>
    BY <1>3 DEF Rechecked, diskVars, writeVars, outVars, userVars
  <2>2. /\ Chosen' = Chosen /\ AssetsDone' = AssetsDone /\ ManifestDone' = ManifestDone
        /\ \A f : Expected(f)' = Expected(f)
    BY <2>1, WrittenSame
  <2>3. status # "installed"
    BY <1>3 DEF Rechecked, ShapeInv, Phases, Forward
  <2>4. CASE pc = "recheck" /\ pc' = "next"
    BY <2>1, <2>3, <2>4 DEF CompleteInv, Writing
  <2>5. CASE pc = "next" /\ AssetsDone /\ pc' = "manifest"
    <3>1. \A f \in Chosen : live[f] = Expected(f)
      BY <1>3, <2>5 DEF Rechecked, Surprise
    <3> QED
      BY <2>1, <2>2, <2>3, <2>5, <3>1 DEF CompleteInv
  <2>6. CASE pc = "manifest" /\ ManifestDone /\ pc' = "register"
    <3>1. live[Manifest] = Expected(Manifest)
      BY <1>3, <2>6 DEF Rechecked, Surprise
    <3> QED
      BY <2>1, <2>2, <2>6, <3>1 DEF CompleteInv
  <2> QED
    BY <1>3, <2>4, <2>5, <2>6 DEF Rechecked
<1>4. CASE \E f \in Files : Stage(f)
  <2>1. PICK f \in Files : Stage(f)
    BY <1>4
  <2>2. /\ UNCHANGED <<planVars, created, replaced, edited, live, status>>
        /\ file' = f /\ pc' \in {"check", "publish"}
        /\ \/ pc = "next" /\ \E i \in DOMAIN Order : f = Order[i]
           \/ pc = "manifest"
    BY <2>1 DEF Stage, outVars, userVars
  <2>3. status # "installed"
    BY <2>2 DEF ShapeInv, Phases, Forward
  <2>4. (\E i \in DOMAIN Order : f = Order[i]) => f # Manifest
    BY SetupAssumption DEF Assets, ToSet
  <2> QED
    BY <2>2, <2>3, <2>4, CompleteStays DEF Writing
<1>5. CASE Check \/ Move \/ Publish
  <2>1. /\ UNCHANGED <<planVars, created, replaced, edited, status, file>>
        /\ pc' \in {"move", "moved", "publish", "published"} /\ Writing
        /\ \A f \in Files : f # file => live'[f] = live[f]
    <3>1. UNCHANGED <<planVars, created, replaced, edited, status, file>>
      BY <1>5 DEF Check, Move, Publish, writeVars, outVars, userVars
    <3>2. pc' \in {"move", "moved", "publish", "published"} /\ Writing
      BY <1>5 DEF Check, Move, Publish, Writing
    <3>3. live' = live \/ \E x : live' = [live EXCEPT ![file] = x]
      BY <1>5 DEF Check, Move, Publish, diskVars
    <3>4. \A f \in Files : f # file => live'[f] = live[f]
      BY <3>3 DEF ShapeInv, SetupTypeOK, FilesTyped
    <3> QED
      BY <3>1, <3>2, <3>4
  <2>2. status # "installed"
    BY <2>1 DEF ShapeInv, Phases, Forward
  <2>3. Chosen \subseteq Assets /\ Manifest \notin Assets
    BY ChosenAreAssets, SetupAssumption DEF ShapeInv
  <2> QED
    BY <2>1, <2>2, <2>3, CompleteStays DEF Writing, Files
<1>6. CASE Verify
  <2>1. /\ UNCHANGED <<planVars, edited, status, file, live>> /\ pc = "published"
        /\ pc' = (IF file = Manifest THEN "manifest" ELSE "next")
        /\ \/ replaced' = Append(replaced, file) /\ created' = created
           \/ created' = Append(created, file) /\ replaced' = replaced
    BY <1>6 DEF Verify, diskVars, outVars, userVars
  <2>2. status # "installed"
    BY <2>1 DEF ShapeInv, Phases, Forward, Writing
  <2>3. Installed' = Installed \cup {file}
    <3>1. created \in Seq(Files) /\ replaced \in Seq(Files) /\ file \in Files
      BY DEF ShapeInv, SetupTypeOK, RunTyped
    <3>2. /\ ToSet(Append(replaced, file)) = ToSet(replaced) \cup {file}
          /\ ToSet(Append(created, file)) = ToSet(created) \cup {file}
      BY <3>1, AppendToSet
    <3> QED
      BY <2>1, <3>2 DEF Installed
  <2>4. CASE file # Manifest
    BY <2>1, <2>2, <2>4 DEF CompleteInv, Writing
  <2>5. CASE file = Manifest
    <3>1. AssetsDone /\ \A f \in Chosen : edited[f].when = "late" \/ live[f] = Expected(f)
      BY <2>1, <2>5 DEF CompleteInv, Writing
    <3>2. UNCHANGED <<seen, version>> /\ Chosen' = Chosen /\ \A f : Mine(f)' = Mine(f)
      BY <2>1, PlanKept DEF planVars
    <3>3. \A f : State(f, seen, version)' = State(f, seen, version)
      BY <3>2 DEF State
    <3>4. AssetsDone'
      BY <2>3, <3>1, <3>2, <3>3 DEF AssetsDone, Todo
    <3>5. Manifest \notin Chosen
      BY ChosenAreAssets, SetupAssumption DEF ShapeInv
    <3>6. \A f \in Chosen : Expected(f)' = Expected(f)
      BY <2>3, <2>5, <3>2, <3>5 DEF Expected
    <3> QED
      BY <2>1, <2>2, <2>5, <3>1, <3>2, <3>4, <3>6 DEF CompleteInv, Writing
  <2> QED
    BY <2>4, <2>5
<1>7. CASE Refuse \/ Error \/ Crash \/ \E c \in ToSet(Clients) : Register(c)
  <2>1. CASE pc' \in {"undo", "idle"} /\ status' \in {"rolled_back", "crashed"}
    BY <2>1 DEF CompleteInv, Writing
  <2>2. CASE UNCHANGED <<planVars, created, replaced, edited, live, pc, status, file>>
    BY <2>2, CompleteStays DEF Writing
  <2> QED
    BY <1>7, <2>1, <2>2 DEF Refuse, Error, Crash, Register, Fail, diskVars, userVars
<1>8. CASE Finish
  <2>1. UNCHANGED <<planVars, created, replaced, edited, live>> /\ pc = "register"
    BY <1>8 DEF Finish, diskVars, writeVars, userVars
  <2> QED
    BY <2>1, CompleteStays
<1>9. CASE KeepItem \/ End
  <2>1. /\ UNCHANGED <<planVars, created, replaced, edited, live, status, file>>
        /\ pc' \in {"undo", "idle"}
    BY <1>9 DEF KeepItem, End, Doing, diskVars, writeVars, outVars, userVars
  <2> QED
    BY <2>1, CompleteStays DEF Writing
<1>10. CASE Unregister \/ Take \/ Taken \/ Restore
  <2>1. /\ Undoing /\ undo # <<>> /\ Head(undo).do # "retire"
        /\ pc' \in {"undo", "taken"} /\ status' = status
    BY <1>10 DEF Unregister, Take, Taken, Restore, Doing, Undoing, ShapeInv, Phases
  <2>2. status # "installed"
    BY <2>1, DoingItem
  <2> QED
    BY <2>1, <2>2 DEF CompleteInv, Writing
<1>11. CASE \E f \in Files : Edit(f)
  <2>1. PICK f \in Files : Edit(f)
    BY <1>11
  <2>2. /\ UNCHANGED <<planVars, created, replaced, pc, status, file>>
        /\ \A g \in Files : g # f => live'[g] = live[g] /\ edited'[g] = edited[g]
        /\ Past(f) => edited'[f].when = "late"
    <3>1. UNCHANGED <<planVars, created, replaced, pc, status, file>>
      BY <2>1 DEF Edit, writeVars, outVars
    <3>2. \A g \in Files : g # f => live'[g] = live[g] /\ edited'[g] = edited[g]
      BY <2>1 DEF Edit
    <3>3. edited = [g \in Files |-> edited[g]]
      BY DEF ShapeInv, SetupTypeOK, FilesTyped
    <3>4. Past(f) => edited'[f].when = "late"
      BY <2>1, <3>3 DEF Edit
    <3> QED
      BY <3>1, <3>2, <3>4
  <2>3. /\ Chosen' = Chosen /\ AssetsDone' = AssetsDone /\ ManifestDone' = ManifestDone
        /\ \A g : Expected(g)' = Expected(g)
    BY <2>2, WrittenSame
  <2>4. Chosen \subseteq Assets /\ Manifest \notin Assets /\ Files = Assets \cup {Manifest}
    BY ChosenAreAssets, SetupAssumption DEF ShapeInv, Files
  <2>5. AssetsPast => \A g \in Chosen : Past(g)
    BY <2>4 DEF Past, Writing
  <2>6. ManifestPast => Past(Manifest)
    BY DEF Past
  <2> QED
    BY <2>2, <2>3, <2>4, <2>5, <2>6 DEF CompleteInv, Writing
<1> QED
  BY <1>1, <1>2, <1>3, <1>4, <1>5, <1>6, <1>7, <1>8, <1>9, <1>10, <1>11 DEF SetupNext

\* Which clients a failed run has still to unregister, or names as registered.
LEMMA ClientsStep ==
  ASSUME ShapeInv, ClientsOK, [SetupNext]_setupVars
  PROVE  ClientsOK'
<1> USE DEF Ended
<1>1. CASE UNCHANGED setupVars \/ \E f \in Files : Edit(f)
  <2>1. UNCHANGED <<registered, pc, register, attempted, undo, status, failed>>
    BY <1>1 DEF setupVars, Edit, planVars, writeVars, outVars
  <2> QED
    BY <2>1 DEF ClientsOK, Forward, Writing, Undoing, HasItem
<1>2. CASE \E cs \in Requests, v \in Versions, assetsOnly \in BOOLEAN : Start(cs, v, assetsOnly)
  <2>1. /\ pc' \in {"idle", "recheck"} /\ status' \in {"blocked", "running"}
        /\ attempted' = <<>>
    BY <1>2 DEF Start
  <2> QED
    BY <2>1 DEF ClientsOK, Undoing
<1>3. CASE Rechecked \/ Check \/ Move \/ Publish \/ Verify \/ \E f \in Files : Stage(f)
  <2>1. /\ UNCHANGED <<registered, register, attempted, status>>
        /\ pc \notin {"idle", "register"}
        /\ pc' \in {"next", "manifest", "register", "move", "moved", "publish", "published", "check"}
    <3>1. CASE Rechecked
      BY <3>1 DEF Rechecked, planVars, writeVars, outVars
    <3>2. CASE Check \/ Move \/ Publish
      BY <3>2 DEF Check, Move, Publish, planVars, writeVars, outVars
    <3>3. CASE Verify
      BY <3>3 DEF Verify, planVars, outVars
    <3>4. CASE \E f \in Files : Stage(f)
      BY <3>4 DEF Stage, planVars, outVars
    <3> QED
      BY <1>3, <3>1, <3>2, <3>3, <3>4
  <2>2. Forward
    BY <1>3 DEF Rechecked, Check, Move, Publish, Verify, Stage, Forward, Writing
  <2>3. attempted = <<>> /\ status # "installed" /\ status # "rolled_back"
    BY <2>1, <2>2 DEF ClientsOK, ShapeInv, Phases
  <2>4. DOMAIN <<>> = {}
    OBVIOUS
  <2> QED
    BY <2>1, <2>3, <2>4 DEF ClientsOK, Undoing
<1>4. CASE Refuse \/ Error
  <2>1. /\ pc' = "undo" /\ status' = "rolled_back" /\ Forward
        /\ UNCHANGED <<registered, attempted>>
    BY <1>4, FailsForward DEF Fail, writeVars
  <2>2. attempted = <<>>
    BY <1>4, <2>1 DEF Refuse, Surprise, Error, ClientsOK
  <2>3. ToSet(attempted') = {}
    BY <2>1, <2>2 DEF ToSet
  <2> QED
    BY <2>1, <2>3 DEF ClientsOK, Forward, Writing
<1>5. ASSUME NEW c \in ToSet(Clients), Register(c) PROVE ClientsOK'
  <2>1. /\ pc = "register" /\ attempted' = Append(attempted, c)
        /\ Len(attempted) < Len(register) /\ c = register[Len(attempted')]
        /\ UNCHANGED <<register, failed>>
    BY <1>5 DEF Register, planVars
  <2>2. attempted \in Seq(ToSet(Clients)) /\ register \in Seq(ToSet(Clients))
    BY DEF ShapeInv, SetupTypeOK, RunTyped
  <2>3. CASE pc' = "undo" /\ status' = "rolled_back"
             /\ ToSet(undo)' = {Item("unregister", d) : d \in ToSet(attempted')} \cup
                                  {Item("live", f) : f \in Installed}
    <3>1. \A d \in ToSet(attempted)' : HasItem("unregister", d)'
      BY <2>3 DEF HasItem
    <3> QED
      BY <2>3, <3>1 DEF ClientsOK, Forward, Writing
  <2>4. CASE pc' = pc
    <3>1. registered' = registered \cup {c} /\ status' = status
      BY <1>5, <2>1, <2>4 DEF Register, Fail
    <3>2. status = "running"
      BY <2>1 DEF ShapeInv, Phases, Forward
    <3>3. ASSUME NEW i \in DOMAIN attempted'
          PROVE  i \in DOMAIN register /\ attempted'[i] = register[i] /\ attempted'[i] \in registered'
      <4>1. CASE i \in DOMAIN attempted
        <5>1. attempted'[i] = attempted[i]
          BY <2>1, <2>2, <4>1
        <5> QED
          BY <2>1, <3>1, <4>1, <5>1 DEF ClientsOK
      <4>2. CASE i \notin DOMAIN attempted
        <5>1. i = Len(attempted) + 1 /\ Len(attempted') = i /\ attempted'[i] = c
          BY <2>1, <2>2, <4>2
        <5>2. i \in DOMAIN register
          BY <2>1, <2>2, <5>1
        <5> QED
          BY <2>1, <3>1, <5>1, <5>2
      <4> QED
        BY <4>1, <4>2
    <3> QED
      BY <2>1, <2>4, <3>1, <3>2, <3>3 DEF ClientsOK, Undoing
  <2> QED
    BY <1>5, <2>3, <2>4, ShapeRegister
<1>6. CASE Finish
  <2>1. /\ pc = "register" /\ Len(attempted) = Len(register) /\ pc' = "undo"
        /\ status' = "installed" /\ UNCHANGED <<registered, register, attempted>>
    BY <1>6 DEF Finish, planVars, writeVars
  <2>2. attempted \in Seq(ToSet(Clients)) /\ register \in Seq(ToSet(Clients))
    BY DEF ShapeInv, SetupTypeOK, RunTyped
  <2>3. ASSUME NEW i \in DOMAIN register PROVE register[i] \in registered
    <3>1. i \in DOMAIN attempted
      BY <2>1, <2>2
    <3> QED
      BY <2>1, <3>1 DEF ClientsOK
  <2>4. ToSet(register) \subseteq registered
    BY <2>3 DEF ToSet
  <2> QED
    BY <2>1, <2>4 DEF ClientsOK, Forward, Writing
<1>7. CASE Unregister
  <2>1. /\ Undoing /\ undo # <<>> /\ Head(undo).do = "unregister" /\ undo' = Tail(undo)
        /\ pc = "undo" /\ pc' = "undo" /\ status' = status /\ attempted' = attempted
        /\ \/ registered' = registered \ {Target} /\ failed' = failed
           \/ failed' = failed \cup {Target} /\ registered' = registered
    BY <1>7 DEF Unregister, Doing, Undoing, writeVars
  <2>2. status # "installed"
    BY <2>1, DoingItem
  <2>3. ToSet(undo) = {Head(undo)} \cup ToSet(Tail(undo))
    BY <2>1, RestItems
  <2>4. ASSUME NEW c \in ToSet(attempted) \cap registered'
        PROVE  c \in failed' \/ Item("unregister", c) \in ToSet(Tail(undo))
    <3>1. c \in registered /\ (c \in failed \/ Item("unregister", c) \in ToSet(undo))
      BY <2>1, <2>2, <2>4 DEF ClientsOK, HasItem, ShapeInv, Phases
    <3>2. Item("unregister", c) = Head(undo) => c = Target
      BY DEF Item, Target
    <3> QED
      BY <2>1, <2>3, <2>4, <3>1, <3>2
  <2> QED
    BY <2>1, <2>2, <2>4 DEF ClientsOK, HasItem, Forward, Writing
<1>8. CASE KeepItem \/ Take \/ Taken \/ Restore
  <2>1. /\ Undoing /\ undo # <<>> /\ Head(undo).do # "unregister"
        /\ pc' \in {"undo", "taken"}
        /\ UNCHANGED <<registered, register, attempted, status, failed>>
    BY <1>8 DEF KeepItem, Take, Taken, Restore, Doing, Undoing, ShapeInv, Phases, planVars,
                writeVars
  <2>2. ToSet(undo) = {Head(undo)} \cup ToSet(Tail(undo))
    BY <2>1, RestItems
  <2>3. undo' = Tail(undo) \/ undo' = undo \/ (undo' = Rest /\ Head(undo).do = "live")
    BY <1>8 DEF KeepItem, Take, Taken, Restore, Doing, ShapeInv, Phases
  <2>4. \A c : Item("unregister", c) # Head(undo)
    BY <2>1 DEF Item
  <2>5. \A c : HasItem("unregister", c) => HasItem("unregister", c)'
    <3>1. CASE undo' = Tail(undo)
      BY <2>2, <2>4, <3>1 DEF HasItem
    <3>2. CASE undo' = undo
      BY <3>2 DEF HasItem
    <3>3. CASE undo' = Rest /\ Head(undo).do = "live"
      <4>1. ToSet(Tail(undo)) \subseteq ToSet(Rest)
        BY <2>1, <3>3, RestItems
      <4> QED
        BY <2>2, <2>4, <3>3, <4>1 DEF HasItem
    <3> QED
      BY <2>3, <3>1, <3>2, <3>3
  <2> QED
    BY <2>1, <2>5 DEF ClientsOK, Forward, Writing
<1>9. CASE End
  <2>1. /\ pc = "undo" /\ undo = <<>> /\ pc' = "idle"
        /\ UNCHANGED <<registered, register, attempted, status, failed>>
    BY <1>9 DEF End, planVars, writeVars, outVars
  <2>2. \A c : ~HasItem("unregister", c)
    BY <2>1 DEF HasItem, ToSet
  <2> QED
    BY <2>1, <2>2 DEF ClientsOK, Forward, Writing, Undoing
<1>10. CASE Crash
  <2>1. pc' = "idle" /\ status' = "crashed"
    BY <1>10 DEF Crash
  <2> QED
    BY <2>1 DEF ClientsOK, Forward, Writing, Undoing
<1> QED
  BY <1>1, <1>2, <1>3, <1>4, <1>5, <1>6, <1>7, <1>8, <1>9, <1>10 DEF SetupNext

\* A run that reports installed has every chosen asset in the packaged version and
\* lists it in the manifest, unless somebody changed the file after the last look
\* of _apply_asset_changes at it; and every client asked for is registered.
THEOREM InstallIsComplete == SetupSpec => []InstalledIsComplete
<1>1. SetupInit => CompleteInv /\ ClientsOK
  <2>1. SUFFICES ASSUME SetupInit PROVE CompleteInv /\ ClientsOK
    OBVIOUS
  <2>2. pc = "idle" /\ status = "none"
    BY <2>1 DEF SetupInit
  <2> QED
    BY <2>2 DEF CompleteInv, ClientsOK, AssetsPast, ManifestPast, Forward, Undoing, Writing, Ended
<1>2. ShapeInv /\ CompleteInv /\ [SetupNext]_setupVars => CompleteInv'
  BY CompleteStep
<1>3. ShapeInv /\ ClientsOK /\ [SetupNext]_setupVars => ClientsOK'
  BY ClientsStep
<1>4. ASSUME ShapeInv, CompleteInv, ClientsOK PROVE InstalledIsComplete
  <2>1. SUFFICES ASSUME status = "installed" PROVE
          /\ \A f \in Chosen : edited[f].when # "late" => live[f].content = version
          /\ edited[Manifest].when # "late" =>
               /\ \A f \in Chosen : live[Manifest].lists[f] = version
               /\ \A f \in Assets \ Chosen : live[Manifest].lists[f] = seen[Manifest].lists[f]
          /\ ToSet(register) \subseteq registered
    BY DEF InstalledIsComplete, Ended
  <2>2. /\ AssetsDone /\ ManifestDone
        /\ \A f \in Chosen : edited[f].when = "late" \/ live[f] = Expected(f)
        /\ edited[Manifest].when = "late" \/ live[Manifest] = Expected(Manifest)
    BY <1>4, <2>1 DEF CompleteInv, AssetsPast, ManifestPast
  <2>3. Chosen \subseteq Assets /\ Manifest \notin Assets
    BY <1>4, ChosenAreAssets, SetupAssumption DEF ShapeInv
  <2>4. ASSUME NEW f \in Chosen PROVE Expected(f).content = version
    <3>1. f # Manifest /\ f \in Assets
      BY <2>3
    <3>2. CASE f \in Installed
      BY <3>1, <3>2 DEF Expected, Mine, Made
    <3>3. CASE f \notin Installed
      <4>1. State(f, seen, version) = "identical"
        BY <2>2, <3>1, <3>3 DEF AssetsDone, Todo
      <4> QED
        BY <3>1, <3>3, <4>1 DEF State, Expected
    <3> QED
      BY <3>2, <3>3
  <2>5. Expected(Manifest).lists = Lists
    <3>1. Mine(Manifest).lists = Lists
      BY DEF Mine, Made
    <3> QED
      BY <2>2, <3>1 DEF Expected, ManifestDone
  <2>6. ToSet(register) \subseteq registered
    BY <1>4, <2>1 DEF ClientsOK
  <2> QED
    BY <2>2, <2>3, <2>4, <2>5, <2>6 DEF Lists
<1>5. SetupSpec => []ShapeInv
  BY SetupShape
<1> QED
  BY <1>1, <1>2, <1>3, <1>4, <1>5, PTL DEF SetupSpec

-----------------------------------------------------------------------------
(* Where every file is, and what may be at its path.                        *)

LEMMA EditsKnown ==
  ASSUME EditsOK, NEW f \in Files
  PROVE  /\ edited[f].when = "no" <=> edited[f].all = {}
         /\ edited[f].when # "no" => edited[f].left \in edited[f].all
         /\ \A x \in edited[f].all : x = NoFile \/ x.by > MaxRuns
         /\ edits = 0 => edited[f].when = "no"
BY DEF EditsOK

LEMMA EditsStep ==
  ASSUME ShapeInv, EditsOK, [SetupNext]_setupVars
  PROVE  EditsOK'
<1>1. edits \in Nat /\ edited = [g \in Files |-> edited[g]] /\ MaxRuns \in Nat
  BY SetupAssumption DEF ShapeInv, SetupTypeOK, RunTyped, FilesTyped
<1>2. CASE UNCHANGED userVars
  BY <1>2 DEF EditsOK, userVars
<1>3. CASE \E cs \in Requests, v \in Versions, assetsOnly \in BOOLEAN : Start(cs, v, assetsOnly)
  <2>1. edited' = [f \in Files |-> NotEdited] /\ edits' = edits
    BY <1>3 DEF Start
  <2> QED
    BY <2>1 DEF EditsOK, NotEdited
<1>4. ASSUME NEW f \in Files, Edit(f) PROVE EditsOK'
  <2>1. edits' = edits + 1 /\ \E x : x = live'[f]
    BY <1>4 DEF Edit
  <2>2. PICK new : /\ new \in {NoFile, Made(MaxRuns + edits + 1, "edited"),
                                        Made(MaxRuns + edits + 1, "special")}
                   /\ live' = [live EXCEPT ![f] = new]
    BY <1>4 DEF Edit
  <2>3. live'[f] = new
    BY <2>2 DEF ShapeInv, SetupTypeOK, FilesTyped
  <2>4. PICK w \in {"late", "early"} :
          edited' = [edited EXCEPT ![f] = [when |-> w, left |-> new, all |-> edited[f].all \cup {new}]]
    BY <1>4, <2>3 DEF Edit
  <2>5. /\ edited'[f].when = w /\ edited'[f].left = new
        /\ edited'[f].all = edited[f].all \cup {new}
        /\ \A g \in Files : g # f => edited'[g] = edited[g]
    BY <1>1, <2>4
  <2>6. new = NoFile \/ new.by > MaxRuns
    <3>1. MaxRuns + edits + 1 > MaxRuns
      BY <1>1
    <3>2. \A n, c : Made(n, c).by = n
      BY DEF Made
    <3> QED
      BY <2>2, <3>1, <3>2
  <2>7. edits' # 0
    BY <1>1, <2>1
  <2> QED
    BY <2>5, <2>6, <2>7 DEF EditsOK
<1>5. CASE UNCHANGED setupVars
  BY <1>2, <1>5 DEF setupVars
<1>6. CASE \/ Rechecked \/ Check \/ Move \/ Publish \/ Verify \/ Refuse \/ Error \/ Finish
           \/ (\E f \in Files : Stage(f)) \/ (\E c \in ToSet(Clients) : Register(c))
           \/ Unregister \/ KeepItem \/ Take \/ Taken \/ Restore \/ End \/ Crash
  <2>1. UNCHANGED userVars
    BY <1>6 DEF Rechecked, Check, Move, Publish, Verify, Refuse, Error, Finish, Stage, Register,
                Unregister, KeepItem, Take, Taken, Restore, End, Crash
  <2> QED
    BY <1>2, <2>1
<1> QED
  BY <1>3, <1>4, <1>5, <1>6 DEF SetupNext

LEMMA FileStays ==
  ASSUME NEW f \in Files, FileOK(f), UNCHANGED planVars,
         edited'[f] = edited[f], live'[f] = live[f],
         Of(f, "backup")' = Of(f, "backup"), Of(f, "quarantine")' = Of(f, "quarantine"),
         Forward' <=> Forward, Undoing' <=> Undoing,
         Published(f)' <=> Published(f), Away(f)' <=> Away(f),
         BeingLookedAt(f)' <=> BeingLookedAt(f), Away(f) /\ Forward => pc' = pc,
         Undoing => ~Forward
  PROVE  FileOK(f)'
<1>1. seen' = seen /\ Mine(f)' = Mine(f)
  BY PlanKept DEF planVars
<1>2. \A x : Owed(f, x)' <=> Owed(f, x)
  BY <1>1 DEF Owed
<1>3. \A x : Welcome(f, x)' <=> Welcome(f, x)
  BY <1>2 DEF Welcome
<1>4. \A b : Returns(f, b)' <=> Returns(f, b)
  BY <1>1, <1>3 DEF Returns
<1>5. IsMine(f)' <=> IsMine(f)
  BY <1>1 DEF IsMine
<1>6. Elsewhere(f)' <=> Elsewhere(f)
  BY DEF Elsewhere
<1>7. /\ Forward' => Of(f, "quarantine")' = {}
      /\ Forward' /\ ~Elsewhere(f)' =>
           /\ live'[f] = IF edited'[f].when = "no" THEN seen'[f] ELSE edited'[f].left
           /\ Of(f, "backup")' = {}
  BY <1>1, <1>6 DEF FileOK
<1>8. Undoing' /\ ~Elsewhere(f)' => Welcome(f, live[f])'
  BY <1>3, <1>6 DEF FileOK
<1>9. Published(f)' => /\ IsMine(f)' /\ Of(f, "quarantine")' = {}
                       /\ \A e \in Of(f, "backup")' : e.file = seen'[f]
  BY <1>1, <1>5 DEF FileOK
<1>10. ASSUME Away(f)', NEW e \in Of(f, "backup")'
       PROVE  /\ Returns(f, e.file)' /\ (Forward' /\ live'[f] = NoFile => Owed(f, e.file)')
              /\ pc' = "moved" => Of(f, "backup")' = {e}
              /\ pc' = "publish" => e.file = seen'[f]
  <2>1. e \in Of(f, "backup")
    BY <1>10
  <2>2. pc' \in {"moved", "publish"} => pc' = pc
    BY <1>10 DEF Forward, Writing
  <2>3. /\ Returns(f, e.file) /\ (Forward /\ live[f] = NoFile => Owed(f, e.file))
        /\ pc = "moved" => Of(f, "backup") = {e}
        /\ pc = "publish" => e.file = seen[f]
    BY <1>10, <2>1 DEF FileOK
  <2> QED
    BY <1>1, <1>2, <1>4, <2>2, <2>3
<1>11. BeingLookedAt(f)' =>
       /\ \A e \in Of(f, "backup")' : e.file = seen'[f]
       /\ \A e \in Of(f, "quarantine")' :
            IF e.file = Mine(f)' THEN Returns(f, seen[f])'
            ELSE e.file \in edited'[f].all \ {NoFile} /\ Returns(f, e.file)'
  <2>1. Returns(f, seen[f])' <=> Returns(f, seen[f])
    BY <1>1, <1>4
  <2> QED
    BY <1>1, <1>4, <2>1 DEF FileOK
<1> QED
  BY <1>7, <1>8, <1>9, <1>10, <1>11 DEF FileOK

LEMMA Exclusive ==
  /\ ~(Forward /\ Undoing)
  /\ (ShapeInv /\ Forward => status = "running" /\ pc # "idle")
  /\ \A f : BeingLookedAt(f) => Undoing /\ ~Forward
BY DEF Forward, Writing, Undoing, ShapeInv, Phases, BeingLookedAt

\* Steps forward that move no file.
LEMMA FilesGoOn ==
  ASSUME ShapeInv, FilesInv, Forward, Forward', UNCHANGED <<planVars, edited, live, lapse>>,
         \A f \in Files : \A a \in {"backup", "quarantine"} : Of(f, a)' = Of(f, a),
         \A f \in Files : /\ ~Away(f) /\ ~Away(f)'
                          /\ Published(f)' <=> Published(f)
  PROVE  FilesInv'
<1>1. SUFFICES ASSUME ~lapse', NEW f \in Files PROVE FileOK(f)'
  BY DEF FilesInv
<1>2. FileOK(f)
  BY <1>1, Exclusive DEF FilesInv
<1>3. ~Undoing /\ ~Undoing' /\ ~BeingLookedAt(f) /\ ~BeingLookedAt(f)'
  BY DEF Forward, Writing, Undoing, BeingLookedAt
<1> QED
  BY <1>2, <1>3, FileStays

LEMMA FilesQuietSteps ==
  ASSUME ShapeInv, FilesInv, Rechecked \/ (Check /\ pc = "check") \/ Verify
  PROVE  FilesInv'
<1>1. /\ UNCHANGED <<planVars, edited, live, lapse, aside, file>>
      /\ Forward /\ Forward' /\ pc \notin {"moved", "publish"} /\ pc' \notin {"moved", "publish"}
  <2>1. CASE Rechecked
    BY <2>1 DEF Rechecked, diskVars, writeVars, outVars, userVars, Forward, Writing
  <2>2. CASE Check /\ pc = "check"
    BY <2>2 DEF Check, diskVars, writeVars, outVars, userVars, Forward, Writing
  <2>3. CASE Verify
    BY <2>3 DEF Verify, diskVars, outVars, userVars, Forward, Writing
  <2> QED
    BY <2>1, <2>2, <2>3
<1>2. \A f \in Files : \A a \in {"backup", "quarantine"} : Of(f, a)' = Of(f, a)
  BY <1>1, SameEntries DEF planVars
<1>3. \A f \in Files : ~Away(f) /\ ~Away(f)'
  BY <1>1 DEF Away
<1>4. ASSUME NEW f \in Files PROVE Published(f)' <=> Published(f)
  <2>1. CASE Rechecked \/ (Check /\ pc = "check")
    <3>1. Installed' = Installed /\ pc # "published" /\ pc' # "published"
      BY <2>1 DEF Rechecked, Check, writeVars, Installed
    <3> QED
      BY <1>1, <3>1 DEF Published
  <2>2. CASE Verify
    <3>1. created \in Seq(Files) /\ replaced \in Seq(Files) /\ file \in Files
      BY DEF ShapeInv, SetupTypeOK, RunTyped
    <3>2. /\ ToSet(Append(replaced, file)) = ToSet(replaced) \cup {file}
          /\ ToSet(Append(created, file)) = ToSet(created) \cup {file}
      BY <3>1, AppendToSet
    <3>3. /\ pc = "published" /\ pc' # "published"
          /\ \/ replaced' = Append(replaced, file) /\ created' = created
             \/ created' = Append(created, file) /\ replaced' = replaced
      BY <2>2 DEF Verify
    <3>4. Installed' = Installed \cup {file}
      BY <3>2, <3>3 DEF Installed
    <3> QED
      BY <1>1, <3>3, <3>4 DEF Published
  <2> QED
    BY <2>1, <2>2
<1> QED
  BY <1>1, <1>2, <1>3, <1>4, FilesGoOn

LEMMA FilesStage ==
  ASSUME ShapeInv, FilesInv, NEW f \in Files, Stage(f)
  PROVE  FilesInv'
<1>1. /\ UNCHANGED <<planVars, created, replaced, edited, live, lapse, run>>
      /\ pc \in {"next", "manifest"} /\ Forward /\ Forward' /\ file' = f
      /\ aside' = Put(f, "stage", Mine(f))
      /\ pc' = IF Replaced(f) THEN "check" ELSE "publish"
  BY DEF Stage, outVars, userVars, Forward, Writing, planVars
<1>2. \A g \in Files : \A a : g # f \/ a # "stage" => Of(g, a)' = Of(g, a)
  BY <1>1, PutAdds DEF ShapeInv
<1>3. \A g \in Files : \A a \in {"backup", "quarantine"} : Of(g, a)' = Of(g, a)
  BY <1>2
<1>4. \A g : Replaced(g)' = Replaced(g)
  BY <1>1, PlanKept
<1>5. \A g \in Files : ~Away(g) /\ ~Away(g)'
  BY <1>1, <1>4 DEF Away
<1>6. Installed' = Installed
  BY <1>1 DEF Installed
<1>7. \A g \in Files : Published(g)' <=> Published(g)
  BY <1>1, <1>6 DEF Published
<1> QED
  BY <1>1, <1>3, <1>5, <1>7, FilesGoOn

\* A step at the file that is being written leaves all others where they are.
LEMMA OthersStay ==
  ASSUME ShapeInv, FilesInv, Writing, Writing', UNCHANGED <<planVars, edited, lapse, file>>,
         UNCHANGED <<created, replaced>>, ~lapse,
         \A f \in Files : f # file => /\ live'[f] = live[f]
                                      /\ Of(f, "backup")' = Of(f, "backup")
                                      /\ Of(f, "quarantine")' = Of(f, "quarantine")
  PROVE  \A f \in Files : f # file => FileOK(f)'
<1>1. SUFFICES ASSUME NEW f \in Files, f # file PROVE FileOK(f)'
  OBVIOUS
<1>2. Forward /\ Forward' /\ ~Undoing /\ ~Undoing'
  BY DEF Forward, Writing, Undoing
<1>3. FileOK(f)
  BY <1>2, Exclusive DEF FilesInv
<1>4. ~Away(f) /\ ~Away(f)' /\ ~BeingLookedAt(f) /\ ~BeingLookedAt(f)'
  BY <1>1, <1>2 DEF Away, BeingLookedAt, Undoing
<1>5. Published(f)' <=> Published(f)
  <2>1. Installed' = Installed
    BY DEF Installed
  <2> QED
    BY <1>1, <1>2, <2>1 DEF Published
<1> QED
  BY <1>1, <1>2, <1>3, <1>4, <1>5, FileStays

LEMMA FilesMove ==
  ASSUME ShapeInv, EditsOK, FilesInv, Move
  PROVE  FilesInv'
<1>1. SUFFICES ASSUME ~lapse' PROVE \A f \in Files : FileOK(f)'
  BY DEF FilesInv
<1>2. /\ UNCHANGED <<planVars, created, replaced, edited, lapse, file, seen, run>>
      /\ pc = "move" /\ pc' = "moved" /\ live[file] # NoFile
      /\ Forward /\ Forward' /\ Writing /\ Writing' /\ ~Undoing'
  BY DEF Move, Surprise, writeVars, outVars, userVars, planVars, Forward, Writing, Undoing
<1>3. PICK g \in Files : g = file
  BY DEF ShapeInv, SetupTypeOK, RunTyped
<1>4. PICK as, q : as = "backup" /\ q = "quarantine"
  OBVIOUS
<1>5. aside' = Put(g, as, live[g]) /\ live' = [live EXCEPT ![g] = NoFile]
  BY <1>3, <1>4 DEF Move
<1>6. SetupTypeOK
  BY DEF ShapeInv
<1>7. aside' = Put(g, "backup", live[g]) /\ run' = run
  BY <1>2, <1>4, <1>5
<1>8. /\ AsideTyped'
       /\ Of(g, "backup")' =
            Of(g, "backup") \cup {[as |-> "backup", run |-> run, file |-> live[g]]}
       /\ \A f \in Files : \A a : f # g \/ a # "backup" => Of(f, a)' = Of(f, a)
  BY <1>6, <1>7, PutAdds
<1>9. /\ Of(g, as)' = Of(g, as) \cup {[as |-> as, run |-> run, file |-> live[g]]}
      /\ \A f \in Files : \A a : f # g \/ a # as => Of(f, a)' = Of(f, a)
  BY <1>4, <1>8
<1>10. live'[g] = NoFile /\ \A f \in Files : f # g => live'[f] = live[f]
  BY <1>5 DEF ShapeInv, SetupTypeOK, FilesTyped
<1>11. \A f \in Files : f # file => FileOK(f)'
  BY <1>1, <1>2, <1>3, <1>4, <1>9, <1>10, OthersStay
<1>12. FileOK(g) /\ ~Elsewhere(g)
  <2>1. g \notin Installed
    BY <1>2, <1>3 DEF ShapeInv, ListsOK
  <2>2. ~Elsewhere(g)
    BY <1>2, <2>1 DEF Elsewhere, Published, Away, BeingLookedAt
  <2> QED
    BY <1>1, <1>2, <2>2, Exclusive DEF FilesInv
<1>13. /\ live[g] = IF edited[g].when = "no" THEN seen[g] ELSE edited[g].left
       /\ Of(g, "backup") = {} /\ Of(g, "quarantine") = {}
  BY <1>2, <1>12 DEF FileOK
<1>14. PICK b : b = [as |-> as, run |-> run, file |-> live[g]]
  OBVIOUS
<1>15. Of(g, "backup")' = {b} /\ b.file = live[g] /\ Of(g, "quarantine")' = {}
  BY <1>4, <1>9, <1>13, <1>14
<1>16. Owed(g, live[g]) /\ live[g] \in {seen[g]} \cup edited[g].all
  BY <1>13, EditsKnown DEF Owed
<1>17. Returns(g, b.file)' /\ Owed(g, b.file)'
  <2>1. edited' = edited /\ seen' = seen
    BY <1>2
  <2>2. \A x : Owed(g, x)' <=> Owed(g, x)
    BY <2>1 DEF Owed
  <2>3. Owed(g, b.file)' /\ Welcome(g, b.file)'
    BY <1>15, <1>16, <2>2 DEF Welcome
  <2>4. edited[g].when = "no" => b.file = seen[g]
    BY <1>13, <1>15
  <2> QED
    BY <1>10, <1>15, <1>16, <2>1, <2>3, <2>4 DEF Returns
<1>18. Elsewhere(g)' /\ ~Published(g)' /\ ~BeingLookedAt(g)'
  <2>1. g \notin Installed'
    BY <1>2, <1>3 DEF ShapeInv, ListsOK, Installed
  <2> QED
    BY <1>2, <1>3, <2>1 DEF Elsewhere, Published, Away, BeingLookedAt
<1>19. FileOK(g)'
  BY <1>2, <1>15, <1>17, <1>18 DEF FileOK
<1> QED
  BY <1>3, <1>11, <1>19

\* The second comparison, after the file was moved away.
LEMMA FilesCheckMoved ==
  ASSUME ShapeInv, FilesInv, Check, pc = "moved"
  PROVE  FilesInv'
<1>1. SUFFICES ASSUME ~lapse' PROVE \A f \in Files : FileOK(f)'
  BY DEF FilesInv
<1>2. /\ UNCHANGED <<planVars, created, replaced, edited, lapse, file, seen, run, live, aside>>
      /\ pc' = "publish" /\ Entry(file, "backup").file = seen[file]
      /\ Forward /\ Forward' /\ Writing /\ Writing' /\ ~Undoing'
  BY DEF Check, Surprise, diskVars, writeVars, outVars, userVars, planVars, Forward, Writing, Undoing
<1>3. PICK g \in Files : g = file
  BY DEF ShapeInv, SetupTypeOK, RunTyped
<1>4. /\ \A f, a : Of(f, a)' = Of(f, a)
      /\ \A f : Replaced(f)' = Replaced(f) /\ Mine(f)' = Mine(f)
  BY <1>2, SameEntries, PlanKept
<1>5. \A f \in Files : f # file => FileOK(f)'
  BY <1>1, <1>2, <1>4, OthersStay
<1>6. FileOK(g) /\ Away(g)
  BY <1>1, <1>2, <1>3, Exclusive DEF FilesInv, Away
<1>7. PICK b \in Of(g, "backup") : b = Entry(g, "backup")
  BY <1>3, EntryOf DEF ShapeInv, NamesThere, ListsOK
<1>8. Of(g, "backup") = {b} /\ b.file = seen[g]
  BY <1>2, <1>3, <1>6, <1>7 DEF FileOK
<1>9. Returns(g, b.file)' /\ (live'[g] = NoFile => Owed(g, b.file)')
  BY <1>2, <1>6, <1>8 DEF FileOK, Returns, Welcome, Owed
<1>10. Elsewhere(g)' /\ ~Published(g)' /\ ~BeingLookedAt(g)' /\ Of(g, "quarantine")' = {}
  <2>1. g \notin Installed' /\ Replaced(g)
    BY <1>2, <1>3 DEF ShapeInv, ListsOK, Installed
  <2>2. Of(g, "quarantine") = {}
    BY <1>2, <1>6 DEF FileOK
  <2> QED
    BY <1>2, <1>3, <1>4, <2>1, <2>2 DEF Elsewhere, Published, Away, BeingLookedAt
<1>11. FileOK(g)'
  BY <1>2, <1>4, <1>8, <1>9, <1>10 DEF FileOK
<1> QED
  BY <1>3, <1>5, <1>11

LEMMA FilesPublish ==
  ASSUME ShapeInv, FilesInv, Publish
  PROVE  FilesInv'
<1>1. SUFFICES ASSUME ~lapse' PROVE \A f \in Files : FileOK(f)'
  BY DEF FilesInv
<1>2. /\ UNCHANGED <<planVars, created, replaced, edited, lapse, file, seen, run>>
      /\ pc = "publish" /\ pc' = "published" /\ live[file] = NoFile
      /\ Forward /\ Forward' /\ Writing /\ Writing' /\ ~Undoing'
  BY DEF Publish, Surprise, diskVars, writeVars, outVars, userVars, planVars, Forward, Writing, Undoing
<1>3. PICK g \in Files : g = file
  BY DEF ShapeInv, SetupTypeOK, RunTyped
<1>4. PICK as : as = "stage"
  OBVIOUS
<1>5. PICK e \in Of(g, as) : e = Entry(g, as)
  BY <1>2, <1>3, <1>4, EntryOf DEF ShapeInv, NamesThere
<1>6. aside' = Dropped(g, e) /\ live' = [live EXCEPT ![g] = Mine(g)]
  BY <1>3, <1>4, <1>5 DEF Publish
<1>7. \A f \in Files : \A a : f # g \/ a # as => Of(f, a)' = Of(f, a)
  BY <1>2, <1>6, DroppedGoes DEF ShapeInv
<1>8. \A f \in Files : Of(f, "backup")' = Of(f, "backup") /\ Of(f, "quarantine")' = Of(f, "quarantine")
  BY <1>4, <1>7
<1>9. live'[g] = Mine(g) /\ \A f \in Files : f # g => live'[f] = live[f]
  BY <1>6 DEF ShapeInv, SetupTypeOK, FilesTyped
<1>10. \A f \in Files : f # file => FileOK(f)'
  BY <1>1, <1>2, <1>3, <1>8, <1>9, OthersStay
<1>11. FileOK(g) /\ g \notin Installed
  BY <1>1, <1>2, <1>3, Exclusive DEF FilesInv, ShapeInv, ListsOK
<1>12. Mine(g)' = Mine(g)
  BY <1>2, PlanKept
<1>13. /\ \A e1 \in Of(g, "backup") : e1.file = seen[g]
       /\ edited[g].when = "no" \/ edited[g].left \in {NoFile, seen[g]}
  <2>1. CASE Replaced(g)
    <3>1. Away(g)
      BY <1>2, <1>3, <2>1 DEF Away
    <3>2. \A e1 \in Of(g, "backup") : e1.file = seen[g] /\ Owed(g, e1.file)
      BY <1>2, <1>3, <1>11, <3>1 DEF FileOK
    <3>3. Of(g, "backup") # {}
      BY <1>2, <1>3, <2>1 DEF ShapeInv, NamesThere
    <3>4. Owed(g, seen[g])
      BY <3>2, <3>3
    <3> QED
      BY <3>2, <3>4 DEF Owed
  <2>2. CASE ~Replaced(g)
    <3>1. ~Elsewhere(g)
      BY <1>2, <1>3, <1>11, <2>2 DEF Elsewhere, Published, Away, BeingLookedAt
    <3> QED
      BY <1>2, <1>3, <1>11, <3>1 DEF FileOK
  <2> QED
    BY <2>1, <2>2
<1>14. IsMine(g)'
  BY <1>2, <1>9, <1>12, <1>13 DEF IsMine
<1>15. Elsewhere(g)' /\ ~Away(g)' /\ ~BeingLookedAt(g)' /\ Of(g, "quarantine")' = {}
  <2>1. Of(g, "quarantine") = {}
    BY <1>2, <1>11 DEF FileOK
  <2> QED
    BY <1>2, <1>3, <1>8, <2>1 DEF Elsewhere, Published, Away, BeingLookedAt
<1>16. FileOK(g)'
  BY <1>2, <1>8, <1>13, <1>14, <1>15 DEF FileOK
<1> QED
  BY <1>3, <1>10, <1>16

LEMMA FilesStart ==
  ASSUME ShapeInv, NEW cs \in Requests, NEW v \in Versions, NEW only \in BOOLEAN,
         Start(cs, v, only)
  PROVE  FilesInv'
<1>1. SUFFICES ASSUME pc' # "idle", NEW f \in Files PROVE FileOK(f)'
  BY DEF FilesInv, Forward, Writing, Undoing
<1>2. /\ pc' = "recheck" /\ run' = run + 1 /\ seen' = live /\ UNCHANGED <<live, aside>>
      /\ created' = <<>> /\ replaced' = <<>> /\ edited' = [g \in Files |-> NotEdited]
  BY <1>1 DEF Start, diskVars
<1>3. \A as : Of(f, as)' = {}
  <2>1. run \in Nat /\ AsideTyped
    BY SetupAssumption DEF ShapeInv, SetupTypeOK, RunTyped
  <2>2. \A e \in aside[f] : e.run # run'
    BY <1>2, <2>1 DEF AsideTyped
  <2> QED
    BY <1>2, <2>2 DEF Of
<1>4. Installed' = {}
  BY <1>2 DEF Installed, ToSet
<1>5. ~Elsewhere(f)' /\ Forward' /\ ~Undoing'
  BY <1>2, <1>4 DEF Elsewhere, Published, Away, BeingLookedAt, Forward, Writing, Undoing
<1>6. live'[f] = seen'[f] /\ edited'[f].when = "no"
  BY <1>2 DEF NotEdited
<1>7. ~Published(f)' /\ ~Away(f)' /\ ~BeingLookedAt(f)'
  BY <1>5 DEF Elsewhere
<1> QED
  BY <1>3, <1>5, <1>6, <1>7 DEF FileOK

\* The plan refused directories and links.
LEMMA NoneSpecial ==
  ASSUME ShapeInv, pc # "idle"
  PROVE  /\ \A f \in Chosen \cup {Manifest} : seen[f].content # "special"
         /\ \A f : Mine(f).content # "special" /\ Mine(f).by = run
         /\ \A f : Mine(f) # NoFile
<1>1. /\ version \in Versions /\ Conflicts(clients, seen, version) = {} /\ run > 0
      /\ run \in 0..MaxRuns
  BY DEF ShapeInv, Phases, SetupTypeOK, RunTyped
<1>2. "special" \notin Versions
  BY SetupAssumption
<1>3. ASSUME NEW f \in Chosen \cup {Manifest} PROVE seen[f].content # "special"
  <2>1. State(f, seen, version) # "conflict"
    BY <1>1 DEF Conflicts, Chosen
  <2>2. CASE seen[f] = NoFile
    BY <2>2 DEF NoFile, Made
  <2>3. CASE seen[f] # NoFile
    BY <1>1, <1>2, <2>1, <2>3 DEF State
  <2> QED
    BY <2>2, <2>3
<1>4. ASSUME NEW f PROVE Mine(f).content # "special" /\ Mine(f).by = run
  BY <1>1, <1>2 DEF Mine, Made
<1>5. ASSUME NEW f PROVE Mine(f) # NoFile
  <2>1. NoFile.by = 0 /\ run # 0
    BY <1>1 DEF NoFile, Made
  <2> QED
    BY <1>4, <2>1
<1> QED
  BY <1>3, <1>4, <1>5

\* A run that fails has everything to take back; what it moved away and can not
\* read again is a directory or a link that somebody put there.
LEMMA FilesFail ==
  ASSUME ShapeInv, FilesInv, Forward, pc' = "undo", status' = "rolled_back",
         UNCHANGED <<live, aside, planVars, edited, lapse>>,
         \A f \in Files : Published(f)' <=> Published(f),
         \A f \in Files : Away(f)' => Away(f),
         \A f \in Files : Away(f) /\ ~Away(f)' =>
           pc = "moved" /\ Entry(f, "backup").file.content = "special"
  PROVE  FilesInv'
<1>1. SUFFICES ASSUME ~lapse', NEW f \in Files PROVE FileOK(f)'
  BY DEF FilesInv
<1>2. FileOK(f) /\ ~Undoing /\ pc # "idle"
  BY <1>1, Exclusive DEF FilesInv
<1>3. /\ ~Forward' /\ Undoing' /\ ~BeingLookedAt(f) /\ ~BeingLookedAt(f)'
      /\ UNCHANGED <<run, seen>>
  BY <1>2 DEF Forward, Writing, Undoing, BeingLookedAt, planVars
<1>4. /\ Mine(f)' = Mine(f) /\ \A as : Of(f, as)' = Of(f, as)
  BY <1>3, SameEntries, PlanKept
<1>5. \A x : (Owed(f, x)' <=> Owed(f, x)) /\ (Welcome(f, x)' <=> Welcome(f, x))
  BY <1>3 DEF Owed, Welcome
<1>6. \A b : Returns(f, b)' <=> Returns(f, b)
  BY <1>3, <1>5 DEF Returns
<1>7. IsMine(f)' <=> IsMine(f)
  BY <1>3, <1>4 DEF IsMine
<1>8. ASSUME ~Elsewhere(f)' PROVE Welcome(f, live[f])
  <2>1. CASE ~Elsewhere(f)
    BY <1>2, <2>1 DEF FileOK, Welcome, Owed
  <2>2. CASE Away(f) /\ ~Away(f)'
    <3>1. pc = "moved" /\ Entry(f, "backup").file.content = "special" /\ f = file
      BY <2>2 DEF Away
    <3>2. Of(f, "backup") # {} /\ f \in Chosen \cup {Manifest}
      BY <3>1 DEF ShapeInv, NamesThere, ListsOK, Writing
    <3>3. PICK e \in Of(f, "backup") : e.file.content = "special"
      BY <3>1, <3>2, EntryOf
    <3>4. Returns(f, e.file)
      BY <1>2, <2>2, <3>3 DEF FileOK
    <3>5. e.file # seen[f]
      BY <1>2, <3>2, <3>3, NoneSpecial
    <3>6. edited[f].when # "no" /\ Welcome(f, IF live[f] = NoFile THEN e.file ELSE live[f])
      BY <3>4, <3>5 DEF Returns
    <3> QED
      BY <3>3, <3>6 DEF Welcome, Owed
  <2> QED
    BY <1>3, <1>8, <2>1, <2>2 DEF Elsewhere
<1>9. Undoing' /\ ~Elsewhere(f)' => Welcome(f, live[f])'
  BY <1>5, <1>8
<1>10. Published(f)' => /\ IsMine(f)' /\ Of(f, "quarantine")' = {}
                        /\ \A e \in Of(f, "backup")' : e.file = seen'[f]
  BY <1>2, <1>3, <1>4, <1>7 DEF FileOK
<1>11. Away(f)' => \A e \in Of(f, "backup")' : Returns(f, e.file)'
  BY <1>2, <1>4, <1>6 DEF FileOK
<1> QED
  BY <1>3, <1>9, <1>10, <1>11 DEF FileOK

LEMMA FilesFailWriting ==
  ASSUME ShapeInv, FilesInv, Refuse \/ Error
  PROVE  FilesInv'
<1>1. /\ Forward /\ pc' = "undo" /\ status' = "rolled_back"
      /\ UNCHANGED <<live, aside, planVars, edited, lapse>> /\ UNCHANGED <<seen, file, created, replaced>>
  BY FailsForward DEF Fail, diskVars, planVars, writeVars, userVars
<1>2. ToSet(undo)' = ToSet(Unwritten) \cup {Item("live", f) : f \in Installed}
  BY ShapeFailsWriting
<1>3. ASSUME NEW f, NEW do \in {"live", "restore"}
      PROVE  HasItem(do, f)' <=>
               \/ do = "live" /\ (f \in Installed \/ (f = file /\ pc = "published"))
               \/ /\ do = "restore" /\ f = file
                  /\ \/ pc = "publish" /\ Replaced(file)
                     \/ pc = "moved" /\ Entry(file, "backup").file.content # "special"
  <2>1. Item(do, f) \in {Item("live", g) : g \in Installed} <=> do = "live" /\ f \in Installed
    BY DEF Item
  <2>2. Item(do, f) \in ToSet(Unwritten) <=>
               \/ do = "live" /\ f = file /\ pc = "published"
               \/ /\ do = "restore" /\ f = file
                  /\ \/ pc = "publish" /\ Replaced(file)
                     \/ pc = "moved" /\ Entry(file, "backup").file.content # "special"
    <3>1. \A d, g : Item(do, f) = Item(d, g) <=> d = do /\ g = f
      BY DEF Item
    <3> QED
      BY <3>1, UnwrittenItems
  <2>3. Item(do, f)' = Item(do, f)
    BY DEF Item
  <2> QED
    BY <1>2, <2>1, <2>2 DEF HasItem, Item
<1>4. ~Forward' /\ pc' # "taken"
  BY <1>1 DEF Forward, Writing
<1>5. ASSUME NEW f \in Files PROVE Published(f)' <=> Published(f)
  BY <1>1, <1>3, <1>4 DEF Published
<1>6. ASSUME NEW f \in Files
      PROVE  /\ Away(f)' => Away(f)
             /\ Away(f) /\ ~Away(f)' => pc = "moved" /\ Entry(f, "backup").file.content = "special"
  BY <1>1, <1>3, <1>4 DEF Away
<1> QED
  BY <1>1, <1>5, <1>6, FilesFail

LEMMA FilesRegister ==
  ASSUME ShapeInv, FilesInv, NEW c \in ToSet(Clients), Register(c)
  PROVE  FilesInv'
<1>1. /\ pc = "register" /\ Forward
      /\ UNCHANGED <<live, aside, planVars, edited, lapse>>
      /\ UNCHANGED <<live, aside, run, edited, lapse, file, created, replaced>>
  BY DEF Register, diskVars, planVars, userVars, Forward
<1>2. Installed' = Installed /\ \A f : ~Away(f)
  BY <1>1 DEF Installed, Away
<1>3. CASE pc' = pc
  <2>1. Forward'
    BY <1>1, <1>3 DEF Forward
  <2>2. \A f \in Files : \A a \in {"backup", "quarantine"} : Of(f, a)' = Of(f, a)
    BY <1>1, SameEntries
  <2>3. \A f \in Files : ~Away(f) /\ ~Away(f)' /\ (Published(f)' <=> Published(f))
    BY <1>1, <1>2, <1>3, <2>1 DEF Away, Published
  <2> QED
    BY <1>1, <2>1, <2>2, <2>3, FilesGoOn
<1>4. CASE /\ pc' = "undo" /\ status' = "rolled_back"
           /\ ToSet(undo)' = {Item("unregister", d) : d \in ToSet(attempted')} \cup
                                {Item("live", f) : f \in Installed}
  <2>1. \A f : (HasItem("live", f)' <=> f \in Installed) /\ ~HasItem("restore", f)'
    BY <1>4 DEF HasItem, Item
  <2>2. ~Forward'
    BY <1>4 DEF Forward, Writing
  <2>3. \A f \in Files : ~Away(f) /\ ~Away(f)' /\ (Published(f)' <=> Published(f))
    BY <1>1, <1>2, <1>4, <2>1, <2>2 DEF Away, Published
  <2> QED
    BY <1>1, <1>4, <2>3, FilesFail
<1> QED
  BY <1>3, <1>4, ShapeRegister

\* A step that takes back leaves alone the files it does not take back.
LEMMA OthersUndone ==
  ASSUME ShapeInv, FilesInv, Undoing, status = "rolled_back", undo # <<>>, ~lapse,
         pc' \in {"undo", "taken"}, UNCHANGED <<planVars, edited>>,
         undo' \in {undo, Tail(undo)} \/ (undo' = Rest /\ Head(undo).do = "live"),
         pc' = "taken" => undo' = undo,
         NEW f \in Files,
         \/ f # Target
         \/ Head(undo).do \in {"unregister", "stage"} /\ undo' = Tail(undo) /\ pc' = "undo",
         live'[f] = live[f],
         Of(f, "backup")' = Of(f, "backup"), Of(f, "quarantine")' = Of(f, "quarantine")
  PROVE  FileOK(f)'
<1>1. FileOK(f) /\ ~Forward /\ ~Forward' /\ Undoing'
  BY DEF FilesInv, Forward, Writing, Undoing
<1>2. pc = "taken" => Head(undo).do = "live"
  BY DEF ShapeInv, Phases
<1>3. /\ ToSet(undo) = {Head(undo)} \cup ToSet(Tail(undo))
      /\ Head(undo).do = "live" =>
           ToSet(Rest) = ToSet(Tail(undo)) \cup
              (IF Replaced(Target) THEN {Item("restore", Target)} ELSE {})
  BY RestItems
<1>4. ASSUME NEW do \in {"live", "restore"} PROVE HasItem(do, f)' <=> HasItem(do, f)
  <2> DEFINE x == Item(do, f)
  <2>1. x # Head(undo) \/ undo' = undo
    BY DEF Item, Target
  <2>2. x # Item("restore", Target) \/ undo' # Rest \/ undo' = Tail(undo)
    BY DEF Item
  <2> HIDE DEF x
  <2>3. x \in ToSet(undo') <=> x \in ToSet(undo)
    <3>1. CASE undo' = undo
      BY <3>1
    <3>2. CASE undo' = Tail(undo)
      <4>1. x \in ToSet(undo) <=> x \in ToSet(Tail(undo))
        <5>1. CASE x # Head(undo)
          BY <1>3, <5>1
        <5>2. CASE undo' = undo
          BY <3>2, <5>2
        <5> QED
          BY <2>1, <5>1, <5>2
      <4> QED
        BY <3>2, <4>1
    <3>3. CASE undo' = Rest /\ Head(undo).do = "live" /\ undo' # Tail(undo) /\ undo' # undo
      BY <1>3, <2>1, <2>2, <3>3
    <3> QED
      BY <3>1, <3>2, <3>3
  <2>4. Item(do, f)' = x
    BY DEF Item, x
  <2> QED
    BY <2>3, <2>4 DEF HasItem, x
<1>5. ~BeingLookedAt(f) /\ ~BeingLookedAt(f)'
  BY <1>2 DEF BeingLookedAt, Target
<1>6. Published(f)' <=> Published(f)
  BY <1>1, <1>4, <1>5 DEF Published, BeingLookedAt
<1>7. Away(f)' <=> Away(f)
  BY <1>1, <1>4 DEF Away
<1> QED
  BY <1>1, <1>5, <1>6, <1>7, FileStays

\* What the item that is being taken back says of its file.
LEMMA TargetItems ==
  ASSUME ShapeInv, Undoing, undo # <<>>, Head(undo).do \in {"live", "restore", "retire"}
  PROVE  /\ Item("live", Target) \notin ToSet(Tail(undo))
         /\ Item("restore", Target) \notin ToSet(Tail(undo))
         /\ Head(undo) = Item(Head(undo).do, Target)
         /\ HasItem("live", Target) <=> Head(undo).do = "live"
         /\ HasItem("restore", Target) <=> Head(undo).do = "restore"
<1>1. /\ ToSet(undo) = {Head(undo)} \cup ToSet(Tail(undo)) /\ Head(undo) \in Items
      /\ \A x \in ToSet(Tail(undo)) : ~SameName(Head(undo), x)
  BY RestItems
<1>2. \A do \in {"live", "restore"} : SameName(Head(undo), Item(do, Target))
  BY DEF SameName, Item, Target
<1>3. Head(undo) = Item(Head(undo).do, Target)
  BY <1>1 DEF Items, Item, Target
<1>4. \A do : Item(do, Target) = Head(undo) <=> do = Head(undo).do
  BY <1>3 DEF Item
<1> QED
  BY <1>1, <1>2, <1>3, <1>4 DEF HasItem

LEMMA FilesUnregister ==
  ASSUME ShapeInv, FilesInv, Unregister
  PROVE  FilesInv'
<1>1. /\ Undoing /\ undo # <<>> /\ Head(undo).do = "unregister" /\ undo' = Tail(undo)
      /\ pc' = "undo" /\ status' = status
      /\ UNCHANGED <<planVars, edited, lapse>> /\ UNCHANGED <<live, aside, run, edited, lapse>>
  BY DEF Unregister, Doing, Undoing, diskVars, planVars, userVars
<1>2. SUFFICES ASSUME ~lapse', NEW f \in Files PROVE FileOK(f)'
  BY DEF FilesInv
<1>3. status = "rolled_back"
  BY <1>1, DoingItem DEF ShapeInv, Phases
<1>4. \A a : Of(f, a)' = Of(f, a)
  BY <1>1, SameEntries
<1> QED
  BY <1>1, <1>2, <1>3, <1>4, OthersUndone

LEMMA FilesKeepItem ==
  ASSUME ShapeInv, FilesInv, KeepItem
  PROVE  FilesInv'
<1>1. SUFFICES ASSUME ~lapse', status' # "installed", NEW f \in Files PROVE FileOK(f)'
  BY DEF FilesInv
<1>2. /\ Undoing /\ undo # <<>> /\ undo' = Tail(undo) /\ pc = "undo" /\ pc' = "undo"
      /\ status' = status
      /\ UNCHANGED <<planVars, edited>> /\ UNCHANGED <<live, run, edited>>
      /\ \/ Head(undo).do = "stage" /\ Keep(Target, "stage")
         \/ Head(undo).do = "retire" /\ Keep(Target, "backup")
  BY DEF KeepItem, Doing, Undoing, planVars, userVars
<1>3. status = "rolled_back" /\ SetupTypeOK
  BY <1>1, <1>2 DEF ShapeInv, Phases
<1>4. PICK as \in {"stage", "backup"} :
        /\ Keep(Target, as) /\ Of(Target, as) # {}
        /\ as = "stage" <=> Head(undo).do = "stage"
        /\ as = "backup" <=> Head(undo).do = "retire"
  BY <1>2, DoingItem DEF ItemReady, Target
<1>5. PICK g \in Files : g = Target
  BY <1>2, DoingItem
<1>6. PICK e \in Of(g, as) : e = Entry(g, as)
  BY <1>4, <1>5, EntryOf
<1>7. as # "kept" /\ Keep(g, as)
  BY <1>4, <1>5
<1>8. /\ lapse => lapse'
      /\ \A h \in Files : \A a :
           h # g \/ (a # as /\ a # "kept" /\ (a # "quarantine" \/ ~lapse')) =>
             Of(h, a)' = Of(h, a)
  BY ZenonT(40), <1>2, <1>3, <1>6, <1>7, KeepMoves
<1>9. CASE as = "stage" \/ f # g
  <2>1. Of(f, "backup")' = Of(f, "backup") /\ Of(f, "quarantine")' = Of(f, "quarantine")
    BY <1>1, <1>8, <1>9
  <2> QED
    BY <1>1, <1>2, <1>3, <1>4, <1>5, <1>8, <1>9, <2>1, OthersUndone
<1>10. CASE as = "backup" /\ f = g
  <2>1. /\ ~HasItem("live", f) /\ ~HasItem("restore", f)
        /\ Item("live", f) \notin ToSet(Tail(undo)) /\ Item("restore", f) \notin ToSet(Tail(undo))
    BY <1>2, <1>4, <1>5, <1>10, TargetItems
  <2>2. ~Forward /\ ~Forward' /\ Undoing' /\ ~BeingLookedAt(f) /\ ~BeingLookedAt(f)'
    BY <1>2 DEF Forward, Writing, Undoing, BeingLookedAt
  <2>3. ~HasItem("live", f)' /\ ~HasItem("restore", f)'
    BY <1>2, <2>1 DEF HasItem, Item
  <2>4. ~Published(f) /\ ~Away(f) /\ ~Published(f)' /\ ~Away(f)'
    BY <2>1, <2>2, <2>3 DEF Published, Away
  <2>5. Welcome(f, live[f])
    BY <1>1, <1>2, <1>3, <1>8, <2>2, <2>4 DEF FilesInv, FileOK, Elsewhere
  <2>6. Welcome(f, live[f])'
    BY <1>2, <2>5 DEF Welcome, Owed, planVars
  <2> QED
    BY <2>2, <2>4, <2>6 DEF FileOK
<1> QED
  BY <1>9, <1>10

\* A file that was taken, or could not be, is restored next, if it replaced another.
LEMMA FileToRestore ==
  ASSUME ShapeInv, Undoing, undo # <<>>, Head(undo).do = "live", pc' = "undo", undo' = Rest,
         UNCHANGED <<planVars, status, edited>>, NEW f \in Files, f = Target,
         \A e \in Of(f, "backup")' : e.file = seen[f], Returns(f, seen[f])'
  PROVE  FileOK(f)'
<1>1. ~Forward' /\ Undoing' /\ ~BeingLookedAt(f)' /\ seen' = seen /\ Replaced(f)' = Replaced(f)
  BY PlanKept DEF Forward, Writing, Undoing, BeingLookedAt, planVars, ShapeInv, Phases
<1>2. /\ Item("live", f) \notin ToSet(Tail(undo)) /\ Item("restore", f) \notin ToSet(Tail(undo))
      /\ ToSet(Rest) = ToSet(Tail(undo)) \cup
           (IF Replaced(f) THEN {Item("restore", f)} ELSE {})
  BY TargetItems, RestItems
<1>3. ~HasItem("live", f)' /\ (HasItem("restore", f)' <=> Replaced(f))
  BY <1>2 DEF HasItem, Item
<1>4. ~Published(f)' /\ (Away(f)' <=> Replaced(f))
  BY <1>1, <1>3 DEF Published, Away
<1>5. CASE Replaced(f)
  <2>1. PICK x : x = seen[f]
    OBVIOUS
  <2>2. Returns(f, x)'
    BY <1>1, <2>1 DEF Returns, Welcome, Owed
  <2>3. \A e \in Of(f, "backup")' : Returns(f, e.file)'
    BY <2>1, <2>2
  <2>4. Elsewhere(f)'
    BY <1>4, <1>5 DEF Elsewhere
  <2> QED
    BY <1>1, <1>4, <2>3, <2>4 DEF FileOK
<1>6. CASE ~Replaced(f)
  <2>1. seen'[f] = NoFile
    BY <1>1, <1>6 DEF Replaced
  <2>2. Welcome(f, live[f])'
    BY <1>1, <2>1 DEF Returns, Welcome, Owed
  <2> QED
    BY <1>1, <1>4, <1>6, <2>2 DEF FileOK
<1> QED
  BY <1>5, <1>6

\* What is at the path of a published file is this run's, or what others left.
LEMMA WhoseFile ==
  ASSUME ShapeInv, EditsOK, Undoing, NEW f \in Files, IsMine(f)
  PROVE  /\ live[f] = NoFile => edited[f].when # "no" /\ edited[f].left = NoFile
         /\ live[f] # Mine(f) => /\ edited[f].when # "no" /\ live[f] = edited[f].left
                                /\ live[f] \in edited[f].all
         /\ live[f] = Mine(f) => edited[f].when = "no" \/ edited[f].left \in {NoFile, seen[f]}
<1>1. Mine(f) # NoFile /\ Mine(f).by = run /\ run <= MaxRuns /\ run \in Nat /\ MaxRuns \in Nat
  BY NoneSpecial, SetupAssumption DEF Undoing, ShapeInv, SetupTypeOK, RunTyped
<1>2. edited[f].when # "no" => edited[f].left # Mine(f)
  <2>1. SUFFICES ASSUME edited[f].when # "no", edited[f].left = Mine(f) PROVE FALSE
    OBVIOUS
  <2>2. Mine(f).by > MaxRuns
    BY <1>1, <2>1, EditsKnown
  <2> QED
    BY <1>1, <2>2
<1> QED
  BY <1>1, <1>2, EditsKnown DEF IsMine

LEMMA FilesTake ==
  ASSUME ShapeInv, EditsOK, FilesInv, Take
  PROVE  FilesInv'
<1>1. SUFFICES ASSUME ~lapse' PROVE \A f \in Files : FileOK(f)'
  BY DEF FilesInv
<1>2. /\ Undoing /\ undo # <<>> /\ Head(undo).do = "live" /\ pc = "undo"
      /\ UNCHANGED <<planVars, edited, status>> /\ UNCHANGED <<run, seen, edited, lapse>>
      /\ pc' \in {"undo", "taken"}
      /\ \/ /\ live[Target] # NoFile /\ aside' = Put(Target, "quarantine", live[Target])
            /\ live' = [live EXCEPT ![Target] = NoFile]
            /\ pc' = "taken" /\ undo' = undo
         \/ /\ live[Target] = NoFile /\ undo' = Rest /\ pc' = "undo" /\ UNCHANGED <<live, aside>>
  BY <1>1 DEF Take, Doing, Undoing, diskVars, planVars, userVars
<1>3. status = "rolled_back" /\ SetupTypeOK /\ FilesTyped
  BY <1>2, DoingItem DEF ShapeInv, Phases, SetupTypeOK
<1>4. PICK g \in Files : g = Target
  BY <1>2, DoingItem
<1>5. HasItem("live", g) /\ ~HasItem("restore", g)
  BY <1>2, <1>4, TargetItems
<1>6. Published(g)
  BY <1>2, <1>5 DEF Published, Forward, Writing
<1>7. /\ IsMine(g) /\ Of(g, "quarantine") = {}
      /\ \A e \in Of(g, "backup") : e.file = seen[g]
  BY <1>1, <1>2, <1>3, <1>6 DEF FilesInv, FileOK
<1>8. /\ live[g] = NoFile => edited[g].when # "no" /\ edited[g].left = NoFile
      /\ live[g] # Mine(g) => /\ edited[g].when # "no" /\ live[g] = edited[g].left
                              /\ live[g] \in edited[g].all
      /\ live[g] = Mine(g) => edited[g].when = "no" \/ edited[g].left \in {NoFile, seen[g]}
  BY <1>2, <1>7, WhoseFile
<1>9. CASE live[Target] # NoFile
  <2>1. /\ live[g] # NoFile /\ aside' = Put(g, "quarantine", live[g])
        /\ live' = [live EXCEPT ![g] = NoFile] /\ pc' = "taken" /\ undo' = undo
    BY <1>2, <1>4, <1>9
  <2>2. /\ Of(g, "quarantine")' =
             Of(g, "quarantine") \cup {[as |-> "quarantine", run |-> run, file |-> live[g]]}
        /\ \A f \in Files : \A a : f # g \/ a # "quarantine" => Of(f, a)' = Of(f, a)
    BY <1>2, <1>3, <2>1, PutAdds
  <2>3. live'[g] = NoFile /\ \A f \in Files : f # g => live'[f] = live[f]
    BY <1>3, <2>1 DEF FilesTyped
  <2>4. ASSUME NEW f \in Files, f # g PROVE FileOK(f)'
    <3>1. Of(f, "backup")' = Of(f, "backup") /\ Of(f, "quarantine")' = Of(f, "quarantine")
      BY <2>2, <2>4
    <3> QED
      BY <1>1, <1>2, <1>3, <1>4, <2>1, <2>3, <2>4, <3>1, OthersUndone
  <2>5. PICK q : q = [as |-> "quarantine", run |-> run, file |-> live[g]]
    OBVIOUS
  <2>6. Of(g, "quarantine")' = {q} /\ q.file = live[g] /\ Of(g, "backup")' = Of(g, "backup")
    BY <1>7, <2>2, <2>5
  <2>7. Mine(g)' = Mine(g)
    BY <1>2, PlanKept
  <2>8. live[g] = Mine(g) => Returns(g, seen[g])'
    BY <1>2, <1>8, <2>3 DEF Returns, Welcome, Owed
  <2>9. /\ Target' = g /\ ~Published(g)' /\ ~Away(g)' /\ BeingLookedAt(g)'
         /\ Elsewhere(g)' /\ ~Forward'
    BY <1>4, <1>5, <2>1
       DEF Target, Published, Away, BeingLookedAt, Elsewhere, HasItem, Item, Forward, Writing
  <2>10. /\ \A e \in Of(g, "backup")' : e.file = seen'[g]
         /\ \A e \in Of(g, "quarantine")' :
              IF e.file = Mine(g)' THEN Returns(g, seen[g])'
              ELSE e.file \in edited'[g].all \ {NoFile} /\ Returns(g, e.file)'
    <3>1. \A e \in Of(g, "backup")' : e.file = seen'[g]
      BY <1>2, <1>7, <2>6
    <3>2. PICK x : x = live[g]
      OBVIOUS
    <3>3. ASSUME x # Mine(g) PROVE x \in edited'[g].all \ {NoFile} /\ Returns(g, x)'
      BY <1>2, <1>8, <2>1, <2>3, <3>2, <3>3 DEF Returns, Welcome, Owed
    <3>4. q.file = x
      BY <2>6, <3>2
    <3>5. IF q.file = Mine(g)' THEN Returns(g, seen[g])'
          ELSE q.file \in edited'[g].all \ {NoFile} /\ Returns(g, q.file)'
      BY <2>7, <2>8, <3>2, <3>3, <3>4
    <3> QED
      BY <2>6, <3>1, <3>5
  <2>11. FileOK(g)'
    BY <2>9, <2>10 DEF FileOK
  <2> QED
    BY <2>4, <2>11
<1>10. CASE live[Target] = NoFile
  <2>1. live[g] = NoFile /\ undo' = Rest /\ pc' = "undo" /\ UNCHANGED <<live, aside>>
    BY <1>2, <1>4, <1>10
  <2>2. \A f, a : Of(f, a)' = Of(f, a)
    BY <1>2, <2>1, SameEntries
  <2>3. ASSUME NEW f \in Files, f # g PROVE FileOK(f)'
    BY <1>1, <1>2, <1>3, <1>4, <2>1, <2>2, <2>3, OthersUndone
  <2>4. Returns(g, seen[g])'
    BY <1>2, <1>8, <2>1 DEF Returns, Welcome, Owed
  <2>5. \A e \in Of(g, "backup")' : e.file = seen[g]
    BY <1>7, <2>2
  <2>6. FileOK(g)'
    BY <1>2, <1>4, <2>1, <2>4, <2>5, FileToRestore
  <2> QED
    BY <2>3, <2>6
<1> QED
  BY <1>9, <1>10

LEMMA FilesTaken ==
  ASSUME ShapeInv, EditsOK, FilesInv, Taken
  PROVE  FilesInv'
<1>1. SUFFICES ASSUME ~lapse', NEW f \in Files PROVE FileOK(f)'
  BY DEF FilesInv
<1>2. /\ pc = "taken" /\ Undoing /\ pc' = "undo" /\ undo' = Rest
      /\ UNCHANGED <<planVars, status, edited>> /\ UNCHANGED <<run, seen, edited>>
  BY DEF Taken, Undoing, planVars, userVars
<1>3. /\ undo # <<>> /\ Head(undo).do = "live" /\ SetupTypeOK /\ FilesTyped
      /\ Of(Target, "quarantine") # {} /\ status = "rolled_back"
  BY <1>2 DEF ShapeInv, Phases, NamesThere, Undoing, SetupTypeOK
<1>4. PICK g \in Files : g = Target
  BY <1>2, <1>3, DoingItem
<1>5. PICK as : as = "quarantine"
  OBVIOUS
<1>6. PICK e \in Of(g, as) : e = Entry(g, as)
  BY <1>3, <1>4, <1>5, EntryOf
<1>7. /\ ~lapse
      /\ \/ e.file = Mine(g) /\ Keep(g, as) /\ UNCHANGED live
         \/ e.file.content = "special" /\ UNCHANGED <<live, aside>>
         \/ /\ e.file # Mine(g)
            /\ live' = IF live[g] = NoFile THEN [live EXCEPT ![g] = e.file] ELSE live
            /\ aside' = Renamed(g, e, "conflict")
  BY <1>1, <1>4, <1>5, <1>6 DEF Taken, GiveBack, diskVars, Keep
<1>8. BeingLookedAt(g)
  BY <1>2, <1>4 DEF BeingLookedAt
<1>9. /\ \A b \in Of(g, "backup") : b.file = seen[g]
      /\ IF e.file = Mine(g) THEN Returns(g, seen[g])
         ELSE e.file \in edited[g].all \ {NoFile} /\ Returns(g, e.file)
  <2>1. FileOK(g)
    BY <1>2, <1>3, <1>7 DEF FilesInv
  <2> QED
    BY <1>5, <1>6, <1>8, <2>1 DEF FileOK
<1>10. /\ \A h \in Files : Of(h, "backup")' = Of(h, "backup")
       /\ \A h \in Files : h # g => Of(h, "quarantine")' = Of(h, "quarantine")
  <2>1. CASE Keep(g, as)
    <3>1. as # "kept" /\ e = Entry(g, as) /\ Keep(g, as) /\ e \in Of(g, as)
      BY <1>5, <1>6, <2>1
    <3>2. /\ AsideTyped' /\ faults' \in Nat /\ lapse' \in BOOLEAN
          /\ \A h \in Files : \A a :
               h # g \/ (a # as /\ a # "kept" /\ (a # "quarantine" \/ ~lapse')) =>
                 Of(h, a)' = Of(h, a)
      BY ZenonT(40), <1>2, <1>3, <3>1, KeepMoves
    <3> QED
      BY <1>5, <3>2
  <2>2. CASE UNCHANGED aside
    BY <1>2, <2>2, SameEntries
  <2>3. CASE aside' = Renamed(g, e, "conflict")
    <3>1. PICK to : to = "conflict"
      OBVIOUS
    <3>2. OnlyMoves(g, as, to)
      BY <1>2, <1>3, <1>6, <2>3, <3>1, RenamedStays
    <3> QED
      BY <1>5, <3>1, <3>2 DEF OnlyMoves
  <2> QED
    BY <1>7, <2>1, <2>2, <2>3
<1>11. CASE f # g
  <2>1. live'[f] = live[f]
    BY <1>3, <1>7, <1>11 DEF FilesTyped
  <2> QED
    BY <1>2, <1>3, <1>4, <1>7, <1>10, <1>11, <2>1, OthersUndone
<1>12. CASE f = g
  <2>1. Returns(g, seen[g])'
    <3>1. PICK x, s : x = e.file /\ s = seen[g]
      OBVIOUS
    <3>2. s = seen'[g] /\ edited' = edited
      BY <1>2, <3>1
    <3>3. CASE x = Mine(g) /\ UNCHANGED live
      BY <1>2, <1>9, <3>1, <3>2, <3>3 DEF Returns, Welcome, Owed
    <3>4. CASE x # Mine(g)
      <4>1. /\ x \in edited[g].all /\ x # NoFile /\ edited[g].when # "no"
            /\ Welcome(g, IF live[g] = NoFile THEN x ELSE live[g])
        BY <1>9, <3>1, <3>4, EditsKnown DEF Returns
      <4>2. CASE UNCHANGED live /\ x.content = "special"
        BY <1>2, <3>1, <4>1, <4>2 DEF Returns, Welcome, Owed
      <4>3. CASE live' = IF live[g] = NoFile THEN [live EXCEPT ![g] = x] ELSE live
        <5>1. live'[g] = (IF live[g] = NoFile THEN x ELSE live[g]) /\ live'[g] # NoFile
          BY <1>3, <4>1, <4>3 DEF FilesTyped
        <5> QED
          BY <1>2, <3>1, <4>1, <5>1 DEF Returns, Welcome, Owed
      <4> QED
        BY <1>7, <3>1, <3>4, <4>2, <4>3
    <3>5. x = Mine(g) => x.content # "special"
      BY <1>2, NoneSpecial
    <3> QED
      BY <1>7, <3>1, <3>3, <3>4, <3>5
  <2>2. \A b \in Of(g, "backup")' : b.file = seen[g]
    BY <1>9, <1>10
  <2> QED
    BY <1>2, <1>3, <1>4, <1>12, <2>1, <2>2, FileToRestore
<1> QED
  BY <1>11, <1>12

LEMMA FilesRestore ==
  ASSUME ShapeInv, EditsOK, FilesInv, Restore
  PROVE  FilesInv'
<1>1. SUFFICES ASSUME ~lapse', NEW f \in Files PROVE FileOK(f)'
  BY DEF FilesInv
<1>2. /\ pc = "undo" /\ undo # <<>> /\ Undoing /\ Head(undo).do = "restore"
      /\ undo' = Tail(undo) /\ pc' = "undo" /\ status' = status
      /\ UNCHANGED <<planVars, edited>> /\ UNCHANGED <<run, seen, edited>>
  BY DEF Restore, Doing, Undoing, planVars, userVars
<1>3. /\ SetupTypeOK /\ FilesTyped /\ Of(Target, "backup") # {} /\ Target \in Files
      /\ status = "rolled_back"
  BY <1>2, DoingItem DEF ShapeInv, SetupTypeOK, ItemReady, Target, Phases
<1>4. PICK g \in Files : g = Target
  BY <1>3
<1>5. PICK as : as = "backup"
  OBVIOUS
<1>6. PICK e \in Of(g, as) : e = Entry(g, as)
  BY <1>3, <1>4, <1>5, EntryOf
<1>7. /\ ~lapse
      /\ \/ live[g] = NoFile /\ live' = [live EXCEPT ![g] = e.file] /\ aside' = Dropped(g, e)
         \/ live[g] # NoFile /\ Keep(g, as) /\ UNCHANGED live
  BY <1>1, <1>4, <1>5, <1>6 DEF Restore, diskVars, Keep
<1>8. /\ ~HasItem("live", g) /\ HasItem("restore", g)
      /\ Item("live", g) \notin ToSet(Tail(undo)) /\ Item("restore", g) \notin ToSet(Tail(undo))
  BY <1>2, <1>4, TargetItems
<1>9. ~Forward /\ ~Forward' /\ Undoing'
  BY <1>2 DEF Forward, Writing, Undoing
<1>10. Returns(g, e.file)
  <2>1. FileOK(g) /\ Away(g)
    BY <1>2, <1>3, <1>7, <1>8, <1>9 DEF FilesInv, Away
  <2> QED
    BY <1>5, <1>6, <2>1 DEF FileOK
<1>11. CASE f # g
  <2>1. live'[f] = live[f]
    BY <1>3, <1>7, <1>11 DEF FilesTyped
  <2>2. Of(f, "backup")' = Of(f, "backup") /\ Of(f, "quarantine")' = Of(f, "quarantine")
    <3>1. CASE Keep(g, as)
      <4>1. as # "kept" /\ e = Entry(g, as) /\ Keep(g, as) /\ e \in Of(g, as)
        BY <1>5, <1>6, <3>1
      <4>2. /\ AsideTyped' /\ faults' \in Nat /\ lapse' \in BOOLEAN
            /\ \A h \in Files : \A a :
                 h # g \/ (a # as /\ a # "kept" /\ (a # "quarantine" \/ ~lapse')) =>
                   Of(h, a)' = Of(h, a)
        <5>1. run' = run /\ SetupTypeOK
          BY <1>2, <1>3
        <5> QED
          BY <4>1, <5>1, KeepMoves
      <4> QED
        BY <1>11, <4>2
    <3>2. CASE aside' = Dropped(g, e)
      <4>1. \A h \in Files : \A a : h # g \/ a # as => Of(h, a)' = Of(h, a)
        BY <1>2, <1>3, <1>6, <3>2, DroppedGoes
      <4> QED
        BY <1>11, <4>1
    <3> QED
      BY <1>7, <3>1, <3>2
  <2> QED
    BY <1>2, <1>3, <1>4, <1>7, <1>11, <2>1, <2>2, OthersUndone
<1>12. CASE f = g
  <2>1. ~HasItem("live", g)' /\ ~HasItem("restore", g)'
    BY <1>2, <1>8 DEF HasItem, Item
  <2>2. ~Published(g)' /\ ~Away(g)' /\ ~BeingLookedAt(g)'
    BY <1>2, <1>9, <2>1 DEF Published, Away, BeingLookedAt
  <2>3. live'[g] = IF live[g] = NoFile THEN e.file ELSE live[g]
    BY <1>3, <1>7 DEF FilesTyped
  <2>4. Welcome(g, live'[g])
    BY <1>10, <2>3 DEF Returns, Welcome, Owed
  <2>5. Welcome(g, live[g])'
    BY <1>2, <2>4 DEF Welcome, Owed
  <2> QED
    BY <1>9, <1>12, <2>2, <2>5 DEF FileOK
<1> QED
  BY <1>11, <1>12

\* What somebody left is where the file is to be.
LEMMA FilesEdit ==
  ASSUME ShapeInv, EditsOK, FilesInv, NEW g \in Files, Edit(g)
  PROVE  FilesInv'
<1>1. SUFFICES ASSUME ~lapse', status' # "installed", Forward' \/ Undoing', NEW f \in Files
               PROVE  FileOK(f)'
  BY DEF FilesInv
<1>2. /\ UNCHANGED <<planVars, aside, run, seen, pc, file, created, replaced, undo, status, lapse>>
      /\ \E x : live' = [live EXCEPT ![g] = x]
  BY DEF Edit, planVars, writeVars, outVars
<1>3. PICK new : live' = [live EXCEPT ![g] = new]
  BY <1>2
<1>4. FilesTyped /\ FileOK(f)
  BY <1>1, <1>2 DEF FilesInv, ShapeInv, SetupTypeOK, Forward, Writing, Undoing
<1>5. live'[g] = new /\ \A h \in Files : h # g => live'[h] = live[h]
  BY <1>3, <1>4 DEF FilesTyped
<1>6. /\ edited'[g].when # "no" /\ edited'[g].left = new /\ edited'[g].all = edited[g].all \cup {new}
      /\ \A h \in Files : h # g => edited'[h] = edited[h]
  <2>1. edited' = [edited EXCEPT ![g] =
                     [when |-> IF Past(g) \/ edited[g].when = "late" THEN "late" ELSE "early",
                      left |-> new, all |-> edited[g].all \cup {new}]]
    BY <1>5 DEF Edit
  <2> QED
    BY <1>4, <2>1 DEF FilesTyped
<1>7. /\ Mine(f)' = Mine(f) /\ Replaced(f)' = Replaced(f)
      /\ \A as : Of(f, as)' = Of(f, as)
  BY <1>2, SameEntries, PlanKept
<1>8. /\ Forward' <=> Forward
      /\ Undoing' <=> Undoing
      /\ Published(f)' <=> Published(f)
      /\ Away(f)' <=> Away(f)
      /\ BeingLookedAt(f)' <=> BeingLookedAt(f)
  BY <1>2, <1>7 DEF Forward, Writing, Undoing, Published, Away, BeingLookedAt, HasItem, Item,
                    Installed, Target
<1>9. CASE f # g
  <2>1. edited'[f] = edited[f] /\ live'[f] = live[f]
    BY <1>5, <1>6, <1>9
  <2> QED
    BY <1>2, <1>4, <1>7, <1>8, <2>1, FileStays, Exclusive
<1>10. CASE f = g
  <2>1. edited'[f].when # "no" /\ live'[f] = edited'[f].left
    BY <1>5, <1>6, <1>10
  <2>2. Owed(f, live[f])' /\ Welcome(f, live[f])' /\ IsMine(f)'
    BY <2>1 DEF Owed, Welcome, IsMine
  <2>3. ASSUME NEW b \in {seen[f]} \cup edited[f].all
        PROVE  /\ Returns(f, b)' /\ (live'[f] = NoFile => Owed(f, b)')
    <3>1. b \in {seen'[f]} \cup edited'[f].all
      BY <1>2, <1>6, <1>10
    <3> QED
      BY <2>1, <2>2, <3>1 DEF Returns, Owed, Welcome
  <2>4. Elsewhere(f)' <=> Elsewhere(f)
    BY <1>8 DEF Elsewhere
  <2>5. /\ Forward' => Of(f, "quarantine")' = {}
        /\ Forward' /\ ~Elsewhere(f)' =>
             /\ live'[f] = IF edited'[f].when = "no" THEN seen'[f] ELSE edited'[f].left
             /\ Of(f, "backup")' = {}
    BY <1>4, <1>7, <1>8, <2>1, <2>4 DEF FileOK
  <2>6. Published(f)' => /\ IsMine(f)' /\ Of(f, "quarantine")' = {}
                         /\ \A e \in Of(f, "backup")' : e.file = seen'[f]
    BY <1>2, <1>4, <1>7, <1>8, <2>2 DEF FileOK
  <2>7. Away(f)' => \A e \in Of(f, "backup")' :
          /\ Returns(f, e.file)' /\ (Forward' /\ live'[f] = NoFile => Owed(f, e.file)')
          /\ pc' = "moved" => Of(f, "backup")' = {e}
          /\ pc' = "publish" => e.file = seen'[f]
    <3>1. SUFFICES ASSUME Away(f), NEW e \in Of(f, "backup")
                   PROVE  /\ Returns(f, e.file)' /\ (live'[f] = NoFile => Owed(f, e.file)')
                          /\ pc = "moved" => Of(f, "backup") = {e}
                          /\ pc = "publish" => e.file = seen[f]
      BY <1>2, <1>7, <1>8
    <3>2. /\ Returns(f, e.file)
          /\ pc = "moved" => Of(f, "backup") = {e}
          /\ pc = "publish" => e.file = seen[f]
      BY <1>4, <3>1 DEF FileOK
    <3>3. e.file \in {seen[f]} \cup edited[f].all
      BY <3>2 DEF Returns
    <3> QED
      BY <2>3, <3>2, <3>3
  <2>8. BeingLookedAt(f)' =>
          /\ \A e \in Of(f, "backup")' : e.file = seen'[f]
          /\ \A e \in Of(f, "quarantine")' :
               IF e.file = Mine(f)' THEN Returns(f, seen[f])'
               ELSE e.file \in edited'[f].all \ {NoFile} /\ Returns(f, e.file)'
    <3>1. SUFFICES ASSUME BeingLookedAt(f)
                   PROVE  /\ \A e \in Of(f, "backup") : e.file = seen[f]
                          /\ \A e \in Of(f, "quarantine") :
                               IF e.file = Mine(f) THEN Returns(f, seen[f])'
                               ELSE e.file \in edited'[f].all \ {NoFile} /\ Returns(f, e.file)'
      BY <1>2, <1>7, <1>8
    <3>2. /\ \A e \in Of(f, "backup") : e.file = seen[f]
          /\ \A e \in Of(f, "quarantine") :
               e.file # Mine(f) => e.file \in edited[f].all \ {NoFile}
      BY <1>4, <3>1 DEF FileOK
    <3>3. PICK s : s = seen[f]
      OBVIOUS
    <3>4. Returns(f, s)' /\ seen'[f] = s
      BY <1>2, <2>3, <3>3
    <3>5. Returns(f, seen[f])'
      BY <3>4 DEF Returns, Welcome, Owed
    <3>6. edited[f].all \subseteq edited'[f].all
      BY <1>6, <1>10
    <3> QED
      BY <2>3, <3>2, <3>5, <3>6
  <2> QED
    BY <2>2, <2>4, <2>5, <2>6, <2>7, <2>8 DEF FileOK
<1> QED
  BY <1>9, <1>10

LEMMA FilesStep ==
  ASSUME ShapeInv, EditsOK, FilesInv, [SetupNext]_setupVars
  PROVE  FilesInv'
<1>1. CASE UNCHANGED setupVars
  <2>1. UNCHANGED <<live, aside, run, pc, planVars, seen, file, created, replaced, undo, status,
                    edited, lapse>>
    BY <1>1 DEF setupVars, diskVars, planVars, writeVars, outVars, userVars
  <2>2. /\ \A f, as : Of(f, as)' = Of(f, as)
        /\ \A f : Replaced(f)' = Replaced(f)
    BY <2>1, SameEntries, PlanKept
  <2>3. ASSUME NEW f \in Files, FileOK(f) PROVE FileOK(f)'
    <3>1. /\ Forward' <=> Forward
          /\ Undoing' <=> Undoing
          /\ Published(f)' <=> Published(f)
          /\ Away(f)' <=> Away(f)
          /\ BeingLookedAt(f)' <=> BeingLookedAt(f)
      BY <2>1, <2>2 DEF Forward, Writing, Undoing, Published, Away, BeingLookedAt, HasItem, Item,
                        Installed, Target
    <3> QED
      BY <2>1, <2>2, <2>3, <3>1, FileStays, Exclusive
  <2> QED
    BY <2>1, <2>3 DEF FilesInv, Forward, Writing, Undoing
<1>2. CASE Finish
  <2>1. status' = "installed"
    BY <1>2 DEF Finish
  <2> QED
    BY <2>1 DEF FilesInv
<1>3. CASE End \/ Crash
  <2>1. pc' = "idle"
    BY <1>3 DEF End, Crash
  <2> QED
    BY <2>1 DEF FilesInv, Forward, Writing, Undoing
<1>4. CASE \E cs \in Requests, v \in Versions, assetsOnly \in BOOLEAN : Start(cs, v, assetsOnly)
  BY <1>4, FilesStart
<1>5. CASE Rechecked \/ Check \/ Verify
  <2>1. Check => pc \in {"check", "moved"}
    BY DEF Check
  <2> QED
    BY <1>5, <2>1, FilesQuietSteps, FilesCheckMoved
<1>6. CASE Move \/ Publish \/ Refuse \/ Error
  BY <1>6, FilesMove, FilesPublish, FilesFailWriting
<1>7. CASE \E f \in Files : Stage(f) \/ Edit(f)
  BY <1>7, FilesStage, FilesEdit
<1>8. CASE \E c \in ToSet(Clients) : Register(c)
  BY <1>8, FilesRegister
<1>9. CASE Unregister \/ KeepItem \/ Take \/ Taken \/ Restore
  BY <1>9, FilesUnregister, FilesKeepItem, FilesTake, FilesTaken, FilesRestore
<1> QED
  BY <1>1, <1>2, <1>3, <1>4, <1>5, <1>6, <1>7, <1>8, <1>9 DEF SetupNext

LEMMA EndedStep ==
  ASSUME ShapeInv, FilesInv, EndedInv, [SetupNext]_setupVars
  PROVE  EndedInv'
<1> USE DEF Ended
<1>1. CASE UNCHANGED setupVars
  <2>1. UNCHANGED <<live, seen, pc, status, edited, lapse>>
    BY <1>1 DEF setupVars, diskVars, planVars, outVars, userVars
  <2> QED
    BY <2>1 DEF EndedInv, Welcome, Owed
<1>2. CASE \E cs \in Requests, v \in Versions, assetsOnly \in BOOLEAN : Start(cs, v, assetsOnly)
  <2>1. pc' = "idle" => status' = "blocked"
    BY <1>2 DEF Start
  <2> QED
    BY <2>1 DEF EndedInv
<1>3. CASE Crash
  <2>1. status' = "crashed"
    BY <1>3 DEF Crash
  <2> QED
    BY <2>1 DEF EndedInv
<1>4. CASE End
  <2>1. /\ pc = "undo" /\ undo = <<>>
        /\ UNCHANGED <<live, seen, status, edited, lapse>>
    BY <1>4 DEF End, diskVars, planVars, outVars, userVars
  <2>2. SUFFICES ASSUME status = "rolled_back", ~lapse, NEW f \in Files PROVE Welcome(f, live[f])'
    BY <2>1 DEF EndedInv
  <2>3. Undoing /\ ~Forward
    BY <2>1 DEF Forward, Writing, Undoing
  <2>4. ~Elsewhere(f)
    BY <2>1, <2>3 DEF Elsewhere, Published, Away, BeingLookedAt, HasItem, ToSet
  <2>5. Welcome(f, live[f])
    BY <2>2, <2>3, <2>4 DEF FilesInv, FileOK
  <2> QED
    BY <2>1, <2>5 DEF Welcome, Owed
<1>5. CASE \/ Rechecked \/ Check \/ Move \/ Publish \/ Verify \/ Refuse \/ Error \/ Finish
           \/ (\E f \in Files : Stage(f)) \/ (\E c \in ToSet(Clients) : Register(c))
           \/ Unregister \/ KeepItem \/ Take \/ Taken \/ Restore \/ (\E f \in Files : Edit(f))
  <2>1. pc' # "idle"
    BY <1>5 DEF Rechecked, Check, Move, Publish, Verify, Refuse, Error, Finish, Fail, Stage,
                Register, Unregister, KeepItem, Take, Taken, Restore, Doing, Edit
  <2> QED
    BY <2>1 DEF EndedInv
<1> QED
  BY <1>1, <1>2, <1>3, <1>4, <1>5 DEF SetupNext

\* A run that reports rolled_back and had no trouble undoing has put back every file
\* it had replaced and removed every one it had created: a file that others changed
\* meanwhile is as they left it (or, where they removed it, as before or as they had
\* it once); and no client stays registered that the report does not name.
THEOREM RollbackIsComplete == SetupSpec => []RollbackRestores
<1>1. SetupInit => RestoreInv
  <2>1. SUFFICES ASSUME SetupInit PROVE RestoreInv
    OBVIOUS
  <2>2. pc = "idle" /\ status = "none" /\ edits = 0 /\ edited = [f \in Files |-> NotEdited]
    BY <2>1 DEF SetupInit
  <2> QED
    BY <2>2 DEF RestoreInv, EditsOK, NotEdited, ClientsOK, FilesInv, EndedInv, Ended, Forward,
                Writing, Undoing
<1>2. ShapeInv /\ RestoreInv /\ [SetupNext]_setupVars => RestoreInv'
  <2>1. SUFFICES ASSUME ShapeInv, EditsOK, ClientsOK, FilesInv, EndedInv, [SetupNext]_setupVars
                 PROVE  RestoreInv'
    BY DEF RestoreInv
  <2>2. EditsOK'
    BY <2>1, EditsStep
  <2>3. ClientsOK'
    BY <2>1, ClientsStep
  <2>4. FilesInv'
    BY <2>1, FilesStep
  <2>5. EndedInv'
    BY <2>1, EndedStep
  <2> QED
    BY <2>2, <2>3, <2>4, <2>5 DEF RestoreInv
<1>3. RestoreInv => RollbackRestores
  BY DEF RestoreInv, ClientsOK, EndedInv, Welcome, Owed, RollbackRestores
<1>4. SetupSpec => []ShapeInv
  BY SetupShape
<1> QED
  BY <1>1, <1>2, <1>3, <1>4, PTL DEF SetupSpec

-----------------------------------------------------------------------------
(* A run that is interrupted can be repeated.                               *)

\* Where the files are when nobody edits.
LEMMA QuietFiles ==
  ASSUME ShapeInv, EditsOK, FilesInv, Quiet, Forward, ~lapse, NEW f \in Files
  PROVE  /\ f \in Installed \/ (f = file /\ pc = "published") => live[f] = Mine(f)
         /\ f = file /\ (pc = "moved" \/ (pc = "publish" /\ Replaced(f))) =>
              /\ live[f] = NoFile
              /\ \A e \in Of(f, "backup") : e.file = seen[f]
         /\ \/ f \in Installed \/ (f = file /\ pc = "published")
            \/ f = file /\ (pc = "moved" \/ (pc = "publish" /\ Replaced(f)))
            \/ live[f] = seen[f]
<1>1. edited[f].when = "no" /\ FileOK(f) /\ ~BeingLookedAt(f)
  BY EditsKnown, Exclusive DEF Quiet, FilesInv
<1>2. Published(f) => live[f] = Mine(f)
  BY <1>1 DEF FileOK, IsMine
<1>3. Away(f) => live[f] = NoFile /\ \A e \in Of(f, "backup") : e.file = seen[f]
  <2>1. SUFFICES ASSUME Away(f) PROVE live[f] = NoFile /\ \A e \in Of(f, "backup") : e.file = seen[f]
    OBVIOUS
  <2>2. Of(f, "backup") # {}
    BY <2>1 DEF Away, ShapeInv, NamesThere, ListsOK
  <2> QED
    BY <1>1, <2>1, <2>2 DEF FileOK, Returns
<1>4. Published(f) \/ Away(f) \/ live[f] = seen[f]
  BY <1>1 DEF FileOK, Elsewhere
<1> QED
  BY <1>2, <1>3, <1>4 DEF Published, Away

LEMMA QuietIsNoSurprise ==
  ASSUME ShapeInv, EditsOK, FilesInv, Quiet, Forward, ~lapse
  PROVE  ~Surprise
<1>1. /\ file \in Files /\ Manifest \in Files /\ Chosen \subseteq Files
  BY ChosenAreAssets DEF ShapeInv, SetupTypeOK, RunTyped, Files
<1>2. /\ pc = "recheck" => Installed = {}
      /\ Writing => file \notin Installed
      /\ pc \in {"check", "move", "moved"} => Replaced(file)
  BY DEF ShapeInv, ListsOK
<1>3. ~(pc = "recheck" /\ \E f \in Chosen \cup {Manifest} : live[f] # seen[f])
  <2>1. SUFFICES ASSUME pc = "recheck", NEW f \in Chosen \cup {Manifest} PROVE live[f] = seen[f]
    OBVIOUS
  <2> QED
    BY <1>1, <1>2, <2>1, QuietFiles
<1>4. ASSUME pc \in {"check", "move"} PROVE live[file] = seen[file]
  BY <1>1, <1>2, <1>4, QuietFiles DEF Writing
<1>5. ASSUME pc = "moved" PROVE Entry(file, "backup").file = seen[file]
  <2>1. Of(file, "backup") # {}
    BY <1>2, <1>5 DEF ShapeInv, NamesThere
  <2>2. Entry(file, "backup") \in Of(file, "backup")
    BY <2>1, EntryOf
  <2> QED
    BY <1>1, <1>5, <2>2, QuietFiles
<1>6. ASSUME pc = "publish" PROVE live[file] = NoFile
  <2>1. file \notin Installed
    BY <1>2, <1>6 DEF Writing
  <2>2. Replaced(file) => live[file] = NoFile
    BY <1>1, <1>6, QuietFiles
  <2>3. ~Replaced(file) => live[file] = seen[file]
    BY <1>1, <1>6, <2>1, QuietFiles
  <2> QED
    BY <2>2, <2>3 DEF Replaced
<1>7. ASSUME pc = "published" PROVE live[file] = Mine(file)
  BY <1>1, <1>7, QuietFiles
<1>8. ASSUME pc \in {"next", "manifest"}, NEW f \in Files PROVE live[f] = Expected(f)
  BY <1>8, QuietFiles DEF Expected
<1>9. pc = "move" => live[file] # NoFile
  BY <1>2, <1>4 DEF Replaced
<1> QED
  BY <1>1, <1>3, <1>4, <1>5, <1>6, <1>7, <1>8, <1>9 DEF Surprise

LEMMA QuietIsNoConflict ==
  ASSUME ShapeInv, EditsOK, FilesInv, CompleteInv, Quiet, Forward, ~lapse
  PROVE  Conflicts(clients, live, version) = {}
<1>1. /\ Manifest \in Files /\ Chosen \subseteq Assets /\ Assets \subseteq Files
      /\ Manifest \notin Assets
  BY ChosenAreAssets, SetupAssumption DEF ShapeInv, Files
<1>2. SUFFICES ASSUME NEW f \in Chosen \cup {Manifest} PROVE State(f, live, version) # "conflict"
  BY DEF Conflicts, Chosen
<1>3. State(f, seen, version) # "conflict"
  BY Exclusive DEF ShapeInv, Phases, Conflicts, Chosen
<1>4. \A g \in Files : live[g] \in {NoFile, seen[g], Mine(g)}
  BY QuietFiles
<1>5. CASE f = Manifest
  <2>1. Mine(f).content = "manifest"
    BY <1>5 DEF Mine, Made
  <2> QED
    BY <1>1, <1>3, <1>4, <1>5, <2>1 DEF State
<1>6. CASE f # Manifest
  <2>1. f \in Chosen /\ f \in Files
    BY <1>1, <1>2, <1>6
  <2>2. CASE live[f] = NoFile
    BY <2>2 DEF State
  <2>3. CASE live[f] = Mine(f)
    <3>1. live[f].content = version
      BY <1>6, <2>3 DEF Mine, Made
    <3> QED
      BY <1>6, <3>1 DEF State
  <2>4. CASE live[f] = seen[f] /\ seen[f].content = version
    BY <1>6, <2>4 DEF State
  <2>5. CASE live[f] = seen[f] /\ seen[f] # NoFile /\ seen[f].content # version /\ live[f] # Mine(f)
    <3>1. f \notin Installed
      BY <2>1, <2>5, QuietFiles
    <3>2. State(f, seen, version) # "identical"
      BY <1>6, <2>5 DEF State
    <3>3. ~AssetsDone
      BY <1>1, <2>1, <3>1, <3>2 DEF AssetsDone, Todo
    <3>4. ~AssetsPast
      BY <3>3 DEF CompleteInv
    <3>5. Manifest \notin Installed /\ ~(Writing /\ file = Manifest)
      BY <3>4 DEF AssetsPast, ShapeInv, ListsOK
    <3>6. live[Manifest] = seen[Manifest]
      BY <1>1, <3>5, QuietFiles DEF Writing
    <3> QED
      BY <1>3, <1>6, <2>5, <3>6 DEF State
  <2> QED
    BY <1>4, <2>1, <2>2, <2>3, <2>4, <2>5
<1> QED
  BY <1>5, <1>6

LEMMA QuietStep ==
  ASSUME ShapeInv, RestoreInv, CompleteInv, QuietInv, [SetupNext]_setupVars
  PROVE  QuietInv'
<1>1. edits \in Nat /\ faults \in Nat /\ EditsOK /\ FilesInv
  BY DEF ShapeInv, SetupTypeOK, RunTyped, RestoreInv
<1>2. SUFFICES ASSUME Quiet'
               PROVE  /\ ~lapse'
                      /\ pc' # "idle" => status' # "rolled_back"
                      /\ Undoing' \/ Ended("crashed")' => Conflicts(clients, live, version)' = {}
  BY DEF QuietInv
<1>3. ~Fault
  <2>1. faults' = 0
    BY <1>2 DEF Quiet
  <2> QED
    BY <1>1, <2>1 DEF Fault
<1>4. faults' = faults
  <2>1. CASE UNCHANGED setupVars
    BY <2>1 DEF setupVars
  <2> QED
    BY <1>3, <2>1 DEF SetupNext, Start, Rechecked, Check, Move, Publish, Verify, Refuse, Error, Finish,
       Stage, Register, Unregister, KeepItem, Keep, Take, Taken, Restore, End, Crash, Edit
<1>5. edits' = edits
  <2>1. \A f : ~Edit(f)
    <3>1. edits' = 0
      BY <1>2 DEF Quiet
    <3> QED
      BY <1>1, <3>1 DEF Edit
  <2> QED
    BY <2>1 DEF setupVars, userVars, SetupNext, Start, Rechecked, Check, Move, Publish, Verify, Refuse,
       Error, Finish, Stage, Register, Unregister, KeepItem, Take, Taken, Restore, End, Crash
<1>6. Quiet /\ \A f : ~Edit(f)
  <2>1. edits' = 0
    BY <1>2 DEF Quiet
  <2>2. \A f : ~Edit(f)
    BY <1>1, <2>1 DEF Edit
  <2> QED
    BY <1>2, <1>4, <1>5, <2>2 DEF Quiet
<1>7. /\ ~lapse
      /\ pc # "idle" => status # "rolled_back"
      /\ Undoing \/ Ended("crashed") => Conflicts(clients, live, version) = {}
  BY <1>6 DEF QuietInv
<1>8. Forward => ~Surprise /\ Conflicts(clients, live, version) = {}
  BY <1>1, <1>6, <1>7, QuietIsNoSurprise, QuietIsNoConflict
<1>9. Forward \/ Undoing => Conflicts(clients, live, version) = {}
  BY <1>7, <1>8
<1>10. UNCHANGED <<live, clients, version>> =>
         Conflicts(clients, live, version)' = Conflicts(clients, live, version)
  BY DEF Conflicts, State
<1>11. CASE UNCHANGED setupVars
  <2>1. UNCHANGED <<live, clients, version, pc, status, lapse>>
    BY <1>11 DEF setupVars, diskVars, planVars, outVars
  <2> QED
    BY <1>7, <1>10, <2>1 DEF Undoing, Ended
<1>12. CASE \E cs \in Requests, v \in Versions, assetsOnly \in BOOLEAN : Start(cs, v, assetsOnly)
  <2>1. lapse' = FALSE /\ pc' \in {"idle", "recheck"} /\ status' \in {"blocked", "running"}
    BY <1>12 DEF Start
  <2> QED
    BY <2>1 DEF Undoing, Ended
<1>13. CASE \/ Rechecked \/ Check \/ Move \/ Publish \/ Verify \/ (\E f \in Files : Stage(f))
            \/ \E c \in ToSet(Clients) : Register(c)
  <2>1. Forward
    BY <1>13 DEF Rechecked, Check, Move, Publish, Verify, Stage, Register, Forward, Writing
  <2>2. status = "running"
    BY <2>1 DEF ShapeInv, Phases
  <2>3. /\ lapse' = lapse /\ status' = status
        /\ pc' \notin {"idle", "undo", "taken"}
    BY <1>3, <1>13, <2>1 DEF Rechecked, Check, Move, Publish, Verify, Stage, Register, outVars
  <2> QED
    BY <1>7, <2>2, <2>3 DEF Undoing, Ended
<1>14. CASE Refuse \/ Error
  BY <1>3, <1>8, <1>14, FailsForward DEF Refuse, Error
<1>15. CASE Finish
  <2>1. /\ Forward /\ status' = "installed" /\ UNCHANGED <<live, clients, version, lapse>>
    BY <1>15 DEF Finish, Forward, diskVars, planVars
  <2> QED
    BY <1>7, <1>9, <1>10, <2>1 DEF Ended
<1>16. CASE Unregister \/ Take \/ Taken \/ Restore
  <2>1. Undoing /\ undo # <<>> /\ Head(undo).do # "retire"
    BY <1>16 DEF Unregister, Take, Taken, Restore, Doing, Undoing, ShapeInv, Phases
  <2>2. status = "rolled_back" /\ pc # "idle"
    BY <2>1, DoingItem DEF Undoing, ShapeInv, Phases
  <2> QED
    BY <1>7, <2>2
<1>17. CASE KeepItem
  <2>1. /\ Undoing /\ UNCHANGED <<live, clients, version, status, lapse, pc>>
    BY <1>3, <1>17 DEF KeepItem, Keep, Doing, Undoing, planVars
  <2> QED
    BY <1>7, <1>9, <1>10, <2>1 DEF Undoing, Ended
<1>18. CASE End
  <2>1. /\ Undoing /\ pc' = "idle" /\ UNCHANGED <<status, lapse>>
    BY <1>18 DEF End, Undoing, outVars
  <2>2. status # "crashed"
    BY <2>1 DEF ShapeInv, Phases
  <2> QED
    BY <1>7, <2>1, <2>2 DEF Undoing, Ended
<1>19. CASE Crash
  <2>1. /\ pc # "idle" /\ pc' = "idle" /\ UNCHANGED <<live, clients, version, lapse>>
    BY <1>19 DEF Crash, diskVars, planVars
  <2>2. Forward \/ Undoing
    BY <2>1 DEF ShapeInv, Phases
  <2> QED
    BY <1>7, <1>9, <1>10, <2>1, <2>2
<1> QED
  BY <1>6, <1>11, <1>12, <1>13, <1>14, <1>15, <1>16, <1>17, <1>18, <1>19 DEF SetupNext

\* An interrupted run can be repeated: with the same clients and package it meets no
\* conflict, at whatever step the first one stopped, if nobody edits the files and no
\* clean-up of an earlier run met an error.
THEOREM RunIsResumable == SetupSpec => []Resumable
<1> DEFINE Inv == RestoreInv /\ CompleteInv /\ QuietInv
<1>1. SetupInit => Inv
  <2>1. SUFFICES ASSUME SetupInit PROVE Inv
    OBVIOUS
  <2>2. /\ pc = "idle" /\ status = "none" /\ edits = 0 /\ edited = [f \in Files |-> NotEdited]
        /\ lapse = FALSE
    BY <2>1 DEF SetupInit
  <2>3. RestoreInv
    BY <2>2 DEF RestoreInv, EditsOK, NotEdited, ClientsOK, FilesInv, EndedInv, Ended, Forward,
                Writing, Undoing
  <2>4. CompleteInv
    BY <2>2 DEF CompleteInv, AssetsPast, ManifestPast, Writing
  <2>5. QuietInv
    BY <2>2 DEF QuietInv, Undoing, Ended
  <2> QED
    BY <2>3, <2>4, <2>5
<1>2. ShapeInv /\ Inv /\ [SetupNext]_setupVars => Inv'
  <2>1. SUFFICES ASSUME ShapeInv, RestoreInv, CompleteInv, QuietInv, [SetupNext]_setupVars
                 PROVE  Inv'
    OBVIOUS
  <2>2. RestoreInv'
    BY <2>1, EditsStep, ClientsStep, FilesStep, EndedStep DEF RestoreInv
  <2>3. CompleteInv'
    BY <2>1, CompleteStep
  <2>4. QuietInv'
    BY <2>1, QuietStep
  <2> QED
    BY <2>2, <2>3, <2>4
<1>3. Inv => Resumable
  BY DEF QuietInv, Quiet, Resumable
<1>4. SetupSpec => []ShapeInv
  BY SetupShape
<1> HIDE DEF Inv
<1> QED
  BY <1>1, <1>2, <1>3, <1>4, PTL DEF SetupSpec

=============================================================================
