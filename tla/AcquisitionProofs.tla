------------------------ MODULE AcquisitionProofs ------------------------
(***************************************************************************)
(* What acquisition guarantees for any number of runs, of videos, of names   *)
(* and of tabs, with any errors, crashes and lost requests: proofs for         *)
(* SourceAcquisition, which runs it, and BrowserAttempts, which starts it.      *)
(***************************************************************************)
EXTENDS SourceAcquisition, BrowserAttempts, FiniteSetTheorems, SequenceTheorems, TLAPS

-----------------------------------------------------------------------------
(* SourceAcquisition: nothing in the corpus is replaced.                   *)

Texts == Runs \cup {None}

Snapshots == Names \X Runs

\* Only what tells of the corpus is typed: which videos a plan selects is of no matter.
CorpusTyped ==
  /\ transcripts \in [Names -> Texts] /\ insights \in [Names -> Texts]
  /\ indexed \subseteq Names /\ indexedInsights \subseteq Names
  /\ ready \in [Runs -> SUBSET Snapshots] /\ drafts \in [Runs -> SUBSET Snapshots]

\* A transcript and an insight stay as they were when they were put in place.
Kept ==
  \A n \in Names :
    /\ transcripts[n] # None => transcripts'[n] = transcripts[n]
    /\ insights[n] # None => insights'[n] = insights[n]

\* What a run has read is still so, and what it analyses is what it has read.
SnapshotsHold ==
  \A r \in Runs :
    \A s \in ready[r] \cup drafts[r] : s[2] # None /\ transcripts[s[1]] = s[2]

CorpusInv == CorpusTyped /\ SnapshotsHold /\ InsightOfTranscript

LEMMA InitCorpusInv == AcquisitionInit => CorpusInv
BY AcquisitionAssumption
DEF AcquisitionInit, CorpusInv, CorpusTyped, SnapshotsHold, InsightOfTranscript, Texts

\* Whatever the downloads and the analyses do, links replace nothing.
LEMMA CorpusStep ==
  ASSUME CorpusTyped, NEW r \in Runs, Step(r) \/ Crash(r)
  PROVE  Kept /\ CorpusTyped'
<1> USE DEF CorpusTyped, Texts, Snapshots
<1>1. ASSUME NEW q \in Requests, Begin(r, q) PROVE Kept /\ CorpusTyped'
  BY <1>1 DEF Begin, Kept, corpusVars
<1>2. CASE Look(r)
  BY <1>2 DEF Look, Kept, corpusVars
<1>3. CASE Download(r)
  BY <1>3 DEF Download, Promoted, Kept
<1>4. CASE Read(r)
  <2>1. Matching(Current(r)) \subseteq Snapshots
    BY DEF Matching, NamesOf
  <2> QED
    BY <1>4, <2>1 DEF Read, Skip, Kept, corpusVars
<1>5. CASE Analyze(r)
  BY <1>5 DEF Analyze, Missing, Kept, corpusVars, loopVars
<1>6. CASE Promote(r)
  BY <1>6 DEF Promote, Kept, loopVars
<1>7. CASE Check(r)
  BY <1>7 DEF Check, Kept, corpusVars, loopVars
<1>8. CASE Refresh(r)
  BY <1>8 DEF Refresh, Kept, loopVars
<1>9. CASE Crash(r)
  BY <1>9 DEF Crash, Kept, corpusVars, loopVars
<1> QED
  BY <1>1, <1>2, <1>3, <1>4, <1>5, <1>6, <1>7, <1>8, <1>9 DEF Step

LEMMA SnapshotsStep ==
  ASSUME CorpusInv, NEW r \in Runs, Step(r) \/ Crash(r)
  PROVE  SnapshotsHold'
<1>1. Kept /\ CorpusTyped'
  BY CorpusStep DEF CorpusInv
<1>2. \A t \in Runs : \A s \in ready[t] \cup drafts[t] :
        s \in Snapshots /\ s[2] # None /\ transcripts'[s[1]] = s[2]
  BY <1>1, AcquisitionAssumption
  DEF CorpusInv, CorpusTyped, SnapshotsHold, Kept, Snapshots
<1>3. SUFFICES \A t \in Runs : \A s \in ready'[t] \cup drafts'[t] :
                 \/ s \in ready[t] \cup drafts[t]
                 \/ s[2] # None /\ transcripts'[s[1]] = s[2]
  BY <1>2 DEF SnapshotsHold
<1> USE DEF CorpusInv, CorpusTyped
<1>4. CASE Read(r)
  BY <1>4 DEF Read, Skip, Matching, NamesOf, corpusVars
<1>5. CASE Analyze(r)
  BY <1>5 DEF Analyze, Missing, corpusVars, loopVars
<1>6. CASE Promote(r)
  BY <1>6 DEF Promote, loopVars
<1>7. ASSUME ~Read(r), ~Analyze(r), ~Promote(r)
      PROVE  ready' = ready /\ drafts' = drafts
  BY <1>7 DEF Step, Begin, Look, Download, Check, Refresh, Crash, loopVars
<1> QED
  BY <1>4, <1>5, <1>6, <1>7

LEMMA InsightStep ==
  ASSUME CorpusInv, NEW r \in Runs, Step(r) \/ Crash(r)
  PROVE  InsightOfTranscript'
<1>1. Kept /\ CorpusTyped'
  BY CorpusStep DEF CorpusInv
<1>2. ASSUME insights' = insights, indexed' = indexed, indexedInsights' = indexedInsights
      PROVE  InsightOfTranscript'
  BY <1>1, <1>2 DEF CorpusInv, CorpusTyped, InsightOfTranscript, Kept
<1>3. CASE Promote(r)
  <2>1. ASSUME NEW s \in drafts[r],
               insights' = [insights EXCEPT ![s[1]] = IF @ = None THEN s[2] ELSE @],
               UNCHANGED <<transcripts, indexed, indexedInsights>>
        PROVE  InsightOfTranscript'
    <3>1. s \in Snapshots /\ transcripts[s[1]] = s[2]
      BY DEF CorpusInv, CorpusTyped, SnapshotsHold
    <3> QED
      BY <1>1, <2>1, <3>1 DEF CorpusInv, CorpusTyped, InsightOfTranscript, Snapshots, Kept
  <2> QED
    BY <1>2, <1>3, <2>1 DEF Promote
<1>4. CASE Refresh(r)
  BY <1>1, <1>4 DEF Refresh, CorpusInv, InsightOfTranscript
<1>5. ASSUME ~Promote(r), ~Refresh(r)
      PROVE  insights' = insights /\ indexed' = indexed /\ indexedInsights' = indexedInsights
  BY <1>5 DEF Step, Begin, Look, Download, Read, Skip, Analyze, Check, Crash, corpusVars
<1> QED
  BY <1>2, <1>3, <1>4, <1>5

LEMMA NextCorpusInv == CorpusInv /\ [AcquisitionNext]_acquisitionVars => CorpusInv' /\ Kept
<1> SUFFICES ASSUME CorpusInv, [AcquisitionNext]_acquisitionVars PROVE CorpusInv' /\ Kept
  OBVIOUS
<1>1. ASSUME NEW r \in Runs, Step(r) \/ Crash(r) PROVE CorpusInv' /\ Kept
  BY <1>1, CorpusStep, SnapshotsStep, InsightStep DEF CorpusInv
<1>2. CASE UNCHANGED acquisitionVars
  BY <1>2 DEF acquisitionVars, corpusVars, loopVars, CorpusInv, CorpusTyped, SnapshotsHold,
     InsightOfTranscript, Kept
<1> QED
  BY <1>1, <1>2 DEF AcquisitionNext

LEMMA CorpusInvariant == AcquisitionSpec => []CorpusInv
BY InitCorpusInv, NextCorpusInv, PTL DEF AcquisitionSpec

\* An insight is of the transcript beside it, and what is indexed is in the corpus,
\* whichever runs download and analyse the same video at once (_promote_regular_file,
\* analyze_all).
THEOREM InsightsMatch == AcquisitionSpec => []InsightOfTranscript
<1>1. CorpusInv => InsightOfTranscript
  BY DEF CorpusInv
<1> QED
  BY <1>1, CorpusInvariant, PTL

\* No run replaces or removes a transcript or an insight (_promote_regular_file).
THEOREM CorpusIsKept == AcquisitionSpec => [][Kept]_acquisitionVars
BY CorpusInvariant, NextCorpusInv, PTL DEF AcquisitionSpec

-----------------------------------------------------------------------------
(* SourceAcquisition: what a report tells.                                 *)

Statuses == {"none", "failed_retryable", "already_present", "acquired", "no_transcript"}

RunFunctions ==
  /\ pc = [r \in Runs |-> pc[r]] /\ result = [r \in Runs |-> result[r]]
  /\ selected = [r \in Runs |-> selected[r]] /\ done = [r \in Runs |-> done[r]]

ReportTyped ==
  /\ RunFunctions
  /\ items \in [Runs -> [Videos -> [status : Statuses, sha : Texts]]]

\* A transcript that was found in the cache is still found when it is read.
CachedIsThere ==
  \A r \in Runs : pc[r] = "read" /\ result[r] = "cached" => NamesOf(Current(r)) # {}

ReportInv == CorpusInv /\ ReportTyped /\ CachedIsThere /\ ReportedIsPublished

LEMMA InitReportInv == AcquisitionInit => ReportInv
<1> SUFFICES ASSUME AcquisitionInit PROVE ReportInv
  OBVIOUS
<1>1. ReportTyped
  BY DEF AcquisitionInit, ReportTyped, RunFunctions, Statuses, NoItem, Texts
<1> QED
  BY <1>1, InitCorpusInv DEF AcquisitionInit, ReportInv, CachedIsThere, ReportedIsPublished, NoItem

\* What an item may say.
Told(item, v) ==
  /\ item.sha # None => \E n \in NamesOf(v) : transcripts[n] = item.sha
  /\ item.status \in {"acquired", "already_present"} => item.sha # None

\* A run writes the item of one video, or none.
LEMMA ItemStep ==
  ASSUME ReportInv, Kept, CorpusInv', NEW r \in Runs, NEW v,
         NEW status \in Statuses, NEW sha \in Texts,
         items' = [items EXCEPT ![r] = [@ EXCEPT ![v] = [status |-> status, sha |-> sha]]],
         v \in Videos => Told([status |-> status, sha |-> sha], v)'
  PROVE  /\ items' \in [Runs -> [Videos -> [status : Statuses, sha : Texts]]]
         /\ ReportedIsPublished'
<1> DEFINE new == [status |-> status, sha |-> sha]
<1>1. new \in [status : Statuses, sha : Texts] /\ new.status = status /\ new.sha = sha
  OBVIOUS
<1> HIDE DEF new
<1>2. items' = [items EXCEPT ![r] = [items[r] EXCEPT ![v] = new]]
  BY DEF new
<1>3. items' \in [Runs -> [Videos -> [status : Statuses, sha : Texts]]]
  <2> DEFINE Row == [Videos -> [status : Statuses, sha : Texts]]
             row == [items[r] EXCEPT ![v] = new]
  <2>1. items \in [Runs -> Row]
    BY DEF ReportInv, ReportTyped
  <2>2. row \in Row
    BY <1>1, <2>1
  <2> HIDE DEF Row, row
  <2>3. items' \in [Runs -> Row]
    BY <1>2, <2>1, <2>2 DEF row
  <2> QED
    BY <2>3 DEF Row
<1>4. \A t \in Runs, u \in Videos : items'[t][u] = items[t][u] \/ (u = v /\ items'[t][u] = new)
  BY <1>2 DEF ReportInv, ReportTyped
<1>5. \A t \in Runs, u \in Videos : Told(items[t][u], u)'
                                    \/ items'[t][u] # items[t][u]
  BY DEF ReportInv, ReportedIsPublished, Told, NamesOf, Kept
<1>6. \A t \in Runs, u \in Videos : Told(items[t][u], u)'
  <2>1. v \in Videos => Told(new, v)'
    BY DEF new
  <2> QED
    BY <1>4, <1>5, <2>1 DEF Told
<1> QED
  BY <1>3, <1>6 DEF ReportedIsPublished, Told

LEMMA ItemsKept ==
  ASSUME ReportInv, Kept, UNCHANGED items
  PROVE  ReportedIsPublished'
BY DEF ReportInv, ReportedIsPublished, NamesOf, Kept

\* The item of a video that failed tells of no transcript.
LEMMA SkipStep ==
  ASSUME ReportInv, Kept, CorpusInv', NEW r \in Runs, Skip(r)
  PROVE  /\ items' \in [Runs -> [Videos -> [status : Statuses, sha : Texts]]]
         /\ ReportedIsPublished'
<1>1. PICK v : v = Current(r)
  OBVIOUS
<1>2. Told([status |-> "failed_retryable", sha |-> None], v)'
  BY DEF Told
<1>3. items' = [items EXCEPT ![r] = [@ EXCEPT ![v] =
                  [status |-> "failed_retryable", sha |-> None]]]
  BY <1>1 DEF Skip, Item
<1>4. "failed_retryable" \in Statuses /\ None \in Texts
  BY DEF Statuses, Texts
<1> QED
  BY <1>2, <1>3, <1>4, ItemStep

\* The status of a video whose directory was read.
LEMMA StatusOf ==
  ASSUME NEW r \in Runs
  PROVE  LET found == Matching(Current(r)) IN
           /\ Status(r, found) \in {"already_present", "failed_retryable", "acquired",
                                    "no_transcript"}
           /\ Status(r, found) = "already_present" => result[r] = "cached"
           /\ Status(r, found) = "acquired" => found # {}
<1>1. CASE result[r] = "cached"
  BY <1>1, Zenon DEF Status
<1>2. CASE result[r] \in {"error", "blocked"} /\ result[r] # "cached"
  BY <1>2, Zenon DEF Status
<1>3. CASE result[r] \notin {"cached", "error", "blocked"}
  BY <1>3, Zenon DEF Status
<1> QED
  BY <1>1, <1>2, <1>3

\* The item of a video whose directory was read.
LEMMA ReadStep ==
  ASSUME ReportInv, Kept, CorpusInv', NEW r \in Runs, Read(r)
  PROVE  ReportTyped' /\ ReportedIsPublished'
<1> DEFINE found == Matching(Current(r))
<1>0. RunFunctions'
  BY DEF Read, Skip, Goto, ReportInv, ReportTyped, RunFunctions, planVars
<1>1. CASE Skip(r)
  BY <1>0, <1>1, SkipStep DEF ReportTyped
<1>2. ASSUME NEW hash \in Hashes(r, found), Item(r, Status(r, found), hash)
      PROVE  ReportTyped' /\ ReportedIsPublished'
  <2>1. PICK v : v = Current(r)
    OBVIOUS
  <2>2. PICK status : status = Status(r, found)
    OBVIOUS
  <2>3. status \in Statuses
    BY <2>2, StatusOf DEF Statuses
  <2>4. hash \in Texts /\ (hash # None => \E n \in NamesOf(v) : transcripts[n] = hash)
    <3>1. CASE found = {}
      BY <3>1 DEF Hashes, Texts
    <3>2. CASE found # {}
      <4>1. PICK s \in found : hash = s[2]
        BY <3>2 DEF Hashes
      <4>2. PICK n \in NamesOf(v) : s = <<n, transcripts[n]>>
        BY <2>1, <4>1 DEF Matching
      <4> QED
        BY <4>1, <4>2 DEF NamesOf, ReportInv, CorpusInv, CorpusTyped
    <3> QED
      BY <3>1, <3>2
  <2>5. status \in {"acquired", "already_present"} => found # {}
    <3>1. result[r] = "cached" => found # {}
      BY DEF Matching, Read, ReportInv, CachedIsThere
    <3> QED
      BY <2>2, <3>1, StatusOf
  <2>6. found # {} => hash # None
    BY DEF Hashes, Matching, NamesOf
  <2>7. \A n \in NamesOf(v) : n \in NamesOf(v)' /\ transcripts'[n] = transcripts[n]
    BY DEF NamesOf, Kept
  <2>8. Told([status |-> status, sha |-> hash], v)'
    BY <2>4, <2>5, <2>6, <2>7 DEF Told
  <2>9. items' = [items EXCEPT ![r] = [@ EXCEPT ![v] = [status |-> status, sha |-> hash]]]
    BY <1>2, <2>1, <2>2 DEF Item
  <2> QED
    BY <1>0, <2>3, <2>4, <2>8, <2>9, ItemStep DEF ReportTyped
<1> QED
  BY <1>1, <1>2 DEF Read

\* A run reads the directory only after it has looked or downloaded, and a transcript
\* that was there when it looked stays.
LEMMA CachedStep ==
  ASSUME ReportInv, Kept, NEW r \in Runs, Step(r) \/ Crash(r)
  PROVE  CachedIsThere'
<1> SUFFICES ASSUME NEW t \in Runs, pc'[t] = "read", result'[t] = "cached"
             PROVE  (NamesOf(Current(t)) # {})'
  BY DEF CachedIsThere
<1> USE DEF ReportInv, ReportTyped, RunFunctions, Goto
<1>1. \A v : NamesOf(v) # {} => NamesOf(v)' # {}
  BY DEF NamesOf, Kept
<1>2. ASSUME pc[t] = "read", result[t] = "cached", selected'[t] = selected[t],
             done'[t] = done[t]
      PROVE  (NamesOf(Current(t)) # {})'
  <2>1. PICK v : v = Current(t)
    OBVIOUS
  <2>2. v = Current(t)'
    BY <1>2, <2>1 DEF Current
  <2> QED
    BY <1>1, <1>2, <2>1, <2>2 DEF CachedIsThere
<1>3. CASE t # r
  <2>1. pc[t] = pc'[t] /\ result[t] = result'[t] /\ selected'[t] = selected[t] /\ done'[t] = done[t]
    BY <1>3 DEF Step, Begin, Look, Skip, Download, Read, Analyze, Promote, Check, Refresh,
       Crash, planVars, loopVars
  <2> QED
    BY <1>2, <2>1
<1>4. CASE t = r /\ Look(r)
  <2>1. NamesOf(Current(r)) # {} /\ UNCHANGED <<transcripts, selected, done>>
    BY <1>4 DEF Look, Skip, corpusVars, planVars
  <2> QED
    BY <1>4, <2>1 DEF NamesOf, Current
<1>5. CASE t = r /\ ~Look(r)
  BY <1>5 DEF Step, Begin, Skip, Download, Read, Analyze, Promote, Check, Refresh, Crash
<1> QED
  BY <1>3, <1>4, <1>5

\* The other steps leave the report alone.
LEMMA OtherStep ==
  ASSUME ReportInv, Kept, CorpusInv', NEW r \in Runs, Step(r) \/ Crash(r), ~Read(r)
  PROVE  ReportTyped' /\ ReportedIsPublished'
<1>1. RunFunctions'
  BY DEF Step, Begin, Look, Skip, Download, Analyze, Promote, Check, Refresh, Crash, Goto,
     planVars, loopVars, ReportInv, ReportTyped, RunFunctions
<1>2. Skip(r) \/ UNCHANGED items
  BY DEF Step, Begin, Look, Download, Analyze, Promote, Check, Refresh, Crash, loopVars
<1> QED
  BY <1>1, <1>2, SkipStep, ItemsKept DEF ReportInv, ReportTyped

LEMMA NextReportInv == ReportInv /\ [AcquisitionNext]_acquisitionVars => ReportInv'
<1> SUFFICES ASSUME ReportInv, [AcquisitionNext]_acquisitionVars PROVE ReportInv'
  OBVIOUS
<1>1. CorpusInv' /\ Kept
  BY NextCorpusInv DEF ReportInv
<1>2. ASSUME NEW r \in Runs, Step(r) \/ Crash(r) PROVE ReportInv'
  BY <1>1, <1>2, CachedStep, ReadStep, OtherStep DEF ReportInv
<1>3. CASE UNCHANGED acquisitionVars
  BY <1>1, <1>3, ItemsKept DEF acquisitionVars, corpusVars, planVars, loopVars, ReportInv,
     ReportTyped, RunFunctions, CachedIsThere, NamesOf, Current
<1> QED
  BY <1>2, <1>3 DEF AcquisitionNext

\* The hash in a report is that of a transcript that is and stays in the corpus, also
\* when another run was the first to put it there (execute_acquisition, _matching_vtts).
THEOREM ReportsArePublished == AcquisitionSpec => []ReportedIsPublished
<1>1. ReportInv => ReportedIsPublished
  BY DEF ReportInv
<1> QED
  BY <1>1, InitReportInv, NextReportInv, PTL DEF AcquisitionSpec

-----------------------------------------------------------------------------
(* SourceAcquisition: what a run that exits with 0 has done.               *)

IsList(s) == \E n \in Nat : s = [k \in 1..n |-> s[k]]

\* A list has as many members as places, or fewer.
LEMMA MembersOf ==
  ASSUME NEW s, IsList(s)
  PROVE  /\ Len(s) \in Nat /\ DOMAIN s = 1..Len(s)
         /\ \A k \in 1..Len(s) : s[k] \in ToSet(s)
         /\ IsFiniteSet(ToSet(s)) /\ Cardinality(ToSet(s)) <= Len(s)
<1>1. PICK n \in Nat : s = [k \in 1..n |-> s[k]]
  BY DEF IsList
<1>2. s \in [1..n -> ToSet(s)] /\ DOMAIN s = 1..n
  BY <1>1 DEF ToSet
<1>3. Len(s) = n
  BY <1>2
<1>4. s \in Surjection(1..n, ToSet(s))
  BY <1>2 DEF ToSet, Surjection
<1>5. IsFiniteSet(1..n) /\ Cardinality(1..n) = n
  BY FS_Interval
<1> QED
  BY <1>2, <1>3, <1>4, <1>5, FS_Surjection

\* A plan is a list.
LEMMA PlanIsList ==
  ASSUME NEW q \in Requests
  PROVE  IsList(Planned(q.found, q.years))
<1> DEFINE found == q.found
           years == q.years
           picked == {i \in DOMAIN found :
                        /\ found[i].valid
                        /\ \A j \in 1..(i - 1) : found[j].id # found[i].id
                        /\ years # {} => found[i].year \in years}
           n == Cardinality(picked)
<1>1. DOMAIN found = 1..Len(found) /\ Len(found) \in Nat
  BY AcquisitionAssumption
<1>2. IsFiniteSet(picked)
  <2>1. picked \in SUBSET (1..Len(found))
    BY <1>1
  <2>2. IsFiniteSet(1..Len(found))
    BY <1>1, FS_Interval
  <2> HIDE DEF picked
  <2> QED
    BY <2>1, <2>2, FS_Subset
<1>3. n \in Nat
  BY <1>2, FS_CardinalityType
<1>4. \E f : Planned(found, years) = [k \in 1..n |-> f[k]]
  <2> DEFINE f == [k \in 1..n |->
                     found[CHOOSE i \in picked : Cardinality({j \in picked : j <= i}) = k].id]
  <2>1. Planned(found, years) = f
    BY DEF Planned
  <2> QED
    BY <2>1
<1> HIDE DEF n
<1> QED
  BY <1>3, <1>4 DEF IsList

\* Where a run is in its plan, and that what it has read is of its plan.
PlaceOK(r) ==
  /\ IsList(selected[r])
  /\ done[r] \in Nat /\ done[r] <= Len(selected[r])
  /\ pc[r] \in {"download", "read"} => done[r] < Len(selected[r])
  /\ pc[r] = "start" => done[r] = 0 /\ ready[r] = {}
  /\ \A s \in ready[r] : s[1][1] \in ToSet(selected[r])

\* The insight that was asked for is there.
Analysed(r, s) == options[r].analyze => insights[s[1]] # None

\* It is in the indexes, when they were to be refreshed.
Shown(r, s) ==
  options[r].refresh =>
    s[1] \in indexed /\ (options[r].analyze => s[1] \in indexedInsights)

\* What a run without failures has made sure of before it refreshes, and when it ends.
ServedOK(r) ==
  r \notin failures =>
    /\ pc[r] = "refresh" => \A v \in ReadyVideos(r) :
         \E s \in ready[r] : s[1][1] = v /\ Analysed(r, s)
    /\ pc[r] = "done" => \A v \in ReadyVideos(r) :
         \E s \in ready[r] : s[1][1] = v /\ Analysed(r, s) /\ Shown(r, s)

ExitInv ==
  /\ CorpusInv /\ RunFunctions /\ options = [r \in Runs |-> options[r]]
  /\ \A r \in Runs : PlaceOK(r) /\ ServedOK(r)

LEMMA InitExitInv == AcquisitionInit => ExitInv
<1> SUFFICES ASSUME AcquisitionInit PROVE ExitInv
  OBVIOUS
<1>1. CorpusInv
  BY InitCorpusInv
<1>2. IsList(<<>>)
  BY DEF IsList
<1> QED
  BY <1>1, <1>2 DEF AcquisitionInit, ExitInv, RunFunctions, PlaceOK, ServedOK

\* A run is not touched by the steps of the others.
Untouched(t) ==
  /\ pc'[t] = pc[t] /\ selected'[t] = selected[t] /\ options'[t] = options[t]
  /\ done'[t] = done[t] /\ ready'[t] = ready[t]
  /\ t \in failures' <=> t \in failures

LEMMA OthersUntouched ==
  ASSUME ExitInv, NEW r \in Runs, Step(r) \/ Crash(r)
  PROVE  /\ RunFunctions' /\ (options = [t \in Runs |-> options[t]])'
         /\ \A t \in Runs : t # r => Untouched(t)
<1> USE DEF ExitInv, RunFunctions, CorpusInv, CorpusTyped, Untouched
<1>1. ASSUME NEW q \in Requests, Begin(r, q)
      PROVE  /\ RunFunctions' /\ (options = [t \in Runs |-> options[t]])'
             /\ \A t \in Runs : t # r => Untouched(t)
  BY <1>1 DEF Begin, Goto, Fails
<1>2. CASE Look(r)
  BY <1>2 DEF Look, Skip, Goto, Fails, planVars
<1>3. CASE Download(r)
  BY <1>3 DEF Download, Goto, planVars
<1>4. CASE Read(r)
  BY <1>4 DEF Read, Skip, Goto, Fails, planVars
<1>5. CASE Analyze(r)
  BY <1>5 DEF Analyze, Goto, Fails, planVars, loopVars
<1>6. CASE Promote(r)
  BY <1>6 DEF Promote, Goto, Fails, planVars, loopVars
<1>7. CASE Check(r)
  BY <1>7 DEF Check, Goto, Fails, planVars, loopVars
<1>8. CASE Refresh(r)
  BY <1>8 DEF Refresh, Goto, Fails, planVars, loopVars
<1>9. CASE Crash(r)
  BY <1>9 DEF Crash, Goto, planVars, loopVars
<1> QED
  BY <1>1, <1>2, <1>3, <1>4, <1>5, <1>6, <1>7, <1>8, <1>9 DEF Step

\* The indexes only grow: a refresh indexes all that is there.
LEMMA IndexesGrow ==
  ASSUME CorpusInv, NEW r \in Runs, Step(r) \/ Crash(r)
  PROVE  indexed \subseteq indexed' /\ indexedInsights \subseteq indexedInsights'
<1>1. CASE Refresh(r)
  BY <1>1 DEF Refresh, CorpusInv, CorpusTyped, InsightOfTranscript
<1>2. ASSUME ~Refresh(r) PROVE indexed' = indexed /\ indexedInsights' = indexedInsights
  BY <1>2 DEF Step, Begin, Look, Download, Read, Analyze, Promote, Check, Crash, corpusVars
<1> QED
  BY <1>1, <1>2

\* What the others do is of use at most.
LEMMA ServedStays ==
  ASSUME ExitInv, NEW t \in Runs, Untouched(t), Kept,
         indexed \subseteq indexed', indexedInsights \subseteq indexedInsights'
  PROVE  (PlaceOK(t) /\ ServedOK(t))'
<1>1. PlaceOK(t) /\ ServedOK(t)
  BY DEF ExitInv
<1>2. PlaceOK(t)'
  BY <1>1 DEF PlaceOK, Untouched
<1>3. \A s \in ready[t] : s[1] \in Names
  BY DEF ExitInv, CorpusInv, CorpusTyped, Snapshots
<1>4. \A s \in ready[t] : /\ Analysed(t, s) => Analysed(t, s)'
                          /\ Shown(t, s) => Shown(t, s)'
  BY <1>3 DEF Analysed, Shown, Untouched, Kept
<1>5. ReadyVideos(t)' = ReadyVideos(t)
  BY DEF ReadyVideos, Untouched
<1>6. ServedOK(t)'
  BY <1>1, <1>4, <1>5 DEF ServedOK, Untouched
<1> QED
  BY <1>2, <1>6

\* Where a run is after a step of its own.
LEMMA PlaceStep ==
  ASSUME ExitInv, NEW r \in Runs, Step(r) \/ Crash(r)
  PROVE  PlaceOK(r)'
<1>1. PlaceOK(r)
  BY DEF ExitInv
<1> USE DEF ExitInv, RunFunctions, CorpusInv, CorpusTyped
<1>2. ASSUME NEW q \in Requests, Begin(r, q) PROVE PlaceOK(r)'
  <2>1. selected'[r] = Planned(q.found, q.years) /\ ready' = ready /\ done' = done
        /\ pc[r] = "start" /\ pc'[r] = "look"
    BY <1>2 DEF Begin, Goto
  <2>2. IsList(selected'[r]) /\ Len(selected'[r]) \in Nat
    BY <2>1, PlanIsList, MembersOf
  <2> QED
    BY <1>1, <2>1, <2>2 DEF PlaceOK
<1>3. ASSUME UNCHANGED <<selected, done, ready>>, pc'[r] \notin {"start", "download", "read"}
      PROVE  PlaceOK(r)'
  BY <1>1, <1>3 DEF PlaceOK
<1>4. CASE Look(r)
  BY <1>1, <1>4, MembersOf DEF Look, Skip, Goto, planVars, PlaceOK
<1>5. CASE Download(r)
  BY <1>1, <1>5 DEF Download, Goto, planVars, PlaceOK
<1>6. CASE Read(r)
  <2>0. pc[r] = "read" /\ done[r] < Len(selected[r]) /\ done[r] \in Nat
        /\ IsList(selected[r])
    BY <1>1, <1>6 DEF Read, PlaceOK
  <2>1. Len(selected[r]) \in Nat /\ Current(r) \in ToSet(selected[r])
    <3>1. /\ Len(selected[r]) \in Nat
          /\ \A k \in 1..Len(selected[r]) : selected[r][k] \in ToSet(selected[r])
      BY <2>0, MembersOf
    <3>2. done[r] + 1 \in 1..Len(selected[r])
      BY <2>0, <3>1
    <3> QED
      BY <3>1, <3>2 DEF Current
  <2>2. selected' = selected /\ done'[r] = done[r] + 1 /\ pc'[r] = "look"
    BY <1>6 DEF Read, Skip, Goto, planVars
  <2>3. \A s \in ready'[r] : s \in ready[r] \/ s[1][1] = Current(r)
    BY <1>6 DEF Read, Matching, NamesOf
  <2> QED
    BY <1>1, <2>0, <2>1, <2>2, <2>3 DEF PlaceOK
<1>7. CASE Analyze(r)
  BY <1>3, <1>7 DEF Analyze, Goto, planVars, loopVars
<1>8. CASE Promote(r)
  BY <1>3, <1>8 DEF Promote, Goto, planVars, loopVars
<1>9. CASE Check(r)
  BY <1>3, <1>9 DEF Check, Goto, planVars, loopVars
<1>10. CASE Refresh(r)
  BY <1>3, <1>10 DEF Refresh, Goto, planVars, loopVars
<1>11. CASE Crash(r)
  BY <1>3, <1>11 DEF Crash, Goto, planVars, loopVars
<1> QED
  BY <1>2, <1>4, <1>5, <1>6, <1>7, <1>8, <1>9, <1>10, <1>11 DEF Step

\* A run goes on to the refresh with the insights it needs, and ends with all in the indexes.
LEMMA ServedStep ==
  ASSUME ExitInv, Kept, CorpusInv', NEW r \in Runs, Step(r) \/ Crash(r)
  PROVE  ServedOK(r)'
<1>1. PlaceOK(r) /\ ServedOK(r)
  BY DEF ExitInv
<1> USE DEF ExitInv, RunFunctions
<1>2. ASSUME ~Check(r), ~Refresh(r)
      PROVE  pc'[r] \notin {"refresh", "done"}
  BY <1>2 DEF Step, Begin, Look, Skip, Download, Read, Analyze, Promote, Crash, Goto
<1>3. CASE Check(r)
  <2>1. UNCHANGED <<ready, insights, options>> /\ pc'[r] = "refresh"
    BY <1>3 DEF Check, Goto, planVars, loopVars, corpusVars
  <2>2. r \notin failures' => \A v \in ReadyVideos(r) : HasInsight(r, v)
    BY <1>3 DEF Check, Fails
  <2> QED
    BY <2>1, <2>2 DEF ServedOK, ReadyVideos, HasInsight, Analysed
<1>4. CASE Refresh(r)
  <2> SUFFICES ASSUME r \notin failures', NEW v \in ReadyVideos(r)'
               PROVE  \E s \in ready'[r] : s[1][1] = v /\ Analysed(r, s)' /\ Shown(r, s)'
    BY <1>4 DEF Refresh, Goto, ServedOK
  <2>1. UNCHANGED <<ready, insights, transcripts, options>>
    BY <1>4 DEF Refresh, planVars, loopVars
  <2>2. r \notin failures /\ v \in ReadyVideos(r) /\ ready[r] # {}
    BY <1>4, <2>1 DEF Refresh, Fails, ReadyVideos
  <2>3. options[r].refresh =>
          /\ indexed' = {n \in Names : transcripts[n] # None}
          /\ indexedInsights' = {n \in Names : insights[n] # None}
    BY <1>4, <2>2 DEF Refresh, Refreshes, Fails
  <2>4. PICK s \in ready[r] : s[1][1] = v /\ Analysed(r, s)
    <3>1. CASE pc[r] = "refresh"
      BY <1>1, <2>2, <3>1 DEF ServedOK
    <3>2. CASE Loaded(r)
      BY <2>2, <3>2 DEF Loaded, ReadyVideos, Analysed
    <3> QED
      BY <1>4, <3>1, <3>2 DEF Refresh
  <2>5. s[1] \in Names /\ transcripts[s[1]] # None
    BY DEF CorpusInv, CorpusTyped, Snapshots, SnapshotsHold
  <2> QED
    BY <2>1, <2>3, <2>4, <2>5 DEF Analysed, Shown
<1> QED
  BY <1>2, <1>3, <1>4 DEF ServedOK

LEMMA NextExitInv == ExitInv /\ [AcquisitionNext]_acquisitionVars => ExitInv'
<1> SUFFICES ASSUME ExitInv, [AcquisitionNext]_acquisitionVars PROVE ExitInv'
  OBVIOUS
<1>1. CorpusInv' /\ Kept
  BY NextCorpusInv DEF ExitInv
<1>2. ASSUME NEW r \in Runs, Step(r) \/ Crash(r) PROVE ExitInv'
  <2>1. \A t \in Runs : t # r => (PlaceOK(t) /\ ServedOK(t))'
    BY <1>1, <1>2, OthersUntouched, IndexesGrow, ServedStays DEF ExitInv
  <2>2. PlaceOK(r)' /\ ServedOK(r)'
    BY <1>1, <1>2, PlaceStep, ServedStep
  <2>3. RunFunctions' /\ (options = [t \in Runs |-> options[t]])'
    BY <1>2, OthersUntouched
  <2> QED
    BY <1>1, <2>1, <2>2, <2>3 DEF ExitInv
<1>3. CASE UNCHANGED acquisitionVars
  <2>1. UNCHANGED <<transcripts, insights, indexed, indexedInsights, pc, selected, options,
                    done, result, ready, failures>>
    BY <1>3 DEF acquisitionVars, corpusVars, planVars, loopVars
  <2>2. \A t \in Runs : (PlaceOK(t) /\ ServedOK(t))'
    BY <1>1, <2>1, ServedStays DEF Untouched
  <2> QED
    BY <1>1, <2>1, <2>2 DEF ExitInv, RunFunctions
<1> QED
  BY <1>2, <1>3 DEF AcquisitionNext

\* A run that exits with 0 has everything it was asked for, and it stays so
\* (execute_acquisition, AcquisitionReport.exit_code): as many videos were read as were
\* planned, each of them was planned, and so each that was planned was read.
THEOREM ExitZeroMeansComplete == AcquisitionSpec => []ExitZeroIsComplete
<1>1. ExitInv => ExitZeroIsComplete
  <2> SUFFICES ASSUME ExitInv, NEW r \in Runs, pc[r] = "done", ExitCode(r) = 0,
                      NEW v \in ToSet(selected[r])
               PROVE  \E n \in NamesOf(v) :
                        /\ options[r].analyze => insights[n] # None
                        /\ options[r].refresh =>
                             n \in indexed /\ (options[r].analyze => n \in indexedInsights)
    BY DEF ExitZeroIsComplete
  <2>1. PlaceOK(r) /\ ServedOK(r) /\ CorpusInv
    BY DEF ExitInv
  <2> DEFINE planned == ToSet(selected[r])
             m == Cardinality(ReadyVideos(r))
  <2>2. /\ Len(selected[r]) \in Nat /\ IsFiniteSet(planned)
        /\ Cardinality(planned) <= Len(selected[r])
    BY <2>1, MembersOf DEF PlaceOK
  <2>3. ReadyVideos(r) \in SUBSET planned
    BY <2>1 DEF PlaceOK, ReadyVideos
  <2>4. /\ m \in Nat /\ Cardinality(planned) \in Nat /\ m <= Cardinality(planned)
        /\ Cardinality(planned) = m => planned = ReadyVideos(r)
    BY <2>2, <2>3, FS_Subset, FS_CardinalityType
  <2>5. r \notin failures /\ ~(m < Len(selected[r]))
    BY DEF ExitCode
  <2>6. planned = ReadyVideos(r)
    <3> HIDE DEF planned, m
    <3> QED
      BY <2>2, <2>4, <2>5
  <2>7. PICK s \in ready[r] : s[1][1] = v /\ Analysed(r, s) /\ Shown(r, s)
    BY <2>1, <2>5, <2>6 DEF ServedOK
  <2>8. s[1] \in NamesOf(v)
    BY <2>1, <2>7 DEF CorpusInv, CorpusTyped, Snapshots, SnapshotsHold, NamesOf
  <2> QED
    BY <2>7, <2>8 DEF Analysed, Shown
<1> QED
  BY <1>1, InitExitInv, NextExitInv, PTL DEF AcquisitionSpec

-----------------------------------------------------------------------------
(* BrowserAttempts: what the tabs and the server know of each other.       *)

Stages == {"none", "new", "admitting", "polling", "finalizing"}

Attempts ==
  [stage : Stages, scope : Scopes \cup {Nothing}, generation : Nat, job : Ids \cup {Nothing}]

TabStates ==
  [pc : {"ready", "locking", "sending", "polling", "completing"}, attempt : Attempts,
   approved : Plans \cup {Nothing}]

Posts ==
  [tab : Tabs \cup {Nothing}, scope : Scopes, generation : Nat,
   answer : {"none", "accepted", "refused", "busy"}, job : Ids \cup {Nothing}]

AttemptsTyped ==
  /\ jobs \in [Ids -> {"unknown", "pending", "done", "forgotten"}]
  /\ work \in [Ids -> [scope : Scopes \cup {Nothing}, generation : Nat, late : BOOLEAN]]
  /\ registry \in Seq(Ids)
  /\ generation \in [Scopes -> Nat]
  /\ holder \in [Scopes -> Tabs \cup {Nothing}]
  /\ tab \in [Tabs -> TabStates]
  /\ saved \in [Tabs -> Attempts]
  /\ requests \subseteq Posts

Over(id) == jobs[id] \in {"done", "forgotten"}

\* An attempt is of a generation that has begun, and knows a job only while it polls.
Valid(a) ==
  /\ a.stage # "none" => a.scope \in Scopes
  /\ a.stage \notin {"none", "new"} => a.generation <= generation[a.scope]
  /\ a.job # Nothing => a.stage = "polling"

\* A tab that completes an attempt with a job has seen the job end.
TabOK(t) ==
  /\ Valid(tab[t].attempt) /\ Valid(saved[t]) /\ saved[t].stage # "new"
  /\ At(t, "ready") => tab[t].attempt.stage # "new"
  /\ At(t, "locking") => tab[t].attempt.stage \in {"new", "admitting"}
  /\ At(t, "sending") => tab[t].attempt.stage = "admitting"
  /\ At(t, "polling") => tab[t].attempt.stage = "polling"
  /\ At(t, "completing") =>
       /\ tab[t].attempt.stage \in {"polling", "finalizing"}
       /\ tab[t].attempt.job # Nothing => Over(tab[t].attempt.job)

\* A tab that waits for an answer has one request, and holds the lock of its scope, so
\* that the request's generation cannot end.
RequestsOK ==
  \A r \in requests : r.tab # Nothing =>
    /\ At(r.tab, "sending") /\ holder[r.scope] = r.tab
    /\ r.generation = generation[r.scope]
    /\ r.answer = "accepted" => r.job # Nothing
    /\ \A q \in requests : q.tab = r.tab => q = r

WorkOK == \A id \in Ids : jobs[id] # "unknown" => work[id].scope \in Scopes

AttemptsInv ==
  /\ AttemptsTyped /\ RequestsOK /\ WorkOK
  /\ \A t \in Tabs : TabOK(t)

LEMMA InitAttemptsInv == AttemptsInit => AttemptsInv
<1> SUFFICES ASSUME NEW before \in [Scopes -> 0..MaxGeneration], AttemptsInitFrom(before)
             PROVE  AttemptsInv
  BY DEF AttemptsInit
<1>1. MaxGeneration \in Nat
  BY BrowserAssumption
<1>2. before \in [Scopes -> Nat]
  BY <1>1
<1>3. AttemptsTyped
  BY <1>2 DEF AttemptsInitFrom, AttemptsTyped, ServiceInit, Idle, NoAttempt, TabStates, Attempts,
     Stages
<1>4. \A t \in Tabs : TabOK(t)
  BY DEF AttemptsInitFrom, TabOK, Valid, Idle, NoAttempt, At
<1> QED
  BY <1>3, <1>4 DEF AttemptsInv, AttemptsInitFrom, RequestsOK, WorkOK, ServiceInit

-----------------------------------------------------------------------------
(* BrowserAttempts: steps of a tab.                                        *)

\* What a step of tab t may do to the others: nothing but end generations.
Mine(t) ==
  /\ \A u \in Tabs : u # t => tab'[u] = tab[u] /\ saved'[u] = saved[u]
  /\ \A s \in Scopes : generation[s] <= generation'[s]
  /\ \A id \in Ids : Over(id) => Over(id)'

LEMMA TabStays ==
  ASSUME AttemptsTyped, NEW t \in Tabs, TabOK(t), tab'[t] = tab[t], saved'[t] = saved[t],
         \A s \in Scopes : generation[s] <= generation'[s], generation' \in [Scopes -> Nat],
         \A id \in Ids : Over(id) => Over(id)'
  PROVE  TabOK(t)'
<1>1. tab[t].attempt \in Attempts /\ saved[t] \in Attempts
  BY DEF AttemptsTyped, TabStates
<1>2. generation \in [Scopes -> Nat]
  BY DEF AttemptsTyped
<1>3. (Valid(tab[t].attempt) /\ Valid(saved[t]))'
  BY <1>1, <1>2 DEF Valid, TabOK, Attempts
<1>4. tab[t].attempt.job # Nothing => tab[t].attempt.job \in Ids
  BY <1>1 DEF Attempts
<1> QED
  BY <1>3, <1>4 DEF TabOK, At

\* What a step of a tab owes to the invariant.
Keeps(t) ==
  /\ AttemptsTyped' /\ TabOK(t)' /\ RequestsOK' /\ WorkOK'
  /\ Mine(t)

\* Steps of a tab that send nothing and wait for nothing.
LEMMA QuietStep ==
  ASSUME AttemptsInv, NEW t \in Tabs, ~At(t, "sending"),
         UNCHANGED <<jobs, work, registry, generation, holder, requests>>,
         NEW state \in TabStates, tab' = [tab EXCEPT ![t] = state], state.pc # "sending",
         NEW stored \in Attempts, saved' = [saved EXCEPT ![t] = stored],
         TabOK(t)'
  PROVE  Keeps(t)
<1> USE DEF AttemptsInv
<1>1. AttemptsTyped'
  BY DEF AttemptsTyped
<1>2. RequestsOK'
  BY DEF RequestsOK, At, AttemptsTyped
<1>3. WorkOK'
  BY DEF WorkOK
<1>4. Mine(t)
  BY DEF Mine, AttemptsTyped, Over
<1> QED
  BY <1>1, <1>2, <1>3, <1>4 DEF Keeps

LEMMA TabIs ==
  ASSUME AttemptsInv, NEW t \in Tabs
  PROVE  /\ tab[t] \in TabStates /\ tab[t].attempt \in Attempts /\ saved[t] \in Attempts
         /\ TabOK(t) /\ generation \in [Scopes -> Nat]
         /\ tab = [u \in Tabs |-> tab[u]] /\ saved = [u \in Tabs |-> saved[u]]
         /\ saved = [saved EXCEPT ![t] = saved[t]]
BY DEF AttemptsInv, AttemptsTyped, TabStates

LEMMA IdleIs ==
  /\ NoAttempt \in Attempts /\ Idle \in TabStates
  /\ Idle.pc = "ready" /\ Idle.attempt = NoAttempt
  /\ NoAttempt.stage = "none" /\ NoAttempt.job = Nothing
BY DEF Idle, NoAttempt, Attempts, TabStates, Stages

LEMMA RestIs ==
  ASSUME NEW t \in Tabs, NEW a \in Attempts, tab[t] \in TabStates,
         tab = [u \in Tabs |-> tab[u]]
  PROVE  LET rest == Rest(t, a) IN
           /\ rest[t] \in TabStates /\ rest[t].pc = "ready" /\ rest[t].attempt = a
           /\ rest = [tab EXCEPT ![t] = rest[t]]
BY DEF Rest, TabStates

LEMMA QuietActions ==
  ASSUME AttemptsInv, NEW t \in Tabs,
         \/ \E p \in Plans : Preview(t, p)
         \/ \E s \in Scopes : Confirm(t, s)
         \/ Retry(t) \/ Stale(t) \/ AdmitUnstored(t) \/ Unavailable(t)
         \/ Poll(t) \/ NotFound(t) \/ Pause(t) \/ Continue(t)
  PROVE  Keeps(t)
<1> USE DEF serverVars, serviceVars
<1>a. /\ tab[t] \in TabStates /\ tab[t].attempt \in Attempts /\ saved[t] \in Attempts
      /\ TabOK(t) /\ generation \in [Scopes -> Nat]
      /\ tab = [u \in Tabs |-> tab[u]] /\ saved = [u \in Tabs |-> saved[u]]
      /\ saved = [saved EXCEPT ![t] = saved[t]]
  BY TabIs
<1>b. ASSUME ~At(t, "sending"), UNCHANGED <<jobs, work, registry, generation, holder, requests>>,
             tab' = [tab EXCEPT ![t] = tab'[t]], tab'[t] \in TabStates, tab'[t].pc # "sending",
             saved' = [saved EXCEPT ![t] = saved'[t]], saved'[t] \in Attempts, TabOK(t)'
      PROVE  Keeps(t)
  BY <1>b, QuietStep
<1>c. Idle \in TabStates /\ NoAttempt \in Attempts
      /\ Idle.pc = "ready" /\ Idle.attempt = NoAttempt
      /\ NoAttempt.stage = "none" /\ NoAttempt.job = Nothing
  BY IdleIs
<1>1. ASSUME NEW p \in Plans, Preview(t, p) PROVE Keeps(t)
  <2>1. /\ ~At(t, "sending") /\ UNCHANGED <<jobs, work, registry, generation, holder, requests>>
        /\ tab' = [tab EXCEPT ![t].approved = p] /\ saved' = saved /\ At(t, "ready")
    BY <1>1 DEF Preview, At
  <2>2. tab'[t] = [tab[t] EXCEPT !.approved = p] /\ tab' = [tab EXCEPT ![t] = tab'[t]]
    BY <1>a, <2>1
  <2>3. tab'[t] \in TabStates /\ tab'[t].pc = "ready" /\ tab'[t].attempt = tab[t].attempt
    BY <1>a, <2>1, <2>2 DEF TabStates, At
  <2>4. TabOK(t)'
    BY <1>a, <2>1, <2>3 DEF TabOK, Valid, At
  <2> QED
    BY <1>a, <1>b, <2>1, <2>2, <2>3, <2>4
<1>2. ASSUME NEW s \in Scopes, Confirm(t, s) PROVE Keeps(t)
  <2>1. /\ ~At(t, "sending") /\ UNCHANGED <<jobs, work, registry, generation, holder, requests>>
        /\ tab' = [tab EXCEPT ![t].pc = "locking", ![t].attempt = Attempt("new", s, 0, Nothing)]
        /\ saved' = saved
    BY <1>2 DEF Confirm, At
  <2>2. /\ tab'[t] = [tab[t] EXCEPT !.pc = "locking", !.attempt = Attempt("new", s, 0, Nothing)]
        /\ tab' = [tab EXCEPT ![t] = tab'[t]]
    BY <1>a, <2>1
  <2>a. Attempt("new", s, 0, Nothing) \in Attempts
    BY DEF Attempt, Attempts, Stages
  <2>3. /\ tab'[t] \in TabStates /\ tab'[t].pc = "locking"
        /\ tab'[t].attempt = Attempt("new", s, 0, Nothing)
    BY <1>a, <2>2, <2>a DEF TabStates
  <2>4. TabOK(t)'
    BY <1>a, <2>1, <2>3 DEF TabOK, Valid, At, Attempt
  <2> QED
    BY <1>a, <1>b, <2>1, <2>2, <2>3, <2>4
<1>3. CASE Retry(t)
  <2>1. /\ ~At(t, "sending") /\ UNCHANGED <<jobs, work, registry, generation, holder, requests>>
        /\ tab' = [tab EXCEPT ![t].pc = "locking"] /\ saved' = saved
        /\ tab[t].attempt.stage = "admitting"
    BY <1>3 DEF Retry, At
  <2>2. tab'[t] = [tab[t] EXCEPT !.pc = "locking"] /\ tab' = [tab EXCEPT ![t] = tab'[t]]
    BY <1>a, <2>1
  <2>3. tab'[t] \in TabStates /\ tab'[t].pc = "locking" /\ tab'[t].attempt = tab[t].attempt
    BY <1>a, <2>2 DEF TabStates
  <2>4. TabOK(t)'
    BY <1>a, <2>1, <2>3 DEF TabOK, Valid, At
  <2> QED
    BY <1>a, <1>b, <2>1, <2>2, <2>3, <2>4
<1>d. ASSUME ~At(t, "sending"), UNCHANGED <<jobs, work, registry, generation, holder, requests>>,
             \/ tab' = [tab EXCEPT ![t] = Idle]
             \/ tab' = Rest(t, NoAttempt)
             \/ tab' = Rest(t, tab[t].attempt) /\ tab[t].attempt.stage # "new",
             saved' \in {saved, [saved EXCEPT ![t] = NoAttempt]}
      PROVE  Keeps(t)
  <2>1. /\ tab' = [tab EXCEPT ![t] = tab'[t]] /\ saved' = [saved EXCEPT ![t] = saved'[t]]
        /\ saved'[t] \in {saved[t], NoAttempt}
    BY <1>a, <1>c, <1>d, RestIs
  <2>2. /\ tab'[t] \in TabStates /\ tab'[t].pc = "ready"
        /\ \/ tab'[t].attempt = NoAttempt
           \/ tab'[t].attempt = tab[t].attempt /\ tab[t].attempt.stage # "new"
    <3>1. ASSUME NEW a \in Attempts, tab' = Rest(t, a)
          PROVE  tab'[t] \in TabStates /\ tab'[t].pc = "ready" /\ tab'[t].attempt = a
      BY <1>a, <3>1, RestIs
    <3>2. CASE tab' = [tab EXCEPT ![t] = Idle]
      BY <1>a, <1>c, <3>2
    <3> QED
      BY <1>a, <1>c, <1>d, <3>1, <3>2
  <2>3. TabOK(t)'
    BY <1>a, <1>c, <1>d, <2>1, <2>2 DEF TabOK, Valid, At
  <2> QED
    BY <1>a, <1>b, <1>c, <1>d, <2>1, <2>2, <2>3
<1>4. CASE Stale(t)
  BY <1>4, <1>d DEF Stale, At
<1>5. CASE AdmitUnstored(t)
  BY <1>5, <1>d DEF AdmitUnstored, At
<1>6. CASE Unavailable(t)
  BY <1>6, <1>d DEF Unavailable, At
<1>7. CASE Poll(t)
  <2>1. /\ ~At(t, "sending") /\ UNCHANGED <<jobs, work, registry, generation, holder, requests>>
        /\ tab' = [tab EXCEPT ![t].pc = "completing"] /\ saved' = saved
        /\ tab[t].pc = "polling" /\ Over(tab[t].attempt.job)
    BY <1>7 DEF Poll, At, Ended, Over
  <2>2. tab'[t] = [tab[t] EXCEPT !.pc = "completing"] /\ tab' = [tab EXCEPT ![t] = tab'[t]]
    BY <1>a, <2>1
  <2>3. tab'[t] \in TabStates /\ tab'[t].pc = "completing" /\ tab'[t].attempt = tab[t].attempt
    BY <1>a, <2>2 DEF TabStates
  <2>4. TabOK(t)'
    BY <1>a, <2>1, <2>3 DEF TabOK, Valid, At, Over
  <2> QED
    BY <1>a, <1>b, <2>1, <2>2, <2>3, <2>4
<1>8. CASE NotFound(t)
  BY <1>8, <1>d DEF NotFound, At
<1>9. CASE Pause(t)
  BY <1>9, <1>a, <1>d DEF Pause, At, TabOK
<1>10. CASE Continue(t)
  <2> DEFINE next == IF tab[t].attempt.stage = "polling" THEN "polling" ELSE "completing"
  <2>1. /\ ~At(t, "sending") /\ UNCHANGED <<jobs, work, registry, generation, holder, requests>>
        /\ tab' = [tab EXCEPT ![t].pc = next] /\ saved' = saved
        /\ tab[t].attempt.stage \in {"polling", "finalizing"}
    BY <1>10 DEF Continue, At
  <2>2. tab'[t] = [tab[t] EXCEPT !.pc = next] /\ tab' = [tab EXCEPT ![t] = tab'[t]]
    BY <1>a, <2>1
  <2>3. tab'[t] \in TabStates /\ tab'[t].pc = next /\ tab'[t].attempt = tab[t].attempt
    BY <1>a, <2>2 DEF TabStates
  <2>4. TabOK(t)'
    BY <1>a, <2>1, <2>3 DEF TabOK, Valid, At
  <2> QED
    BY <1>a, <1>b, <2>1, <2>2, <2>3, <2>4
<1> QED
  BY <1>1, <1>2, <1>3, <1>4, <1>5, <1>6, <1>7, <1>8, <1>9, <1>10

\* What a tab leaves behind when it gives a request up is nobody's.
LEMMA GivenUp ==
  ASSUME AttemptsInv, NEW t \in Tabs, GiveUp(t)
  PROVE  /\ requests' \subseteq Posts
         /\ \A r \in requests' : r.tab # Nothing => r \in requests /\ r.tab # t
<1> DEFINE mine == {r \in requests : r.tab = t}
           left == {[r EXCEPT !.tab = Nothing] : r \in {q \in mine : q.answer = "none"}}
<1>1. ASSUME NEW r \in Posts
      PROVE  [r EXCEPT !.tab = Nothing].tab = Nothing /\ [r EXCEPT !.tab = Nothing] \in Posts
  BY DEF Posts
<1>2. requests' = requests \ mine \/ requests' = (requests \ mine) \cup left
  BY DEF GiveUp
<1>3. requests \subseteq Posts
  BY DEF AttemptsInv, AttemptsTyped
<1>4. \A r \in left : r.tab = Nothing /\ r \in Posts
  BY <1>1, <1>3
<1> HIDE DEF left
<1> QED
  BY <1>2, <1>3, <1>4

\* Steps of a tab that take back its request and its lock.
LEMMA LettingGo ==
  ASSUME AttemptsInv, NEW t \in Tabs,
         UNCHANGED <<jobs, work, registry, generation>>, holder' = Release(t),
         requests' \subseteq Posts,
         \A r \in requests' : r.tab # Nothing => r \in requests /\ r.tab # t,
         NEW state \in TabStates, tab' = [tab EXCEPT ![t] = state],
         NEW stored \in Attempts, saved' = [saved EXCEPT ![t] = stored],
         TabOK(t)'
  PROVE  Keeps(t)
<1> USE DEF AttemptsInv
<1>1. AttemptsTyped'
  BY DEF AttemptsTyped, Release
<1>2. RequestsOK'
  <2> SUFFICES ASSUME NEW r \in requests', r.tab # Nothing
               PROVE  /\ At(r.tab, "sending")' /\ holder'[r.scope] = r.tab
                      /\ r.generation = generation'[r.scope]
                      /\ r.answer = "accepted" => r.job # Nothing
                      /\ \A q \in requests' : q.tab = r.tab => q = r
    BY DEF RequestsOK
  <2>1. r \in requests /\ r.tab # t /\ r.scope \in Scopes
    BY DEF AttemptsTyped, Posts
  <2>2. holder'[r.scope] = holder[r.scope]
    BY <2>1 DEF Release, RequestsOK
  <2> QED
    BY <2>1, <2>2 DEF RequestsOK, At, AttemptsTyped
<1>3. WorkOK'
  BY DEF WorkOK
<1>4. Mine(t)
  BY DEF Mine, AttemptsTyped, Over
<1> QED
  BY <1>1, <1>2, <1>3, <1>4 DEF Keeps

LEMMA AdmitStep ==
  ASSUME AttemptsInv, NEW t \in Tabs, Admit(t)
  PROVE  Keeps(t)
<1> DEFINE a == tab[t].attempt
           g == generation[a.scope]
           sent == Attempt("admitting", a.scope, g, Nothing)
           r == [tab |-> t, scope |-> a.scope, generation |-> g, answer |-> "none",
                 job |-> Nothing]
<1>1. /\ tab[t] \in TabStates /\ a \in Attempts /\ TabOK(t) /\ generation \in [Scopes -> Nat]
      /\ tab = [u \in Tabs |-> tab[u]] /\ saved = [u \in Tabs |-> saved[u]]
  BY TabIs
<1>2. /\ At(t, "locking") /\ holder[a.scope] = Nothing
      /\ saved' = [saved EXCEPT ![t] = sent]
      /\ requests' = requests \cup {r}
      /\ holder' = [holder EXCEPT ![a.scope] = t]
      /\ tab' = [tab EXCEPT ![t] = [pc |-> "sending", approved |-> Nothing, attempt |-> sent]]
      /\ UNCHANGED <<jobs, work, registry, generation>>
  BY DEF Admit, serverVars, serviceVars
<1>3. a.scope \in Scopes /\ g \in Nat
  BY <1>1, <1>2 DEF TabOK, Valid
<1>4. sent \in Attempts /\ r \in Posts
  BY <1>3 DEF Attempt, Attempts, Stages, Posts
<1>5. /\ sent.stage = "admitting" /\ sent.scope = a.scope /\ sent.generation = g
      /\ sent.job = Nothing
  BY DEF Attempt
<1>6. r.tab = t /\ r.scope = a.scope /\ r.generation = g /\ r.answer = "none"
  OBVIOUS
<1> HIDE DEF sent, r, g
<1>7. AttemptsTyped'
  BY <1>2, <1>3, <1>4 DEF AttemptsInv, AttemptsTyped, TabStates
<1>8. TabOK(t)'
  BY <1>1, <1>2, <1>3, <1>5 DEF TabOK, Valid, At, g
<1>9. RequestsOK'
  <2>1. \A q \in requests : q.tab # t /\ q.scope \in Scopes
    BY <1>2, BrowserAssumption DEF AttemptsInv, AttemptsTyped, RequestsOK, At, Posts
  <2>2. \A q \in requests : q.tab # Nothing => q.scope # a.scope
    BY <1>2 DEF AttemptsInv, RequestsOK
  <2>3. \A q \in requests : q.tab # Nothing => q.tab \in Tabs
    BY DEF AttemptsInv, AttemptsTyped, Posts
  <2> SUFFICES ASSUME NEW q \in requests', q.tab # Nothing
               PROVE  /\ At(q.tab, "sending")' /\ holder'[q.scope] = q.tab
                      /\ q.generation = generation'[q.scope]
                      /\ q.answer = "accepted" => q.job # Nothing
                      /\ \A p \in requests' : p.tab = q.tab => p = q
    BY DEF RequestsOK
  <2>4. CASE q = r
    BY <1>1, <1>2, <1>3, <1>6, <2>1, <2>4 DEF At, g, AttemptsInv, AttemptsTyped
  <2>5. CASE q \in requests
    BY <1>1, <1>2, <1>3, <1>6, <2>1, <2>2, <2>3, <2>5
    DEF At, AttemptsInv, AttemptsTyped, RequestsOK
  <2> QED
    BY <1>2, <2>4, <2>5
<1>10. WorkOK'
  BY <1>2 DEF AttemptsInv, WorkOK
<1>11. Mine(t)
  BY <1>1, <1>2 DEF Mine, Over
<1> QED
  BY <1>7, <1>8, <1>9, <1>10, <1>11 DEF Keeps

Turned(a, stage, job) == [a EXCEPT !.stage = stage, !.job = job]

LEMMA TurnedIs ==
  ASSUME NEW a \in Attempts, NEW stage \in Stages, NEW job \in Ids \cup {Nothing}
  PROVE  /\ Turned(a, stage, job) \in Attempts
         /\ Turned(a, stage, job).stage = stage /\ Turned(a, stage, job).job = job
         /\ Turned(a, stage, job).scope = a.scope
         /\ Turned(a, stage, job).generation = a.generation
BY DEF Attempts, Turned

LEMMA ReceiveStep ==
  ASSUME AttemptsInv, NEW t \in Tabs, Receive(t)
  PROVE  Keeps(t)
<1> DEFINE a == tab[t].attempt
<1>1. /\ tab[t] \in TabStates /\ a \in Attempts /\ saved[t] \in Attempts
      /\ TabOK(t) /\ generation \in [Scopes -> Nat]
      /\ tab = [u \in Tabs |-> tab[u]] /\ saved = [u \in Tabs |-> saved[u]]
      /\ saved = [saved EXCEPT ![t] = saved[t]]
  BY TabIs
<1>2. PICK r \in requests :
        /\ r.tab = t /\ At(t, "sending") /\ r.answer # "none"
        /\ requests' = requests \ {r}
        /\ holder' = Release(t)
        /\ \/ /\ r.answer = "accepted"
              /\ LET polling == [a EXCEPT !.stage = "polling", !.job = r.job] IN
                   /\ tab' = [tab EXCEPT ![t].pc = "polling", ![t].attempt = polling]
                   /\ Store(t, polling)
           \/ /\ r.answer = "refused" /\ a.scope \in Plans
              /\ LET finalizing == [a EXCEPT !.stage = "finalizing"] IN
                   /\ tab' = [tab EXCEPT ![t].pc = "completing", ![t].attempt = finalizing]
                   /\ Store(t, finalizing)
           \/ /\ r.answer = "refused" /\ a.scope \in Actions
              /\ tab' = [tab EXCEPT ![t] = Idle]
              /\ saved' = [saved EXCEPT ![t] = NoAttempt]
           \/ /\ r.answer = "busy"
              /\ tab' = Rest(t, a) /\ UNCHANGED saved
        /\ UNCHANGED <<jobs, work, registry, generation>>
  BY DEF Receive, serverVars, serviceVars
<1>3. /\ requests' \subseteq Posts
      /\ \A q \in requests' : q.tab # Nothing => q \in requests /\ q.tab # t
  BY <1>2 DEF AttemptsInv, AttemptsTyped, RequestsOK
<1>4. /\ a.stage = "admitting" /\ a.job = Nothing
      /\ r.answer = "accepted" => r.job \in Ids
  BY <1>1, <1>2, BrowserAssumption
  DEF TabOK, Valid, AttemptsInv, AttemptsTyped, RequestsOK, Posts
<1>5. ASSUME tab' = [tab EXCEPT ![t] = tab'[t]], tab'[t] \in TabStates,
             saved' = [saved EXCEPT ![t] = saved'[t]], saved'[t] \in Attempts, TabOK(t)'
      PROVE  Keeps(t)
  BY <1>2, <1>3, <1>5, LettingGo
<1>6. /\ NoAttempt \in Attempts /\ Idle \in TabStates
      /\ Idle.pc = "ready" /\ Idle.attempt = NoAttempt
      /\ NoAttempt.stage = "none" /\ NoAttempt.job = Nothing
  BY IdleIs
<1>7. ASSUME NEW point, NEW attempt \in Attempts,
             tab' = [tab EXCEPT ![t].pc = point, ![t].attempt = attempt], Store(t, attempt),
             \/ point = "polling" /\ attempt.stage = "polling"
             \/ point = "completing" /\ attempt.stage = "finalizing" /\ attempt.job = Nothing,
             attempt.scope = a.scope, attempt.generation = a.generation
      PROVE  Keeps(t)
  <2>1. /\ tab' = [tab EXCEPT ![t] = tab'[t]] /\ tab'[t] \in TabStates
        /\ tab'[t].pc = point /\ tab'[t].attempt = attempt
    BY <1>1, <1>7 DEF TabStates
  <2>2. /\ saved' = [saved EXCEPT ![t] = saved'[t]] /\ saved'[t] \in Attempts
        /\ saved'[t] \in {saved[t], attempt}
    BY <1>1, <1>7 DEF Store
  <2>3. TabOK(t)'
    BY <1>1, <1>2, <1>4, <1>7, <2>1, <2>2 DEF TabOK, Valid, At
  <2> QED
    BY <1>5, <2>1, <2>2, <2>3
<1>8. CASE r.answer = "accepted"
  <2> DEFINE polling == Turned(a, "polling", r.job)
  <2>1. "polling" \in Stages /\ r.job \in Ids \cup {Nothing}
    BY <1>4, <1>8 DEF Stages
  <2>2. /\ polling \in Attempts /\ polling.stage = "polling"
        /\ polling.scope = a.scope /\ polling.generation = a.generation
    BY <1>1, <2>1, TurnedIs
  <2>3. tab' = [tab EXCEPT ![t].pc = "polling", ![t].attempt = polling] /\ Store(t, polling)
    BY <1>2, <1>8 DEF Turned
  <2> HIDE DEF polling
  <2> QED
    BY <1>7, <2>2, <2>3
<1>9. CASE r.answer = "refused" /\ a.scope \in Plans
           /\ tab' = [tab EXCEPT ![t].pc = "completing",
                                 ![t].attempt = [a EXCEPT !.stage = "finalizing"]]
           /\ Store(t, [a EXCEPT !.stage = "finalizing"])
  <2> DEFINE finalizing == Turned(a, "finalizing", Nothing)
  <2>1. "finalizing" \in Stages /\ Nothing \in Ids \cup {Nothing}
    BY DEF Stages
  <2>2. /\ finalizing \in Attempts /\ finalizing.stage = "finalizing"
        /\ finalizing.scope = a.scope /\ finalizing.generation = a.generation
        /\ finalizing.job = Nothing
    BY <1>1, <2>1, TurnedIs
  <2>3. finalizing = [a EXCEPT !.stage = "finalizing"]
    BY <1>1, <1>4 DEF Attempts, Turned
  <2>4. /\ tab' = [tab EXCEPT ![t].pc = "completing", ![t].attempt = finalizing]
        /\ Store(t, finalizing)
    BY <1>9, <2>3
  <2> HIDE DEF finalizing
  <2> QED
    BY <1>7, <2>2, <2>4
<1>10. CASE \/ tab' = [tab EXCEPT ![t] = Idle] /\ saved' = [saved EXCEPT ![t] = NoAttempt]
            \/ tab' = Rest(t, a) /\ UNCHANGED saved
  <2>1. /\ tab' = [tab EXCEPT ![t] = tab'[t]] /\ tab'[t] \in TabStates
        /\ tab'[t].pc = "ready" /\ tab'[t].attempt \in {NoAttempt, a}
    BY <1>1, <1>6, <1>10, RestIs
  <2>2. /\ saved' = [saved EXCEPT ![t] = saved'[t]] /\ saved'[t] \in Attempts
        /\ saved'[t] \in {saved[t], NoAttempt}
    BY <1>1, <1>6, <1>10
  <2>3. TabOK(t)'
    BY <1>1, <1>2, <1>4, <1>6, <2>1, <2>2 DEF TabOK, Valid, At
  <2> QED
    BY <1>5, <2>1, <2>2, <2>3
<1> QED
  BY <1>2, <1>8, <1>9, <1>10

LEMMA LeavingSteps ==
  ASSUME AttemptsInv, NEW t \in Tabs, Abandon(t) \/ Reload(t) \/ Close(t)
  PROVE  Keeps(t)
<1>1. /\ tab[t] \in TabStates /\ tab[t].attempt \in Attempts /\ saved[t] \in Attempts
      /\ TabOK(t) /\ generation \in [Scopes -> Nat]
      /\ tab = [u \in Tabs |-> tab[u]] /\ saved = [u \in Tabs |-> saved[u]]
      /\ saved = [saved EXCEPT ![t] = saved[t]]
  BY TabIs
<1>2. /\ NoAttempt \in Attempts /\ Idle \in TabStates
      /\ Idle.pc = "ready" /\ Idle.attempt = NoAttempt
      /\ NoAttempt.stage = "none" /\ NoAttempt.job = Nothing
  BY IdleIs
<1>3. /\ GiveUp(t) /\ holder' = Release(t) /\ UNCHANGED <<jobs, work, registry, generation>>
  BY DEF Abandon, Reload, Close, serverVars, serviceVars
<1>4. ASSUME tab' = [tab EXCEPT ![t] = tab'[t]], tab'[t] \in TabStates,
             saved' = [saved EXCEPT ![t] = saved'[t]], saved'[t] \in Attempts, TabOK(t)'
      PROVE  Keeps(t)
  BY <1>3, <1>4, GivenUp, LettingGo
<1>5. CASE Abandon(t)
  <2>1. At(t, "sending") /\ tab' = Rest(t, tab[t].attempt) /\ saved' = saved
    BY <1>5 DEF Abandon
  <2>2. /\ tab' = [tab EXCEPT ![t] = tab'[t]] /\ tab'[t] \in TabStates
        /\ tab'[t].pc = "ready" /\ tab'[t].attempt = tab[t].attempt
    BY <1>1, <2>1, RestIs
  <2>3. TabOK(t)'
    BY <1>1, <1>3, <2>1, <2>2 DEF TabOK, Valid, At
  <2> QED
    BY <1>1, <1>4, <2>1, <2>2, <2>3
<1>6. CASE Reload(t)
  <2> DEFINE point == IF saved[t].stage = "polling" THEN "polling" ELSE "ready"
  <2>1. /\ tab' = [tab EXCEPT ![t] = [Idle EXCEPT !.attempt = saved[t], !.pc = point]]
        /\ saved' = saved
    BY <1>6 DEF Reload
  <2>2. /\ tab'[t] = [Idle EXCEPT !.attempt = saved[t], !.pc = point]
        /\ tab' = [tab EXCEPT ![t] = tab'[t]]
    BY <1>1, <2>1
  <2>3. tab'[t] \in TabStates /\ tab'[t].pc = point /\ tab'[t].attempt = saved[t]
    BY <1>1, <1>2, <2>2 DEF TabStates
  <2>4. TabOK(t)'
    BY <1>1, <1>3, <2>1, <2>3 DEF TabOK, Valid, At
  <2> QED
    BY <1>1, <1>4, <2>1, <2>2, <2>3, <2>4
<1>7. CASE Close(t)
  <2>1. tab' = [tab EXCEPT ![t] = Idle] /\ saved' = [saved EXCEPT ![t] = NoAttempt]
    BY <1>7 DEF Close
  <2>2. /\ tab' = [tab EXCEPT ![t] = tab'[t]] /\ tab'[t] = Idle
        /\ saved' = [saved EXCEPT ![t] = saved'[t]] /\ saved'[t] = NoAttempt
    BY <1>1, <2>1
  <2>3. TabOK(t)'
    BY <1>2, <2>2 DEF TabOK, Valid, At
  <2> QED
    BY <1>2, <1>4, <2>2, <2>3
<1> QED
  BY <1>5, <1>6, <1>7

LEMMA CompleteStep ==
  ASSUME AttemptsInv, NEW t \in Tabs, Complete(t)
  PROVE  /\ Keeps(t)
         /\ \A s \in Scopes : generation'[s] # generation[s] =>
              s = tab[t].attempt.scope /\ generation[s] = tab[t].attempt.generation
<1> DEFINE a == tab[t].attempt
           next == IF generation[a.scope] > a.generation THEN generation[a.scope]
                   ELSE a.generation + 1
<1>1. /\ tab[t] \in TabStates /\ a \in Attempts /\ TabOK(t) /\ generation \in [Scopes -> Nat]
      /\ tab = [u \in Tabs |-> tab[u]] /\ saved = [u \in Tabs |-> saved[u]]
  BY TabIs
<1>2. /\ NoAttempt \in Attempts /\ Idle \in TabStates
      /\ Idle.pc = "ready" /\ Idle.attempt = NoAttempt
      /\ NoAttempt.stage = "none" /\ NoAttempt.job = Nothing
  BY IdleIs
<1>3. /\ At(t, "completing") /\ holder[a.scope] = Nothing
      /\ generation' = [generation EXCEPT ![a.scope] = next]
      /\ tab' = [tab EXCEPT ![t] = Idle] /\ saved' = [saved EXCEPT ![t] = NoAttempt]
      /\ UNCHANGED <<jobs, work, registry, holder, requests>>
  BY DEF Complete, serverVars, serviceVars
<1>4. /\ a.scope \in Scopes /\ a.generation \in Nat
      /\ a.generation <= generation[a.scope] /\ generation[a.scope] \in Nat
  BY <1>1, <1>3 DEF TabOK, Valid, Attempts
<1>5. /\ next \in Nat /\ generation[a.scope] <= next
      /\ next # generation[a.scope] => generation[a.scope] = a.generation
  BY <1>4
<1> HIDE DEF next
<1>6. AttemptsTyped'
  BY <1>1, <1>2, <1>3, <1>5 DEF AttemptsInv, AttemptsTyped
<1>7. TabOK(t)'
  BY <1>1, <1>2, <1>3 DEF TabOK, Valid, At
<1>8. RequestsOK'
  BY <1>1, <1>3 DEF AttemptsInv, AttemptsTyped, RequestsOK, At, Posts
<1>9. WorkOK'
  BY <1>3 DEF AttemptsInv, WorkOK
<1>10. Mine(t)
  BY <1>1, <1>3, <1>4, <1>5 DEF Mine, Over
<1>11. \A s \in Scopes : generation'[s] # generation[s] =>
         s = a.scope /\ generation[s] = a.generation
  BY <1>1, <1>3, <1>4, <1>5
<1> QED
  BY <1>6, <1>7, <1>8, <1>9, <1>10, <1>11 DEF Keeps

LEMMA TabStepKeeps ==
  ASSUME AttemptsInv, NEW t \in Tabs, TabStep(t)
  PROVE  Keeps(t)
BY QuietActions, AdmitStep, ReceiveStep, LeavingSteps, CompleteStep DEF TabStep

-----------------------------------------------------------------------------
(* BrowserAttempts: steps of the server.                                   *)

\* What a step of the server owes to the invariant.
Serves ==
  /\ AttemptsTyped' /\ RequestsOK' /\ WorkOK'
  /\ UNCHANGED <<tab, saved, generation>>
  /\ \A id \in Ids : Over(id) => Over(id)'

\* An answer finds the tab that asked still waiting.
LEMMA Answered ==
  ASSUME AttemptsInv, NEW r \in requests, NEW job \in Ids \cup {Nothing},
         NEW answer \in {"accepted", "refused", "busy"}, answer = "accepted" => job # Nothing,
         Answer(r, answer, job), UNCHANGED <<tab, holder, generation>>
  PROVE  requests' \subseteq Posts /\ RequestsOK'
<1> DEFINE told == [r EXCEPT !.answer = answer, !.job = job]
<1>1. requests \subseteq Posts /\ r \in Posts
  BY DEF AttemptsInv, AttemptsTyped
<1>2. /\ told \in Posts /\ told.tab = r.tab /\ told.scope = r.scope
      /\ told.generation = r.generation /\ told.answer = answer /\ told.job = job
  BY <1>1 DEF Posts
<1>3. /\ requests' \subseteq (requests \ {r}) \cup {told}
      /\ r.tab = Nothing => requests' = requests \ {r}
  BY DEF Answer
<1> HIDE DEF told
<1>4. requests' \subseteq Posts
  BY <1>1, <1>2, <1>3
<1>5. RequestsOK'
  <2> SUFFICES ASSUME NEW q \in requests', q.tab # Nothing
               PROVE  /\ At(q.tab, "sending") /\ holder[q.scope] = q.tab
                      /\ q.generation = generation[q.scope]
                      /\ q.answer = "accepted" => q.job # Nothing
                      /\ \A p \in requests' : p.tab = q.tab => p = q
    BY DEF RequestsOK, At
  <2>1. CASE q = told
    BY <1>2, <1>3, <2>1 DEF AttemptsInv, RequestsOK
  <2>2. CASE q \in requests /\ q # r
    BY <1>2, <1>3, <2>2 DEF AttemptsInv, RequestsOK
  <2> QED
    BY <1>3, <2>1, <2>2
<1> QED
  BY <1>4, <1>5

\* What makes room in the registry is the record of a job that has ended.
LEMMA RoomIs ==
  ASSUME AttemptsTyped, NEW kept \in Room
  PROVE  /\ kept \in Seq(Ids)
         /\ \A id \in ToSet(registry) : jobs[id] = "pending" => id \in ToSet(kept)
<1>1. registry \in Seq(Ids)
  BY DEF AttemptsTyped
<1>2. CASE kept = registry
  BY <1>1, <1>2
<1>3. ASSUME NEW i \in Oldest, kept = RemoveAt(registry, i)
      PROVE  /\ kept \in Seq(Ids)
             /\ \A id \in ToSet(registry) : jobs[id] = "pending" => id \in ToSet(kept)
  <2> DEFINE n == Len(registry)
             before == SubSeq(registry, 1, i - 1)
             after == SubSeq(registry, i + 1, n)
  <2>1. i \in 1..n /\ n \in Nat /\ jobs[registry[i]] # "pending"
    BY <1>1 DEF Oldest
  <2>2. /\ before \in Seq(Ids) /\ Len(before) = i - 1
        /\ \A k \in 1..(i - 1) : before[k] = registry[k]
    BY <1>1, <2>1
  <2>3. /\ after \in Seq(Ids) /\ Len(after) = n - i
        /\ \A k \in 1..(n - i) : after[k] = registry[i + k]
    BY <1>1, <2>1
  <2>4. kept = before \o after
    BY <1>3 DEF RemoveAt
  <2> HIDE DEF before, after
  <2>5. /\ kept \in Seq(Ids) /\ Len(kept) = n - 1
        /\ \A k \in 1..(n - 1) : kept[k] = IF k < i THEN registry[k] ELSE registry[k + 1]
    <3>1. /\ kept \in Seq(Ids) /\ Len(kept) = (i - 1) + (n - i)
          /\ \A k \in 1..((i - 1) + (n - i)) :
               kept[k] = IF k <= i - 1 THEN before[k] ELSE after[k - (i - 1)]
      <4>1. LET both == before \o after IN
              /\ both \in Seq(Ids) /\ Len(both) = Len(before) + Len(after)
              /\ \A k \in 1..(Len(before) + Len(after)) :
                   both[k] = IF k <= Len(before) THEN before[k] ELSE after[k - Len(before)]
        BY <2>2, <2>3, ConcatProperties
      <4> QED
        BY <2>2, <2>3, <2>4, <4>1
    <3>2. (i - 1) + (n - i) = n - 1
      BY <2>1
    <3> SUFFICES ASSUME NEW k \in 1..(n - 1)
                 PROVE  kept[k] = IF k < i THEN registry[k] ELSE registry[k + 1]
      BY <3>1, <3>2
    <3>3. kept[k] = IF k <= i - 1 THEN before[k] ELSE after[k - (i - 1)]
      BY <3>1, <3>2
    <3>4. CASE k < i
      BY <2>1, <2>2, <3>3, <3>4
    <3>5. CASE ~(k < i)
      <4>1. k - (i - 1) \in 1..(n - i) /\ i + (k - (i - 1)) = k + 1
        BY <2>1, <3>5
      <4> QED
        BY <2>1, <2>3, <3>3, <3>5, <4>1
    <3> QED
      BY <3>4, <3>5
  <2>6. ASSUME NEW k \in 1..n, jobs[registry[k]] = "pending"
        PROVE  \E m \in 1..(n - 1) : kept[m] = registry[k]
    <3>1. CASE k < i
      BY <2>1, <2>5, <3>1
    <3>2. CASE k > i
      <4>1. kept[k - 1] = registry[k] /\ k - 1 \in 1..(n - 1)
        BY <2>1, <2>5, <3>2
      <4> QED
        BY <4>1
    <3> QED
      BY <2>1, <2>6, <3>1, <3>2
  <2>7. DOMAIN registry = 1..n /\ DOMAIN kept = 1..(n - 1)
    BY <1>1, <2>1, <2>5
  <2>8. ASSUME NEW id \in ToSet(registry), jobs[id] = "pending" PROVE id \in ToSet(kept)
    <3>1. PICK k \in 1..n : id = registry[k]
      BY <2>7 DEF ToSet
    <3> QED
      BY <2>6, <2>7, <2>8, <3>1 DEF ToSet
  <2> QED
    BY <2>5, <2>8
<1> QED
  BY <1>2, <1>3 DEF Room

\* Work that a page asked for and waited for stays recorded.
Remembered ==
  \A id \in Ids : jobs'[id] = "pending" =>
    \/ /\ jobs[id] = "pending" /\ work'[id] = work[id]
       /\ id \in ToSet(registry) => id \in ToSet(registry')
    \/ /\ id \in ToSet(registry')
       /\ ~work'[id].late => work'[id].generation = generation[work'[id].scope]

LEMMA ReplayStep ==
  ASSUME AttemptsInv, NEW r \in requests, Replay(r)
  PROVE  Serves /\ Remembered
<1>1. /\ UNCHANGED <<jobs, work, registry, tab, saved, generation, holder>>
      /\ \E id \in Recorded(r) : Answer(r, "accepted", id)
  BY DEF Replay, serverVars, serviceVars, browserVars
<1>2. \A id \in Recorded(r) : id \in Ids /\ id # Nothing
  BY BrowserAssumption DEF Recorded, ToSet, AttemptsInv, AttemptsTyped
<1>3. requests' \subseteq Posts /\ RequestsOK'
  BY <1>1, <1>2, Answered
<1> QED
  BY <1>1, <1>3 DEF Serves, Remembered, AttemptsInv, AttemptsTyped, WorkOK, Over

LEMMA RunStep ==
  ASSUME AttemptsInv, NEW r \in requests, NEW id \in Ids, Run(r, id)
  PROVE  Serves /\ Remembered
<1>1. r \in Posts
  BY DEF AttemptsInv, AttemptsTyped
<1>2. PICK kept \in Room : registry' = Append(kept, id)
  BY DEF Run
<1>3. PICK old \in SUBSET Done : Accept(id, old)
  BY DEF Run
<1>4. /\ work' = [work EXCEPT ![id] = [scope |-> r.scope, generation |-> r.generation,
                                       late |-> r.tab = Nothing]]
      /\ Answer(r, "accepted", id)
      /\ UNCHANGED <<tab, saved, generation, holder>>
  BY DEF Run, browserVars
<1>5. /\ kept \in Seq(Ids)
      /\ \A j \in ToSet(registry) : jobs[j] = "pending" => j \in ToSet(kept)
  BY <1>2, RoomIs DEF AttemptsInv
<1>6. /\ registry' \in Seq(Ids)
      /\ \A j \in Ids : j = id \/ j \in ToSet(kept) => j \in ToSet(registry')
  <2>1. /\ Append(kept, id) \in Seq(Ids) /\ Len(Append(kept, id)) = Len(kept) + 1
        /\ \A k \in 1..Len(kept) : Append(kept, id)[k] = kept[k]
        /\ Append(kept, id)[Len(kept) + 1] = id
        /\ Len(kept) \in Nat
    BY <1>5
  <2>2. DOMAIN registry' = 1..(Len(kept) + 1) /\ DOMAIN kept = 1..Len(kept)
    BY <1>2, <1>5, <2>1
  <2> QED
    BY <1>2, <2>1, <2>2 DEF ToSet
<1>7. id # Nothing
  BY BrowserAssumption
<1>8. requests' \subseteq Posts /\ RequestsOK'
  BY <1>4, <1>7, Answered
<1>9. /\ jobs[id] = "unknown"
      /\ jobs' = [j \in Ids |-> IF j = id THEN "pending"
                                ELSE IF j \in old THEN "forgotten" ELSE jobs[j]]
      /\ \A j \in old : jobs[j] = "done"
  BY <1>3 DEF Accept, Done
<1>10. /\ jobs' \in [Ids -> {"unknown", "pending", "done", "forgotten"}]
       /\ \A j \in Ids : Over(j) => Over(j)'
       /\ \A j \in Ids : j # id /\ jobs'[j] = "pending" => jobs[j] = "pending"
       /\ \A j \in Ids : j # id /\ jobs'[j] # "unknown" => jobs[j] # "unknown"
  BY <1>9 DEF AttemptsInv, AttemptsTyped, Over
<1>11. /\ work'[id].scope = r.scope /\ work'[id].generation = r.generation
       /\ work'[id].late <=> r.tab = Nothing
       /\ \A j \in Ids : j # id => work'[j] = work[j]
       /\ work' \in [Ids -> [scope : Scopes \cup {Nothing}, generation : Nat, late : BOOLEAN]]
  BY <1>1, <1>4 DEF AttemptsInv, AttemptsTyped, Posts
<1>12. AttemptsTyped' /\ WorkOK'
  BY <1>1, <1>4, <1>6, <1>8, <1>10, <1>11
  DEF AttemptsInv, AttemptsTyped, WorkOK, Posts
<1>13. r.tab # Nothing => r.generation = generation[r.scope]
  BY DEF AttemptsInv, RequestsOK
<1>14. Remembered
  BY <1>5, <1>6, <1>10, <1>11, <1>13 DEF Remembered
<1> QED
  BY <1>4, <1>8, <1>10, <1>12, <1>14 DEF Serves

LEMMA RefusalSteps ==
  ASSUME AttemptsInv, NEW r \in requests, Refuse(r) \/ Busy(r)
  PROVE  Serves /\ Remembered
<1>1. /\ UNCHANGED <<jobs, work, tab, saved, generation, holder>>
      /\ registry' = registry \/ registry' \in Room
      /\ Answer(r, "refused", Nothing) \/ Answer(r, "busy", Nothing)
  BY DEF Refuse, Busy, serviceVars, browserVars
<1>2. /\ registry' \in Seq(Ids)
      /\ \A j \in ToSet(registry) : jobs[j] = "pending" => j \in ToSet(registry')
  BY <1>1, RoomIs DEF AttemptsInv, AttemptsTyped
<1>3. requests' \subseteq Posts /\ RequestsOK'
  BY <1>1, Answered
<1> QED
  BY <1>1, <1>2, <1>3 DEF Serves, Remembered, AttemptsInv, AttemptsTyped, WorkOK, Over

LEMMA WorkStep ==
  ASSUME AttemptsInv, Work \/ Restart
  PROVE  Serves /\ Remembered
<1>1. /\ UNCHANGED <<work, tab, saved, generation, holder>>
      /\ requests' = requests \/ requests' = {}
      /\ jobs' \in [Ids -> {"unknown", "pending", "done", "forgotten"}]
      /\ \A id \in Ids : /\ Over(id) => Over(id)'
                         /\ jobs'[id] # "unknown" => jobs[id] # "unknown"
                         /\ jobs'[id] = "pending" => jobs[id] = "pending" /\ registry' = registry
      /\ registry' \in Seq(Ids)
  <2>1. ASSUME NEW id \in Ids, Finish(id)
        PROVE  /\ jobs' \in [Ids -> {"unknown", "pending", "done", "forgotten"}]
               /\ \A j \in Ids : /\ Over(j) => Over(j)'
                                 /\ jobs'[j] # "unknown" => jobs[j] # "unknown"
                                 /\ jobs'[j] = "pending" => jobs[j] = "pending"
    BY <2>1 DEF Finish, Over, AttemptsInv, AttemptsTyped
  <2>2. ASSUME NEW id \in Done, Forget({id})
        PROVE  /\ jobs' \in [Ids -> {"unknown", "pending", "done", "forgotten"}]
               /\ \A j \in Ids : /\ Over(j) => Over(j)'
                                 /\ jobs'[j] # "unknown" => jobs[j] # "unknown"
                                 /\ jobs'[j] = "pending" => jobs[j] = "pending"
    BY <2>2 DEF Forget, Done, Over, AttemptsInv, AttemptsTyped
  <2>3. CASE Work
    BY <2>1, <2>2, <2>3 DEF Work, browserVars, AttemptsInv, AttemptsTyped
  <2>4. CASE Restart
    BY <2>4 DEF Restart, browserVars, AttemptsInv, AttemptsTyped, Over
  <2> QED
    BY <2>3, <2>4
<1>2. RequestsOK' /\ requests' \subseteq Posts
  BY <1>1 DEF AttemptsInv, AttemptsTyped, RequestsOK, At
<1> QED
  BY <1>1, <1>2 DEF Serves, Remembered, AttemptsInv, AttemptsTyped, WorkOK

LEMMA ServerStep ==
  ASSUME AttemptsInv, (\E r \in requests : Deliver(r)) \/ Work \/ Restart
  PROVE  Serves /\ Remembered
BY ReplayStep, RunStep, RefusalSteps, WorkStep DEF Deliver

-----------------------------------------------------------------------------
(* BrowserAttempts: the results.                                           *)

LEMMA NextAttemptsInv == AttemptsInv /\ [AttemptsNext]_attemptVars => AttemptsInv'
<1> SUFFICES ASSUME AttemptsInv, [AttemptsNext]_attemptVars PROVE AttemptsInv'
  OBVIOUS
<1> USE DEF AttemptsInv
<1>1. ASSUME NEW t \in Tabs, TabStep(t) PROVE AttemptsInv'
  <2>1. Keeps(t)
    BY <1>1, TabStepKeeps
  <2>2. \A u \in Tabs : u # t => TabOK(u)'
    BY <2>1, TabStays DEF Keeps, Mine, AttemptsTyped
  <2> QED
    BY <2>1, <2>2 DEF Keeps
<1>2. CASE (\E r \in requests : Deliver(r)) \/ Work \/ Restart
  <2>1. Serves
    BY <1>2, ServerStep
  <2>2. \A s \in Scopes : generation[s] <= generation'[s]
    BY <2>1 DEF Serves, AttemptsTyped
  <2>3. \A u \in Tabs : TabOK(u)'
    BY <2>1, <2>2, TabStays DEF Serves, AttemptsTyped
  <2> QED
    BY <2>1, <2>3 DEF Serves
<1>3. CASE UNCHANGED attemptVars
  BY <1>3 DEF attemptVars, serverVars, serviceVars, browserVars, AttemptsTyped, RequestsOK, WorkOK,
     TabOK, Valid, At, Over
<1> QED
  BY <1>1, <1>2, <1>3 DEF AttemptsNext

LEMMA AttemptsInvariant == AttemptsSpec => []AttemptsInv
BY InitAttemptsInv, NextAttemptsInv, PTL DEF AttemptsSpec

\* A step that makes running work unfindable.
Losing(id) ==
  Wanted(id)' /\ ~Found(id)' =>
    \/ Wanted(id) /\ ~Found(id)
    \/ \E t \in Tabs : /\ At(t, "completing") /\ tab[t].attempt.job # id
                       /\ tab[t].attempt.scope = work[id].scope
                       /\ tab[t].attempt.generation = work[id].generation

LEMMA NothingIsLost ==
  ASSUME AttemptsInv, [AttemptsNext]_attemptVars, NEW id \in Ids
  PROVE  Losing(id)
<1> SUFFICES ASSUME Wanted(id)', ~Found(id)', Wanted(id) => Found(id)
             PROVE  \E t \in Tabs : /\ At(t, "completing") /\ tab[t].attempt.job # id
                                    /\ tab[t].attempt.scope = work[id].scope
                                    /\ tab[t].attempt.generation = work[id].generation
  BY DEF Losing
<1> USE DEF AttemptsInv, Wanted, Found
<1>1. ASSUME NEW t \in Tabs, TabStep(t), ~Complete(t)
      PROVE  UNCHANGED <<jobs, work, registry, generation>>
  BY <1>1 DEF TabStep, Preview, Confirm, Retry, Stale, Admit, AdmitUnstored, Unavailable, Receive,
     Abandon, Poll, NotFound, Pause, Continue, Reload, Close, serverVars, serviceVars
<1>2. ASSUME NEW t \in Tabs, Complete(t)
      PROVE  /\ At(t, "completing") /\ tab[t].attempt.job # id
             /\ tab[t].attempt.scope = work[id].scope
             /\ tab[t].attempt.generation = work[id].generation
  <2>1. UNCHANGED <<jobs, work, registry>> /\ At(t, "completing")
    BY <1>2 DEF Complete, serverVars, serviceVars
  <2>2. jobs[id] = "pending" /\ work[id].scope \in Scopes
    BY <2>1 DEF WorkOK
  <2>3. generation'[work[id].scope] # generation[work[id].scope]
    BY <2>1
  <2>4. tab[t].attempt.job # id
    BY <2>1, <2>2, BrowserAssumption DEF TabOK, Over
  <2> QED
    BY <1>2, <2>1, <2>2, <2>3, <2>4, CompleteStep
<1>3. ~((\E r \in requests : Deliver(r)) \/ Work \/ Restart)
  BY ServerStep DEF Serves, Remembered
<1>4. ~UNCHANGED attemptVars
  BY DEF attemptVars, serverVars, serviceVars, browserVars
<1> QED
  BY <1>1, <1>2, <1>3, <1>4 DEF AttemptsNext

\* Running work that a page asked for and waited for stays findable for every tab,
\* through reloads, closed tabs, lost answers, failing storage and locks, unless a tab
\* retires its generation under which it got another answer (AttemptCoordinator, complete).
THEOREM WorkIsFound == AttemptsSpec => WorkStaysFound
<1>1. AttemptsInv /\ [AttemptsNext]_attemptVars => \A id \in Ids : Losing(id)
  BY NothingIsLost
<1> QED
  BY <1>1, AttemptsInvariant, PTL DEF AttemptsSpec, WorkStaysFound, Losing

================================================================================
