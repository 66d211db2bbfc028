--------------------------- MODULE SourceAcquisition ---------------------------
(***************************************************************************)
(* Acquisition of videos (acquisition.py, downloader.py, analyzer.py): a    *)
(* run plans the videos it has discovered, downloads the transcripts that   *)
(* are missing, analyses those without an insight, refreshes the indexes and*)
(* reports.  Several runs -- commands, web jobs, research sessions, repeated*)
(* runs after a crash -- share the corpus without a lock: a file is put in  *)
(* place by an exclusive link and never replaced.                           *)
(***************************************************************************)
EXTENDS Naturals, Sequences, FiniteSets, SequencesExt

CONSTANTS
  Runs,        \* executions of a plan
  Videos,
  Names,       \* names of transcripts: <<video, title it has when it is downloaded>>
  Requests,    \* what may be asked: what discovery finds (a sequence of [id, year,
               \* valid]), the years selected ({}: all), [analyze, refresh]
  MaxFaults,   \* bound: errors of the network, the model and the file system
  MaxCrashes,  \* bound: runs that are killed
  None

ASSUME AcquisitionAssumption ==
  /\ None \notin Runs
  /\ \A n \in Names : n[1] \in Videos
  /\ \A q \in Requests :
       /\ q.found \in Seq([id : Videos \cup {None}, year : Nat, valid : BOOLEAN])
       /\ \A i \in DOMAIN q.found : q.found[i].valid => q.found[i].id \in Videos
  /\ {MaxFaults, MaxCrashes} \subseteq Nat

VARIABLES
  transcripts,  \* name -> the text there, told by the run that downloaded it
  insights,     \* name -> the text its insight was made from
  indexed,      \* names in the published indexes
  indexedInsights,
  pc,
  selected,     \* run -> videos of its plan, in order
  options,      \* run -> [analyze, refresh]
  circuit,      \* runs that were told to stop downloading
  done,         \* run -> number of videos dealt with
  result,       \* run -> how the download of the current video went
  ready,        \* run -> snapshots it has read: <<name, text>>
  items,        \* run -> video -> item of the report
  failures,     \* runs with a failure in their report
  drafts,       \* run -> the snapshots it has analysed and not yet promoted
  faults, crashes

corpusVars == <<transcripts, insights, indexed, indexedInsights>>
planVars == <<selected, options>>
loopVars == <<circuit, done, result, ready, items>>
acquisitionVars == <<corpusVars, pc, planVars, loopVars, failures, drafts, faults, crashes>>

NoItem == [status |-> "none", sha |-> None]

Goto(r, label) == pc' = [pc EXCEPT ![r] = label]

Fault == faults < MaxFaults /\ faults' = faults + 1

Fails(r) == failures' = failures \cup {r}

NamesOf(v) == {n \in Names : n[1] = v /\ transcripts[n] # None}

\* _matching_vtts, with the bytes it reads.
Matching(v) == {<<n, transcripts[n]>> : n \in NamesOf(v)}

Current(r) == selected[r][done[r] + 1]

ReadyVideos(r) == {s[1][1] : s \in ready[r]}

\* build_acquisition_plan: valid ids, each at its first occurrence, of the years.
Planned(found, years) ==
  LET picked == {i \in DOMAIN found :
                   /\ found[i].valid
                   /\ \A j \in 1..(i - 1) : found[j].id # found[i].id
                   /\ years # {} => found[i].year \in years}
      Turn(i) == Cardinality({j \in picked : j <= i})
  IN [k \in 1..Cardinality(picked) |-> found[CHOOSE i \in picked : Turn(i) = k].id]

-----------------------------------------------------------------------------

\* A run begins with a plan; discovery may have met errors.
Begin(r, q) ==
  /\ pc[r] = "start"
  /\ selected' = [selected EXCEPT ![r] = Planned(q.found, q.years)]
  /\ options' = [options EXCEPT ![r] = [analyze |-> q.analyze, refresh |-> q.refresh]]
  /\ Goto(r, "look")
  /\ \/ UNCHANGED <<circuit, failures, faults>>
     \/ Fault /\ Fails(r) /\ circuit' \in {circuit, circuit \cup {r}}
  /\ UNCHANGED <<corpusVars, done, result, ready, items, drafts, crashes>>

Item(r, status, sha) ==
  items' = [items EXCEPT ![r] = [@ EXCEPT ![Current(r)] = [status |-> status, sha |-> sha]]]

\* The next video: what was wrong with this one is in the report.
Skip(r) ==
  /\ Item(r, "failed_retryable", None) /\ Fails(r)
  /\ done' = [done EXCEPT ![r] = @ + 1] /\ Goto(r, "look")

\* Is the transcript there?  If not, does YouTube still let us download?
Look(r) ==
  /\ pc[r] = "look" /\ done[r] < Len(selected[r])
  /\ \/ /\ Fault /\ Skip(r) /\ UNCHANGED result
     \/ /\ NamesOf(Current(r)) # {}
        /\ result' = [result EXCEPT ![r] = "cached"] /\ Goto(r, "read")
        /\ UNCHANGED <<faults, items, failures, done>>
     \/ /\ NamesOf(Current(r)) = {} /\ r \notin circuit
        /\ Goto(r, "download")
        /\ UNCHANGED <<faults, items, failures, done, result>>
     \/ /\ NamesOf(Current(r)) = {} /\ r \in circuit
        /\ Skip(r) /\ UNCHANGED <<faults, result>>
  /\ UNCHANGED <<corpusVars, planVars, circuit, ready, drafts, crashes>>

\* Faulty: the file that was downloaded replaces the one that is there.
Promoted_Replacing(name, r) == [transcripts EXCEPT ![name] = r]

\* _promote_regular_file: a link that fails when the name is taken.
Promoted(name, r) == [transcripts EXCEPT ![name] = IF @ = None THEN r ELSE @]

\* download_subtitles, alone in a private directory until it promotes.  yt-dlp
\* may fail with or without a file, and also find that there is none.
Download(r) ==
  /\ pc[r] = "download" /\ Goto(r, "read")
  /\ \/ UNCHANGED transcripts
     \/ \E n \in Names : n[1] = Current(r) /\ transcripts' = Promoted(n, r)
  /\ \/ result' = [result EXCEPT ![r] = "ok"] /\ UNCHANGED faults
     \/ result' = [result EXCEPT ![r] = "error"] /\ Fault
     \/ result' = [result EXCEPT ![r] = "blocked"] /\ Fault
  /\ UNCHANGED <<insights, indexed, indexedInsights, planVars, circuit, done, ready, items,
                 failures, drafts, crashes>>

Status(r, found) ==
  IF result[r] = "cached" THEN "already_present"
  ELSE IF result[r] \in {"error", "blocked"} THEN "failed_retryable"
  ELSE IF found # {} THEN "acquired" ELSE "no_transcript"

\* The hash is that of the first transcript by name: here, of any of them.
Hashes(r, found) == IF found = {} THEN {None} ELSE {s[2] : s \in found}

\* The directory is read again, whatever the download said.
Read(r) ==
  LET found == Matching(Current(r)) IN
    /\ pc[r] = "read"
    /\ \/ Fault /\ Skip(r) /\ UNCHANGED <<ready, circuit>>
       \/ /\ ready' = [ready EXCEPT ![r] = @ \cup found]
          /\ \E hash \in Hashes(r, found) : Item(r, Status(r, found), hash)
          /\ failures' = IF result[r] \in {"error", "blocked"} \/ found = {}
                         THEN failures \cup {r} ELSE failures
          /\ circuit' = IF result[r] = "blocked" THEN circuit \cup {r} ELSE circuit
          /\ done' = [done EXCEPT ![r] = @ + 1] /\ Goto(r, "look")
          /\ UNCHANGED faults
    /\ UNCHANGED <<corpusVars, planVars, result, drafts, crashes>>

-----------------------------------------------------------------------------
(* Analysis, of everything that is ready and has no insight yet.           *)

Missing(r) == {s \in ready[r] : insights[s[1]] = None}

\* analyze_all works on private copies.  A video whose answer is cut off or
\* cannot be parsed gets no insight; one that fails does not stop the others.
Analyze(r) ==
  /\ pc[r] = "look" /\ done[r] = Len(selected[r])
  /\ options[r].analyze /\ ready[r] # {}
  /\ \/ /\ Missing(r) = {} /\ Goto(r, "check") /\ UNCHANGED <<drafts, faults, failures>>
     \/ /\ Missing(r) # {}
        /\ \E some \in SUBSET Missing(r) :
             /\ drafts' = [drafts EXCEPT ![r] = some]
             /\ Goto(r, IF some = {} THEN "check" ELSE "promote")
        /\ UNCHANGED <<faults, failures>>
     \/ Fault /\ Fails(r) /\ Goto(r, "check") /\ UNCHANGED drafts
  /\ UNCHANGED <<corpusVars, planVars, loopVars, crashes>>

\* One insight after the other is linked to its place; an error ends it.
Promote(r) ==
  /\ pc[r] = "promote"
  /\ \/ \E s \in drafts[r] :
          /\ insights' = [insights EXCEPT ![s[1]] = IF @ = None THEN s[2] ELSE @]
          /\ drafts' = [drafts EXCEPT ![r] = @ \ {s}]
          /\ IF drafts[r] = {s} THEN Goto(r, "check") ELSE UNCHANGED pc
          /\ UNCHANGED <<faults, failures>>
     \/ /\ Fault /\ Fails(r) /\ Goto(r, "check")
        /\ drafts' = [drafts EXCEPT ![r] = {}] /\ UNCHANGED insights
  /\ UNCHANGED <<transcripts, indexed, indexedInsights, planVars, loopVars, crashes>>

HasInsight(r, v) == \E s \in ready[r] : s[1][1] = v /\ insights[s[1]] # None

\* Every ready video must have an insight now.
Check(r) ==
  /\ pc[r] = "check" /\ Goto(r, "refresh")
  /\ \/ /\ \A v \in ReadyVideos(r) : HasInsight(r, v)
        /\ UNCHANGED <<faults, failures>>
     \/ /\ \E v \in ReadyVideos(r) : ~HasInsight(r, v)
        /\ Fails(r) /\ UNCHANGED faults
     \/ Fault /\ Fails(r)
  /\ UNCHANGED <<corpusVars, planVars, loopVars, drafts, crashes>>

-----------------------------------------------------------------------------

\* Faulty: the indexes are refreshed only for new transcripts.
Refreshes_New(r) ==
  options[r].refresh /\ \E v \in ReadyVideos(r) : items[r][v].status = "acquired"

Refreshes(r) == options[r].refresh /\ ready[r] # {}

Loaded(r) == done[r] = Len(selected[r]) /\ (pc[r] = "look" /\ (~options[r].analyze \/ ready[r] = {}))

\* rebuild_and_publish_indexes scans the corpus and publishes, alone (it holds
\* the lock of the catalog), or fails and leaves the indexes as they were.
Refresh(r) ==
  /\ pc[r] = "refresh" \/ Loaded(r)
  /\ Goto(r, "done")
  /\ \/ /\ Refreshes(r)
        /\ indexed' = {n \in Names : transcripts[n] # None}
        /\ indexedInsights' = {n \in Names : insights[n] # None}
        /\ UNCHANGED <<faults, failures>>
     \/ /\ Refreshes(r) /\ Fault /\ Fails(r) /\ UNCHANGED <<indexed, indexedInsights>>
     \/ /\ ~Refreshes(r) /\ UNCHANGED <<indexed, indexedInsights, faults, failures>>
  /\ UNCHANGED <<transcripts, insights, planVars, loopVars, drafts, crashes>>

\* The process is killed; its private directories hold nothing of the corpus.
Crash(r) ==
  /\ pc[r] \notin {"start", "done", "crashed"}
  /\ crashes < MaxCrashes /\ crashes' = crashes + 1
  /\ Goto(r, "crashed")
  /\ UNCHANGED <<corpusVars, planVars, loopVars, failures, drafts, faults>>

\* AcquisitionReport.exit_code
ExitCode(r) ==
  LET n == Cardinality(ReadyVideos(r)) IN
    CASE selected[r] # <<>> /\ n = 0 -> 1
      [] r \in failures \/ n < Len(selected[r]) -> IF n > 0 THEN 4 ELSE 1
      [] OTHER -> 0

AcquisitionInit ==
  /\ transcripts = [n \in Names |-> None]
  /\ insights = [n \in Names |-> None]
  /\ indexed = {} /\ indexedInsights = {}
  /\ pc = [r \in Runs |-> "start"]
  /\ selected = [r \in Runs |-> <<>>]
  /\ options = [r \in Runs |-> [analyze |-> FALSE, refresh |-> TRUE]]
  /\ circuit = {} /\ failures = {}
  /\ done = [r \in Runs |-> 0]
  /\ result = [r \in Runs |-> "none"]
  /\ ready = [r \in Runs |-> {}]
  /\ items = [r \in Runs |-> [v \in Videos |-> NoItem]]
  /\ drafts = [r \in Runs |-> {}]
  /\ faults = 0 /\ crashes = 0

Step(r) ==
  \/ (\E q \in Requests : Begin(r, q))
  \/ Look(r) \/ Download(r) \/ Read(r) \/ Analyze(r) \/ Promote(r)
  \/ Check(r) \/ Refresh(r)

AcquisitionNext == \E r \in Runs : Step(r) \/ Crash(r)

AcquisitionSpec == AcquisitionInit /\ [][AcquisitionNext]_acquisitionVars

-----------------------------------------------------------------------------
(* Properties.                                                             *)

\* A run that exits with 0 has everything it was asked for, also what earlier
\* runs that failed or died had left half done, and it stays so: a transcript of
\* every selected video, its insight when one was asked for, and both are in the
\* indexes when these were to be refreshed.
ExitZeroIsComplete ==
  \A r \in Runs : pc[r] = "done" /\ ExitCode(r) = 0 =>
    \A v \in ToSet(selected[r]) :
      \E n \in NamesOf(v) :
        /\ options[r].analyze => insights[n] # None
        /\ options[r].refresh => n \in indexed /\ (options[r].analyze => n \in indexedInsights)

\* An insight is always of the transcript beside it, and what the indexes hold is
\* in the corpus, whichever runs download and analyse the same video at once.
InsightOfTranscript ==
  /\ \A n \in Names : insights[n] # None => insights[n] = transcripts[n]
  /\ \A n \in indexed : transcripts[n] # None
  /\ \A n \in indexedInsights : insights[n] # None

\* The hash in a report is that of a transcript that is and stays in the corpus,
\* also when another run was the first to put it there, and no item is said to be
\* acquired or present without one.
ReportedIsPublished ==
  \A r \in Runs, v \in Videos :
    LET item == items[r][v] IN
      /\ item.sha # None => \E n \in NamesOf(v) : transcripts[n] = item.sha
      /\ item.status \in {"acquired", "already_present"} => item.sha # None

=============================================================================
