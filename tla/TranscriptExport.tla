--------------------------- MODULE TranscriptExport ---------------------------
(***************************************************************************)
(* Export of one video's transcript (src/yt_insights/exporter.py).  An       *)
(* export finds the one transcript that is meant, reads it through one        *)
(* descriptor, and publishes the text under its final name by way of a        *)
(* temporary file: an exclusive link, or with force a rename.  The temporary   *)
(* name is fixed by the final one, so that exports of one transcript share it, *)
(* and no lock orders them; the corpus and the exports directory may change    *)
(* under an export as well.                                                  *)
(***************************************************************************)
EXTENDS Naturals, FiniteSets

CONSTANTS
  Exporters,    \* calls of export_video for one video
  Languages,
  Rooms,        \* directories the exports path may lead to, one after the other
  MaxRewrites,  \* bound: changes of transcripts
  MaxTroubles,  \* bound: errors of system calls
  MaxKills,     \* bound: exports that are killed
  Nothing

\* A transcript lies in the inbox, which needs its metadata file, or in a channel.
Shelves == {"inbox", "channel"}

Sources == Shelves \X Languages

\* The directory of an output given by the user is not checked.
Given == "given"

\* A published file has a name in a directory.
Outputs == (Rooms \X Languages) \cup {<<Given, Given>>}

ASSUME ExportAssumption ==
  /\ Nothing \notin Exporters \cup Rooms \cup Languages \cup Sources /\ Given \notin Rooms
  /\ IsFiniteSet(Exporters)
  /\ {MaxRewrites, MaxTroubles, MaxKills} \subseteq Nat

VARIABLES
  source,     \* source -> the inode there
  text,       \* inode -> its text, told by the change that wrote it: also its mtime
  metadata,   \* shelf -> the metadata file: "good", "bad" or "none"
  room,       \* directory at the exports path
  output,     \* output -> the export whose file is there
  temporary,  \* output -> the export whose file is under the temporary name
  written,    \* export -> what its file holds: "nothing", "whole"
  export,     \* export -> its point, request, source and what it has read
  rewrites, troubles, kills

corpusFiles == <<source, text, metadata>>
exportedFiles == <<output, temporary, written>>
exportVars == <<corpusFiles, room, exportedFiles, export, rewrites, troubles, kills>>

Idle == [point |-> "start", language |-> Nothing, force |-> FALSE, given |-> FALSE,
         room |-> Nothing, source |-> Nothing, inode |-> Nothing, mtime |-> Nothing,
         first |-> Nothing, second |-> Nothing, ok |-> FALSE]

Ready(e, point) == export[e].point = point

Continue(e, point) == export' = [export EXCEPT ![e].point = point]

Give(e) == Continue(e, "failed")

\* Where the file of an export goes.
Output(e) ==
  IF export[e].given THEN <<Given, Given>> ELSE <<export[e].room, export[e].source[2]>>

-----------------------------------------------------------------------------
(* The transcript that is meant.                                           *)

\* The directory at the exports path, opened component by component and made where one
\* is missing; an output given by the user needs none.
OpenedRoom(given) == IF given THEN Nothing ELSE room

\* A default export opens its directory before it looks for the transcript.
Request(e, language, force, given) ==
  /\ Ready(e, "start")
  /\ export' = [export EXCEPT ![e] = [Idle EXCEPT
       !.point = "resolve", !.language = language, !.force = force, !.given = given,
       !.room = OpenedRoom(given)]]
  /\ UNCHANGED <<corpusFiles, room, exportedFiles, rewrites, troubles, kills>>

Candidates == {s \in Sources : source[s] # Nothing}

\* A file of the inbox must have its metadata; that of a channel is read if there.
Corrupt(s) == metadata[s[1]] = "bad" \/ (s[1] = "inbox" /\ metadata[s[1]] = "none")

\* The one candidate of the language, or of the only language.
TheOne(language) ==
  LET matching == {s \in Candidates : language \in {Nothing, s[2]}}
  IN IF (\E s \in Candidates : Corrupt(s)) \/ Cardinality(matching) # 1 THEN {} ELSE matching

\* resolve_transcript lists the corpus in one instant.
Resolve(e) ==
  /\ Ready(e, "resolve")
  /\ IF TheOne(export[e].language) = {} THEN Give(e)
     ELSE \E s \in TheOne(export[e].language) :
            export' = [export EXCEPT ![e].point = "inspect", ![e].source = s]
  /\ UNCHANGED <<corpusFiles, room, exportedFiles, rewrites, troubles, kills>>

-----------------------------------------------------------------------------
(* _read_source_snapshot.                                                  *)

There(e) == source[export[e].source]

Inspect(e) ==
  /\ Ready(e, "inspect")
  /\ IF There(e) = Nothing THEN Give(e)
     ELSE export' = [export EXCEPT ![e].point = "open", ![e].inode = There(e)]
  /\ UNCHANGED <<corpusFiles, room, exportedFiles, rewrites, troubles, kills>>

OpenSource(e) ==
  /\ Ready(e, "open")
  /\ IF There(e) # export[e].inode THEN Give(e)
     ELSE export' = [export EXCEPT ![e].point = "first", ![e].mtime = text[There(e)]]
  /\ UNCHANGED <<corpusFiles, room, exportedFiles, rewrites, troubles, kills>>

\* The text is read in two chunks; the file may be rewritten in between.
ReadFirst(e) ==
  /\ Ready(e, "first")
  /\ export' = [export EXCEPT ![e].point = "second", ![e].first = text[export[e].inode]]
  /\ UNCHANGED <<corpusFiles, room, exportedFiles, rewrites, troubles, kills>>

ReadSecond(e) ==
  /\ Ready(e, "second")
  /\ export' = [export EXCEPT ![e].point = "confirm", ![e].second = text[export[e].inode]]
  /\ UNCHANGED <<corpusFiles, room, exportedFiles, rewrites, troubles, kills>>

\* Faulty: the name is looked at again, the file that was read is not.
Confirm_NameOnly(e) ==
  /\ Ready(e, "confirm")
  /\ Continue(e, "named")
  /\ UNCHANGED <<corpusFiles, room, exportedFiles, rewrites, troubles, kills>>

\* The file that was read is as it was opened ...
Confirm(e) ==
  /\ Ready(e, "confirm")
  /\ IF text[export[e].inode] = export[e].mtime THEN Continue(e, "named") ELSE Give(e)
  /\ UNCHANGED <<corpusFiles, room, exportedFiles, rewrites, troubles, kills>>

\* ... and is still the one by that name.
ConfirmName(e) ==
  /\ Ready(e, "named")
  /\ IF There(e) = export[e].inode THEN Continue(e, "target") ELSE Give(e)
  /\ UNCHANGED <<corpusFiles, room, exportedFiles, rewrites, troubles, kills>>

-----------------------------------------------------------------------------
(* _write_atomic and _write_atomic_at.                                     *)

CheckTarget(e) ==
  /\ Ready(e, "target")
  /\ IF output[Output(e)] # Nothing /\ ~export[e].force THEN Give(e)
     ELSE Continue(e, "create")
  /\ UNCHANGED <<corpusFiles, room, exportedFiles, rewrites, troubles, kills>>

\* Faulty: a temporary file that is there is written over.
Create_Shared(e) ==
  /\ Ready(e, "create")
  /\ temporary' = [temporary EXCEPT ![Output(e)] = IF @ = Nothing THEN e ELSE @]
  /\ Continue(e, "write")
  /\ UNCHANGED <<corpusFiles, room, output, written, rewrites, troubles, kills>>

\* The temporary file is created exclusively; one that is there is an error, after
\* which it is removed all the same.
Create(e) ==
  /\ Ready(e, "create")
  /\ IF temporary[Output(e)] # Nothing THEN Continue(e, "remove") /\ UNCHANGED temporary
     ELSE /\ temporary' = [temporary EXCEPT ![Output(e)] = e]
          /\ Continue(e, "write")
  /\ UNCHANGED <<corpusFiles, room, output, written, rewrites, troubles, kills>>

WritePayload(e) ==
  /\ Ready(e, "write")
  /\ written' = [written EXCEPT ![e] = "whole"]
  /\ Continue(e, "link")
  /\ UNCHANGED <<corpusFiles, room, output, temporary, rewrites, troubles, kills>>

\* What is under the temporary name is published: linked if there is no such file
\* yet, or renamed with force.
Link(e) ==
  LET o == Output(e)
      possible == temporary[o] # Nothing /\ (export[e].force \/ output[o] = Nothing)
  IN /\ Ready(e, "link")
     /\ IF ~possible THEN Continue(e, "remove") /\ UNCHANGED <<output, temporary>>
        ELSE /\ output' = [output EXCEPT ![o] = temporary[o]]
             /\ temporary' = IF export[e].force THEN [temporary EXCEPT ![o] = Nothing]
                             ELSE temporary
             /\ export' = [export EXCEPT ![e].point = "remove", ![e].ok = TRUE]
     /\ UNCHANGED <<corpusFiles, room, written, rewrites, troubles, kills>>

\* Where an export goes when its temporary file is gone.
AfterRemoval(e) ==
  IF ~export[e].ok THEN "failed" ELSE IF export[e].given THEN "done" ELSE "directory"

\* Whatever is under the temporary name is removed, on every path.
RemoveTemporary(e) ==
  /\ Ready(e, "remove")
  /\ temporary' = [temporary EXCEPT ![Output(e)] = Nothing]
  /\ Continue(e, AfterRemoval(e))
  /\ UNCHANGED <<corpusFiles, room, output, written, rewrites, troubles, kills>>

\* The path still leads to the directory that was opened.
SameRoom(e) == room = export[e].room

\* A default export whose directory is no longer at the exports path removes the
\* file it has published there.
CheckDirectory(e) ==
  /\ Ready(e, "directory")
  /\ IF SameRoom(e) THEN Continue(e, "done") /\ UNCHANGED output
     ELSE Give(e) /\ output' = [output EXCEPT ![Output(e)] = Nothing]
  /\ UNCHANGED <<corpusFiles, room, temporary, written, rewrites, troubles, kills>>

\* A directory that cannot be looked at counts as changed, and a file that cannot be
\* removed stays.
DirectoryTrouble(e) ==
  /\ Ready(e, "directory")
  /\ troubles < MaxTroubles /\ troubles' = troubles + 1
  /\ Give(e)
  /\ output' = IF SameRoom(e) THEN [output EXCEPT ![Output(e)] = Nothing] ELSE output
  /\ UNCHANGED <<corpusFiles, room, temporary, written, rewrites, kills>>

-----------------------------------------------------------------------------
(* Troubles, and what others do.                                           *)

\* A system call fails; from the creation of the temporary file on, it is removed.
Trouble(e) ==
  /\ export[e].point \notin {"start", "done", "failed", "killed", "directory"}
  /\ troubles < MaxTroubles /\ troubles' = troubles + 1
  /\ Continue(e, IF export[e].point \in {"create", "write", "link"} THEN "remove" ELSE "failed")
  /\ UNCHANGED <<corpusFiles, room, exportedFiles, rewrites, kills>>

KillExport(e) ==
  /\ export[e].point \notin {"start", "done", "failed", "killed"}
  /\ kills < MaxKills /\ kills' = kills + 1
  /\ Continue(e, "killed")
  /\ UNCHANGED <<corpusFiles, room, exportedFiles, rewrites, troubles>>

\* A transcript is rewritten in place, replaced, or removed.
Rewrite(s) ==
  /\ rewrites < MaxRewrites /\ rewrites' = rewrites + 1
  /\ \/ /\ source[s] # Nothing
        /\ text' = [text EXCEPT ![source[s]] = rewrites + 1]
        /\ UNCHANGED source
     \/ /\ source' = [source EXCEPT ![s] = rewrites + 1]
        /\ text' = [text EXCEPT ![rewrites + 1] = rewrites + 1]
     \/ /\ source[s] # Nothing
        /\ source' = [source EXCEPT ![s] = Nothing]
        /\ UNCHANGED text
  /\ UNCHANGED <<metadata, room, exportedFiles, export, troubles, kills>>

\* The exports directory is moved away; another one is there.
Swap(r) ==
  /\ \E e \in Exporters : export[e].room = room
  /\ \A e \in Exporters : export[e].room # r
  /\ room # r /\ room' = r
  /\ UNCHANGED <<corpusFiles, exportedFiles, export, rewrites, troubles, kills>>

ExportInit ==
  /\ source \in [Sources -> {0, Nothing}]
  /\ text = [i \in 0..MaxRewrites |-> 0]
  /\ metadata \in [Shelves -> {"good", "bad", "none"}]
  /\ room \in Rooms
  /\ output = [o \in Outputs |-> Nothing] /\ temporary = output
  /\ written = [e \in Exporters |-> "nothing"]
  /\ export = [e \in Exporters |-> Idle]
  /\ rewrites = 0 /\ troubles = 0 /\ kills = 0

ExportStep(e) ==
  \/ \E language \in Languages \cup {Nothing}, force, given \in BOOLEAN :
       Request(e, language, force, given)
  \/ Resolve(e) \/ Inspect(e) \/ OpenSource(e) \/ ReadFirst(e) \/ ReadSecond(e)
  \/ Confirm(e) \/ ConfirmName(e) \/ CheckTarget(e) \/ Create(e) \/ WritePayload(e)
  \/ Link(e) \/ RemoveTemporary(e) \/ CheckDirectory(e)
  \/ DirectoryTrouble(e) \/ Trouble(e) \/ KillExport(e)

ExportNext ==
  \/ \E e \in Exporters : ExportStep(e)
  \/ \E s \in Sources : Rewrite(s)
  \/ \E r \in Rooms : Swap(r)

ExportSpec == ExportInit /\ [][ExportNext]_exportVars

-----------------------------------------------------------------------------
\* What an export writes is a text that its source had at one instant, although the
\* source is read in chunks and may be rewritten, replaced or removed meanwhile
\* (_read_source_snapshot).
ExportIsOneText ==
  \A e \in Exporters : written[e] = "whole" => export[e].first = export[e].second

\* The exports that have got as far as the names of an output.
Users(o) ==
  {e \in Exporters :
     /\ export[e].point \in {"create", "write", "link", "remove", "directory", "done",
                            "failed", "killed"}
     /\ export[e].source # Nothing
     /\ Output(e) = o}

\* As long as no more than two exports have used the names of an output, the file
\* there is a whole one: an export takes no temporary file for its own that one beside
\* it, or one that was killed, has begun.  And what a successful export has published
\* stays there, unless the other replaces it with force, or removes it because the
\* exports directory has moved, or cannot be looked at, after its own publication.
TwoExportsAreSafe ==
  \A o \in Outputs :
    Cardinality(Users(o)) <= 2 =>
      /\ output[o] # Nothing => written[output[o]] = "whole"
      /\ \A e \in Users(o) :
           Ready(e, "done") =>
             \/ output[o] = e
             \/ \E f \in Users(o) \ {e} :
                  export[f].ok /\ (export[f].force \/ Ready(f, "failed"))

\* The same for any number of exports does not hold: the second removes the
\* temporary file of the first, the third makes its own under that name, and the
\* first publishes that before it is written.
PublishedIsWhole ==
  \A o \in Outputs : output[o] # Nothing => written[output[o]] = "whole"

================================================================================
