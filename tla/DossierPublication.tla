-------------------------- MODULE DossierPublication --------------------------
(***************************************************************************)
(* Publication of research dossiers (research/dossier.py).  An export       *)
(* writes its two files into a private directory and renames that to the    *)
(* destination; a forced one first renames the validated prior dossier to a *)
(* private backup, which it puts back when a later step fails.  Directories *)
(* are compared by identity before and after each rename, but exports to    *)
(* one destination are not ordered by any lock.                             *)
(***************************************************************************)
EXTENDS Naturals, FiniteSets

CONSTANTS
  Writers,     \* exports, each of one dossier to the same destination
  Prior,       \* the directory that is at the destination at first
  Foreign,     \* a directory of somebody else
  MaxErrors,   \* bound: operating system errors and failed checks of the parent
  MaxCrashes,  \* bound: exports that are killed
  None

Directories == Writers \cup {Prior, Foreign}

ASSUME DossierAssumption ==
  /\ Prior # Foreign /\ None \notin {Prior, Foreign}
  /\ Writers \cap {Prior, Foreign, None} = {}
  /\ {MaxErrors, MaxCrashes} \subseteq Nat

\* Entries of the parent directory.
Dest == <<"destination", None>>
Staging(w) == <<"staging", w>>
Backup(w) == <<"backup", w>>
Cleanup(w) == <<"cleanup", w>>

Entries == {Dest} \cup ({"staging", "backup", "cleanup"} \X Writers)

VARIABLES
  at,         \* entry -> directory
  content,    \* directory -> what it holds: a "whole" dossier, "part" of one ...
  step, force,
  initial,    \* writer -> the directory it found at the destination
  committed,  \* writers whose dossier was published and checked
  lapsed,      \* writers that met an error while they took their steps back
  errors, crashes

writerVars == <<step, force, initial, committed, lapsed>>
dossierVars == <<at, content, writerVars, errors, crashes>>

Goto(w, label) == step' = [step EXCEPT ![w] = label]

MoveEntry(from, to) == at' = [at EXCEPT ![to] = at[from], ![from] = None]

\* rename replaces a directory only when that is empty.
Free(entry) == at[entry] = None \/ content[at[entry]] = "empty"

Emptied(d) == CASE content[d] = "whole" -> "part" [] content[d] = "part" -> "empty"

-----------------------------------------------------------------------------

\* _publish up to the staging directory: what is at the destination?
Look(w, f) ==
  LET d == at[Dest] IN
    /\ step[w] = "start"
    /\ force' = [force EXCEPT ![w] = f]
    /\ initial' = [initial EXCEPT ![w] = d]
    /\ Goto(w, IF d # None /\ (~f \/ content[d] # "whole") THEN "error" ELSE "stage")
    /\ UNCHANGED <<at, content, committed, lapsed, errors, crashes>>

\* The private directory, its two files, their validation.
StageDossier(w) ==
  /\ step[w] = "stage"
  /\ at' = [at EXCEPT ![Staging(w)] = w]
  /\ content' = [content EXCEPT ![w] = "whole"]
  /\ Goto(w, "compare")
  /\ UNCHANGED <<force, initial, committed, lapsed, errors, crashes>>

\* _publish_stage: the destination is still what it was; force needs a prior
\* dossier that is whole.
Compare(w) ==
  LET good == /\ at[Dest] = initial[w]
              /\ force[w] => initial[w] # None /\ content[initial[w]] = "whole"
  IN
    /\ step[w] = "compare"
    /\ Goto(w, IF ~good THEN "clean" ELSE IF force[w] THEN "rename" ELSE "publish")
    /\ UNCHANGED <<at, content, force, initial, committed, lapsed, errors, crashes>>

\* The prior dossier -- or what is there by now -- becomes the backup ...
Rename(w) ==
  /\ step[w] = "rename"
  /\ IF at[Dest] = None THEN Goto(w, "clean") /\ UNCHANGED at
     ELSE MoveEntry(Dest, Backup(w)) /\ Goto(w, "moved")
  /\ UNCHANGED <<content, force, initial, committed, lapsed, errors, crashes>>

\* ... and is compared afterwards.
CheckBackup(w) ==
  /\ step[w] = "moved"
  /\ Goto(w, IF at[Backup(w)] = initial[w] THEN "publish" ELSE "restore")
  /\ UNCHANGED <<at, content, force, initial, committed, lapsed, errors, crashes>>

PublishStage(w) ==
  /\ step[w] = "publish"
  /\ IF Free(Dest)
     THEN /\ MoveEntry(Staging(w), Dest) /\ Goto(w, "published")
          /\ content' = [d \in Directories |-> IF d = at[Dest] THEN "gone" ELSE content[d]]
     ELSE /\ Goto(w, IF force[w] THEN "restore" ELSE "clean")
          /\ UNCHANGED <<at, content>>
  /\ UNCHANGED <<force, initial, committed, lapsed, errors, crashes>>

\* The published directory and its parent are checked and synchronised.
Commit(w) ==
  /\ step[w] = "published"
  /\ IF at[Dest] = w
     THEN /\ committed' = committed \cup {w}
          /\ Goto(w, IF force[w] THEN "retire" ELSE "done")
     ELSE Goto(w, "remove") /\ UNCHANGED committed
  /\ UNCHANGED <<at, content, force, initial, lapsed, errors, crashes>>

-----------------------------------------------------------------------------
(* A step failed.                                                          *)

\* Faulty: whatever is at the destination is taken for the published directory.
RemovePublished_Any(w) ==
  LET d == at[Dest] IN
    /\ step[w] = "remove"
    /\ IF d # None /\ content[d] = "whole"
       THEN content' = [content EXCEPT ![d] = Emptied(d)] /\ Goto(w, "removing")
       ELSE Goto(w, "clean") /\ UNCHANGED content
    /\ UNCHANGED <<at, force, initial, committed, lapsed, errors, crashes>>

\* _remove_published_dossier unlinks the files of its own directory where it is.
\* When another directory is there, its error also skips the restoration.
RemovePublished(w) ==
  /\ step[w] = "remove"
  /\ IF at[Dest] = w
     THEN content' = [content EXCEPT ![w] = Emptied(w)] /\ Goto(w, "removing")
     ELSE Goto(w, "clean") /\ UNCHANGED content
  /\ UNCHANGED <<at, force, initial, committed, lapsed, errors, crashes>>

\* Faulty: the prior dossier is not put back.
Removing_Only(w) ==
  /\ step[w] = "removing"
  /\ IF content[w] = "part"
     THEN content' = [content EXCEPT ![w] = Emptied(w)] /\ UNCHANGED <<at, step>>
     ELSE /\ Goto(w, "clean")
          /\ IF at[Dest] = w
             THEN /\ at' = [at EXCEPT ![Dest] = None]
                  /\ content' = [content EXCEPT ![w] = "gone"]
             ELSE UNCHANGED <<at, content>>
  /\ UNCHANGED <<force, initial, committed, lapsed, errors, crashes>>

Removing(w) ==
  /\ step[w] = "removing"
  /\ IF content[w] = "part"
     THEN content' = [content EXCEPT ![w] = Emptied(w)] /\ UNCHANGED <<at, step>>
     ELSE IF at[Dest] = w
     THEN /\ at' = [at EXCEPT ![Dest] = None]
          /\ content' = [content EXCEPT ![w] = "gone"]
          /\ Goto(w, IF force[w] THEN "restore" ELSE "clean")
     ELSE Goto(w, "clean") /\ UNCHANGED <<at, content>>
  /\ UNCHANGED <<force, initial, committed, lapsed, errors, crashes>>

\* _restore_prior_dossier returns only the directory that was validated, and
\* only to a destination where nothing is.
RestorePrior(w) ==
  /\ step[w] = "restore"
  /\ IF at[Dest] = None /\ at[Backup(w)] = initial[w] THEN MoveEntry(Backup(w), Dest) ELSE UNCHANGED at
  /\ Goto(w, "clean")
  /\ UNCHANGED <<content, force, initial, committed, lapsed, errors, crashes>>

\* _remove_private_stage.
Clean(w) ==
  /\ step[w] = "clean"
  /\ IF at[Staging(w)] = w
     THEN /\ at' = [at EXCEPT ![Staging(w)] = None]
          /\ content' = [content EXCEPT ![w] = "gone"]
     ELSE UNCHANGED <<at, content>>
  /\ Goto(w, "error")
  /\ UNCHANGED <<force, initial, committed, lapsed, errors, crashes>>

-----------------------------------------------------------------------------
(* The export has succeeded.                                               *)

\* _retire_prior_dossier moves the backup aside, then removes its files.
Retire(w) ==
  /\ step[w] = "retire"
  /\ IF at[Backup(w)] = initial[w]
     THEN MoveEntry(Backup(w), Cleanup(w)) /\ Goto(w, "discard")
     ELSE Goto(w, "done") /\ UNCHANGED at
  /\ UNCHANGED <<content, force, initial, committed, lapsed, errors, crashes>>

Discard(w) ==
  LET d == initial[w] IN
    /\ step[w] = "discard"
    /\ IF content[d] = "empty"
       THEN /\ at' = [at EXCEPT ![Cleanup(w)] = None]
            /\ content' = [content EXCEPT ![d] = "gone"]
            /\ Goto(w, "done")
       ELSE content' = [content EXCEPT ![d] = Emptied(d)] /\ UNCHANGED <<at, step>>
    /\ UNCHANGED <<force, initial, committed, lapsed, errors, crashes>>

-----------------------------------------------------------------------------

\* Where a writer goes on after an error at each step.
After(w) ==
  CASE step[w] = "stage" -> "error"
    [] step[w] \in {"compare", "rename"} -> "clean"
    [] step[w] = "moved" -> "restore"
    [] step[w] = "publish" -> IF force[w] THEN "restore" ELSE "clean"
    [] step[w] = "published" -> "remove"
    [] step[w] \in {"remove", "removing", "restore"} -> "clean"
    [] step[w] = "clean" -> "error"
    [] step[w] \in {"retire", "discard"} -> "done"

Running(w) == step[w] \notin {"start", "done", "error", "crashed"}

\* A system call or a check of the parent's path fails.
StepFails(w) ==
  /\ Running(w) /\ errors < MaxErrors /\ errors' = errors + 1
  /\ Goto(w, After(w))
  /\ lapsed' = IF step[w] \in {"remove", "removing", "restore", "clean"} THEN lapsed \cup {w} ELSE lapsed
  /\ UNCHANGED <<at, content, force, initial, committed, crashes>>

\* The process is killed.
ExportKilled(w) ==
  /\ Running(w) /\ crashes < MaxCrashes /\ crashes' = crashes + 1
  /\ Goto(w, "crashed")
  /\ UNCHANGED <<at, content, force, initial, committed, lapsed, errors>>

\* Somebody else creates the destination.
Intrude ==
  /\ at[Dest] = None /\ content[Foreign] = "gone"
  /\ at' = [at EXCEPT ![Dest] = Foreign]
  /\ content' = [content EXCEPT ![Foreign] = "foreign"]
  /\ UNCHANGED <<writerVars, errors, crashes>>

DossierInit ==
  /\ at \in {[e \in Entries |-> IF e = Dest THEN d ELSE None] : d \in {Prior, None}}
  /\ \E c \in {"whole", "part", "empty"} :
       content = [d \in Directories |-> IF at[Dest] = d THEN c ELSE "gone"]
  /\ step = [w \in Writers |-> "start"]
  /\ force = [w \in Writers |-> FALSE]
  /\ initial = [w \in Writers |-> None]
  /\ committed = {} /\ lapsed = {} /\ errors = 0 /\ crashes = 0

Step(w) ==
  \/ (\E f \in BOOLEAN : Look(w, f)) \/ StageDossier(w) \/ Compare(w) \/ Rename(w) \/ CheckBackup(w)
  \/ PublishStage(w) \/ Commit(w) \/ RemovePublished(w) \/ Removing(w) \/ RestorePrior(w) \/ Clean(w)
  \/ Retire(w) \/ Discard(w)

DossierNext == (\E w \in Writers : Step(w) \/ StepFails(w) \/ ExportKilled(w)) \/ Intrude

DossierSpec == DossierInit /\ [][DossierNext]_dossierVars

-----------------------------------------------------------------------------
(* Properties.                                                             *)

\* A dossier that somebody may have seen -- the prior one, or one whose export
\* has succeeded -- and a directory of somebody else lose their files only to an
\* export that validated them as its prior dossier and has itself been published,
\* whatever exports run at the same time, fail or are killed.
ReplacedOnlyByCommitted ==
  [][\A d \in {Prior, Foreign} \cup committed :
       content[d] \in {"whole", "foreign"} /\ content'[d] # content[d] =>
         \E w \in committed : initial[w] = d /\ step[w] = "discard"]_dossierVars

\* What an export has put at the destination is a whole dossier.  Only one that
\* failed after its rename leaves part of a dossier there: while it removes it, or
\* for good when it is killed, meets another error, or another export comes between.
DestinationWhole ==
  LET d == at[Dest] IN
    d \in Writers /\ content[d] # "whole" =>
      d \notin committed /\ step[d] \in {"removing", "crashed", "clean", "error"}

\* An export that fails while nobody else uses the destination leaves the destination as it found it
\* and nothing under a private name, at whatever step it failed.
FailedExportRestores ==
  \A w \in Writers :
    /\ step[w] = "error" /\ w \notin lapsed
    /\ content[Foreign] = "gone" /\ \A v \in Writers \ {w} : step[v] = "start"
    =>
      /\ at[Dest] = initial[w]
      /\ \A e \in Entries \ {Dest} : at[e] = None

\* When no export is running and nobody else was there, a dossier whose export succeeded is at the
\* destination, unless the next dossier was published in its place.
CommittedStays ==
  content[Foreign] = "gone" /\ (\A v \in Writers : ~Running(v)) =>
    \A w \in committed : at[Dest] = w \/ \E v \in committed : initial[v] = w

=============================================================================
