--------------------------- MODULE SetupTransaction ---------------------------
(***************************************************************************)
(* `yt-insights setup assistants --apply` (assistant_setup.py): installs or *)
(* upgrades the managed assets of the chosen clients in the user's home,    *)
(* records their digests in an ownership manifest, registers the MCP server *)
(* with each client, and undoes all of it in reverse when a step fails.     *)
(*                                                                         *)
(* The home is shared: editors and other programs may replace, remove or    *)
(* create a managed file between any two steps.  All renames are exclusive; *)
(* what must go is first taken aside, then looked at, and kept in a private *)
(* recovery directory.                                                     *)
(***************************************************************************)
EXTENDS Naturals, Sequences, FiniteSets, SequencesExt

CONSTANTS
  Order,       \* the assets, in the order of _assets
  Manifest,    \* the ownership manifest
  Clients,     \* the clients, in their order
  AssetsOf,    \* client -> the assets installed for it
  Versions,    \* versions of the packaged assets, as strings
  MaxRuns,     \* bound: runs of the command
  MaxEdits,    \* bound: changes of managed files by others
  MaxFaults    \* bound: operating system errors

Assets == ToSet(Order)

Files == Assets \cup {Manifest}

ASSUME SetupAssumption ==
  /\ Order \in Seq(Assets) /\ Clients \in Seq(ToSet(Clients))
  /\ Manifest \notin Assets
  /\ AssetsOf \in [ToSet(Clients) -> SUBSET Assets]
  /\ {"none", "edited", "special", "manifest"} \cap Versions = {}
  /\ {MaxRuns, MaxEdits, MaxFaults} \subseteq Nat

VARIABLES
  live,        \* what is at the path of each file
  aside,       \* file -> entries beside it under private names, "kept" for recovery
  registered,  \* clients the MCP server is registered with
  edits, faults,
  run,         \* number of the run, 0 before the first
  pc, version, clients,
  register,    \* clients to register: none with --assets-only
  seen,        \* the files as the plan of this run saw them
  file,        \* the file being written
  created,     \* files this run has written where there was none, in order
  replaced,    \* files this run has written in the place of another, in order
  attempted,   \* clients whose registration was tried, in order
  undo,        \* what is left to take back, or to clean up
  status,
  reported,    \* entries named in recovery_paths or cleanup_pending
  failed,      \* failed_client_cleanup
  edited,      \* file -> when others changed it in this run, what they left last, and all
  lapse        \* whether this run's clean-up met an operating system error

diskVars == <<live, aside>>
planVars == <<run, version, clients, register, seen>>
writeVars == <<file, created, replaced, attempted>>
outVars == <<status, reported, failed, lapse>>
userVars == <<edits, edited>>
setupVars == <<diskVars, registered, faults, pc, planVars, writeVars, undo, outVars, userVars>>

\* A file is who made it (0: before the first run) and what is in it.
NoLists == [a \in Assets |-> "none"]

Made(by, content) == [by |-> by, content |-> content, lists |-> NoLists]

NoFile == Made(0, "none")

NotEdited == [when |-> "no", left |-> NoFile, all |-> {}]

Chosen == UNION {AssetsOf[clients[i]] : i \in DOMAIN clients}

\* Faulty: a file that is not listed is never the package's own.
State_Unlisted(f, files, v) ==
  LET owned == files[Manifest] IN
  IF files[f] = NoFile THEN "missing"
  ELSE IF f = Manifest THEN IF owned.content = "manifest" THEN "valid" ELSE "conflict"
  ELSE IF owned.lists[f] # files[f].content THEN "conflict"
  ELSE IF files[f].content = v THEN "identical"
  ELSE "upgrade"

\* _asset_state and _ownership_manifest, on the files of a plan.
State(f, files, v) ==
  LET owned == files[Manifest] IN
  IF files[f] = NoFile THEN "missing"
  ELSE IF f = Manifest THEN IF owned.content = "manifest" THEN "valid" ELSE "conflict"
  ELSE IF files[f].content = v THEN "identical"
  ELSE IF files[f].content \in Versions /\ owned.lists[f] = files[f].content THEN "upgrade"
  ELSE "conflict"

Conflicts(cs, files, v) ==
  {f \in {Manifest} \cup UNION {AssetsOf[cs[i]] : i \in DOMAIN cs} :
     State(f, files, v) = "conflict"}

Lists == [a \in Assets |-> IF a \in Chosen THEN version ELSE seen[Manifest].lists[a]]

\* What this run writes for a file.
Mine(f) ==
  IF f = Manifest THEN [Made(run, "manifest") EXCEPT !.lists = Lists] ELSE Made(run, version)

Replaced(f) == seen[f] # NoFile

Installed == ToSet(created) \cup ToSet(replaced)

Expected(f) == IF f \in Installed THEN Mine(f) ELSE seen[f]

Todo(f) == f \in Chosen \ Installed /\ State(f, seen, version) # "identical"

AssetsDone == \A f \in Assets : ~Todo(f)

ManifestDone ==
  \/ Manifest \in Installed
  \/ Replaced(Manifest) /\ seen[Manifest].lists = Lists

-----------------------------------------------------------------------------
(* Entries under private names.                                            *)

Entry(f, as) == CHOOSE e \in aside[f] : e.as = as /\ e.run = run

Put(f, as, content) == [aside EXCEPT ![f] = @ \cup {[as |-> as, run |-> run, file |-> content]}]

Renamed(f, e, as) == [aside EXCEPT ![f] = (@ \ {e}) \cup {[e EXCEPT !.as = as]}]

Dropped(f, e) == [aside EXCEPT ![f] = @ \ {e}]

Report(f, e) == reported' = reported \cup {<<f, e>>}

Fault == faults < MaxFaults /\ faults' = faults + 1

\* _remove_expected_entry on a private name: the entry is quarantined, verified
\* and kept.  An OSError is reported with the name the entry had at first.
Keep(f, as) ==
  LET e == Entry(f, as) IN
    \/ /\ aside' = Renamed(f, e, "kept") /\ Report(f, [e EXCEPT !.as = "kept"])
       /\ UNCHANGED <<faults, lapse>>
    \/ /\ Fault /\ lapse' = TRUE
       /\ \/ UNCHANGED aside /\ Report(f, e)
          \/ \E new \in {"quarantine", "kept"} :
               aside' = Renamed(f, e, new) /\ UNCHANGED reported

-----------------------------------------------------------------------------
(* The plan.                                                               *)

\* run_assistant_setup up to _apply_asset_changes.
Start(cs, v, assetsOnly) ==
  /\ pc = "idle" /\ run < MaxRuns
  /\ run' = run + 1 /\ version' = v /\ clients' = cs
  /\ register' = IF assetsOnly THEN <<>> ELSE cs
  /\ seen' = live
  /\ LET blocked == \/ Conflicts(cs, live, v) # {}
                    \/ ~assetsOnly /\ ToSet(cs) \cap registered # {}
     IN /\ pc' = IF blocked THEN "idle" ELSE "recheck"
        /\ status' = IF blocked THEN "blocked" ELSE "running"
  /\ created' = <<>> /\ replaced' = <<>> /\ attempted' = <<>>
  /\ reported' = {} /\ failed' = {} /\ lapse' = FALSE
  /\ edited' = [f \in Files |-> NotEdited]
  /\ UNCHANGED <<diskVars, registered, faults, edits, file, undo>>

-----------------------------------------------------------------------------
(* Writing.  Each step may find that somebody changed a file.              *)

Surprise ==
  \/ pc = "recheck" /\ \E f \in Chosen \cup {Manifest} : live[f] # seen[f]
  \/ pc = "check" /\ live[file] # seen[file]
  \/ pc = "move" /\ live[file] = NoFile
  \/ pc = "moved" /\ Entry(file, "backup").file # seen[file]
  \/ pc = "publish" /\ live[file] # NoFile
  \/ pc = "published" /\ live[file] # Mine(file)
  \/ pc = "next" /\ AssetsDone /\ \E f \in Chosen : live[f] # Expected(f)
  \/ pc = "manifest" /\ ManifestDone /\ live[Manifest] # Expected(Manifest)

\* _apply_asset_changes goes on to the next part: the preimages were rechecked,
\* then the published assets, then the published manifest.
Rechecked ==
  /\ ~Surprise
  /\ \/ pc = "recheck" /\ pc' = "next"
     \/ pc = "next" /\ AssetsDone /\ pc' = "manifest"
     \/ pc = "manifest" /\ ManifestDone /\ pc' = "register"
  /\ UNCHANGED <<diskVars, registered, faults, planVars, writeVars, undo, outVars, userVars>>

\* _stage_bytes_at: a private file, synchronised and read back.
Stage(f) ==
  /\ \/ /\ pc = "next"
        /\ \E i \in DOMAIN Order : /\ f = Order[i] /\ Todo(f)
                                  /\ \A j \in 1..(i - 1) : ~Todo(Order[j])
     \/ pc = "manifest" /\ ~ManifestDone /\ f = Manifest
  /\ file' = f
  /\ aside' = Put(f, "stage", Mine(f))
  /\ pc' = IF Replaced(f) THEN "check" ELSE "publish"
  /\ UNCHANGED <<live, registered, faults, planVars, created, replaced, attempted, undo, outVars, userVars>>

\* _replace_managed_file compares the file, moves it away, compares it again.
Check ==
  /\ pc \in {"check", "moved"} /\ ~Surprise
  /\ pc' = IF pc = "check" THEN "move" ELSE "publish"
  /\ UNCHANGED <<diskVars, registered, faults, planVars, writeVars, undo, outVars, userVars>>

Move ==
  /\ pc = "move" /\ ~Surprise
  /\ aside' = Put(file, "backup", live[file])
  /\ live' = [live EXCEPT ![file] = NoFile]
  /\ pc' = "moved"
  /\ UNCHANGED <<registered, faults, planVars, writeVars, undo, outVars, userVars>>

\* Faulty: the staged file replaces what is at its target.
Publish_Replace ==
  /\ pc = "publish"
  /\ live' = [live EXCEPT ![file] = Mine(file)]
  /\ aside' = Dropped(file, Entry(file, "stage"))
  /\ pc' = "published"
  /\ UNCHANGED <<registered, faults, planVars, writeVars, undo, outVars, userVars>>

\* _publish_staged_at: an exclusive rename ...
Publish ==
  /\ pc = "publish" /\ ~Surprise
  /\ live' = [live EXCEPT ![file] = Mine(file)]
  /\ aside' = Dropped(file, Entry(file, "stage"))
  /\ pc' = "published"
  /\ UNCHANGED <<registered, faults, planVars, writeVars, undo, outVars, userVars>>

\* ... and a look at what is there now.
Verify ==
  /\ pc = "published" /\ ~Surprise
  /\ IF Replaced(file) THEN replaced' = Append(replaced, file) /\ UNCHANGED created
                       ELSE created' = Append(created, file) /\ UNCHANGED replaced
  /\ pc' = IF file = Manifest THEN "manifest" ELSE "next"
  /\ UNCHANGED <<diskVars, registered, faults, planVars, file, attempted, undo, outVars, userVars>>

-----------------------------------------------------------------------------
(* Failure.                                                                *)

Item(do, of) == [do |-> do, of |-> of]

\* Except blocks of the file being written; to take back a file that replaced
\* another ends with the restoration (Rest).  A backup that cannot be read is not
\* what was expected: it is neither restored nor reported.
Unwritten ==
  LET restore == IF Replaced(file) THEN <<Item("restore", file)>> ELSE <<>> IN
  CASE pc \in {"check", "move"} -> <<Item("stage", file)>>
    [] pc = "moved" -> (IF Entry(file, "backup").file.content = "special" THEN <<>> ELSE restore)
                         \o <<Item("stage", file)>>
    [] pc = "publish" -> <<Item("stage", file)>> \o restore
    [] pc = "published" -> <<Item("live", file)>>
    [] OTHER -> <<>>

\* _rollback_asset_transaction: replaced files first, then created ones.
Rollback ==
  LET back == Reverse(replaced) \o Reverse(created)
  IN [i \in DOMAIN back |-> Item("live", back[i])]

Fail(first) ==
  /\ undo' = first \o Rollback
  /\ pc' = "undo" /\ status' = "rolled_back"

Refuse ==
  /\ Surprise
  /\ Fail(Unwritten)
  /\ UNCHANGED <<diskVars, registered, faults, planVars, writeVars, reported, failed, lapse, userVars>>

\* An operating system error, the last fsync included.
Error ==
  /\ pc \notin {"idle", "undo", "taken"} /\ (pc = "register" => attempted = <<>>)
  /\ Fault
  /\ Fail(Unwritten)
  /\ UNCHANGED <<diskVars, registered, planVars, writeVars, reported, failed, lapse, userVars>>

\* `mcp add`.  A client that fails may have stored the registration all the same.
Register(c) ==
  LET all == Append(attempted, c) IN
    /\ pc = "register" /\ Len(attempted) < Len(register) /\ c = register[Len(all)]
    /\ attempted' = all
    /\ \/ /\ registered' = registered \cup {c}
          /\ UNCHANGED <<faults, pc, undo, status>>
       \/ /\ Fault
          /\ registered' \in {registered, registered \cup {c}}
          /\ Fail(Reverse([i \in DOMAIN all |-> Item("unregister", all[i])]))
    /\ UNCHANGED <<diskVars, planVars, file, created, replaced, reported, failed, lapse, userVars>>

\* _finish_asset_transaction: the backups are kept.
Finish ==
  /\ pc = "register" /\ Len(attempted) = Len(register)
  /\ undo' = [i \in DOMAIN replaced |-> Item("retire", replaced[i])]
  /\ pc' = "undo" /\ status' = "installed"
  /\ UNCHANGED <<diskVars, registered, faults, planVars, writeVars, reported, failed, lapse, userVars>>

-----------------------------------------------------------------------------
(* Taking back, one item after the other.                                  *)

Doing(do) == pc = "undo" /\ undo # <<>> /\ Head(undo).do = do

Target == Head(undo).of

\* What is left when the file at a path was taken, or could not be.
Rest == IF Replaced(Target) THEN <<Item("restore", Target)>> \o Tail(undo) ELSE Tail(undo)

Unregister ==
  /\ Doing("unregister")
  /\ undo' = Tail(undo)
  /\ \/ /\ Target \in registered /\ registered' = registered \ {Target}
        /\ UNCHANGED <<faults, failed>>
     \/ /\ Target \notin registered
        /\ failed' = failed \cup {Target} /\ UNCHANGED <<faults, registered>>
     \/ /\ Target \in registered /\ Fault
        /\ failed' = failed \cup {Target} /\ UNCHANGED registered
  /\ UNCHANGED <<diskVars, pc, planVars, writeVars, status, reported, lapse, userVars>>

\* A stage that was not published, or a backup that is not needed any more.
KeepItem ==
  /\ \/ Doing("stage") /\ Keep(Target, "stage")
     \/ Doing("retire") /\ Keep(Target, "backup")
  /\ undo' = Tail(undo)
  /\ UNCHANGED <<live, registered, pc, planVars, writeVars, status, failed, userVars>>

\* _quarantine_expected_entry takes what is at the path of a published file.
Take ==
  /\ Doing("live")
  /\ \/ /\ live[Target] # NoFile
        /\ aside' = Put(Target, "quarantine", live[Target])
        /\ live' = [live EXCEPT ![Target] = NoFile]
        /\ pc' = "taken"
        /\ UNCHANGED <<undo, faults, lapse>>
     \/ /\ live[Target] = NoFile
        /\ undo' = Rest /\ UNCHANGED <<pc, diskVars, faults, lapse>>
     \/ /\ Fault /\ lapse' = TRUE
        /\ undo' = Rest /\ UNCHANGED <<pc, diskVars>>
  /\ UNCHANGED <<registered, planVars, writeVars, status, reported, failed, userVars>>

\* Faulty: a foreign file stays aside and is not put back.
GiveBack_Never(f, e) ==
  /\ live' = live
  /\ aside' = Renamed(f, e, "conflict")

\* Somebody else's file gets a name for recovery, and its own one back if free.
GiveBack(f, e) ==
  /\ live' = IF live[f] = NoFile THEN [live EXCEPT ![f] = e.file] ELSE live
  /\ aside' = Renamed(f, e, "conflict")

\* What was taken is looked at: it is this run's, or somebody else's.
Taken ==
  LET f == Target
      e == Entry(f, "quarantine")
  IN
    /\ pc = "taken" /\ pc' = "undo" /\ undo' = Rest
    /\ \/ /\ e.file = Mine(f)
          /\ Keep(f, "quarantine") /\ UNCHANGED live
       \/ /\ e.file.content = "special"
          /\ Report(f, e) /\ UNCHANGED <<diskVars, faults, lapse>>
       \/ /\ e.file # Mine(f) /\ e.file.content # "special"
          /\ GiveBack(f, e) /\ Report(f, [e EXCEPT !.as = "conflict"])
          /\ UNCHANGED <<faults, lapse>>
       \/ /\ e.file # Mine(f) /\ Fault /\ lapse' = TRUE
          /\ UNCHANGED live
          /\ \/ UNCHANGED aside /\ Report(f, e)
             \/ aside' = Renamed(f, e, "conflict") /\ UNCHANGED reported
    /\ UNCHANGED <<registered, planVars, writeVars, status, failed, userVars>>

\* _retire_backup_or_restore: the backup returns to its path if that is free.
Restore ==
  LET f == Target
      e == Entry(f, "backup")
  IN
    /\ Doing("restore")
    /\ undo' = Tail(undo)
    /\ \/ /\ live[f] = NoFile
          /\ live' = [live EXCEPT ![f] = e.file] /\ aside' = Dropped(f, e)
          /\ UNCHANGED <<reported, faults, lapse>>
       \/ /\ live[f] # NoFile /\ Keep(f, "backup") /\ UNCHANGED live
       \/ /\ live[f] = NoFile /\ Fault /\ lapse' = TRUE
          /\ Report(f, e) /\ UNCHANGED diskVars
    /\ UNCHANGED <<registered, pc, planVars, writeVars, status, failed, userVars>>

End ==
  /\ pc = "undo" /\ undo = <<>>
  /\ pc' = "idle"
  /\ UNCHANGED <<diskVars, registered, faults, planVars, writeVars, undo, outVars, userVars>>

-----------------------------------------------------------------------------

\* The process is killed or interrupted: nothing is undone.
Crash ==
  /\ pc # "idle"
  /\ pc' = "idle" /\ status' = "crashed" /\ undo' = <<>>
  /\ UNCHANGED <<diskVars, registered, faults, planVars, writeVars, reported, failed, lapse, userVars>>

\* The last look at the file is over.
Past(f) ==
  \/ pc = "register" \/ status = "installed"
  \/ f \in Assets /\ pc = "manifest"
  \/ f \in Assets /\ pc \notin {"recheck", "next"} /\ file = Manifest

\* Somebody replaces, removes or creates a file.
Edit(f) ==
  LET by == MaxRuns + edits + 1 IN
    /\ pc # "idle" /\ edits < MaxEdits /\ edits' = edits + 1
    /\ \E new \in {NoFile, Made(by, "edited"), Made(by, "special")} :
         new # live[f] /\ live' = [live EXCEPT ![f] = new]
    /\ edited' = [edited EXCEPT ![f] =
                    [when |-> IF Past(f) \/ @.when = "late" THEN "late" ELSE "early",
                     left |-> live'[f], all |-> @.all \cup {live'[f]}]]
    /\ UNCHANGED <<aside, registered, faults, pc, planVars, writeVars, undo, outVars>>

\* Any mixture of absent, owned, edited and unknown files.
SetupInit ==
  /\ live \in [Files -> {NoFile, Made(0, "edited")} \cup
                          {Made(0, v) : v \in Versions} \cup
                          {[Made(0, "manifest") EXCEPT !.lists = l] :
                             l \in [Assets -> Versions \cup {"none"}]}]
  /\ \A a \in Assets : live[a].content # "manifest"
  /\ live[Manifest].content \notin Versions
  /\ aside = [f \in Files |-> {}]
  /\ registered = {} /\ edits = 0 /\ faults = 0 /\ run = 0
  /\ pc = "idle" /\ version = "none" /\ clients = <<>> /\ register = <<>>
  /\ seen = live /\ file = Manifest /\ created = <<>> /\ replaced = <<>> /\ attempted = <<>> /\ undo = <<>>
  /\ status = "none" /\ reported = {} /\ failed = {}
  /\ edited = [f \in Files |-> NotEdited] /\ lapse = FALSE

\* resolve_clients: all of them, or one.
Requests == {Clients} \cup {<<c>> : c \in ToSet(Clients)}

SetupNext ==
  \/ \E cs \in Requests, v \in Versions, assetsOnly \in BOOLEAN : Start(cs, v, assetsOnly)
  \/ Rechecked \/ Check \/ Move \/ Publish \/ Verify \/ Refuse \/ Error \/ Finish
  \/ (\E f \in Files : Stage(f)) \/ (\E c \in ToSet(Clients) : Register(c))
  \/ Unregister \/ KeepItem \/ Take \/ Taken \/ Restore \/ End
  \/ Crash \/ \E f \in Files : Edit(f)

SetupSpec == SetupInit /\ [][SetupNext]_setupVars

-----------------------------------------------------------------------------
(* Properties.                                                             *)

Ended(s) == pc = "idle" /\ status = s

Names(f) == ({live[f]} \cup {e.file : e \in aside[f]}) \ {NoFile}

\* Whatever is written, taken back or interrupted, and whoever edits meanwhile,
\* the command never removes the last name of a file: only an edit does, of the
\* file at the path it edits.
NoFileIsLost ==
  [][\A f \in Files : \A x \in Names(f) \ Names(f)' : x = live[f] /\ edits' > edits]_setupVars

\* A run that reports rolled_back and had no trouble undoing has put back every
\* file it had replaced and removed every one it had created; a file that others
\* changed meanwhile is as they left it (or, where they removed it, as before or as
\* they had it once); and no client stays registered that the report does not name.
RollbackRestores ==
  Ended("rolled_back") /\ ~lapse =>
    /\ ToSet(attempted) \cap registered \subseteq failed
    /\ \A f \in Files :
         LET left == edited[f].left IN
           IF edited[f].when = "no" THEN live[f] = seen[f]
           ELSE \/ live[f] = left \/ left.content = "special"
                \/ left = NoFile /\ live[f] \in {seen[f]} \cup edited[f].all

\* A run that reports installed has every chosen asset in the packaged version
\* and lists it in the manifest, unless somebody changed the file after the last
\* look at it: an earlier change never goes unnoticed.
InstalledIsComplete ==
  Ended("installed") =>
    /\ \A f \in Chosen : edited[f].when # "late" => live[f].content = version
    /\ edited[Manifest].when # "late" =>
         /\ \A f \in Chosen : live[Manifest].lists[f] = version
         /\ \A f \in Assets \ Chosen : live[Manifest].lists[f] = seen[Manifest].lists[f]
    /\ ToSet(register) \subseteq registered

\* Every private name a run leaves behind is in its report, when its clean-up met
\* no operating system error and no directory or link in the place of a file.
LeftoversReported ==
  (Ended("rolled_back") \/ Ended("installed")) /\ ~lapse =>
    \A f \in Files : \A e \in aside[f] :
      e.run = run /\ e.file.content # "special" => <<f, e>> \in reported

\* Everything in the recovery directory is in the report of its run.
RecoveryFilesReported ==
  Ended("rolled_back") =>
    \A f \in Files : \A e \in aside[f] : e.run = run /\ e.as = "kept" => <<f, e>> \in reported

\* An interrupted run can be repeated: with the same clients and package it meets
\* no conflict, at whatever step the first one stopped, if nobody edits the files
\* and no clean-up of an earlier run met an error.
Resumable ==
  Ended("crashed") /\ edits = 0 /\ faults = 0 => Conflicts(clients, live, version) = {}

=============================================================================
