--------------------------- MODULE MCPublishedFiles ---------------------------
(* Three programs that publish files beside others: the assistant setup, the dossier *)
(* export and the transcript export.  They share no state, so that each is explored   *)
(* while the others have not begun.                                              *)
EXTENDS SetupTransaction, DossierPublication, TranscriptExport, TLC

CONSTANTS a1, a2, k1, k2, w1, w2, w3, e1, e2, en, fr, r1, r2

\* Two clients with an asset each, two versions of the package.  At first every
\* asset is absent, as an earlier version left it, or somebody's own; the
\* manifest lists what the earlier version installed, or is absent or broken.
MCOrder == <<a1, a2>>
MCClients == <<k1, k2>>
MCAssetsOf == k1 :> {a1} @@ k2 :> {a2}

InstalledBefore ==
  /\ SetupInit
  /\ \A x \in Assets : live[x].content # "v2"
  /\ \A x \in Assets : live[Manifest].lists[x] =
                         IF live[x].content = "v1" THEN "v1" ELSE "none"

\* A second run of the setup starts and goes on after one edit or error in all.
SetupSide == SetupNext /\ (run' = 2 => edits' + faults' <= 1)

\* A transcript in each of two languages.
TranscriptsThere ==
  /\ ExportInit /\ room = r1
  /\ source = [s \in Sources |-> IF s \in {<<"inbox", en>>, <<"channel", fr>>} THEN 0 ELSE Nothing]
  /\ metadata.channel = "none"

Started == {e \in Exporters : export[e].point # "start"}

\* One export is like another: they begin in their order.  Those of different outputs have nothing in common; two disturbances in all.
ExportBound ==
  /\ rewrites + troubles + kills + (IF room = r1 THEN 0 ELSE 1) <= 2
  /\ e2 \in Started => e1 \in Started
  /\ \A e, f \in Started : export[e].given = export[f].given
  /\ Cardinality(Started) > 1 => \A e \in Started : export[e].language = en

\* Neither do the dossier exports differ.
DossierBound ==
  /\ step[w2] # "start" => step[w1] # "start"
  /\ step[w3] # "start" => step[w2] # "start"

\* What the other two are while one is explored.
SetupRests == run = 0 /\ live = [f \in Files |-> NoFile] /\ edits = 0
DossierRests == at[Dest] = None /\ \A w \in Writers : step[w] = "start"
ExportRests == Started = {} /\ rewrites = 0 /\ metadata["inbox"] = "good" /\ room = r1

MCInit ==
  /\ InstalledBefore /\ DossierInit /\ TranscriptsThere
  /\ \/ DossierRests /\ ExportRests
     \/ SetupRests /\ ExportRests
     \/ SetupRests /\ DossierRests

MCNext ==
  \/ DossierRests /\ ExportRests /\ SetupSide /\ UNCHANGED <<dossierVars, exportVars>>
  \/ SetupRests /\ ExportRests /\ DossierNext /\ UNCHANGED <<setupVars, exportVars>>
  \/ SetupRests /\ DossierRests /\ ExportNext /\ UNCHANGED <<setupVars, dossierVars>>

MCSpec == MCInit /\ [][MCNext]_<<setupVars, dossierVars, exportVars>>
=============================================================================
