--------------------------- MODULE ResearchSession ---------------------------
(***************************************************************************)
(* What a research session promises its user, whatever the processes, keys, *)
(* revisions, retries and crashes behind it: the questions it asks, that it *)
(* never leaves a final answer, and that it acquires only what was approved. *)
(***************************************************************************)
CONSTANT Videos

VARIABLES
  phase,      \* "working" covers every state in which no answer is awaited
  consented,  \* videos the user approved in this session
  held        \* videos the session added to the corpus

sessionVars == <<phase, consented, held>>

Move(from, to) == phase \in from /\ phase' = to

Begin == Move({"absent"}, "working") /\ UNCHANGED <<consented, held>>

\* An assessment or a candidate list is ready: the user is asked.
Ask == Move({"working"}, "sufficiency") /\ UNCHANGED <<consented, held>>

Offer == Move({"working"}, "candidates") /\ UNCHANGED <<consented, held>>

Fail == Move({"working"}, "failed") /\ UNCHANGED <<consented, held>>

\* Retrying is possible after a failure, and from the question when the batch
\* before it failed in part.
Again == Move({"failed", "sufficiency"}, "working") /\ UNCHANGED <<consented, held>>

Answer == Move({"sufficiency"}, "done") /\ UNCHANGED <<consented, held>>

Consent(videos) ==
  /\ Move({"candidates"}, "working")
  /\ consented' = consented \cup videos
  /\ UNCHANGED held

Decline == Move({"candidates"}, "done") /\ UNCHANGED <<consented, held>>

Hold(v) ==
  /\ phase # "absent"
  /\ v \in consented
  /\ held' = held \cup {v}
  /\ UNCHANGED <<phase, consented>>

SessionInit == phase = "absent" /\ consented = {} /\ held = {}

SessionNext ==
  \/ Begin \/ Ask \/ Offer \/ Fail \/ Again \/ Answer \/ Decline
  \/ \E videos \in SUBSET Videos : Consent(videos)
  \/ \E v \in Videos : Hold(v)

SessionSpec == SessionInit /\ [][SessionNext]_sessionVars

=============================================================================
