---------------------------- MODULE LoopbackServer ----------------------------
(***************************************************************************)
(* _LoopbackServer (src/yt_insights/web/server.py): one accept loop, a      *)
(* bounded number of request threads, requests to the application one at a  *)
(* time, and a shutdown that may begin at any moment, from the thread of    *)
(* the loop (an interrupt, then server_close) or from another (shutdown).   *)
(***************************************************************************)
EXTENDS Naturals, FiniteSets

CONSTANTS
  Requests,      \* connections that clients make
  MaxWorkers     \* max_request_workers

ASSUME ServerAssumption ==
  /\ MaxWorkers \in Nat \ {0}
  /\ IsFiniteSet(Requests) /\ {"idle", "dead"} \cap Requests = {}

VARIABLES
  request,       \* how far the server is with each connection
  reply,         \* what was sent on it
  open,          \* _active_sockets: the sockets that closing has to cut off
  slots,         \* permits left in _request_slots
  closing,       \* _closing
  listening,     \* the listening socket is open
  loop,          \* the accept loop: "idle", "dead", or the request it accepts
  closer         \* the thread that shuts the server down

serverVars == <<request, reply, open, slots, closing, listening, loop, closer>>

RequestsIn(state) == {r \in Requests : request[r] = state}

To(r, state) == request' = [request EXCEPT ![r] = state]

-----------------------------------------------------------------------------
(* The accept loop.                                                        *)

Connect(r) ==
  /\ request[r] = "none" /\ listening
  /\ To(r, "backlog")
  /\ UNCHANGED <<reply, open, slots, closing, loop, closer, listening>>

\* get_request: a connection accepted while closing is closed at once.
GetRequest(r) ==
  /\ loop = "idle" /\ request[r] = "backlog"
  /\ IF closing
     THEN To(r, "closed") /\ UNCHANGED <<loop, open, listening>>
     ELSE To(r, "accepted") /\ loop' = r /\ open' = open \cup {r}
  /\ UNCHANGED <<reply, slots, closing, closer, listening>>

\* process_request takes a slot first; without one it answers and hangs up.
RejectBusy(r) ==
  /\ loop = r /\ request[r] = "accepted" /\ slots = 0
  /\ To(r, "closed") /\ loop' = "idle"
  /\ reply' = IF r \in open THEN [reply EXCEPT ![r] = "server_busy"] ELSE reply
  /\ open' = open \ {r}
  /\ UNCHANGED <<slots, closing, closer, listening>>

TakeSlot(r) ==
  /\ loop = r /\ request[r] = "accepted" /\ slots > 0
  /\ slots' = slots - 1
  /\ To(r, "admitted")
  /\ UNCHANGED <<reply, open, closing, loop, closer, listening>>

StartWorker(r) ==
  /\ loop = r /\ request[r] = "admitted" /\ ~closing
  /\ To(r, "reading") /\ loop' = "idle"
  /\ UNCHANGED <<reply, open, slots, closing, closer, listening>>

\* Faulty: a request that is refused because of closing keeps its slot.
RefuseWorker_KeepsSlot(r) ==
  /\ loop = r /\ request[r] = "admitted"
  /\ To(r, "closed") /\ loop' = "idle"
  /\ open' = open \ {r}
  /\ UNCHANGED <<reply, slots, closing, closer, listening>>

\* Closing has begun, the thread cannot be started, or it was interrupted.
RefuseWorker(r) ==
  /\ loop = r /\ request[r] = "admitted"
  /\ To(r, "closed") /\ loop' = "idle"
  /\ open' = open \ {r}
  /\ slots' = slots + 1
  /\ UNCHANGED <<reply, closing, closer, listening>>

-----------------------------------------------------------------------------
(* A request thread.                                                       *)

\* The request is for the application, and its thread waits for _dispatch_lock.
Parse(r) ==
  /\ request[r] = "reading" /\ r \in open
  /\ To(r, "queued")
  /\ UNCHANGED <<reply, open, slots, closing, loop, closer, listening>>

\* Faulty: a read ends only with data.
AnswerDirectly_NoTimeout(r) ==
  /\ request[r] = "reading" /\ r \in open
  /\ To(r, "answered")
  /\ reply' = [reply EXCEPT ![r] = "other"]
  /\ UNCHANGED <<open, slots, closing, loop, closer, listening>>

\* A static page or a refusal; a connection that failed, timed out or was cut
\* off has no reply.
AnswerDirectly(r) ==
  /\ request[r] = "reading"
  /\ To(r, "answered")
  /\ reply' \in {reply} \cup
       (IF r \in open THEN {[reply EXCEPT ![r] = "other"]} ELSE {})
  /\ UNCHANGED <<open, slots, closing, loop, closer, listening>>

DispatchFree == RequestsIn("handling") = {}

\* dispatch_application under _dispatch_lock.
Dispatch(r) ==
  /\ request[r] = "queued" /\ DispatchFree
  /\ IF closing THEN To(r, "shutting_down") ELSE To(r, "handling")
  /\ UNCHANGED <<reply, open, slots, closing, loop, closer, listening>>

Handled(r) ==
  /\ request[r] = "handling"
  /\ To(r, "respond")
  /\ UNCHANGED <<reply, open, slots, closing, loop, closer, listening>>

\* The answer reaches the client unless its socket was cut off.
Respond(r) ==
  /\ request[r] \in {"respond", "shutting_down"}
  /\ To(r, "answered")
  /\ reply' = IF r \in open
              THEN [reply EXCEPT ![r] = IF request[r] = "respond" THEN "application"
                                                                  ELSE "server_shutting_down"]
              ELSE reply
  /\ UNCHANGED <<open, slots, closing, loop, closer, listening>>

\* shutdown_request, at the end of process_request_thread.
HangUp(r) ==
  /\ request[r] = "answered"
  /\ To(r, "leaving")
  /\ open' = open \ {r}
  /\ UNCHANGED <<reply, slots, closing, loop, closer, listening>>

EndWorker(r) ==
  /\ request[r] = "leaving"
  /\ To(r, "closed")
  /\ slots' = slots + 1
  /\ UNCHANGED <<reply, open, closing, loop, closer, listening>>

-----------------------------------------------------------------------------
(* Closing.                                                                *)

\* Ctrl-C ends the loop, before process_request or in it (RefuseWorker), and a
\* connection it was accepting is let go; then server_close.
Interrupt ==
  /\ closer = "none" /\ loop \in RequestsIn("accepted") \cup {"idle"}
  /\ loop' = "dead" /\ closer' = "start"
  /\ request' = [r \in Requests |-> IF r = loop THEN "closed" ELSE request[r]]
  /\ open' = open \ {loop}
  /\ UNCHANGED <<reply, slots, closing, listening>>

ShutDown ==
  /\ closer = "none"
  /\ closer' = "start"
  /\ UNCHANGED <<request, reply, open, slots, closing, loop, listening>>

\* Faulty: closing begins while the application handles a request.
StartClosing_Unlocked ==
  /\ closer = "start"
  /\ closing' = TRUE /\ closer' = "cut"
  /\ UNCHANGED <<request, reply, open, slots, loop, listening>>

StartClosing ==
  /\ closer = "start" /\ DispatchFree
  /\ closing' = TRUE /\ closer' = "cut"
  /\ UNCHANGED <<request, reply, open, slots, loop, listening>>

\* _close_active_sockets: blocked reads and writes of request threads fail.
CutOff ==
  /\ closer = "cut"
  /\ open' = {} /\ closer' = "loop"
  /\ UNCHANGED <<request, reply, slots, closing, listening, loop>>

\* What is left in the backlog is reset with the listening socket.
StopListening ==
  /\ listening' = FALSE
  /\ request' = [r \in Requests |-> IF request[r] = "backlog" THEN "closed" ELSE request[r]]

\* server_close after an interrupt: the loop is gone already.
CloseListener ==
  /\ closer = "loop" /\ loop = "dead"
  /\ StopListening
  /\ closer' = "join"
  /\ UNCHANGED <<reply, open, slots, closing, loop>>

\* shutdown waits for the loop and cuts off what it accepted meanwhile.
StopLoop ==
  /\ closer = "loop" /\ loop = "idle"
  /\ loop' = "dead" /\ open' = {} /\ closer' = "join"
  /\ UNCHANGED <<request, reply, slots, closing, listening>>

Threads == {r \in Requests : request[r] \in {"reading", "queued", "handling", "respond",
                                             "shutting_down", "answered", "leaving"}}

\* _wait_for_workers
Join ==
  /\ closer = "join" /\ Threads = {}
  /\ closer' = IF listening THEN "joined" ELSE "stopped"
  /\ UNCHANGED <<request, reply, open, slots, closing, loop, listening>>

\* server_close after shutdown finds no thread and no open socket.
ServerClose ==
  /\ closer = "joined"
  /\ StopListening
  /\ closer' = "stopped"
  /\ UNCHANGED <<reply, open, slots, closing, loop>>

Accepts(r) ==
  GetRequest(r) \/ RejectBusy(r) \/ TakeSlot(r) \/ StartWorker(r) \/ RefuseWorker(r)

RunWorker(r) ==
  Parse(r) \/ AnswerDirectly(r) \/ Dispatch(r) \/ Handled(r) \/ Respond(r)
    \/ HangUp(r) \/ EndWorker(r)

Closes == StartClosing \/ CutOff \/ CloseListener \/ StopLoop \/ Join \/ ServerClose

ServerInit ==
  /\ request = [r \in Requests |-> "none"]
  /\ reply = [r \in Requests |-> "none"]
  /\ open = {} /\ slots = MaxWorkers
  /\ closing = FALSE /\ listening = TRUE /\ loop = "idle" /\ closer = "none"

ServerNext ==
  \/ \E r \in Requests : Connect(r) \/ Accepts(r) \/ RunWorker(r)
  \/ Interrupt \/ ShutDown \/ Closes

ServerSpec == ServerInit /\ [][ServerNext]_serverVars

\* The loop, the threads and the closer are scheduled; reads end, because they
\* time out or their socket is cut off; the application returns.
ServerFairness ==
  /\ WF_serverVars(\E r \in Requests : Accepts(r))
  /\ \A r \in Requests : WF_serverVars(RunWorker(r))
  /\ WF_serverVars(Closes)

FairServer == ServerSpec /\ ServerFairness

-----------------------------------------------------------------------------
(* Properties.                                                             *)

States == {"none", "backlog", "accepted", "admitted", "reading", "queued", "handling",
           "respond", "shutting_down", "answered", "leaving", "closed"}

ServerTypeOK ==
  /\ request \in [Requests -> States]
  /\ reply \in [Requests -> {"none", "other", "application", "server_busy",
                             "server_shutting_down"}]
  /\ open \subseteq Requests /\ slots \in 0..MaxWorkers
  /\ closing \in BOOLEAN /\ listening \in BOOLEAN
  /\ loop \in Requests \cup {"idle", "dead"}
  /\ closer \in {"none", "start", "cut", "loop", "join", "joined", "stopped"}

\* A slot is out for every request thread and for the request being admitted,
\* and for nothing else: refused, interrupted and failed requests give it back.
SlotsAccounted == slots + Cardinality(Threads \cup RequestsIn("admitted")) = MaxWorkers

\* The application handles one request at a time and none once closing is set:
\* when _start_closing returns, no research command is half done in a request.
QuiescentOnceClosing ==
  /\ \A q, r \in RequestsIn("handling") : q = r
  /\ closing => RequestsIn("handling") = {}

\* When closing has ended, no thread and no connection of the server is left.
NothingLeftBehind ==
  closer = "stopped" =>
    /\ Threads = {} /\ open = {} /\ slots = MaxWorkers
    /\ \A r \in Requests : request[r] \in {"none", "closed"}

\* Closing ends, whatever requests are being read, handled or answered.
ClosingEnds == closer = "start" ~> closer = "stopped"

\* Every connection that was accepted is let go.
ConnectionsEnd == \A r \in Requests : request[r] = "backlog" ~> request[r] = "closed"

=============================================================================
