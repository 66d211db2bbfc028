-------------------------- MODULE ReplayRegistryProofs --------------------------
(***************************************************************************)
(* What the replay registry keeps for any number of requests, keys, jobs and *)
(* any bound: proofs for ReplayRegistry.                                    *)
(***************************************************************************)
EXTENDS ReplayRegistry, FiniteSetTheorems, FunctionTheorems, TLAPS

-----------------------------------------------------------------------------
(* The registry as a sequence without duplicates.                          *)

Once(s) == \A i, j \in DOMAIN s : s[i] = s[j] => i = j

\* A record that is taken out is gone, and the others stay.
LEMMA WithoutOne ==
  ASSUME NEW s \in Seq(Calls), Once(s), NEW d
  PROVE  /\ Without(s, d) \in Seq(Calls) /\ Once(Without(s, d))
         /\ In(Without(s, d)) = In(s) \ {d}
         /\ d \in In(s) => Len(Without(s, d)) = Len(s) - 1
<1>1. CASE d \notin In(s)
  BY <1>1 DEF Without
<1>2. CASE d \in In(s)
  <2> DEFINE k == CHOOSE i \in DOMAIN s : s[i] = d
             t == [i \in 1..Len(s) - 1 |-> s[IF i < k THEN i ELSE i + 1]]
  <2>1. k \in 1..Len(s) /\ s[k] = d
    BY <1>2 DEF In
  <2>2. Without(s, d) = t
    BY <1>2 DEF Without
  <2> HIDE DEF k
  <2>3. t \in Seq(Calls) /\ Len(t) = Len(s) - 1 /\ DOMAIN t = 1..Len(s) - 1
    BY <2>1
  <2>4. \A i \in DOMAIN t : t[i] # d /\ t[i] \in In(s)
    BY <2>1, <2>3 DEF Once, In
  <2>5. \A i, j \in DOMAIN t : t[i] = t[j] => i = j
    BY <2>1, <2>3 DEF Once
  <2>6. \A c \in In(s) \ {d} : c \in In(t)
    <3> TAKE c \in In(s) \ {d}
    <3>1. PICK i \in 1..Len(s) : s[i] = c /\ i # k
      BY <2>1 DEF In
    <3>2. CASE i < k
      <4>1. i \in DOMAIN t /\ t[i] = c
        BY <2>1, <2>3, <3>1, <3>2
      <4> QED
        BY <4>1 DEF In
    <3>3. CASE i > k
      <4>1. i - 1 \in DOMAIN t /\ t[i - 1] = c
        BY <2>1, <2>3, <3>1, <3>3
      <4> QED
        BY <4>1 DEF In
    <3> QED
      BY <2>1, <3>1, <3>2, <3>3
  <2> HIDE DEF t
  <2>7. In(t) = In(s) \ {d}
    BY <2>4, <2>6 DEF In
  <2> QED
    BY <2>2, <2>3, <2>5, <2>7 DEF Once
<1> QED
  BY <1>1, <1>2

LEMMA AppendOne ==
  ASSUME NEW s \in Seq(Calls), Once(s), NEW c \in Calls, c \notin In(s)
  PROVE  /\ Append(s, c) \in Seq(Calls) /\ Once(Append(s, c))
         /\ In(Append(s, c)) = In(s) \cup {c}
         /\ Len(Append(s, c)) = Len(s) + 1
<1>1. /\ Append(s, c) \in Seq(Calls) /\ Len(Append(s, c)) = Len(s) + 1
      /\ DOMAIN Append(s, c) = 1..Len(s) + 1
      /\ Append(s, c)[Len(s) + 1] = c
      /\ \A i \in 1..Len(s) : Append(s, c)[i] = s[i]
  OBVIOUS
<1>2. DOMAIN s = 1..Len(s) /\ Len(s) \in Nat
  OBVIOUS
<1>3. In(Append(s, c)) = In(s) \cup {c}
  BY <1>1, <1>2 DEF In
<1>4. Once(Append(s, c))
  BY <1>1, <1>2 DEF In, Once
<1> QED
  BY <1>1, <1>3, <1>4

-----------------------------------------------------------------------------
(* The invariant.                                                          *)

JobStates == {"unknown", "pending", "done", "forgotten"}

Points == {"new", "look", "waiting", "operation", "complete", "discard", "done"}

Rows == [pc : Points, identity : Identities \cup {None}, payload : Payloads \cup {None},
         prior : Calls \cup {None}, reply : Replies]

Typed ==
  /\ jobs \in [Ids -> JobStates] /\ open \in BOOLEAN
  /\ registry \in Seq(Calls) /\ Once(registry) /\ Len(registry) <= Maximum
  /\ answer \in [Calls -> Replies]
  /\ call \in [Calls -> Rows]

\* A call that has been given a record, or an answer, keeps what it asked for.
Begun(c) == call[c].pc \in {"operation", "complete", "discard", "done"}

AsksTheSame(c, d) == Same(c, d) /\ Agrees(c, d)

\* What a call has in hand at each point.
InHand(c) ==
  /\ call[c].reply.status # "internal_error"
  /\ call[c].pc \in {"new", "look", "waiting", "operation", "discard"} => call[c].reply.job = None
  /\ call[c].pc = "complete" => call[c].reply.status # "none"
  /\ call[c].pc = "waiting" =>
       /\ call[c].prior \in Calls
       /\ Begun(call[c].prior) /\ AsksTheSame(call[c].prior, c)

\* A record is answered once and for all when its call is over.
AnswersLast ==
  \A c \in Calls :
    /\ answer[c].status # "internal_error"
    /\ answer[c].status = "none" => answer[c] = Unanswered
    /\ answer[c].status # "none" => call[c].pc = "done"

Reserved ==
  /\ \A c \in In(registry) : Begun(c)
  /\ \A c, d \in In(registry) : Same(c, d) => c = d
  /\ \A c \in Calls : Executing(c) <=> c \in In(registry) /\ answer[c] = Unanswered

\* The call that submitted a job, and the record that leads to it.
Owns(c, id) == (call[c].pc = "complete" /\ call[c].reply.job = id) \/ answer[c].job = id

\* Whoever is told of a job asked for what its owner asked for.
ComesFrom(c, id) ==
  \E d \in Calls : Owns(d, id) /\ AsksTheSame(d, c) /\ (Executing(d) => d = c)

OneOwner ==
  \A id \in Ids : \A c, d \in Calls : Owns(c, id) /\ Owns(d, id) => c = d

\* The owner of a pending job stays in the registry.
OwnerStays ==
  \A id \in Ids : \A c \in Calls : Owns(c, id) =>
    jobs[id] # "unknown" /\ (jobs[id] = "pending" => c \in In(registry))

Told ==
  \A c \in Calls : call[c].reply.job # None => ComesFrom(c, call[c].reply.job)

JobsOwned == OneOwner /\ OwnerStays /\ Told

RegistryInv ==
  Typed /\ (\A c \in Calls : InHand(c)) /\ AnswersLast /\ Reserved /\ JobsOwned

LEMMA InitRegistryInv == RegistryInit => RegistryInv
<1> SUFFICES ASSUME RegistryInit
             PROVE  RegistryInv
  OBVIOUS
<1> USE RegistryAssumption DEF RegistryInit
<1>1. Typed
  BY DEF ServiceInit, Typed, JobStates, Points, Rows, Replies, Statuses, Unanswered, Once
<1>2. \A c \in Calls : InHand(c)
  BY DEF InHand, Unanswered
<1>3. AnswersLast
  BY DEF AnswersLast, Unanswered
<1>4. Reserved
  BY DEF Reserved, Executing, In
<1>5. JobsOwned
  BY DEF JobsOwned, OneOwner, OwnerStays, Told, Owns, Unanswered
<1> QED
  BY <1>1, <1>2, <1>3, <1>4, <1>5 DEF RegistryInv

\* A call goes on by itself: no record and no job changes.  What it is told of a job
\* is the answer of a record.
LEMMA CallGoesOn ==
  ASSUME RegistryInv, NEW c \in Calls,
         UNCHANGED <<serviceVars, registry, answer>>,
         NEW row \in Rows, call' = [call EXCEPT ![c] = row],
         call[c].pc \notin {"complete", "discard", "done"},
         InHand(c)',
         call[c].pc = "operation" <=> row.pc \in {"operation", "complete", "discard"},
         call[c].pc \in {"look", "waiting", "operation"} =>
           row.identity = call[c].identity /\ row.payload = call[c].payload,
         \/ row.reply.job = None
         \/ \E d \in Calls \ {c} : /\ answer[d].job = row.reply.job /\ answer[d].status # "none"
                                   /\ AsksTheSame(d, c)' /\ row.pc = "done"
  PROVE  RegistryInv'
<1>1. /\ call \in [Calls -> Rows] /\ call'[c] = row
      /\ \A d \in Calls \ {c} : call'[d] = call[d]
      /\ registry' = registry /\ answer' = answer /\ jobs' = jobs /\ open' = open
  BY DEF RegistryInv, Typed, serviceVars
<1>2. Typed'
  BY <1>1 DEF RegistryInv, Typed
<1>3. \A d \in Calls : Begun(d) =>
         Begun(d)' /\ call'[d].identity = call[d].identity /\ call'[d].payload = call[d].payload
  BY <1>1 DEF Begun
<1>4. \A d \in Calls : Executing(d)' <=> Executing(d)
  BY <1>1 DEF Executing
<1>5. \A d \in Calls : InHand(d)'
  BY <1>1, <1>3 DEF RegistryInv, InHand, AsksTheSame, Same, Agrees
<1>6. AnswersLast'
  BY <1>1 DEF RegistryInv, AnswersLast
<1>7. Reserved'
  BY <1>1, <1>3, <1>4 DEF RegistryInv, Reserved, Same, In, Typed
<1>8. \A id \in Ids : \A d \in Calls : Owns(d, id)' => Owns(d, id)
  BY <1>1, RegistryAssumption DEF Owns
<1>9. JobsOwned'
  <2>1. \A d \in Calls : answer[d].status # "none" => ~Executing(d)
    BY DEF RegistryInv, AnswersLast, Executing
  <2>2. ASSUME NEW e \in Calls, NEW id, id # None, id = call'[e].reply.job
        PROVE  ComesFrom(e, id)'
    <3>1. CASE e = c
      <4>1. PICK d \in Calls \ {c} : /\ answer[d].job = id /\ answer[d].status # "none"
                                     /\ AsksTheSame(d, c)' /\ row.pc = "done"
        BY <1>1, <2>2, <3>1
      <4>2. ~Executing(d)'
        BY <1>4, <2>1, <4>1
      <4>3. Owns(d, id)'
        BY <1>1, <4>1 DEF Owns
      <4>4. AsksTheSame(d, e)'
        BY <3>1, <4>1 DEF AsksTheSame, Same, Agrees
      <4> QED
        BY <4>2, <4>3, <4>4 DEF ComesFrom
    <3>2. CASE e # c
      <4>1. call'[e] = call[e]
        BY <1>1, <3>2
      <4>2. PICK d \in Calls : Owns(d, id) /\ AsksTheSame(d, e) /\ (Executing(d) => d = e)
        BY <2>2, <4>1 DEF RegistryInv, JobsOwned, Told, ComesFrom
      <4>3. call[d].pc = "complete" \/ answer[d].job # None
        BY <2>2, <4>2 DEF Owns
      <4>4. call[d].pc \in {"complete", "done"}
        BY <4>3 DEF RegistryInv, AnswersLast, Unanswered
      <4>5. d # c /\ call'[d] = call[d]
        BY <1>1, <4>4
      <4>6. Owns(d, id)'
        BY <1>1, <4>2, <4>5 DEF Owns
      <4>7. AsksTheSame(d, e)'
        BY <4>1, <4>2, <4>5 DEF AsksTheSame, Same, Agrees
      <4>8. Executing(d)' => d = e
        BY <1>4, <4>2
      <4> QED
        BY <4>6, <4>7, <4>8 DEF ComesFrom
    <3> QED
      BY <3>1, <3>2
  <2>3. OneOwner'
    BY <1>8 DEF RegistryInv, JobsOwned, OneOwner
  <2>4. OwnerStays'
    BY <1>1, <1>8 DEF RegistryInv, JobsOwned, OwnerStays, In
  <2>5. Told'
    BY <2>2 DEF Told
  <2> QED
    BY <2>3, <2>4, <2>5 DEF JobsOwned
<1> QED
  BY <1>2, <1>5, <1>6, <1>7, <1>9 DEF RegistryInv

LEMMA ReplyRow ==
  ASSUME Typed, NEW c \in Calls, NEW r \in Replies, Reply(c, r)
  PROVE  \E row \in Rows :
           /\ call' = [call EXCEPT ![c] = row]
           /\ row.pc = "done" /\ row.reply = r
           /\ row.identity = call[c].identity /\ row.payload = call[c].payload
<1> DEFINE row == [call[c] EXCEPT !.pc = "done", !.reply = r]
<1>1. row \in Rows /\ call' = [call EXCEPT ![c] = row]
  BY DEF Typed, Rows, Points, Reply
<1>2. /\ row.pc = "done" /\ row.reply = r
      /\ row.identity = call[c].identity /\ row.payload = call[c].payload
  BY DEF Typed, Rows
<1> QED
  BY <1>1, <1>2

LEMMA SendStep ==
  ASSUME RegistryInv, NEW c \in Calls, NEW identity \in Identities, NEW payload \in Payloads,
         Send(c, identity, payload)
  PROVE  RegistryInv'
<1> DEFINE row == [call[c] EXCEPT !.pc = "look", !.identity = identity, !.payload = payload]
<1>1. call \in [Calls -> Rows] /\ call[c].pc = "new" /\ call[c].reply.job = None
      /\ call[c].reply.status # "internal_error"
  BY DEF RegistryInv, Typed, InHand, Send, At
<1>2. row \in Rows /\ call' = [call EXCEPT ![c] = row]
  BY <1>1 DEF Rows, Points, Send
<1>3. row.pc = "look" /\ row.reply = call[c].reply
  BY <1>1 DEF Rows
<1> HIDE DEF row
<1>4. InHand(c)'
  BY <1>1, <1>2, <1>3 DEF InHand
<1> QED
  BY <1>1, <1>2, <1>3, <1>4, CallGoesOn DEF Send

\* An answer without a job ends a call that has no record in hand.
LEMMA RefuseStep ==
  ASSUME RegistryInv, NEW c \in Calls, call[c].pc \in {"look", "waiting"},
         NEW status \in Statuses \ {"internal_error"}, Refuse(c, status),
         UNCHANGED <<serviceVars, registry, answer>>
  PROVE  RegistryInv'
<1>1. [status |-> status, job |-> None] \in Replies
  BY DEF Replies
<1>2. PICK row \in Rows :
         /\ call' = [call EXCEPT ![c] = row]
         /\ row.pc = "done" /\ row.reply = [status |-> status, job |-> None]
         /\ row.identity = call[c].identity /\ row.payload = call[c].payload
  BY <1>1, ReplyRow DEF Refuse, RegistryInv
<1>3. InHand(c)'
  BY <1>2 DEF InHand, RegistryInv, Typed
<1>4. row.reply.job = None /\ row.pc = "done"
  BY <1>2
<1> QED
  BY <1>2, <1>3, <1>4, CallGoesOn

\* A call is given the answer of a record that was made for the same request.
LEMMA AnsweredStep ==
  ASSUME RegistryInv, NEW c \in Calls, call[c].pc \in {"look", "waiting"},
         NEW d \in Calls, Begun(d), AsksTheSame(d, c),
         answer[d].status # "none", Reply(c, answer[d]),
         UNCHANGED <<serviceVars, registry, answer>>
  PROVE  RegistryInv'
<1>1. answer[d] \in Replies /\ answer[d].status # "internal_error" /\ call[d].pc = "done" /\ d # c
  BY DEF RegistryInv, Typed, AnswersLast
<1>2. PICK row \in Rows :
         /\ call' = [call EXCEPT ![c] = row]
         /\ row.pc = "done" /\ row.reply = answer[d]
         /\ row.identity = call[c].identity /\ row.payload = call[c].payload
  BY <1>1, ReplyRow DEF RegistryInv
<1>3. call \in [Calls -> Rows] /\ call'[c] = row /\ call'[d] = call[d]
  BY <1>1, <1>2 DEF RegistryInv, Typed
<1>4. InHand(c)'
  BY <1>1, <1>2, <1>3 DEF InHand
<1>5. AsksTheSame(d, c)'
  BY <1>2, <1>3 DEF AsksTheSame, Same, Agrees
<1> QED
  BY <1>1, <1>2, <1>4, <1>5, CallGoesOn

LEMMA LookSteps ==
  ASSUME RegistryInv, NEW c \in Calls,
         Full(c) \/ Conflict(c) \/ Replay(c) \/ Wait(c) \/ Wake(c)
  PROVE  RegistryInv'
<1>1. CASE Full(c)
  BY <1>1, RefuseStep DEF Full, At, Statuses
<1>2. CASE Conflict(c)
  BY <1>2, RefuseStep DEF Conflict, At, Statuses
<1>3. ASSUME NEW d \in Prior(c)
      PROVE  d \in Calls /\ Begun(d) /\ Same(d, c)
  BY <1>3 DEF Prior, In, RegistryInv, Reserved, Typed, Same
<1>4. CASE Replay(c)
  <2>1. PICK d \in Prior(c) : Agrees(c, d) /\ answer[d].status # "none" /\ Reply(c, answer[d])
    BY <1>4 DEF Replay
  <2>2. d \in Calls /\ Begun(d) /\ AsksTheSame(d, c)
    BY <1>3, <2>1 DEF AsksTheSame, Agrees
  <2> QED
    BY <1>4, <2>1, <2>2, AnsweredStep DEF Replay, At
<1>5. CASE Wait(c)
  <2>1. PICK d \in Prior(c) :
           /\ Agrees(c, d)
           /\ \/ call' = [call EXCEPT ![c].pc = "waiting", ![c].prior = d]
              \/ Refuse(c, "request_in_progress")
    BY <1>5 DEF Wait
  <2>2. d \in Calls /\ Begun(d) /\ AsksTheSame(d, c)
    BY <1>3, <2>1 DEF AsksTheSame, Agrees
  <2>3. CASE call' = [call EXCEPT ![c].pc = "waiting", ![c].prior = d]
    <3> DEFINE row == [call[c] EXCEPT !.pc = "waiting", !.prior = d]
    <3>1. call \in [Calls -> Rows] /\ call[c].pc = "look" /\ call[c].reply.job = None
          /\ call[c].reply.status # "internal_error"
      BY <1>5 DEF RegistryInv, Typed, InHand, Wait, At
    <3>2. row \in Rows /\ call' = [call EXCEPT ![c] = row]
      BY <2>2, <2>3, <3>1 DEF Rows, Points
    <3>3. /\ row.pc = "waiting" /\ row.reply = call[c].reply /\ row.prior = d
          /\ row.identity = call[c].identity /\ row.payload = call[c].payload
      BY <3>1 DEF Rows
    <3> HIDE DEF row
    <3>4. call'[c] = row /\ call'[d] = call[d]
      BY <2>2, <3>1, <3>2 DEF Begun
    <3>5. InHand(c)'
      BY <2>2, <3>1, <3>3, <3>4 DEF InHand, AsksTheSame, Same, Agrees, Begun
    <3> QED
      BY <1>5, <3>1, <3>2, <3>3, <3>5, CallGoesOn DEF Wait
  <2>4. CASE Refuse(c, "request_in_progress")
    BY <1>5, <2>4, RefuseStep DEF Wait, At, Statuses
  <2> QED
    BY <2>1, <2>3, <2>4
<1>6. CASE Wake(c)
  <2> DEFINE d == call[c].prior
  <2>1. d \in Calls /\ Begun(d) /\ AsksTheSame(d, c)
    BY <1>6 DEF RegistryInv, InHand, Wake, At
  <2>2. CASE answer[d].status # "none"
    BY <1>6, <2>1, <2>2, AnsweredStep DEF Wake, At
  <2>3. CASE answer[d].status = "none"
    <3> DEFINE row == [call[c] EXCEPT !.pc = "look", !.prior = None]
    <3>1. call \in [Calls -> Rows] /\ call[c].pc = "waiting" /\ call[c].reply.job = None
          /\ call[c].reply.status # "internal_error"
      BY <1>6 DEF RegistryInv, Typed, InHand, Wake, At
    <3>2. row \in Rows /\ call' = [call EXCEPT ![c] = row]
      <4>1. call' = [call EXCEPT ![c] = row]
        BY <1>6, <2>3, <3>1 DEF Wake
      <4>2. call[c] \in Rows
        BY <3>1
      <4>3. row \in Rows
        BY ONLY <4>2 DEF Rows, Points
      <4> QED
        BY <4>1, <4>3
    <3>3. /\ row.pc = "look" /\ row.reply = call[c].reply
          /\ row.identity = call[c].identity /\ row.payload = call[c].payload
      BY <3>1 DEF Rows
    <3> HIDE DEF row
    <3>4. InHand(c)'
      BY <3>1, <3>2, <3>3 DEF InHand
    <3> QED
      BY <1>6, <3>1, <3>2, <3>3, <3>4, CallGoesOn DEF Wake
  <2> QED
    BY <2>2, <2>3
<1> QED
  BY <1>1, <1>2, <1>4, <1>5, <1>6

\* An operation that submits no job.
LEMMA OperationSteps ==
  ASSUME RegistryInv, NEW c \in Calls, Execute(c) \/ Fail(c)
  PROVE  RegistryInv'
<1>1. PICK pc \in {"complete", "discard"}, r \in Replies :
         /\ r.job = None /\ r.status \in {"ok", "error"}
         /\ call' = [call EXCEPT ![c].pc = pc, ![c].reply = r]
  <2>1. \A status \in {"ok", "error"} : [status |-> status, job |-> None] \in Replies
    BY DEF Replies, Statuses
  <2> QED
    BY <2>1 DEF Execute, Fail, Succeed
<1> DEFINE row == [call[c] EXCEPT !.pc = pc, !.reply = r]
<1>2. call \in [Calls -> Rows] /\ call[c].pc = "operation"
  BY DEF RegistryInv, Typed, Execute, Fail, At
<1>3. row \in Rows /\ call' = [call EXCEPT ![c] = row]
  BY <1>1, <1>2 DEF Rows, Points
<1>4. /\ row.pc = pc /\ row.reply = r
      /\ row.identity = call[c].identity /\ row.payload = call[c].payload
  BY <1>2 DEF Rows
<1> HIDE DEF row
<1>5. InHand(c)'
  BY <1>1, <1>2, <1>3, <1>4 DEF InHand
<1> QED
  BY <1>1, <1>2, <1>3, <1>4, <1>5, CallGoesOn DEF Execute, Fail

-----------------------------------------------------------------------------
(* The steps that touch records or jobs.                                   *)

\* A call that has been given a record keeps what it asked for, and so do those
\* who wait for it.
LEMMA AskedStays ==
  ASSUME RegistryInv, NEW c \in Calls, NEW row \in Rows, call' = [call EXCEPT ![c] = row],
         row.identity = call[c].identity, row.payload = call[c].payload,
         row.pc \in {"operation", "complete", "discard", "done"}, InHand(c)'
  PROVE  /\ call' \in [Calls -> Rows] /\ call'[c] = row
         /\ \A d \in Calls \ {c} : call'[d] = call[d]
         /\ \A d, e \in Calls : (Same(d, e)' <=> Same(d, e)) /\ (AsksTheSame(d, e)' <=> AsksTheSame(d, e))
         /\ \A d \in Calls : Begun(d) => Begun(d)'
         /\ Begun(c)'
         /\ \A d \in Calls : InHand(d)'
<1>1. /\ call \in [Calls -> Rows] /\ call' \in [Calls -> Rows] /\ call'[c] = row
      /\ \A d \in Calls \ {c} : call'[d] = call[d]
  BY DEF RegistryInv, Typed
<1>2. \A d \in Calls : call'[d].identity = call[d].identity /\ call'[d].payload = call[d].payload
  BY <1>1
<1>3. \A d, e \in Calls : (Same(d, e)' <=> Same(d, e)) /\ (AsksTheSame(d, e)' <=> AsksTheSame(d, e))
  BY <1>2 DEF Same, AsksTheSame, Agrees
<1>4. Begun(c)' /\ \A d \in Calls : Begun(d) => Begun(d)'
  BY <1>1 DEF Begun
<1>5. \A d \in Calls : InHand(d)'
  <2> TAKE d \in Calls
  <2>1. CASE d # c
    <3>1. InHand(d) /\ call'[d] = call[d]
      BY <1>1, <2>1 DEF RegistryInv
    <3> QED
      BY <1>3, <1>4, <3>1 DEF InHand
  <2> QED
    BY <2>1
<1> QED
  BY <1>1, <1>3, <1>4, <1>5

LEMMA InsertStep ==
  ASSUME RegistryInv, NEW c \in Calls, Insert(c)
  PROVE  RegistryInv'
<1>1. /\ call \in [Calls -> Rows] /\ call[c].pc = "look" /\ call[c].reply.job = None
      /\ call[c].reply.status # "internal_error"
  BY DEF RegistryInv, Typed, InHand, Insert, At
<1> DEFINE row == [call[c] EXCEPT !.pc = "operation"]
<1>2. row \in Rows /\ call' = [call EXCEPT ![c] = row]
  BY <1>1 DEF Rows, Points, Insert
<1>3. /\ row.pc = "operation" /\ row.reply = call[c].reply
      /\ row.identity = call[c].identity /\ row.payload = call[c].payload
  BY <1>1 DEF Rows
<1> HIDE DEF row
<1>4. InHand(c)'
  BY <1>1, <1>2, <1>3 DEF InHand
<1>5. /\ call' \in [Calls -> Rows] /\ call'[c] = row
      /\ \A d \in Calls \ {c} : call'[d] = call[d]
      /\ \A d, e \in Calls : (Same(d, e)' <=> Same(d, e)) /\ (AsksTheSame(d, e)' <=> AsksTheSame(d, e))
      /\ \A d \in Calls : Begun(d) => Begun(d)'
      /\ Begun(c)'
      /\ \A d \in Calls : InHand(d)'
  BY <1>2, <1>3, <1>4, AskedStays
<1>6. answer[c] = Unanswered /\ answer' = answer /\ jobs' = jobs /\ open' = open
  <2>1. answer[c] = Unanswered
    BY <1>1 DEF RegistryInv, AnswersLast
  <2> QED
    BY <2>1 DEF Insert, serviceVars, RegistryInv, Typed
<1>7. c \notin In(registry) /\ \A d \in In(registry) : d \in Calls /\ ~Same(c, d)
  <2>1. \A d \in In(registry) : d \in Calls
    BY DEF RegistryInv, Typed, In
  <2> QED
    BY <1>1, <2>1 DEF RegistryInv, Reserved, Begun, Insert, Prior
\* What leaves is terminal.
<1>8. PICK kept \in SUBSET In(registry) :
         /\ registry' \in Seq(Calls) /\ Once(registry') /\ Len(registry') <= Maximum
         /\ In(registry') = kept \cup {c}
         /\ \A d \in In(registry) \ kept : Evictable(d)
  <2>1. registry \in Seq(Calls) /\ Once(registry) /\ Len(registry) <= Maximum /\ Len(registry) \in Nat
        /\ Maximum \in Nat
    BY RegistryAssumption DEF RegistryInv, Typed
  <2>2. CASE Len(registry) < Maximum /\ registry' = Append(registry, c)
    <3>1. /\ registry' \in Seq(Calls) /\ Once(registry') /\ Len(registry') = Len(registry) + 1
          /\ In(registry') = In(registry) \cup {c}
      BY <1>7, <2>1, <2>2, AppendOne
    <3>2. Len(registry') <= Maximum
      BY <2>1, <2>2, <3>1
    <3> WITNESS In(registry) \in SUBSET In(registry)
    <3> QED
      BY <3>1, <3>2
  <2>3. CASE Len(registry) >= Maximum
    <3>1. PICK d \in In(registry) : Oldest(d) /\ registry' = Append(Without(registry, d), c)
      BY <2>1, <2>3 DEF Insert
    <3>2. Evictable(d)
      BY <3>1 DEF Oldest
    <3> DEFINE rest == Without(registry, d)
    <3>3. /\ rest \in Seq(Calls) /\ Once(rest) /\ In(rest) = In(registry) \ {d}
          /\ Len(rest) = Len(registry) - 1
      BY <2>1, WithoutOne
    <3> HIDE DEF rest
    <3>4. /\ Append(rest, c) \in Seq(Calls) /\ Once(Append(rest, c))
          /\ In(Append(rest, c)) = In(rest) \cup {c}
          /\ Len(Append(rest, c)) = Len(rest) + 1
      BY <1>7, <3>3, AppendOne
    <3>5. registry' = Append(rest, c)
      BY <3>1 DEF rest
    <3>6. Len(registry') <= Maximum
      BY <2>1, <3>3, <3>4, <3>5
    <3> WITNESS In(registry) \ {d} \in SUBSET In(registry)
    <3> QED
      BY <3>2, <3>3, <3>4, <3>5, <3>6
  <2> QED
    BY <2>2, <2>3 DEF Insert
<1>9. Typed'
  BY <1>5, <1>6, <1>8 DEF RegistryInv, Typed
<1>10. AnswersLast'
  BY <1>1, <1>5, <1>6 DEF RegistryInv, AnswersLast, Unanswered
<1>11. \A d \in Calls : Executing(d)' <=> Executing(d) \/ d = c
  BY <1>1, <1>3, <1>5 DEF Executing
<1>12. Reserved'
  <2>1. \A d \in In(registry)' : Begun(d)'
    BY <1>5, <1>7, <1>8 DEF RegistryInv, Reserved
  <2>2. \A d, e \in In(registry)' : Same(d, e)' => d = e
    BY <1>5, <1>7, <1>8 DEF RegistryInv, Reserved, Same
  <2>3. ASSUME NEW d \in Calls
        PROVE  Executing(d)' <=> d \in In(registry)' /\ answer'[d] = Unanswered
    <3>1. CASE d = c
      BY <1>6, <1>8, <1>11, <3>1
    <3>2. CASE d # c
      <4>1. Executing(d) <=> d \in In(registry) /\ answer[d] = Unanswered
        BY DEF RegistryInv, Reserved
      <4>2. d \in In(registry) \ kept => answer[d] # Unanswered
        BY <1>8 DEF Evictable, Unanswered
      <4> QED
        BY <1>6, <1>8, <1>11, <3>2, <4>1, <4>2
    <3> QED
      BY <3>1, <3>2
  <2> QED
    BY <2>1, <2>2, <2>3 DEF Reserved, In
<1>13. \A id : \A d \in Calls : id # None => (Owns(d, id)' <=> Owns(d, id))
  BY <1>1, <1>3, <1>5, <1>6 DEF Owns, Unanswered
<1>14. JobsOwned'
  <2>1. OneOwner'
    BY <1>13, RegistryAssumption DEF RegistryInv, JobsOwned, OneOwner
  <2>2. ASSUME NEW id \in Ids, NEW d \in Calls, Owns(d, id)
        PROVE  jobs'[id] # "unknown" /\ (jobs'[id] = "pending" => d \in In(registry'))
    <3>1. jobs[id] # "unknown" /\ (jobs[id] = "pending" => d \in In(registry))
      BY <2>2 DEF RegistryInv, JobsOwned, OwnerStays
    <3>2. CASE jobs[id] = "pending" /\ d \notin kept
      <4>1. Evictable(d) /\ d \in In(registry)
        BY <1>8, <3>1, <3>2
      <4>2. call[d].pc = "done"
        BY <2>2, <4>1 DEF Evictable, RegistryInv, AnswersLast
      <4>3. answer[d].job = id
        BY <2>2, <4>2 DEF Owns
      <4> QED
        BY <3>2, <4>1, <4>3, RegistryAssumption DEF Evictable
    <3> QED
      BY <1>6, <1>8, <3>1, <3>2
  <2>3. OwnerStays'
    BY <1>13, <2>2, RegistryAssumption DEF OwnerStays, In
  <2>4. ASSUME NEW e \in Calls, NEW id, id # None, id = call'[e].reply.job
        PROVE  ComesFrom(e, id)'
    <3>1. e # c /\ id = call[e].reply.job
      BY <1>1, <1>3, <1>5, <2>4
    <3>2. PICK d \in Calls : Owns(d, id) /\ AsksTheSame(d, e) /\ (Executing(d) => d = e)
      BY <2>4, <3>1 DEF RegistryInv, JobsOwned, Told, ComesFrom
    <3>3. d # c
      BY <1>1, <1>6, <2>4, <3>2 DEF Owns, Unanswered
    <3> QED
      BY <1>5, <1>11, <1>13, <2>4, <3>2, <3>3 DEF ComesFrom
  <2>5. Told'
    BY <2>4 DEF Told
  <2> QED
    BY <2>1, <2>3, <2>5 DEF JobsOwned
<1> QED
  BY <1>5, <1>9, <1>10, <1>12, <1>14 DEF RegistryInv

\* The job is new, so nobody owns it or was told of it.
LEMMA QueueStep ==
  ASSUME RegistryInv, NEW c \in Calls, NEW id \in Ids, Queue(c, id)
  PROVE  RegistryInv'
<1>1. /\ call \in [Calls -> Rows] /\ call[c].pc = "operation"
      /\ answer[c] = Unanswered /\ c \in In(registry)
  BY DEF RegistryInv, Typed, Reserved, Executing, Queue, At
<1>2. PICK old \in SUBSET Done : Accept(id, old)
  BY DEF Queue
<1>3. /\ jobs[id] = "unknown" /\ open' = open /\ registry' = registry /\ answer' = answer
      /\ jobs' = [j \in Ids |-> IF j = id THEN "pending" ELSE IF j \in old THEN "forgotten" ELSE jobs[j]]
  BY <1>2 DEF Accept, Queue
<1> DEFINE r == [status |-> "accepted", job |-> id]
           row == [call[c] EXCEPT !.pc = "complete", !.reply = r]
<1>4. r \in Replies /\ r.status = "accepted" /\ r.job = id
  BY DEF Replies, Statuses
<1>5. row \in Rows /\ call' = [call EXCEPT ![c] = row]
  BY <1>1, <1>4 DEF Rows, Points, Queue, Succeed
<1>6. /\ row.pc = "complete" /\ row.reply = r
      /\ row.identity = call[c].identity /\ row.payload = call[c].payload
  BY <1>1 DEF Rows
<1> HIDE DEF row, r
<1>7. InHand(c)'
  BY <1>1, <1>4, <1>5, <1>6 DEF InHand
<1>8. /\ call' \in [Calls -> Rows] /\ call'[c] = row
      /\ \A d \in Calls \ {c} : call'[d] = call[d]
      /\ \A d, e \in Calls : (Same(d, e)' <=> Same(d, e)) /\ (AsksTheSame(d, e)' <=> AsksTheSame(d, e))
      /\ \A d \in Calls : Begun(d) => Begun(d)'
      /\ Begun(c)'
      /\ \A d \in Calls : InHand(d)'
  BY <1>5, <1>6, <1>7, AskedStays
<1>9. \A d \in Calls : Executing(d)' <=> Executing(d)
  BY <1>1, <1>6, <1>8 DEF Executing
<1>10. Typed'
  BY <1>3, <1>8 DEF RegistryInv, Typed, JobStates
<1>11. AnswersLast'
  BY <1>1, <1>3, <1>8 DEF RegistryInv, AnswersLast
<1>12. Reserved'
  BY <1>3, <1>8, <1>9 DEF RegistryInv, Reserved, Typed, In, Same
<1>13. \A d \in Calls : ~Owns(d, id)
  BY <1>3 DEF RegistryInv, JobsOwned, OwnerStays
<1>14. \A j : \A d \in Calls : j # None => (Owns(d, j)' <=> Owns(d, j) \/ (d = c /\ j = id))
  BY <1>1, <1>3, <1>4, <1>6, <1>8 DEF Owns, Unanswered
<1>15. OneOwner'
  BY <1>13, <1>14, RegistryAssumption DEF RegistryInv, JobsOwned, OneOwner
<1>16. ASSUME NEW j \in Ids, NEW d \in Calls, Owns(d, j)'
       PROVE  jobs'[j] # "unknown" /\ (jobs'[j] = "pending" => d \in In(registry))
  <2>1. CASE d = c /\ j = id
    BY <1>1, <1>3, <2>1
  <2>2. CASE Owns(d, j)
    BY <1>3, <1>13, <2>2 DEF RegistryInv, JobsOwned, OwnerStays
  <2> QED
    BY <1>14, <1>16, <2>1, <2>2, RegistryAssumption
<1>17. OwnerStays'
  BY <1>3, <1>16 DEF OwnerStays, In
<1>18. ASSUME NEW e \in Calls, NEW j, j # None, j = call'[e].reply.job
       PROVE  ComesFrom(e, j)'
  <2>1. CASE e = c
    <3>1. j = id /\ Owns(c, id)'
      BY <1>4, <1>6, <1>8, <1>18, <2>1 DEF Owns
    <3>2. AsksTheSame(c, e)'
      BY <2>1 DEF AsksTheSame, Same, Agrees
    <3> QED
      BY <2>1, <3>1, <3>2 DEF ComesFrom
  <2>2. CASE e # c
    <3>1. PICK d \in Calls : Owns(d, j) /\ AsksTheSame(d, e) /\ (Executing(d) => d = e)
      BY <1>8, <1>18, <2>2 DEF RegistryInv, JobsOwned, Told, ComesFrom
    <3> QED
      BY <1>8, <1>9, <1>14, <1>18, <3>1 DEF ComesFrom
  <2> QED
    BY <2>1, <2>2
<1>19. Told'
  BY <1>18 DEF Told
<1> QED
  BY <1>8, <1>10, <1>11, <1>12, <1>15, <1>17, <1>19 DEF RegistryInv, JobsOwned

\* The record of a request that executes is still there.
LEMMA CompleteStep ==
  ASSUME RegistryInv, NEW c \in Calls, Complete(c)
  PROVE  RegistryInv'
<1>1. /\ call \in [Calls -> Rows] /\ call[c].pc = "complete"
      /\ answer[c] = Unanswered /\ c \in In(registry)
      /\ call[c].reply \in Replies /\ call[c].reply.status \notin {"none", "internal_error"}
  BY DEF RegistryInv, Typed, Reserved, Executing, Complete, At, InHand, Rows
<1>2. /\ registry' = registry /\ jobs' = jobs /\ open' = open
      /\ answer' = [answer EXCEPT ![c] = call[c].reply] /\ Reply(c, call[c].reply)
  BY <1>1 DEF Complete, serviceVars
<1>3. PICK row \in Rows :
         /\ call' = [call EXCEPT ![c] = row]
         /\ row.pc = "done" /\ row.reply = call[c].reply
         /\ row.identity = call[c].identity /\ row.payload = call[c].payload
  BY <1>1, <1>2, ReplyRow DEF RegistryInv
<1>4. InHand(c)'
  BY <1>1, <1>3 DEF InHand
<1>5. /\ call' \in [Calls -> Rows] /\ call'[c] = row
      /\ \A d \in Calls \ {c} : call'[d] = call[d]
      /\ \A d, e \in Calls : (Same(d, e)' <=> Same(d, e)) /\ (AsksTheSame(d, e)' <=> AsksTheSame(d, e))
      /\ \A d \in Calls : Begun(d) => Begun(d)'
      /\ Begun(c)'
      /\ \A d \in Calls : InHand(d)'
  BY <1>3, <1>4, AskedStays
<1>6. /\ answer' \in [Calls -> Replies] /\ answer'[c] = call[c].reply
      /\ \A d \in Calls \ {c} : answer'[d] = answer[d]
  BY <1>1, <1>2 DEF RegistryInv, Typed
<1>7. \A d \in Calls : Executing(d)' <=> Executing(d) /\ d # c
  BY <1>3, <1>5 DEF Executing
<1>8. Typed'
  BY <1>2, <1>5, <1>6 DEF RegistryInv, Typed
<1>9. AnswersLast'
  BY <1>1, <1>3, <1>5, <1>6 DEF RegistryInv, AnswersLast
<1>10. Reserved'
  <2>1. In(registry') = In(registry) /\ \A d \in In(registry) : d \in Calls
    BY <1>2 DEF RegistryInv, Typed, In
  <2>2. \A d \in In(registry') : Begun(d)'
    BY <1>5, <2>1 DEF RegistryInv, Reserved
  <2>3. \A d, e \in In(registry') : Same(d, e)' => d = e
    BY <1>5, <2>1 DEF RegistryInv, Reserved
  <2>4. \A d \in Calls : Executing(d)' <=> d \in In(registry') /\ answer'[d] = Unanswered
    BY <1>1, <1>6, <1>7, <2>1 DEF RegistryInv, Reserved, Unanswered
  <2> QED
    BY <2>2, <2>3, <2>4 DEF Reserved, In
<1>11. \A id : \A d \in Calls : id # None => (Owns(d, id)' <=> Owns(d, id))
  BY <1>1, <1>3, <1>5, <1>6 DEF Owns, Unanswered
<1>12. OneOwner'
  BY <1>11, RegistryAssumption DEF RegistryInv, JobsOwned, OneOwner
<1>13. OwnerStays'
  BY <1>2, <1>11, RegistryAssumption DEF RegistryInv, JobsOwned, OwnerStays, In
<1>14. ASSUME NEW e \in Calls, NEW id, id # None, id = call'[e].reply.job
       PROVE  ComesFrom(e, id)'
  <2>1. id = call[e].reply.job
    BY <1>3, <1>5, <1>14
  <2>2. PICK d \in Calls : Owns(d, id) /\ AsksTheSame(d, e) /\ (Executing(d) => d = e)
    BY <1>14, <2>1 DEF RegistryInv, JobsOwned, Told, ComesFrom
  <2> QED
    BY <1>5, <1>7, <1>11, <1>14, <2>2 DEF ComesFrom
<1>15. Told'
  BY <1>14 DEF Told
<1> QED
  BY <1>5, <1>8, <1>9, <1>10, <1>12, <1>13, <1>15 DEF RegistryInv, JobsOwned

\* A failed operation gives its record back; it owns no job.
LEMMA DiscardStep ==
  ASSUME RegistryInv, NEW c \in Calls, Discard(c)
  PROVE  RegistryInv'
<1>1. /\ call \in [Calls -> Rows] /\ call[c].pc = "discard"
      /\ answer[c] = Unanswered /\ c \in In(registry)
      /\ call[c].reply \in Replies /\ call[c].reply.status # "internal_error"
      /\ call[c].reply.job = None
  BY DEF RegistryInv, Typed, Reserved, Executing, Discard, At, InHand, Rows
<1>2. /\ registry' = Without(registry, c) /\ answer' = answer /\ jobs' = jobs /\ open' = open
      /\ Reply(c, call[c].reply)
  BY DEF Discard, serviceVars
<1>3. PICK row \in Rows :
         /\ call' = [call EXCEPT ![c] = row]
         /\ row.pc = "done" /\ row.reply = call[c].reply
         /\ row.identity = call[c].identity /\ row.payload = call[c].payload
  BY <1>1, <1>2, ReplyRow DEF RegistryInv
<1>4. InHand(c)'
  BY <1>1, <1>3 DEF InHand
<1>5. /\ call' \in [Calls -> Rows] /\ call'[c] = row
      /\ \A d \in Calls \ {c} : call'[d] = call[d]
      /\ \A d, e \in Calls : (Same(d, e)' <=> Same(d, e)) /\ (AsksTheSame(d, e)' <=> AsksTheSame(d, e))
      /\ \A d \in Calls : Begun(d) => Begun(d)'
      /\ Begun(c)'
      /\ \A d \in Calls : InHand(d)'
  BY <1>3, <1>4, AskedStays
<1>6. \A d \in Calls : Executing(d)' <=> Executing(d) /\ d # c
  BY <1>3, <1>5 DEF Executing
<1>7. /\ registry' \in Seq(Calls) /\ Once(registry') /\ Len(registry') <= Maximum
      /\ In(registry') = In(registry) \ {c} /\ In(registry) \subseteq Calls
  <2>1. /\ registry \in Seq(Calls) /\ Once(registry) /\ Len(registry) <= Maximum
        /\ Len(registry) \in Nat /\ Maximum \in Nat /\ In(registry) \subseteq Calls
    BY RegistryAssumption DEF RegistryInv, Typed, In
  <2>2. /\ registry' \in Seq(Calls) /\ Once(registry') /\ In(registry') = In(registry) \ {c}
        /\ Len(registry') = Len(registry) - 1
    BY <1>1, <1>2, <2>1, WithoutOne
  <2> QED
    BY <2>1, <2>2
<1>8. Typed'
  BY <1>2, <1>5, <1>7 DEF RegistryInv, Typed
<1>9. AnswersLast'
  BY <1>2, <1>3, <1>5 DEF RegistryInv, AnswersLast
<1>10. Reserved'
  <2>1. \A d \in In(registry') : Begun(d)'
    BY <1>5, <1>7 DEF RegistryInv, Reserved
  <2>2. \A d, e \in In(registry') : Same(d, e)' => d = e
    BY <1>5, <1>7 DEF RegistryInv, Reserved
  <2>3. \A d \in Calls : Executing(d)' <=> d \in In(registry') /\ answer'[d] = Unanswered
    BY <1>2, <1>6, <1>7 DEF RegistryInv, Reserved
  <2> QED
    BY <2>1, <2>2, <2>3 DEF Reserved, In
<1>11. \A id : \A d \in Calls : id # None => (Owns(d, id)' <=> Owns(d, id))
  BY <1>1, <1>2, <1>3, <1>5 DEF Owns
<1>12. \A id : id # None => ~Owns(c, id)
  BY <1>1 DEF Owns, Unanswered
<1>13. OneOwner'
  BY <1>11, RegistryAssumption DEF RegistryInv, JobsOwned, OneOwner
<1>14. OwnerStays'
  BY <1>2, <1>7, <1>11, <1>12, RegistryAssumption DEF RegistryInv, JobsOwned, OwnerStays, In
<1>15. ASSUME NEW e \in Calls, NEW id, id # None, id = call'[e].reply.job
       PROVE  ComesFrom(e, id)'
  <2>1. id = call[e].reply.job
    BY <1>3, <1>5, <1>15
  <2>2. PICK d \in Calls : Owns(d, id) /\ AsksTheSame(d, e) /\ (Executing(d) => d = e)
    BY <1>15, <2>1 DEF RegistryInv, JobsOwned, Told, ComesFrom
  <2> QED
    BY <1>5, <1>6, <1>11, <1>15, <2>2 DEF ComesFrom
<1>16. Told'
  BY <1>15 DEF Told
<1> QED
  BY <1>5, <1>8, <1>9, <1>10, <1>13, <1>14, <1>16 DEF RegistryInv, JobsOwned

\* No job becomes pending or unknown by itself.
LEMMA JobsStep ==
  ASSUME RegistryInv, Jobs
  PROVE  RegistryInv'
<1>1. registry' = registry /\ answer' = answer /\ call' = call
  BY DEF Jobs
<1>2. /\ jobs' \in [Ids -> JobStates] /\ open' \in BOOLEAN
      /\ \A id \in Ids : /\ jobs'[id] = "pending" => jobs[id] = "pending"
                         /\ jobs'[id] = "unknown" => jobs[id] = "unknown"
  BY DEF Jobs, Finish, Forget, Shut, Done, RegistryInv, Typed, JobStates
<1>3. Typed'
  BY <1>1, <1>2 DEF RegistryInv, Typed
<1>4. /\ \A c \in Calls : InHand(c)'
      /\ AnswersLast'
  BY <1>1 DEF RegistryInv, InHand, AnswersLast, Begun, AsksTheSame, Same, Agrees
<1>5. Reserved'
  BY <1>1 DEF RegistryInv, Reserved, Begun, Executing, Same, In
<1>6. OneOwner'
  BY <1>1 DEF RegistryInv, JobsOwned, OneOwner, Owns
<1>7. OwnerStays'
  BY <1>1, <1>2 DEF RegistryInv, JobsOwned, OwnerStays, Owns, In
<1>8. Told'
  BY <1>1 DEF RegistryInv, JobsOwned, Told, ComesFrom, Owns, AsksTheSame, Same, Agrees, Executing
<1> QED
  BY <1>3, <1>4, <1>5, <1>6, <1>7, <1>8 DEF RegistryInv, JobsOwned

LEMMA NextRegistryInv == RegistryInv /\ [RegistryNext]_registryVars => RegistryInv'
<1> SUFFICES ASSUME RegistryInv, [RegistryNext]_registryVars
             PROVE  RegistryInv'
  OBVIOUS
<1>1. ASSUME NEW c \in Calls, NEW identity \in Identities, NEW payload \in Payloads,
             Send(c, identity, payload)
      PROVE  RegistryInv'
  BY <1>1, SendStep
<1>2. ASSUME NEW c \in Calls, Run(c)
      PROVE  RegistryInv'
  BY <1>2, InsertStep, LookSteps, QueueStep, OperationSteps, CompleteStep, DiscardStep DEF Run
<1>3. CASE Jobs
  BY <1>3, JobsStep
<1>4. CASE UNCHANGED registryVars
  <2>1. registry' = registry /\ answer' = answer /\ call' = call /\ jobs' = jobs /\ open' = open
    BY <1>4 DEF registryVars, serviceVars
  <2>2. Typed' /\ (\A c \in Calls : InHand(c)') /\ AnswersLast' /\ Reserved'
    BY <2>1 DEF RegistryInv, Typed, InHand, AnswersLast, Reserved, Executing, Begun, AsksTheSame,
                Same, Agrees, In
  <2>3. OneOwner' /\ OwnerStays'
    BY <2>1 DEF RegistryInv, JobsOwned, OneOwner, OwnerStays, Owns, In
  <2>4. Told'
    BY <2>1 DEF RegistryInv, JobsOwned, Told, ComesFrom, Owns, AsksTheSame, Same, Agrees, Executing
  <2> QED
    BY <2>2, <2>3, <2>4 DEF RegistryInv, JobsOwned
<1> QED
  BY <1>1, <1>2, <1>3, <1>4 DEF RegistryNext

LEMMA AlwaysRegistryInv == RegistrySpec => []RegistryInv
<1> QED
  BY InitRegistryInv, NextRegistryInv, PTL DEF RegistrySpec

-----------------------------------------------------------------------------
(* What follows.                                                           *)

\* The registry never holds more records than its limit, and every record, answer and
\* request has its type.
THEOREM RegistryTypeCorrect == RegistrySpec => []RegistryTypeOK
<1>1. RegistryInv => RegistryTypeOK
  BY DEF RegistryInv, Typed, RegistryTypeOK, InHand, Rows, Points, JobStates, At
<1> QED
  BY <1>1, AlwaysRegistryInv, PTL

\* A request that executes has its reservation in the registry, whatever is evicted, and
\* a reservation is there for a request that executes only: _complete finds its record.
THEOREM ReservationsKept == RegistrySpec => []ReservationKept
<1>1. RegistryInv => ReservationKept
  BY DEF RegistryInv, Reserved, InHand, ReservationKept
<1> QED
  BY <1>1, AlwaysRegistryInv, PTL

\* While the operation of a key executes, or the job it submitted is pending, no other
\* request with that key executes.
THEOREM OneWorkAtATime == RegistrySpec => []OneWorkPerKey
<1>1. ASSUME RegistryInv PROVE OneWorkPerKey
  <2> SUFFICES ASSUME NEW c \in Calls, NEW d \in Calls, Same(c, d), Executing(c), Working(d)
               PROVE  c = d
    BY DEF OneWorkPerKey
  <2>1. /\ \A e \in Calls : Executing(e) => e \in In(registry)
        /\ \A e, f \in In(registry) : Same(e, f) => e = f
    BY <1>1 DEF RegistryInv, Reserved
  <2>2. CASE Executing(d)
    BY <2>1, <2>2
  <2>3. CASE call[d].reply.job # None /\ jobs[call[d].reply.job] = "pending"
    <3> DEFINE id == call[d].reply.job
    <3>1. PICK e \in Calls : Owns(e, id) /\ AsksTheSame(e, d) /\ (Executing(e) => e = d)
      BY <1>1, <2>3 DEF RegistryInv, JobsOwned, Told, ComesFrom
    <3>2. id \in Ids
      BY <1>1, <2>3 DEF RegistryInv, Typed, Rows, Replies
    <3>3. e \in In(registry)
      BY <1>1, <2>3, <3>1, <3>2 DEF RegistryInv, JobsOwned, OwnerStays
    <3>4. Same(c, e)
      BY <3>1 DEF AsksTheSame, Same
    <3> QED
      BY <2>1, <3>1, <3>3, <3>4
  <2> QED
    BY <2>2, <2>3 DEF Working
<1> QED
  BY <1>1, AlwaysRegistryInv, PTL

\* Those who are told of one job asked for the same thing with the same key: a job's one
\* owner asked for what each of them did.
THEOREM JobsAgree == RegistrySpec => []SharedJobsAgree
<1>1. ASSUME RegistryInv PROVE SharedJobsAgree
  <2> SUFFICES ASSUME NEW c \in Calls, NEW d \in Calls,
                      call[c].reply.job = call[d].reply.job, call[c].reply.job # None
               PROVE  Same(c, d) /\ call[c].payload = call[d].payload
    BY DEF SharedJobsAgree
  <2> DEFINE id == call[c].reply.job
  <2>1. id \in Ids
    BY <1>1 DEF RegistryInv, Typed, Rows, Replies
  <2>2. PICK e \in Calls : Owns(e, id) /\ AsksTheSame(e, c)
    BY <1>1 DEF RegistryInv, JobsOwned, Told, ComesFrom
  <2>3. PICK f \in Calls : Owns(f, id) /\ AsksTheSame(f, d)
    BY <1>1 DEF RegistryInv, JobsOwned, Told, ComesFrom
  <2>4. e = f
    BY <1>1, <2>1, <2>2, <2>3 DEF RegistryInv, JobsOwned, OneOwner
  <2> QED
    BY <2>2, <2>3, <2>4 DEF AsksTheSame, Same, Agrees
<1> QED
  BY <1>1, AlwaysRegistryInv, PTL

-----------------------------------------------------------------------------
(* Few keys: nothing is evicted.                                           *)

\* The keys that have been sent.
Keys == {call[c].identity : c \in {d \in Calls : ~At(d, "new")}}

Few == Cardinality(Keys) <= Maximum

LEMMA FiniteImage ==
  ASSUME NEW S \in SUBSET Calls, NEW g, NEW K,
         \A c \in S : g[c] \in K, \A k \in K : \E c \in S : g[c] = k
  PROVE  /\ IsFiniteSet(K) /\ Cardinality(K) \in Nat
         /\ \A L \in SUBSET K : IsFiniteSet(L) /\ Cardinality(L) \in Nat /\ Cardinality(L) <= Cardinality(K)
<1> DEFINE f == [c \in S |-> g[c]]
<1>1. IsFiniteSet(S)
  BY RegistryAssumption, FS_Subset
<1>2. f \in Surjection(S, K)
  BY Fun_IsSurj
<1>3. IsFiniteSet(K)
  BY <1>1, <1>2, FS_Surjection
<1> QED
  BY <1>3, FS_Subset, FS_CardinalityType

LEMMA FiniteKeys ==
  /\ IsFiniteSet(Keys) /\ Cardinality(Keys) \in Nat
  /\ \A L \in SUBSET Keys : IsFiniteSet(L) /\ Cardinality(L) \in Nat /\ Cardinality(L) <= Cardinality(Keys)
<1> DEFINE g == [c \in Calls |-> call[c].identity]
           S == {d \in Calls : ~At(d, "new")}
<1>1. /\ S \in SUBSET Calls
      /\ \A c \in S : g[c] \in Keys
      /\ \A k \in Keys : \E c \in S : g[c] = k
  BY DEF Keys
<1> HIDE DEF g, S
<1> QED
  BY <1>1, FiniteImage

\* A key that is not in the registry finds room there: there are as many records as keys
\* they were made for.
LEMMA RoomForKey ==
  ASSUME RegistryInv, Few, NEW c \in Calls, At(c, "look"), Prior(c) = {}
  PROVE  Len(registry) < Maximum
<1> DEFINE K == {call[d].identity : d \in In(registry)}
           n == Len(registry)
           f == [i \in 1..n |-> call[registry[i]].identity]
<1>1. registry \in Seq(Calls) /\ Once(registry) /\ n \in Nat /\ DOMAIN registry = 1..n
  BY DEF RegistryInv, Typed
<1>2. \A d \in In(registry) : d \in Calls /\ ~At(d, "new")
  BY <1>1 DEF RegistryInv, Reserved, Begun, At, In
<1>3. \A d, e \in In(registry) : call[d].identity = call[e].identity => d = e
  BY DEF RegistryInv, Reserved, Same
<1>4. /\ \A i \in 1..n : registry[i] \in In(registry)
      /\ \A d \in In(registry) : \E i \in 1..n : registry[i] = d
  BY <1>1 DEF In
<1>5. f \in [1..n -> K]
  BY <1>4
<1>6. \A i, j \in 1..n : f[i] = f[j] => i = j
  BY <1>1, <1>3, <1>4 DEF Once
<1>7. \A k \in K : \E i \in 1..n : f[i] = k
  BY <1>4
<1> HIDE DEF f
<1>8. ExistsBijection(1..n, K)
  BY <1>5, <1>6, <1>7, Fun_IsBij DEF ExistsBijection
<1>9. Cardinality(K) = n
  BY <1>1, <1>8, FS_CountingElements
<1>10. K \cup {call[c].identity} \subseteq Keys
  BY <1>2 DEF Keys, At
<1>11. call[c].identity \notin K
  BY DEF Prior, Same
<1> HIDE DEF K, n
<1>12. IsFiniteSet(K)
  BY <1>10, FiniteKeys
<1>13. Cardinality(K \cup {call[c].identity}) = n + 1
  BY <1>9, <1>11, <1>12, FS_AddElement
<1>14. n + 1 <= Cardinality(Keys)
  BY <1>10, <1>13, FiniteKeys
<1> QED
  BY <1>1, <1>14, FiniteKeys, RegistryAssumption DEF Few, n

\* A request keeps its key.
LEMMA KeysGrow ==
  ASSUME RegistryInv, [RegistryNext]_registryVars
  PROVE  Few' => Few
<1>1. ASSUME NEW d \in Calls, ~At(d, "new")
      PROVE  ~At(d, "new")' /\ call'[d].identity = call[d].identity
  <2>1. call \in [Calls -> Rows]
    BY DEF RegistryInv, Typed
  <2>2. ASSUME NEW c \in Calls, NEW identity \in Identities, NEW payload \in Payloads,
               Send(c, identity, payload)
        PROVE  call'[d] = call[d]
    BY <1>1, <2>1, <2>2 DEF Send, At
  <2>3. ASSUME NEW c \in Calls, Run(c)
        PROVE  /\ call'[d].identity = call[d].identity
               /\ call'[d].pc = call[d].pc \/ call'[d].pc \in Points \ {"new"}
    <3>1. CASE Insert(c) \/ Full(c) \/ Conflict(c)
      BY <2>1, <3>1 DEF Insert, Full, Conflict, Refuse, Reply, Rows, Points
    <3>2. CASE Replay(c) \/ Wait(c)
      BY <2>1, <3>2 DEF Replay, Wait, Refuse, Reply, Rows, Points
    <3>3. CASE Wake(c)
      BY <2>1, <3>3 DEF Wake, Reply, Rows, Points
    <3>4. CASE (\E id \in Ids : Queue(c, id)) \/ Execute(c) \/ Fail(c)
      BY <2>1, <3>4 DEF Queue, Execute, Fail, Succeed, Rows, Points
    <3>5. CASE Complete(c) \/ Discard(c)
      BY <2>1, <3>5 DEF Complete, Discard, Refuse, Reply, Rows, Points
    <3> QED
      BY <2>3, <3>1, <3>2, <3>3, <3>4, <3>5 DEF Run
  <2>4. ASSUME Jobs \/ UNCHANGED registryVars
        PROVE  call' = call
    BY <2>4 DEF Jobs, registryVars
  <2>5. CASE \E c \in Calls : Run(c)
    <3>1. PICK c \in Calls : Run(c)
      BY <2>5
    <3>2. /\ call'[d].identity = call[d].identity
          /\ call'[d].pc = call[d].pc \/ call'[d].pc \in Points \ {"new"}
      BY <2>3, <3>1
    <3> QED
      BY <1>1, <3>2 DEF At
  <2>6. call'[d] = call[d] => ~At(d, "new")' /\ call'[d].identity = call[d].identity
    BY <1>1 DEF At
  <2> QED
    BY <2>2, <2>4, <2>5, <2>6 DEF RegistryNext
<1>2. Keys \subseteq Keys'
  BY <1>1 DEF Keys
<1> DEFINE g == [c \in Calls |-> call'[c].identity]
           S == {d \in Calls : ~(call'[d].pc = "new")}
<1>3. /\ S \in SUBSET Calls
      /\ \A c \in S : g[c] \in Keys'
      /\ \A k \in Keys' : \E c \in S : g[c] = k
  BY DEF Keys, At
<1> HIDE DEF g, S
<1>4. Cardinality(Keys') \in Nat /\ Cardinality(Keys) \in Nat /\ Cardinality(Keys) <= Cardinality(Keys')
  BY <1>2, <1>3, FiniteImage
<1> QED
  BY <1>4, RegistryAssumption DEF Few

\* With few keys the owner of a job is in the registry for good, its job being over or not.
OwnersKept == Few => \A id \in Ids : \A c \in Calls : Owns(c, id) => c \in In(registry)

\* A job comes into a call's hand by Queue only.
LEMMA OwnerEffect ==
  ASSUME RegistryInv, [RegistryNext]_registryVars, NEW id \in Ids, NEW d \in Calls, Owns(d, id)',
         ~ Queue(d, id)
  PROVE  Owns(d, id)
<1>1. call \in [Calls -> Rows] /\ answer \in [Calls -> Replies] /\ id # None
  BY RegistryAssumption DEF RegistryInv, Typed
<1>2. CASE Jobs \/ UNCHANGED registryVars
  BY <1>2 DEF Jobs, registryVars, Owns
<1>3. ASSUME NEW c \in Calls, NEW identity \in Identities, NEW payload \in Payloads,
             Send(c, identity, payload)
      PROVE  Owns(d, id)
  BY <1>1, <1>3 DEF Send, Owns
<1>4. ASSUME NEW c \in Calls, Run(c)
      PROVE  Owns(d, id)
  <2>1. CASE Insert(c)
    BY <1>1, <2>1 DEF Insert, Owns, Unanswered
  <2>2. CASE Full(c) \/ Conflict(c) \/ Replay(c) \/ Wait(c) \/ Wake(c)
    <3>1. answer' = answer /\ (call'[d].pc = "complete" => call'[d] = call[d])
      <4>1. CASE Full(c) \/ Conflict(c)
        BY <1>1, <4>1 DEF Full, Conflict, Refuse, Reply, Rows
      <4>2. CASE Replay(c) \/ Wait(c)
        BY <1>1, <4>2 DEF Replay, Wait, Refuse, Reply, Rows
      <4>3. CASE Wake(c)
        BY <1>1, <4>3 DEF Wake, Reply, Rows
      <4> QED
        BY <2>2, <4>1, <4>2, <4>3
    <3> QED
      BY <3>1 DEF Owns
  <2>3. CASE \E j \in Ids : Queue(c, j)
    <3>1. PICK j \in Ids : Queue(c, j)
      BY <2>3
    <3>2. answer' = answer /\ (d # c => call'[d] = call[d]) /\ call'[c].reply.job = j
      BY <1>1, <3>1 DEF Queue, Succeed, Rows
    <3>3. d # c \/ j # id
      BY <3>1
    <3> QED
      BY <3>2, <3>3 DEF Owns
  <2>4. CASE Execute(c) \/ Fail(c)
    <3>1. answer' = answer /\ (d # c => call'[d] = call[d]) /\ call'[c].reply.job = None
      <4>1. CASE Execute(c)
        BY <1>1, <4>1 DEF Execute, Succeed, Rows
      <4>2. CASE Fail(c)
        BY <1>1, <4>2 DEF Fail, Rows
      <4> QED
        BY <2>4, <4>1, <4>2
    <3> QED
      BY <1>1, <3>1 DEF Owns
  <2>5. CASE Complete(c)
    BY <1>1, <2>5 DEF Complete, Refuse, Reply, Owns, At, Rows
  <2>6. CASE Discard(c)
    BY <1>1, <2>6 DEF Discard, Reply, Owns, Rows
  <2> QED
    BY <1>4, <2>1, <2>2, <2>3, <2>4, <2>5, <2>6 DEF Run
<1> QED
  BY <1>2, <1>3, <1>4 DEF RegistryNext

\* With few keys a record leaves the registry when its operation has failed only.
LEMMA RecordEffect ==
  ASSUME RegistryInv, Few, [RegistryNext]_registryVars, NEW d \in In(registry), ~ Discard(d)
  PROVE  d \in In(registry')
<1>1. registry \in Seq(Calls) /\ Once(registry)
  BY DEF RegistryInv, Typed
<1>2. CASE registry' = registry
  BY <1>2
<1>3. ASSUME NEW c \in Calls, Insert(c)
      PROVE  d \in In(registry')
  <2>1. Len(registry) < Maximum
    BY <1>3, RoomForKey DEF Insert
  <2>2. registry' = Append(registry, c)
    BY <1>1, <1>3, <2>1, RegistryAssumption DEF Insert
  <2>3. c \notin In(registry)
    BY <1>3 DEF Insert, At, RegistryInv, Reserved, Begun
  <2> QED
    BY <1>1, <2>2, <2>3, AppendOne
<1>4. ASSUME NEW c \in Calls, Discard(c)
      PROVE  d \in In(registry')
  BY <1>1, <1>4, WithoutOne DEF Discard
<1>5. registry' = registry \/ \E c \in Calls : Insert(c) \/ Discard(c)
  <2>1. ASSUME NEW c \in Calls, Run(c)
        PROVE  registry' = registry \/ Insert(c) \/ Discard(c)
    <3>1. CASE Full(c) \/ Conflict(c) \/ Replay(c) \/ Wait(c) \/ Wake(c)
      BY <3>1 DEF Full, Conflict, Replay, Wait, Wake
    <3>2. CASE (\E id \in Ids : Queue(c, id)) \/ Execute(c) \/ Fail(c) \/ Complete(c)
      BY <3>2 DEF Queue, Execute, Fail, Complete
    <3> QED
      BY <2>1, <3>1, <3>2 DEF Run
  <2>2. (\E c \in Calls, identity \in Identities, payload \in Payloads : Send(c, identity, payload))
          => registry' = registry
    BY DEF Send
  <2>3. Jobs \/ UNCHANGED registryVars => registry' = registry
    BY DEF Jobs, registryVars
  <2> QED
    BY <2>1, <2>2, <2>3 DEF RegistryNext
<1> QED
  BY <1>2, <1>3, <1>4, <1>5

LEMMA AlwaysOwnersKept == RegistrySpec => []OwnersKept
<1>1. RegistryInit => OwnersKept
  BY RegistryAssumption DEF RegistryInit, OwnersKept, Owns, Unanswered
<1>2. ASSUME RegistryInv, OwnersKept, [RegistryNext]_registryVars
      PROVE  OwnersKept'
  <2> SUFFICES ASSUME Few', NEW id \in Ids, NEW d \in Calls, Owns(d, id)'
               PROVE  d \in In(registry')
    BY DEF OwnersKept, In
  <2>1. Few
    BY <1>2, KeysGrow
  <2>2. CASE Queue(d, id)
    BY <1>2, <2>2 DEF Queue, At, RegistryInv, Reserved, Executing
  <2>3. CASE ~ Queue(d, id)
    <3>1. Owns(d, id)
      BY <1>2, <2>3, OwnerEffect
    <3>2. d \in In(registry)
      BY <1>2, <2>1, <3>1 DEF OwnersKept
    <3>3. ~ Discard(d)
      BY <1>2, <3>1, RegistryAssumption
      DEF Discard, At, Owns, RegistryInv, Reserved, Executing, Unanswered
    <3> QED
      BY <1>2, <2>1, <3>2, <3>3, RecordEffect
  <2> QED
    BY <2>2, <2>3
<1>3. OwnersKept /\ UNCHANGED registryVars /\ RegistryInv => OwnersKept'
  BY <1>2
<1> QED
  BY <1>1, <1>2, <1>3, AlwaysRegistryInv, PTL DEF RegistrySpec

\* As long as no more keys are used than the registry holds, a key submits at most one job:
\* the record that leads to the first is never evicted.
THEOREM OneJobForKey == RegistrySpec => []OneJobPerKey
<1>1. ASSUME RegistryInv, OwnersKept PROVE OneJobPerKey
  <2> SUFFICES ASSUME Few, NEW c \in Calls, NEW d \in Calls, Same(c, d),
                      call[c].reply.job # None, call[d].reply.job # None
               PROVE  call[c].reply.job = call[d].reply.job
    BY DEF OneJobPerKey, Few, Keys
  <2> DEFINE i == call[c].reply.job
             j == call[d].reply.job
  <2>1. i \in Ids /\ j \in Ids
    BY <1>1 DEF RegistryInv, Typed, Rows, Replies
  <2>2. PICK e \in Calls : Owns(e, i) /\ AsksTheSame(e, c)
    BY <1>1 DEF RegistryInv, JobsOwned, Told, ComesFrom
  <2>3. PICK f \in Calls : Owns(f, j) /\ AsksTheSame(f, d)
    BY <1>1 DEF RegistryInv, JobsOwned, Told, ComesFrom
  <2> HIDE DEF i, j
  <2>4. e \in In(registry) /\ f \in In(registry)
    BY <1>1, <2>1, <2>2, <2>3 DEF OwnersKept
  <2>5. e = f
    BY <1>1, <2>2, <2>3, <2>4 DEF RegistryInv, Reserved, AsksTheSame, Same
  <2>6. call[e].pc = "complete" => answer[e].job = None
    BY <1>1, <2>2 DEF RegistryInv, AnswersLast, Unanswered
  <2>7. i = j
    BY <2>1, <2>2, <2>3, <2>5, <2>6, RegistryAssumption DEF Owns
  <2> QED
    BY <2>7 DEF i, j
<1> QED
  BY <1>1, AlwaysRegistryInv, AlwaysOwnersKept, PTL

=============================================================================
