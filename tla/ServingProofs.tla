----------------------------- MODULE ServingProofs -----------------------------
(***************************************************************************)
(* What a user of the web application can rely on, for any limits and any    *)
(* number of requests: proofs for JobExecutor, for any number of jobs; for    *)
(* LoopbackServer, for any number of request threads and of connections and  *)
(* for a shutdown at any moment; and for ResearchPage, for any states,        *)
(* evidence and jobs of a session and any interleaving of the page with      *)
(* those who move the session on.                                           *)
(***************************************************************************)
EXTENDS JobExecutor, LoopbackServer, ResearchPage, FiniteSetTheorems, SequenceTheorems, TLAPS

-----------------------------------------------------------------------------
(* Sequences.                                                              *)

\* In is the range of a sequence.
LEMMA InSeq ==
  ASSUME NEW S, NEW s \in Seq(S)
  PROVE  In(s) = {s[i] : i \in 1..Len(s)}
BY LenProperties DEF In

\* What is left of a sequence of terminal ids after n evictions.
LEMMA RestOfSeq ==
  ASSUME NEW S, NEW s \in Seq(S), NEW n \in 0..Len(s)
  PROVE  /\ Rest(s, n) \in Seq(S)
         /\ Len(Rest(s, n)) = Len(s) - n
         /\ \A i \in 1..Len(s) - n : Rest(s, n)[i] = s[n + i]
         /\ In(Rest(s, n)) = {s[i] : i \in n + 1..Len(s)}
         /\ In(SubSeq(s, 1, n)) = {s[i] : i \in 1..n}
<1>1. Len(s) \in Nat /\ \A i \in 1..Len(s) : s[i] \in S
  BY LenProperties, ElementOfSeq
<1>2. /\ SubSeq(s, n + 1, Len(s)) \in Seq(S)
      /\ Len(SubSeq(s, n + 1, Len(s))) = Len(s) - n
      /\ \A i \in 1..Len(s) - n : SubSeq(s, n + 1, Len(s))[i] = s[n + i]
  BY <1>1, SubSeqProperties
<1>3. /\ SubSeq(s, 1, n) \in Seq(S)
      /\ Len(SubSeq(s, 1, n)) = n
      /\ \A i \in 1..n : SubSeq(s, 1, n)[i] = s[i]
  BY <1>1, SubSeqProperties
<1>4. In(Rest(s, n)) = {Rest(s, n)[i] : i \in 1..Len(s) - n}
  BY <1>2, InSeq DEF Rest
<1>5. {Rest(s, n)[i] : i \in 1..Len(s) - n} = {s[i] : i \in n + 1..Len(s)}
  <2>1. \A i \in n + 1..Len(s) : i - n \in 1..Len(s) - n /\ s[i] = Rest(s, n)[i - n]
    BY <1>1, <1>2 DEF Rest
  <2>2. \A i \in 1..Len(s) - n : n + i \in n + 1..Len(s) /\ Rest(s, n)[i] = s[n + i]
    BY <1>1, <1>2 DEF Rest
  <2> QED
    BY <2>1, <2>2
<1>6. In(SubSeq(s, 1, n)) = {s[i] : i \in 1..n}
  <2>1. In(SubSeq(s, 1, n)) = {SubSeq(s, 1, n)[i] : i \in 1..n}
    BY <1>3, InSeq
  <2> QED
    BY <1>3, <2>1
<1> QED
  BY <1>2, <1>4, <1>5, <1>6 DEF Rest

-----------------------------------------------------------------------------
(* The inductive invariant.                                                *)

Typed ==
  /\ DOMAIN records \subseteq issued /\ issued \subseteq Ids
  /\ \A id \in DOMAIN records : records[id] \in Statuses
  /\ order \in Seq(Ids) /\ queue \in Seq(Ids)
  /\ accepted \in Seq(Ids) /\ begun \in Seq(Ids)
  /\ permits \in Nat
  /\ closed \in BOOLEAN /\ thread \in {"none", "alive", "ended"}
  /\ pc \in {"idle", "taken", "operation"}
  /\ job \in Ids \cup {NoJob} /\ (pc = "idle" <=> job = NoJob)

\* No job is accepted twice, jobs begin in order, and every id that anyone holds
\* came from the factory.
History ==
  /\ \A i, j \in 1..Len(accepted) : accepted[i] = accepted[j] => i = j
  /\ In(accepted) \subseteq issued /\ In(queue) \subseteq issued
  /\ pc # "idle" => job \in issued
  /\ Len(begun) <= Len(accepted)
  /\ \A i \in 1..Len(begun) : begun[i] = accepted[i]
  /\ pc = "operation" => Len(begun) > 0 /\ job = begun[Len(begun)]
  /\ thread = "none" => Len(accepted) = 0 /\ pc = "idle"

\* Seen from its end the queue lists the accepted jobs that have not begun; what
\* is before them was left by submissions that failed, and is no accepted job.
Position(i) == i + Len(accepted) - Len(queue)

QueueOK ==
  /\ Len(accepted) - Len(begun) <= Len(queue) + (IF pc = "taken" THEN 1 ELSE 0)
  /\ \A i \in 1..Len(queue) :
       IF Position(i) > Len(begun) THEN queue[i] = accepted[Position(i)]
                                   ELSE queue[i] \notin In(accepted)
  /\ pc = "taken" =>
       IF Len(accepted) - Len(begun) = Len(queue) + 1
       THEN job = accepted[Len(begun) + 1]
       ELSE job \notin In(accepted)

FinishedCount == IF pc = "operation" THEN Len(begun) - 1 ELSE Len(begun)

\* The terminal ids are the last jobs to have finished, and no other job that has
\* ended has a record.
OrderOK ==
  /\ Len(order) <= FinishedCount
  /\ \A i \in 1..Len(order) : order[i] = begun[FinishedCount - Len(order) + i]
  /\ DOMAIN records \ Unfinished = In(order)

ExecutorInv == Typed /\ History /\ QueueOK /\ UnfinishedKept /\ OrderOK /\ Bounded

\* The jobs that were accepted and have not ended, by their place in accepted.
LEMMA UnfinishedAccepted ==
  ASSUME Typed, History, UnfinishedKept
  PROVE  /\ Unfinished \subseteq In(accepted)
         /\ IsFiniteSet(Unfinished) /\ Cardinality(Unfinished) \in Nat
<1>1. Unfinished \subseteq In(accepted)
  <2>1. In(accepted) = {accepted[i] : i \in 1..Len(accepted)}
    BY InSeq DEF Typed
  <2>2. Len(accepted) \in Nat /\ Len(begun) \in Nat
    BY LenProperties DEF Typed
  <2> QED
    BY <2>1, <2>2 DEF UnfinishedKept, History, Typed
<1>2. Unfinished \subseteq Ids
  BY DEF Unfinished, Typed
<1> QED
  BY <1>1, <1>2, ExecutorAssumption, FS_Subset, FS_CardinalityType

LEMMA RecordsFinite ==
  ASSUME Typed
  PROVE  /\ IsFiniteSet(DOMAIN records) /\ Cardinality(DOMAIN records) \in Nat
         /\ IsFiniteSet(Ids)
BY ExecutorAssumption, FS_Subset, FS_CardinalityType DEF Typed

\* No id is listed twice as terminal.
LEMMA OrderInjective ==
  ASSUME Typed, History, OrderOK, NEW i \in 1..Len(order), NEW j \in 1..Len(order),
         order[i] = order[j]
  PROVE  i = j
<1> DEFINE k == FinishedCount - Len(order)
<1>1. Len(order) \in Nat /\ Len(begun) \in Nat /\ Len(accepted) \in Nat
  BY LenProperties DEF Typed
<1>2. k \in Nat /\ k + Len(order) <= Len(begun)
  BY <1>1 DEF OrderOK, FinishedCount, History, Typed
<1>3. order[i] = begun[k + i] /\ order[j] = begun[k + j]
  BY DEF OrderOK
<1>4. k + i \in 1..Len(begun) /\ k + j \in 1..Len(begun)
  BY <1>1, <1>2
<1>5. accepted[k + i] = accepted[k + j]
  BY <1>3, <1>4 DEF History
<1>6. k + i \in 1..Len(accepted) /\ k + j \in 1..Len(accepted)
  BY <1>1, <1>4 DEF History
<1>7. k + i = k + j
  BY <1>5, <1>6 DEF History
<1> QED
  BY <1>1, <1>2, <1>7

\* Evictions take terminal records only, and take id and record together.
LEMMA Evicting ==
  ASSUME Typed, History, OrderOK, NEW n \in 0..Len(order)
  PROVE  /\ Left(DOMAIN records, order, n) = Unfinished \cup In(Rest(order, n))
         /\ Left(DOMAIN records, order, n) \subseteq DOMAIN records
         /\ Unfinished \cap In(Rest(order, n)) = {}
<1> order \in Seq(Ids)
  BY DEF Typed
<1>1. /\ In(order) = {order[i] : i \in 1..Len(order)}
      /\ In(Rest(order, n)) = {order[i] : i \in n + 1..Len(order)}
      /\ In(SubSeq(order, 1, n)) = {order[i] : i \in 1..n}
      /\ Len(order) \in Nat
  <2>1. In(order) = {order[i] : i \in 1..Len(order)} /\ Len(order) \in Nat
    BY InSeq, LenProperties
  <2> QED
    BY <2>1, RestOfSeq
<1>2. In(SubSeq(order, 1, n)) \cap In(Rest(order, n)) = {}
  BY <1>1, OrderInjective
<1>3. In(order) = In(SubSeq(order, 1, n)) \cup In(Rest(order, n))
  BY <1>1
<1>4. Unfinished \subseteq DOMAIN records
  BY DEF Unfinished
<1> QED
  BY <1>2, <1>3, <1>4 DEF OrderOK, Left

LEMMA Lengths ==
  ASSUME Typed
  PROVE  /\ Len(order) \in Nat /\ Len(queue) \in Nat
         /\ Len(accepted) \in Nat /\ Len(begun) \in Nat
         /\ \A i \in 1..Len(accepted) : accepted[i] \in In(accepted)
         /\ \A i \in 1..Len(queue) : queue[i] \in In(queue)
         /\ \A i \in 1..Len(order) : order[i] \in In(order)
<1> USE DEF Typed
<1>1. /\ In(accepted) = {accepted[i] : i \in 1..Len(accepted)}
      /\ In(queue) = {queue[i] : i \in 1..Len(queue)}
      /\ In(order) = {order[i] : i \in 1..Len(order)}
  BY InSeq
<1> QED
  BY <1>1, LenProperties

\* Appending an id to a sequence adds it to what the sequence lists.
LEMMA Appended ==
  ASSUME NEW S, NEW s \in Seq(S), NEW e \in S
  PROVE  /\ Append(s, e) \in Seq(S)
         /\ Len(Append(s, e)) = Len(s) + 1
         /\ \A i \in 1..Len(s) : Append(s, e)[i] = s[i]
         /\ Append(s, e)[Len(s) + 1] = e
         /\ In(Append(s, e)) = In(s) \cup {e}
<1>1. /\ Append(s, e) \in Seq(S)
      /\ Len(Append(s, e)) = Len(s) + 1
      /\ \A i \in 1..Len(s) : Append(s, e)[i] = s[i]
      /\ Append(s, e)[Len(s) + 1] = e
      /\ Len(s) \in Nat
  BY AppendProperties, LenProperties
<1>2. /\ In(Append(s, e)) = {Append(s, e)[i] : i \in 1..Len(s) + 1}
      /\ In(s) = {s[i] : i \in 1..Len(s)}
  BY <1>1, InSeq
<1>3. 1..Len(s) + 1 = 1..Len(s) \cup {Len(s) + 1}
  BY <1>1
<1> QED
  BY <1>1, <1>2, <1>3

-----------------------------------------------------------------------------
(* Submissions.                                                            *)

\* A submission with n evictions that succeeds.
Submitted(id, n) ==
  /\ Reservable(n) /\ Room(n)
  /\ id \notin issued
  /\ order' = Rest(order, n)
  /\ records' = [j \in Left(DOMAIN records, order, n) \cup {id} |->
                   IF j = id THEN "queued" ELSE records[j]]
  /\ permits' = permits - 1
  /\ queue' = Append(queue, id)
  /\ thread' = "alive"
  /\ issued' = issued \cup {id} /\ accepted' = Append(accepted, id)
  /\ UNCHANGED <<closed, job, pc, begun>>

LEMMA SubmittedTyped ==
  ASSUME ExecutorInv, NEW id \in Ids, NEW n \in 0..Len(order), Submitted(id, n)
  PROVE  Typed' /\ History' /\ QueueOK'
<1> USE DEF ExecutorInv
<1> /\ order \in Seq(Ids) /\ queue \in Seq(Ids) /\ accepted \in Seq(Ids)
  BY DEF Typed
<1>1. /\ Len(order) \in Nat /\ Len(queue) \in Nat
      /\ Len(accepted) \in Nat /\ Len(begun) \in Nat
      /\ \A i \in 1..Len(accepted) : accepted[i] \in In(accepted)
      /\ \A i \in 1..Len(queue) : queue[i] \in In(queue)
  BY Lengths
<1>2. /\ accepted' \in Seq(Ids)
      /\ Len(accepted') = Len(accepted) + 1
      /\ \A i \in 1..Len(accepted) : accepted'[i] = accepted[i]
      /\ accepted'[Len(accepted) + 1] = id
      /\ In(accepted') = In(accepted) \cup {id}
  BY Appended DEF Submitted
<1>3. /\ queue' \in Seq(Ids)
      /\ Len(queue') = Len(queue) + 1
      /\ \A i \in 1..Len(queue) : queue'[i] = queue[i]
      /\ queue'[Len(queue) + 1] = id
      /\ In(queue') = In(queue) \cup {id}
  BY Appended DEF Submitted
<1>4. id \notin In(accepted) /\ id \notin In(queue) /\ (pc # "idle" => id # job)
  BY DEF Submitted, History
<1>5. Typed'
  <2>1. order' \in Seq(Ids)
    BY RestOfSeq DEF Submitted
  <2>2. Left(DOMAIN records, order, n) \subseteq DOMAIN records
    BY DEF Left
  <2>3. permits' \in Nat
    BY DEF Submitted, Reservable, Typed
  <2>4. DOMAIN records' \subseteq issued' /\ issued' \subseteq Ids
    BY <2>2 DEF Submitted, Typed
  <2>5. \A j \in DOMAIN records' : records'[j] \in Statuses
    BY <2>2 DEF Submitted, Typed, Statuses
  <2>6. /\ closed' \in BOOLEAN /\ thread' \in {"none", "alive", "ended"}
        /\ pc' \in {"idle", "taken", "operation"}
        /\ job' \in Ids \cup {NoJob} /\ (pc' = "idle" <=> job' = NoJob)
    BY DEF Submitted, Typed
  <2>7. queue' \in Seq(Ids) /\ accepted' \in Seq(Ids) /\ begun' \in Seq(Ids)
    BY <1>2, <1>3 DEF Submitted, Typed
  <2> QED
    BY <2>1, <2>3, <2>4, <2>5, <2>6, <2>7 DEF Typed
<1>6. History'
  <2>1. 1..Len(accepted') = 1..Len(accepted) \cup {Len(accepted) + 1}
    BY <1>1, <1>2
  <2>2. \A i, j \in 1..Len(accepted') : accepted'[i] = accepted'[j] => i = j
    <3>1. ASSUME NEW i \in 1..Len(accepted), accepted'[i] = accepted'[Len(accepted) + 1]
          PROVE  FALSE
      BY <1>1, <1>2, <1>4, <3>1
    <3>2. ASSUME NEW i \in 1..Len(accepted), NEW j \in 1..Len(accepted),
                 accepted'[i] = accepted'[j]
          PROVE  i = j
      BY <1>2, <3>2 DEF History
    <3>3. \A i \in 1..Len(accepted') : i \in 1..Len(accepted) \/ i = Len(accepted) + 1
      BY <2>1
    <3> QED
      BY <3>1, <3>2, <3>3
  <2>3. \A i \in 1..Len(begun) : i \in 1..Len(accepted)
    BY <1>1 DEF History
  <2> QED
    BY <1>1, <1>2, <1>3, <2>2, <2>3 DEF Submitted, History
<1>7. QueueOK'
  <2>1. \A i \in 1..Len(queue') :
          IF i + Len(accepted') - Len(queue') > Len(begun)
          THEN queue'[i] = accepted'[i + Len(accepted') - Len(queue')]
          ELSE queue'[i] \notin In(accepted')
    <3> TAKE i \in 1..Len(queue')
    <3>1. CASE i = Len(queue) + 1
      BY <1>1, <1>2, <1>3, <3>1 DEF History
    <3>2. CASE i \in 1..Len(queue)
      <4>1. queue'[i] = queue[i] /\ queue[i] # id
        BY <1>1, <1>3, <1>4, <3>2
      <4>2. i + Len(accepted') - Len(queue') = Position(i)
        BY <1>1, <1>2, <1>3, <3>2 DEF Position
      <4>3. Position(i) > Len(begun) => Position(i) \in 1..Len(accepted)
        BY <1>1, <3>2 DEF Position
      <4> QED
        BY <1>2, <3>2, <4>1, <4>2, <4>3 DEF QueueOK
    <3> QED
      BY <1>1, <1>3, <3>1, <3>2
  <2>2. pc = "taken" /\ Len(accepted) - Len(begun) = Len(queue) + 1 =>
          Len(begun) + 1 \in 1..Len(accepted)
    BY <1>1
  <2>3. /\ pc' = pc /\ job' = job /\ begun' = begun
    BY DEF Submitted
  <2>4. Len(accepted') - Len(begun') <= Len(queue') + (IF pc' = "taken" THEN 1 ELSE 0)
    <3>1. Len(accepted) - Len(begun) <= Len(queue) + (IF pc = "taken" THEN 1 ELSE 0)
      BY DEF QueueOK
    <3> QED
      BY <1>1, <1>2, <1>3, <2>3, <3>1
  <2>5. pc' = "taken" =>
          IF Len(accepted') - Len(begun') = Len(queue') + 1
          THEN job' = accepted'[Len(begun') + 1]
          ELSE job' \notin In(accepted')
    <3> SUFFICES ASSUME pc = "taken"
                 PROVE  IF Len(accepted') - Len(begun) = Len(queue') + 1
                        THEN job = accepted'[Len(begun) + 1]
                        ELSE job \notin In(accepted')
      BY <2>3
    <3>1. IF Len(accepted) - Len(begun) = Len(queue) + 1
          THEN job = accepted[Len(begun) + 1]
          ELSE job \notin In(accepted)
      BY DEF QueueOK
    <3>2. Len(accepted') - Len(begun) = Len(queue') + 1
            <=> Len(accepted) - Len(begun) = Len(queue) + 1
      BY <1>1, <1>2, <1>3
    <3> QED
      BY <1>2, <1>4, <2>2, <3>1, <3>2
  <2> QED
    BY <2>1, <2>3, <2>4, <2>5 DEF QueueOK, Position
<1> QED
  BY <1>5, <1>6, <1>7

\* Evictions leave the latest terminal ids.
LEMMA EvictedOrder ==
  ASSUME Typed, OrderOK, NEW n \in 0..Len(order),
         order' = Rest(order, n), begun' = begun, pc' = pc
  PROVE  /\ Len(order') <= FinishedCount'
         /\ \A i \in 1..Len(order') : order'[i] = begun'[FinishedCount' - Len(order') + i]
<1> order \in Seq(Ids)
  BY DEF Typed
<1>1. /\ Len(order) \in Nat /\ Len(begun) \in Nat
      /\ FinishedCount' = FinishedCount /\ FinishedCount \in Int
  BY Lengths DEF FinishedCount
<1>2. /\ Len(order') = Len(order) - n
      /\ \A i \in 1..Len(order) - n : order'[i] = order[n + i]
  BY RestOfSeq
<1>3. \A i \in 1..Len(order') : order'[i] = begun[FinishedCount - Len(order') + i]
  <2> TAKE i \in 1..Len(order')
  <2>1. n + i \in 1..Len(order)
    BY <1>1, <1>2
  <2>2. order'[i] = begun[FinishedCount - Len(order) + (n + i)]
    BY <1>2, <2>1 DEF OrderOK
  <2>3. FinishedCount - Len(order) + (n + i) = FinishedCount - Len(order') + i
    BY <1>1, <1>2
  <2> QED
    BY <2>2, <2>3
<1>4. Len(order') <= FinishedCount
  BY <1>1, <1>2 DEF OrderOK
<1> QED
  BY <1>1, <1>3, <1>4

LEMMA SubmittedRecords ==
  ASSUME ExecutorInv, NEW id \in Ids, NEW n \in 0..Len(order), Submitted(id, n)
  PROVE  UnfinishedKept' /\ OrderOK' /\ Bounded'
<1> USE DEF ExecutorInv
<1> DEFINE kept == Left(DOMAIN records, order, n)
<1>1. /\ kept = Unfinished \cup In(Rest(order, n)) /\ kept \subseteq DOMAIN records
      /\ Unfinished \cap In(Rest(order, n)) = {}
  BY Evicting
<1>2. id \notin DOMAIN records /\ id \notin Unfinished
  BY DEF Submitted, Typed, Unfinished
<1>3. DOMAIN records' = kept \cup {id} /\ records'[id] = "queued"
      /\ \A j \in kept : records'[j] = records[j]
  BY <1>1, <1>2 DEF Submitted
<1>4. Unfinished' = Unfinished \cup {id}
  BY <1>1, <1>2, <1>3 DEF Unfinished, Terminal
<1>5. UnfinishedKept'
  <2>1. /\ Len(accepted) \in Nat /\ Len(begun) \in Nat /\ Len(begun) <= Len(accepted)
    BY Lengths DEF History
  <2>2. /\ Len(accepted') = Len(accepted) + 1
        /\ \A i \in 1..Len(accepted) : accepted'[i] = accepted[i]
        /\ accepted'[Len(accepted) + 1] = id
    BY Appended DEF Submitted, Typed
  <2>3. {accepted'[i] : i \in Len(begun) + 1..Len(accepted')}
          = {accepted[i] : i \in Len(begun) + 1..Len(accepted)} \cup {id}
    <3>1. Len(begun) + 1..Len(accepted') = Len(begun) + 1..Len(accepted)
                                             \cup {Len(accepted) + 1}
      BY <2>1, <2>2
    <3>2. \A i \in Len(begun) + 1..Len(accepted) : accepted'[i] = accepted[i]
      BY <2>1, <2>2
    <3> QED
      BY <2>2, <3>1, <3>2
  <2>4. begun' = begun /\ pc' = pc /\ job' = job
    BY DEF Submitted
  <2> QED
    BY <1>4, <2>3, <2>4 DEF UnfinishedKept
<1>6. OrderOK'
  <2>1. DOMAIN records' \ Unfinished' = In(order')
    BY <1>1, <1>2, <1>3, <1>4 DEF Submitted
  <2> QED
    BY <2>1, EvictedOrder DEF OrderOK, Submitted
<1>7. Bounded'
  <2>1. Cardinality(Unfinished') = Cardinality(Unfinished) + 1
        /\ Cardinality(Unfinished) \in Nat
    BY <1>2, <1>4, UnfinishedAccepted, FS_AddElement
  <2>2. IsFiniteSet(kept) /\ Cardinality(kept) \in Nat
    BY <1>1, RecordsFinite, FS_Subset, FS_CardinalityType
  <2>3. Cardinality(DOMAIN records') = Cardinality(kept) + 1
    BY <1>1, <1>2, <1>3, <2>2, FS_AddElement
  <2>4. Cardinality(kept) < MaxRecords
    BY DEF Submitted, Room
  <2>5. permits' = permits - 1 /\ permits \in Nat
    BY DEF Submitted, Typed
  <2> QED
    BY <2>1, <2>2, <2>3, <2>4, <2>5, ExecutorAssumption DEF Bounded
<1> QED
  BY <1>5, <1>6, <1>7

LEMMA SubmitStep ==
  ASSUME ExecutorInv, NEW id \in Ids, Submit(id)
  PROVE  ExecutorInv'
<1>1. PICK n \in 0..Len(order) : Submitted(id, n)
  BY DEF Submit, Submitted
<1> QED
  BY <1>1, SubmittedTyped, SubmittedRecords DEF ExecutorInv

\* A submission that fails changes nothing but the evicted records, the ids that
\* are used up and, while there is no worker thread, the orphans in the queue.
LEMMA SubmitFailsStep ==
  ASSUME ExecutorInv, NEW id \in Ids, SubmitFails(id)
  PROVE  ExecutorInv'
<1> USE DEF ExecutorInv
<1> order \in Seq(Ids) /\ queue \in Seq(Ids) /\ accepted \in Seq(Ids)
  BY DEF Typed
<1>1. PICK n \in 0..Len(order) :
        /\ id \notin issued
        /\ order' = Rest(order, n)
        /\ records' = Keep(records, Left(DOMAIN records, order, n))
        /\ issued' = issued \cup {id}
        /\ queue' \in {queue} \cup (IF thread = "none" THEN {Append(queue, id)} ELSE {})
        /\ UNCHANGED <<permits, closed, thread, job, pc, accepted, begun>>
  BY DEF SubmitFails
<1> DEFINE kept == Left(DOMAIN records, order, n)
<1>2. /\ kept = Unfinished \cup In(Rest(order, n)) /\ kept \subseteq DOMAIN records
      /\ Unfinished \cap In(Rest(order, n)) = {}
  BY Evicting
<1>3. DOMAIN records' = kept /\ \A j \in kept : records'[j] = records[j]
  BY <1>1 DEF Keep
<1>4. Unfinished' = Unfinished
  BY <1>2, <1>3 DEF Unfinished
<1>5. Typed'
  <2>1. order' \in Seq(Ids)
    BY <1>1, RestOfSeq
  <2>2. queue' \in Seq(Ids)
    <3>1. Append(queue, id) \in Seq(Ids)
      BY Appended
    <3>2. queue' = queue \/ queue' = Append(queue, id)
      BY <1>1
    <3> QED
      BY <3>1, <3>2
  <2>3. DOMAIN records' \subseteq issued' /\ issued' \subseteq Ids
    BY <1>1, <1>2, <1>3 DEF Typed
  <2>4. \A j \in DOMAIN records' : records'[j] \in Statuses
    BY <1>2, <1>3 DEF Typed
  <2> QED
    <3>1. /\ closed' \in BOOLEAN /\ thread' \in {"none", "alive", "ended"}
          /\ pc' \in {"idle", "taken", "operation"} /\ permits' \in Nat
          /\ job' \in Ids \cup {NoJob} /\ (pc' = "idle" <=> job' = NoJob)
      BY <1>1 DEF Typed
    <3>2. accepted' \in Seq(Ids) /\ begun' \in Seq(Ids)
      BY <1>1 DEF Typed
    <3> QED
      BY <2>1, <2>2, <2>3, <2>4, <3>1, <3>2 DEF Typed
<1>6. History'
  <2>1. In(queue') \subseteq issued'
    <3>1. In(Append(queue, id)) = In(queue) \cup {id}
      BY Appended
    <3> QED
      BY <1>1, <3>1 DEF History
  <2> QED
    BY <1>1, <2>1 DEF History
<1>7. QueueOK'
  <2>1. CASE queue' = queue
    BY <1>1, <2>1 DEF QueueOK, Position
  <2>2. CASE thread = "none" /\ queue' = Append(queue, id)
    <3>1. /\ Len(accepted) = 0 /\ pc = "idle" /\ Len(begun) = 0 /\ Len(queue) \in Nat
          /\ In(accepted) = {}
      <4>1. Len(accepted) = 0 /\ pc = "idle"
        BY <2>2 DEF History
      <4>2. In(accepted) = {accepted[i] : i \in 1..Len(accepted)}
        BY InSeq
      <4> QED
        BY <4>1, <4>2, Lengths DEF History
    <3>2. Len(queue') = Len(queue) + 1
      BY <2>2, Appended
    <3>3. accepted' = accepted /\ pc' = "idle" /\ begun' = begun
      BY <1>1, <3>1
    <3>4. \A i \in 1..Len(queue') :
            IF Position(i)' > Len(begun')
            THEN queue'[i] = accepted'[Position(i)'] ELSE queue'[i] \notin In(accepted')
      <4> TAKE i \in 1..Len(queue')
      <4>1. ~(Position(i)' > Len(begun'))
        BY <3>1, <3>2, <3>3 DEF Position
      <4> QED
        BY <3>1, <3>3, <4>1
    <3>5. Len(accepted') - Len(begun') <= Len(queue') + (IF pc' = "taken" THEN 1 ELSE 0)
      BY <3>1, <3>2, <3>3
    <3> QED
      BY <3>3, <3>4, <3>5 DEF QueueOK
  <2> QED
    BY <1>1, <2>1, <2>2
<1>8. UnfinishedKept'
  BY <1>1, <1>4 DEF UnfinishedKept
<1>9. OrderOK'
  <2>1. DOMAIN records' \ Unfinished' = In(order')
    BY <1>1, <1>2, <1>3, <1>4
  <2> QED
    BY <1>1, <2>1, EvictedOrder DEF OrderOK
<1>10. Bounded'
  <2>1. Cardinality(kept) \in Nat /\ Cardinality(kept) <= Cardinality(DOMAIN records)
    BY <1>2, RecordsFinite, FS_Subset, FS_CardinalityType
  <2> QED
    BY <1>1, <1>3, <1>4, <2>1, RecordsFinite, ExecutorAssumption DEF Bounded
<1> QED
  BY <1>5, <1>6, <1>7, <1>8, <1>9, <1>10

-----------------------------------------------------------------------------
(* The worker thread.                                                      *)

\* The thread takes what is at the head of the queue: the next accepted job, or
\* an orphan.
LEMMA DequeueStep ==
  ASSUME ExecutorInv, Dequeue
  PROVE  ExecutorInv'
<1> USE DEF ExecutorInv
<1> queue \in Seq(Ids) /\ queue # <<>>
  BY DEF Typed, Dequeue
<1>1. /\ thread = "alive" /\ pc = "idle" /\ job' = Head(queue) /\ pc' = "taken"
      /\ queue' = Tail(queue)
      /\ UNCHANGED <<records, order, permits, closed, thread, historyVars>>
  BY DEF Dequeue
<1>2. /\ Len(queue) \in Nat \ {0} /\ Len(accepted) \in Nat /\ Len(begun) \in Nat
      /\ \A i \in 1..Len(queue) : queue[i] \in In(queue)
  BY Lengths, EmptySeq DEF Typed
<1>3. /\ job' = queue[1] /\ job' \in Ids
      /\ queue' \in Seq(Ids) /\ Len(queue') = Len(queue) - 1
      /\ \A i \in 1..Len(queue') : queue'[i] = queue[i + 1]
  BY <1>1, HeadTailProperties
<1>4. In(queue') \subseteq In(queue) /\ job' \in In(queue)
  <2>1. In(queue') = {queue'[i] : i \in 1..Len(queue')}
    BY <1>3, InSeq
  <2>2. \A i \in 1..Len(queue') : i + 1 \in 1..Len(queue)
    BY <1>2, <1>3
  <2> QED
    BY <1>2, <1>3, <2>1, <2>2
<1>5. Typed'
  BY <1>1, <1>3, ExecutorAssumption DEF Typed, historyVars
<1>6. History'
  BY <1>1, <1>4 DEF History, historyVars
<1>7. QueueOK'
  <2>1. \A i \in 1..Len(queue) :
          IF Position(i) > Len(begun) THEN queue[i] = accepted[Position(i)]
                                      ELSE queue[i] \notin In(accepted)
    BY DEF QueueOK
  <2>2. Len(accepted) - Len(begun) <= Len(queue)
    <3>1. Len(accepted) - Len(begun) <= Len(queue) + (IF pc = "taken" THEN 1 ELSE 0)
      BY DEF QueueOK
    <3> QED
      BY <1>1, <1>2, <3>1
  <2>3. \A i \in 1..Len(queue') : Position(i)' = Position(i + 1) /\ i + 1 \in 1..Len(queue)
    BY <1>1, <1>2, <1>3 DEF Position, historyVars
  <2>4. \A i \in 1..Len(queue') :
          IF Position(i)' > Len(begun') THEN queue'[i] = accepted'[Position(i)']
                                        ELSE queue'[i] \notin In(accepted')
    BY <1>1, <1>3, <2>1, <2>3 DEF historyVars
  <2>5. IF Len(accepted) - Len(begun) = Len(queue)
        THEN job' = accepted[Len(begun) + 1]
        ELSE job' \notin In(accepted)
    <3>1. Position(1) = 1 + Len(accepted) - Len(queue) /\ 1 \in 1..Len(queue)
      BY <1>2 DEF Position
    <3>2. CASE Len(accepted) - Len(begun) = Len(queue)
      <4>1. Position(1) > Len(begun) /\ Position(1) = Len(begun) + 1
        BY <1>2, <3>1, <3>2
      <4> QED
        BY <1>3, <2>1, <3>1, <3>2, <4>1
    <3>3. CASE Len(accepted) - Len(begun) # Len(queue)
      <4>1. ~(Position(1) > Len(begun))
        BY <1>2, <2>2, <3>1, <3>3
      <4> QED
        BY <1>3, <2>1, <3>1, <3>3, <4>1
    <3> QED
      BY <3>2, <3>3
  <2>6. Len(queue') + 1 = Len(queue)
    BY <1>2, <1>3
  <2> QED
    BY <1>1, <2>2, <2>4, <2>5, <2>6 DEF QueueOK, historyVars
<1>8. Unfinished' = Unfinished
  BY <1>1 DEF Unfinished
<1>9. UnfinishedKept' /\ OrderOK' /\ Bounded'
  BY <1>1, <1>8 DEF UnfinishedKept, OrderOK, FinishedCount, Bounded, historyVars
<1> QED
  BY <1>5, <1>6, <1>7, <1>9

\* Every record belongs to an accepted job.
LEMMA RecordsAccepted ==
  ASSUME Typed, History, UnfinishedKept, OrderOK
  PROVE  DOMAIN records \subseteq In(accepted)
<1>1. /\ Len(order) \in Nat /\ Len(begun) \in Nat /\ Len(accepted) \in Nat
      /\ \A i \in 1..Len(accepted) : accepted[i] \in In(accepted)
  BY Lengths
<1>2. \A i \in 1..Len(order) : order[i] \in In(accepted)
  <2> TAKE i \in 1..Len(order)
  <2> DEFINE k == FinishedCount - Len(order) + i
  <2>1. k \in 1..Len(begun) /\ k \in 1..Len(accepted)
    BY <1>1 DEF OrderOK, FinishedCount, History
  <2>2. order[i] = begun[k]
    BY DEF OrderOK
  <2>3. begun[k] = accepted[k]
    BY <2>1 DEF History
  <2> QED
    BY <1>1, <2>1, <2>2, <2>3
<1>3. In(order) = {order[i] : i \in 1..Len(order)}
  BY InSeq DEF Typed
<1> QED
  BY <1>2, <1>3, UnfinishedAccepted DEF OrderOK

\* The job the thread has taken is the next accepted job exactly if it has a record.
LEMMA TakenJob ==
  ASSUME ExecutorInv, pc = "taken"
  PROVE  /\ job \in DOMAIN records =>
              /\ Len(accepted) - Len(begun) = Len(queue) + 1
              /\ job = accepted[Len(begun) + 1] /\ Len(begun) + 1 \in 1..Len(accepted)
              /\ job \in Unfinished
         /\ job \notin DOMAIN records => Len(accepted) - Len(begun) <= Len(queue)
<1> USE DEF ExecutorInv
<1>1. Len(begun) \in Nat /\ Len(accepted) \in Nat /\ Len(queue) \in Nat
  BY Lengths
<1>2. IF Len(accepted) - Len(begun) = Len(queue) + 1
      THEN job = accepted[Len(begun) + 1]
      ELSE job \notin In(accepted)
  BY DEF QueueOK
<1>3. ASSUME Len(accepted) - Len(begun) = Len(queue) + 1
      PROVE  /\ Len(begun) + 1 \in 1..Len(accepted) /\ Len(begun) + 1 \in Len(begun) + 1..Len(accepted)
             /\ job \in Unfinished
  <2>1. Len(begun) + 1 \in 1..Len(accepted) /\ Len(begun) + 1 \in Len(begun) + 1..Len(accepted)
    BY <1>1, <1>3
  <2> QED
    BY <1>2, <1>3, <2>1 DEF UnfinishedKept
<1>4. Len(accepted) - Len(begun) <= Len(queue) + 1
  BY DEF QueueOK
<1>5. Unfinished \subseteq DOMAIN records
  BY DEF Unfinished
<1>6. CASE Len(accepted) - Len(begun) = Len(queue) + 1
  BY <1>2, <1>3, <1>5, <1>6
<1>7. CASE Len(accepted) - Len(begun) # Len(queue) + 1
  <2>1. job \notin DOMAIN records
    BY <1>2, <1>7, RecordsAccepted
  <2> QED
    BY <1>1, <1>4, <1>7, <2>1
<1> QED
  BY <1>6, <1>7

LEMMA BeginStep ==
  ASSUME ExecutorInv, Begin
  PROVE  ExecutorInv'
<1> USE DEF ExecutorInv
<1>1. /\ pc = "taken" /\ job \in Ids
      /\ UNCHANGED <<order, permits, closed, queue, thread, issued, accepted>>
  BY DEF Begin, Typed
<1>2. Len(begun) \in Nat /\ Len(accepted) \in Nat /\ Len(queue) \in Nat /\ Len(order) \in Nat
  BY Lengths
<1>3. CASE job \notin DOMAIN records
  <2>1. pc' = "idle" /\ job' = NoJob /\ UNCHANGED <<records, begun>>
    BY <1>3 DEF Begin
  <2>2. Typed' /\ History'
    BY <1>1, <2>1 DEF Typed, History
  <2>3. QueueOK'
    <3>1. Len(accepted) - Len(begun) <= Len(queue)
      BY <1>1, <1>3, TakenJob
    <3> QED
      BY <1>1, <2>1, <3>1 DEF QueueOK, Position
  <2>4. UnfinishedKept' /\ OrderOK' /\ Bounded'
    BY <1>1, <2>1 DEF UnfinishedKept, Unfinished, OrderOK, FinishedCount, Bounded
  <2> QED
    BY <2>2, <2>3, <2>4
<1>4. CASE job \in DOMAIN records
  <2>1. /\ records' = [records EXCEPT ![job] = "running"]
        /\ begun' = Append(begun, job)
        /\ pc' = "operation" /\ job' = job
    BY <1>4 DEF Begin
  <2>2. /\ Len(accepted) - Len(begun) = Len(queue) + 1
        /\ job = accepted[Len(begun) + 1] /\ Len(begun) + 1 \in 1..Len(accepted)
        /\ job \in Unfinished
    BY <1>1, <1>4, TakenJob
  <2>3. /\ begun' \in Seq(Ids)
        /\ Len(begun') = Len(begun) + 1
        /\ \A i \in 1..Len(begun) : begun'[i] = begun[i]
        /\ begun'[Len(begun) + 1] = job
    BY <1>1, <2>1, Appended DEF Typed
  <2>4. Typed'
    BY <1>1, <2>1, <2>3, ExecutorAssumption DEF Typed, Statuses
  <2>5. History'
    <3>1. \A i \in 1..Len(begun') : begun'[i] = accepted[i]
      <4>1. 1..Len(begun') = 1..Len(begun) \cup {Len(begun) + 1}
        BY <1>2, <2>3
      <4> QED
        BY <2>2, <2>3, <4>1 DEF History
    <3>2. Len(begun') <= Len(accepted) /\ Len(begun') > 0 /\ job' = begun'[Len(begun')]
      BY <1>2, <2>1, <2>2, <2>3
    <3>3. thread # "none" /\ job \in issued
      BY <1>1 DEF History
    <3> QED
      BY <1>1, <2>1, <3>1, <3>2, <3>3 DEF History
  <2>6. QueueOK'
    <3>1. \A i \in 1..Len(queue) :
            Position(i) > Len(begun) /\ Position(i) > Len(begun') /\ Position(i)' = Position(i)
      BY <1>1, <1>2, <2>2, <2>3 DEF Position
    <3>2. \A i \in 1..Len(queue) : queue[i] = accepted[Position(i)]
      BY <3>1 DEF QueueOK
    <3>3. Len(accepted) - Len(begun') <= Len(queue)
      BY <1>2, <2>2, <2>3
    <3> QED
      BY <1>1, <2>1, <3>1, <3>2, <3>3 DEF QueueOK
  <2>7. Unfinished' = Unfinished
    <3>1. records[job] \notin Terminal
      BY <2>2 DEF Unfinished
    <3> QED
      BY <1>4, <2>1, <3>1 DEF Unfinished, Terminal
  <2>8. UnfinishedKept'
    <3>1. Len(begun) + 1..Len(accepted) = Len(begun') + 1..Len(accepted) \cup {Len(begun) + 1}
      BY <1>2, <2>2, <2>3
    <3>2. Unfinished = {accepted[i] : i \in Len(begun) + 1..Len(accepted)}
      BY <1>1 DEF UnfinishedKept
    <3> QED
      BY <1>1, <2>1, <2>2, <2>7, <3>1, <3>2 DEF UnfinishedKept
  <2>9. OrderOK'
    <3>1. FinishedCount = Len(begun) /\ FinishedCount' = Len(begun)
      BY <1>1, <1>2, <2>1, <2>3 DEF FinishedCount
    <3>2. Len(order) <= Len(begun)
      BY <3>1 DEF OrderOK
    <3>3. \A i \in 1..Len(order) : Len(begun) - Len(order) + i \in 1..Len(begun)
      BY <1>2, <3>2
    <3>4. \A i \in 1..Len(order) : order[i] = begun'[Len(begun) - Len(order) + i]
      BY <2>3, <3>1, <3>3 DEF OrderOK
    <3>5. DOMAIN records' = DOMAIN records
      BY <2>1
    <3> QED
      BY <1>1, <2>7, <3>1, <3>2, <3>4, <3>5 DEF OrderOK
  <2>10. Bounded'
    BY <1>1, <2>1, <2>7 DEF Bounded
  <2> QED
    BY <2>4, <2>5, <2>6, <2>8, <2>9, <2>10
<1> QED
  BY <1>3, <1>4

\* The job that runs has its record, and its end evicts nothing: there is room
\* for the records that are there.
LEMMA EndEffect ==
  ASSUME ExecutorInv, NEW status \in Terminal, End(status)
  PROVE  /\ pc = "operation" /\ job \in Unfinished
         /\ order' = Append(order, job)
         /\ records' = [records EXCEPT ![job] = status]
         /\ permits' = permits + 1 /\ pc' = "idle" /\ job' = NoJob
         /\ UNCHANGED <<closed, queue, thread, historyVars>>
<1> USE DEF ExecutorInv
<1>1. /\ pc = "operation" /\ permits' = permits + 1 /\ pc' = "idle" /\ job' = NoJob
      /\ UNCHANGED <<closed, queue, thread, historyVars>>
  BY DEF End
<1>2. job \in Unfinished /\ job \in DOMAIN records /\ job \in Ids
  BY <1>1 DEF UnfinishedKept, Unfinished, Typed
<1> DEFINE terminal == Append(order, job)
<1>3. terminal \in Seq(Ids) /\ Len(terminal) = Len(order) + 1 /\ Len(order) \in Nat
  BY <1>2, Appended, Lengths DEF Typed
<1>4. PICK n \in 0..Len(order) + 1 :
        /\ Evicts(DOMAIN records, terminal, n, 0)
        /\ order' = Rest(terminal, n)
        /\ records' = Keep([records EXCEPT ![job] = status],
                           Left(DOMAIN records, terminal, n))
  BY <1>2 DEF End
<1>5. Left(DOMAIN records, terminal, 0) = DOMAIN records
  <2>1. In(SubSeq(terminal, 1, 0)) = {terminal[i] : i \in 1..0}
    <3> HIDE DEF terminal
    <3> QED
      BY <1>3, RestOfSeq
  <2> QED
    BY <2>1 DEF Left
<1>6. Enough(DOMAIN records, terminal, 0, 0)
  BY <1>5, RecordsFinite DEF Enough, Bounded
<1>7. n = 0
  <2>1. \A m \in 0..n - 1 : ~Enough(DOMAIN records, terminal, m, 0)
    BY <1>4 DEF Evicts
  <2> QED
    BY <1>3, <1>6, <2>1
<1>8. order' = terminal
  <2>1. SubSeq(terminal, 1, Len(terminal)) = terminal
    BY <1>3, SubSeqFull
  <2> QED
    BY <1>4, <1>7, <2>1 DEF Rest
<1>9. records' = [records EXCEPT ![job] = status]
  <2>1. records' = Keep([records EXCEPT ![job] = status], DOMAIN records)
    BY <1>4, <1>5, <1>7
  <2> QED
    BY <2>1 DEF Keep
<1> QED
  BY <1>1, <1>2, <1>8, <1>9

LEMMA EndStep ==
  ASSUME ExecutorInv, NEW status \in Terminal, End(status)
  PROVE  ExecutorInv'
<1> USE DEF ExecutorInv
<1>1. /\ pc = "operation" /\ job \in Unfinished
      /\ order' = Append(order, job)
      /\ records' = [records EXCEPT ![job] = status]
      /\ permits' = permits + 1 /\ pc' = "idle" /\ job' = NoJob
      /\ UNCHANGED <<closed, queue, thread, historyVars>>
  BY EndEffect
<1>2. /\ Len(begun) \in Nat /\ Len(accepted) \in Nat /\ Len(order) \in Nat /\ Len(queue) \in Nat
      /\ job \in Ids /\ job \in DOMAIN records
  BY <1>1, Lengths DEF Typed, Unfinished
<1>3. /\ order' \in Seq(Ids)
      /\ Len(order') = Len(order) + 1
      /\ \A i \in 1..Len(order) : order'[i] = order[i]
      /\ order'[Len(order) + 1] = job
      /\ In(order') = In(order) \cup {job}
  BY <1>1, <1>2, Appended DEF Typed
<1>4. Typed'
  BY <1>1, <1>2, <1>3 DEF Typed, Statuses, historyVars
<1>5. History'
  BY <1>1 DEF History, historyVars
<1>6. QueueOK'
  <2>1. Len(accepted) - Len(begun) <= Len(queue)
    <3>1. Len(accepted) - Len(begun) <= Len(queue) + (IF pc = "taken" THEN 1 ELSE 0)
      BY DEF QueueOK
    <3> QED
      BY <1>1, <1>2, <3>1
  <2> QED
    BY <1>1, <2>1 DEF QueueOK, Position, historyVars
<1>7. Unfinished' = Unfinished \ {job} /\ DOMAIN records' = DOMAIN records
  BY <1>1, <1>2 DEF Unfinished
<1>8. UnfinishedKept'
  <2>1. /\ Len(begun) \in 1..Len(accepted) /\ Len(begun) \in 1..Len(begun)
        /\ job = begun[Len(begun)]
    BY <1>1, <1>2 DEF History
  <2>2. job = accepted[Len(begun)]
    BY <2>1 DEF History
  <2>3. \A i \in Len(begun) + 1..Len(accepted) : accepted[i] # job
    <3> TAKE i \in Len(begun) + 1..Len(accepted)
    <3>1. i \in 1..Len(accepted) /\ i # Len(begun)
      BY <1>2
    <3> QED
      BY <2>1, <2>2, <3>1 DEF History
  <2>4. Unfinished = {accepted[i] : i \in Len(begun) + 1..Len(accepted)} \cup {job}
    BY <1>1 DEF UnfinishedKept
  <2> QED
    BY <1>1, <1>7, <2>3, <2>4 DEF UnfinishedKept, historyVars
<1>9. OrderOK'
  <2>1. FinishedCount = Len(begun) - 1 /\ FinishedCount' = Len(begun)
    BY <1>1 DEF FinishedCount, historyVars
  <2>2. Len(order') <= FinishedCount'
    BY <1>2, <1>3, <2>1 DEF OrderOK
  <2>3. \A i \in 1..Len(order') : order'[i] = begun[Len(begun) - Len(order') + i]
    <3> TAKE i \in 1..Len(order')
    <3>1. CASE i = Len(order) + 1
      <4>1. Len(begun) - Len(order') + i = Len(begun)
        BY <1>2, <1>3, <3>1
      <4> QED
        BY <1>1, <1>3, <3>1, <4>1 DEF History
    <3>2. CASE i \in 1..Len(order)
      <4>1. FinishedCount - Len(order) + i = Len(begun) - Len(order') + i
        BY <1>2, <1>3, <2>1
      <4> QED
        BY <1>3, <3>2, <4>1 DEF OrderOK
    <3> QED
      BY <1>2, <1>3, <3>1, <3>2
  <2>4. DOMAIN records' \ Unfinished' = In(order')
    BY <1>2, <1>3, <1>7 DEF OrderOK
  <2> QED
    BY <1>1, <2>1, <2>2, <2>3, <2>4 DEF OrderOK, historyVars
<1>10. Bounded'
  <2>1. Cardinality(Unfinished') = Cardinality(Unfinished) - 1 /\ Cardinality(Unfinished) \in Nat
    BY <1>1, <1>7, UnfinishedAccepted, FS_RemoveElement
  <2>2. permits \in Nat /\ permits' = permits + 1
    BY <1>1 DEF Typed
  <2> QED
    BY <1>7, <2>1, <2>2, ExecutorAssumption DEF Bounded
<1> QED
  BY <1>4, <1>5, <1>6, <1>8, <1>9, <1>10

-----------------------------------------------------------------------------
(* The specification.                                                      *)

\* Closing, the end of the thread and stuttering touch none of the rows.
LEMMA QuietStep ==
  ASSUME ExecutorInv, Close \/ Exit \/ UNCHANGED executorVars
  PROVE  ExecutorInv'
<1>1. /\ UNCHANGED <<records, order, permits, queue, job, pc, historyVars>>
      /\ closed' \in BOOLEAN /\ thread' \in {"none", "alive", "ended"}
      /\ thread' = "none" => thread = "none"
  BY DEF Close, Exit, executorVars, historyVars, ExecutorInv, Typed
<1> USE <1>1 DEF historyVars
<1>2. Typed'
  BY DEF ExecutorInv, Typed
<1>3. History'
  BY DEF ExecutorInv, History
<1>4. QueueOK'
  BY DEF ExecutorInv, QueueOK, Position
<1>5. Unfinished' = Unfinished
  BY DEF Unfinished
<1>6. UnfinishedKept'
  BY <1>5 DEF ExecutorInv, UnfinishedKept
<1>7. OrderOK'
  BY <1>5 DEF ExecutorInv, OrderOK, FinishedCount
<1>8. Bounded'
  BY <1>5 DEF ExecutorInv, Bounded
<1> QED
  BY <1>2, <1>3, <1>4, <1>6, <1>7, <1>8 DEF ExecutorInv

LEMMA InitExecutorInv == ExecutorInit => ExecutorInv
<1> SUFFICES ASSUME ExecutorInit PROVE ExecutorInv
  OBVIOUS
<1>1. DOMAIN records = {} /\ Unfinished = {}
  BY DEF ExecutorInit, Unfinished
<1>2. <<>> \in Seq(Ids) /\ Len(<<>>) = 0 /\ In(<<>>) = {}
  <2>1. <<>> \in Seq(Ids) /\ Len(<<>>) = 0
    BY EmptySeq
  <2>2. In(<<>>) = {<<>>[i] : i \in 1..0}
    BY <2>1, InSeq
  <2> QED
    BY <2>1, <2>2
<1>3. order = <<>> /\ queue = <<>> /\ accepted = <<>> /\ begun = <<>>
  BY DEF ExecutorInit
<1>4. Typed
  <2>1. order \in Seq(Ids) /\ queue \in Seq(Ids) /\ accepted \in Seq(Ids) /\ begun \in Seq(Ids)
    BY <1>2, <1>3
  <2>2. permits \in Nat
    BY ExecutorAssumption DEF ExecutorInit
  <2> QED
    BY <1>1, <2>1, <2>2 DEF ExecutorInit, Typed
<1>5. History
  BY <1>2, <1>3 DEF ExecutorInit, History
<1>6. QueueOK
  BY <1>2, <1>3 DEF ExecutorInit, QueueOK
<1>7. UnfinishedKept
  BY <1>1, <1>2, <1>3 DEF ExecutorInit, UnfinishedKept
<1>8. OrderOK
  BY <1>1, <1>2, <1>3 DEF ExecutorInit, OrderOK, FinishedCount
<1>9. Bounded
  BY <1>1, FS_EmptySet, ExecutorAssumption DEF ExecutorInit, Bounded
<1> QED
  BY <1>4, <1>5, <1>6, <1>7, <1>8, <1>9 DEF ExecutorInv

THEOREM ExecutorInvHolds == ExecutorSpec => []ExecutorInv
<1>1. ExecutorInv /\ [ExecutorNext]_executorVars => ExecutorInv'
  BY SubmitStep, SubmitFailsStep, DequeueStep, BeginStep, EndStep, QuietStep
  DEF ExecutorNext, Worker
<1> QED
  BY <1>1, InitExecutorInv, PTL DEF ExecutorSpec

-----------------------------------------------------------------------------
(* What follows from it.                                                   *)

\* Values stay in their sets; in particular no permit is given back twice.
THEOREM ExecutorTypeCorrect == ExecutorSpec => []ExecutorTypeOK
<1>1. ExecutorInv => ExecutorTypeOK
  <2> SUFFICES ASSUME ExecutorInv PROVE ExecutorTypeOK
    OBVIOUS
  <2>1. permits \in 0..MaxQueued + 1
    BY UnfinishedAccepted, ExecutorAssumption DEF ExecutorInv, Bounded, Typed
  <2> QED
    BY <2>1 DEF ExecutorInv, Typed, ExecutorTypeOK
<1> QED
  BY <1>1, ExecutorInvHolds, PTL

\* Records are bounded, and a permit is out for every unfinished job.
THEOREM ExecutorIsBounded == ExecutorSpec => []Bounded
BY ExecutorInvHolds, PTL DEF ExecutorInv

\* A job that has not ended has its record.
THEOREM UnfinishedAreKept == ExecutorSpec => []UnfinishedKept
BY ExecutorInvHolds, PTL DEF ExecutorInv

\* Jobs begin in the order of their acceptance, each once.
THEOREM JobsBeginInOrder == ExecutorSpec => []InOrder
<1>1. ExecutorInv => InOrder
  <2> SUFFICES ASSUME ExecutorInv PROVE InOrder
    OBVIOUS
  <2> begun \in Seq(Ids) /\ accepted \in Seq(Ids)
    BY DEF ExecutorInv, Typed
  <2>1. Len(begun) \in Nat /\ Len(accepted) \in Nat /\ Len(begun) <= Len(accepted)
    BY Lengths DEF ExecutorInv, History
  <2>2. \A i \in 1..Len(begun) : accepted[i] \in Ids /\ begun[i] = accepted[i]
    BY <2>1, ElementOfSeq DEF ExecutorInv, History
  <2>3. /\ SubSeq(accepted, 1, Len(begun)) \in Seq(Ids)
        /\ Len(SubSeq(accepted, 1, Len(begun))) = Len(begun)
        /\ \A i \in 1..Len(begun) : SubSeq(accepted, 1, Len(begun))[i] = accepted[i]
    BY <2>1, <2>2, SubSeqProperties
  <2>4. begun = SubSeq(accepted, 1, Len(begun))
    BY <2>2, <2>3, SeqEqual
  <2> QED
    BY <2>4 DEF InOrder
<1> QED
  BY <1>1, ExecutorInvHolds, PTL

\* The records of finished jobs are those of the latest to have finished.
THEOREM LatestAreKept == ExecutorSpec => []LatestKept
<1>1. ExecutorInv => LatestKept
  <2> SUFFICES ASSUME ExecutorInv PROVE LatestKept
    OBVIOUS
  <2> USE DEF ExecutorInv
  <2> begun \in Seq(Ids) /\ order \in Seq(Ids)
    BY DEF Typed
  <2>1. Len(begun) \in Nat /\ Len(order) \in Nat
    BY Lengths
  <2>2. /\ Finished \in Seq(Ids) /\ Len(Finished) = FinishedCount
        /\ \A i \in 1..FinishedCount : Finished[i] = begun[i]
    <3>1. CASE pc = "operation"
      <4> DEFINE m == Len(begun) - 1
      <4>1. m \in Nat /\ \A i \in 1..m : begun[i] \in Ids
        BY <2>1, <3>1, ElementOfSeq DEF History
      <4>2. /\ SubSeq(begun, 1, m) \in Seq(Ids)
            /\ Len(SubSeq(begun, 1, m)) = m
            /\ \A i \in 1..m : SubSeq(begun, 1, m)[i] = begun[i]
        <5> HIDE DEF m
        <5> QED
          BY <4>1, SubSeqProperties
      <4> QED
        BY <3>1, <4>2 DEF Finished, FinishedCount
    <3>2. CASE pc # "operation"
      BY <3>2 DEF Finished, FinishedCount
    <3> QED
      BY <3>1, <3>2
  <2> DEFINE n == FinishedCount - Len(order)
  <2>3. n \in 0..Len(Finished)
    BY <2>1, <2>2, LenProperties DEF OrderOK
  <2>4. order = Rest(Finished, n)
    <3>1. /\ Rest(Finished, n) \in Seq(Ids)
          /\ Len(Rest(Finished, n)) = Len(order)
          /\ \A i \in 1..Len(order) : Rest(Finished, n)[i] = Finished[n + i]
      <4>1. Len(Finished) - n = Len(order)
        BY <2>1, <2>2, LenProperties
      <4> HIDE DEF n
      <4> QED
        BY <2>2, <2>3, <4>1, RestOfSeq
    <3>2. \A i \in 1..Len(order) : n + i \in 1..FinishedCount
      BY <2>1, <2>2, <2>3
    <3>3. \A i \in 1..Len(order) : order[i] = Rest(Finished, n)[i]
      BY <2>2, <3>1, <3>2 DEF OrderOK
    <3> QED
      BY <3>1, <3>3, SeqEqual
  <2>5. DOMAIN records \ Unfinished = In(order)
    BY DEF OrderOK
  <2> QED
    BY <2>3, <2>4, <2>5 DEF LatestKept
<1> QED
  BY <1>1, ExecutorInvHolds, PTL

\* Every eviction removes one record.
LEMMA LeftSize ==
  ASSUME ExecutorInv, NEW n \in 0..Len(order)
  PROVE  Cardinality(Left(DOMAIN records, order, n)) = Cardinality(DOMAIN records) - n
<1> USE DEF ExecutorInv
<1> order \in Seq(Ids)
  BY DEF Typed
<1> DEFINE S == In(SubSeq(order, 1, n))
           f == [i \in 1..n |-> order[i]]
<1>1. Len(order) \in Nat /\ n \in Nat /\ 1..n \subseteq 1..Len(order)
  BY Lengths
<1>2. S = {order[i] : i \in 1..n}
  BY RestOfSeq
<1>3. f \in Bijection(1..n, S)
  <2>1. f \in [1..n -> S]
    BY <1>2
  <2>2. \A i, j \in 1..n : f[i] = f[j] => i = j
    BY <1>1, OrderInjective
  <2>3. \A e \in S : \E i \in 1..n : f[i] = e
    BY <1>2
  <2> QED
    BY <2>1, <2>2, <2>3 DEF Bijection, Injection, Surjection, IsInjective
<1>4. Cardinality(S) = n
  BY <1>1, <1>3, FS_CountingElements DEF ExistsBijection
<1>5. S \subseteq DOMAIN records
  <2>1. S \subseteq In(order)
    BY <1>1, <1>2, Lengths
  <2> QED
    BY <2>1 DEF OrderOK
<1>6. Cardinality(DOMAIN records \ S) = Cardinality(DOMAIN records) - Cardinality(DOMAIN records \cap S)
  BY RecordsFinite, FS_Difference
<1>7. DOMAIN records \cap S = S
  BY <1>5
<1> QED
  BY <1>4, <1>6, <1>7 DEF Left

\* Records of jobs that have ended always make way for a new one.
THEOREM OnlyUnfinishedFill == ExecutorSpec => []FullOnlyOfUnfinished
<1>1. ExecutorInv => FullOnlyOfUnfinished
  <2> SUFFICES ASSUME ExecutorInv, ~closed, Cardinality(Unfinished) < MaxQueued + 1,
                      Cardinality(Unfinished) < MaxRecords
               PROVE  \E n \in 0..Len(order) : Reservable(n) /\ Room(n)
    BY DEF FullOnlyOfUnfinished
  <2> USE DEF ExecutorInv
  <2> DEFINE D == Cardinality(DOMAIN records)
             size(n) == Cardinality(Left(DOMAIN records, order, n))
             n == IF D < MaxRecords THEN 0 ELSE D + 1 - MaxRecords
  <2>1. /\ D \in Nat /\ Cardinality(Unfinished) \in Nat /\ Len(order) \in Nat
        /\ MaxRecords \in Nat \ {0} /\ MaxQueued \in Nat /\ permits \in Nat
    BY RecordsFinite, UnfinishedAccepted, Lengths, ExecutorAssumption DEF Typed
  <2>2. \A m \in 0..Len(order) : size(m) = D - m
    BY LeftSize
  <2>3. D - Len(order) = Cardinality(Unfinished)
    <3>1. Len(order) \in 0..Len(order)
      BY <2>1
    <3>2. In(Rest(order, Len(order))) = {}
      <4>1. order \in Seq(Ids)
        BY DEF Typed
      <4>2. In(Rest(order, Len(order))) = {order[i] : i \in Len(order) + 1..Len(order)}
        BY <3>1, <4>1, RestOfSeq
      <4> QED
        BY <2>1, <4>2
    <3>3. Left(DOMAIN records, order, Len(order)) = Unfinished
      BY <3>1, <3>2, Evicting
    <3> QED
      BY <2>2, <3>1, <3>3
  <2>4. n \in 0..Len(order)
    BY <2>1, <2>3
  <2>5. size(n) < MaxRecords
    BY <2>1, <2>2, <2>4
  <2>6. Enough(DOMAIN records, order, n, 1)
    BY <2>1, <2>2, <2>4, <2>5 DEF Enough
  <2>7. \A m \in 0..n - 1 : ~Enough(DOMAIN records, order, m, 1)
    <3> TAKE m \in 0..n - 1
    <3>1. m \in 0..Len(order) /\ m # Len(order) /\ D - m + 1 > MaxRecords
      BY <2>1, <2>4
    <3>2. size(m) = D - m
      BY <2>2, <3>1
    <3> QED
      BY <2>1, <3>1, <3>2 DEF Enough
  <2>8. permits > 0
    BY <2>1 DEF Bounded
  <2>9. Reservable(n)
    BY <2>4, <2>6, <2>7, <2>8 DEF Reservable, Evicts
  <2>10. Room(n)
    BY <2>5 DEF Room
  <2> QED
    BY <2>4, <2>9, <2>10
<1> QED
  BY <1>1, ExecutorInvHolds, PTL

-----------------------------------------------------------------------------
(* The executor implements the job service.                                *)

\* What a submitter can know of a job.
View(id) ==
  IF id \in DOMAIN records
  THEN IF records[id] \in Terminal THEN "done" ELSE "pending"
  ELSE IF id \in In(accepted) THEN "forgotten" ELSE "unknown"

\* The evicted records belong to jobs that are done, and leave them forgotten.
LEMMA EvictedView ==
  ASSUME ExecutorInv, NEW n \in 0..Len(order)
  PROVE  \A id \in Ids :
           /\ id \in In(SubSeq(order, 1, n)) => View(id) = "done" /\ id \in In(accepted)
           /\ id \in Left(DOMAIN records, order, n) <=>
                id \in DOMAIN records /\ id \notin In(SubSeq(order, 1, n))
<1> USE DEF ExecutorInv
<1>1. In(SubSeq(order, 1, n)) \subseteq In(order)
  <2> order \in Seq(Ids)
    BY DEF Typed
  <2>1. Len(order) \in Nat
    BY Lengths
  <2>2. In(SubSeq(order, 1, n)) = {order[i] : i \in 1..n}
    BY RestOfSeq
  <2>3. In(order) = {order[i] : i \in 1..Len(order)}
    BY <2>1, InSeq
  <2> QED
    BY <2>1, <2>2, <2>3
<1>2. In(order) \subseteq DOMAIN records /\ \A id \in In(order) : records[id] \in Terminal
  BY DEF OrderOK, Unfinished
<1>3. In(order) \subseteq In(accepted)
  BY <1>2, RecordsAccepted
<1> QED
  BY <1>1, <1>2, <1>3 DEF View, Left

LEMMA SubmitAccepts ==
  ASSUME ExecutorInv, NEW id \in Ids, Submit(id)
  PROVE  \E old \in SUBSET Ids : Service!Accept(id, old)
<1> USE DEF ExecutorInv
<1>1. PICK n \in 0..Len(order) : Submitted(id, n)
  BY DEF Submit, Submitted
<1>0. PICK old \in SUBSET Ids : old = In(SubSeq(order, 1, n)) \cap Ids
  OBVIOUS
<1>2. In(accepted') = In(accepted) \cup {id}
  BY <1>1, Appended DEF Submitted, Typed
<1>3. id \notin DOMAIN records /\ id \notin In(accepted)
  BY <1>1 DEF Submitted, Typed, History
<1>4. /\ DOMAIN records' = Left(DOMAIN records, order, n) \cup {id}
      /\ \A j \in DOMAIN records' :
           records'[j] = IF j = id THEN "queued" ELSE records[j]
  BY <1>1 DEF Submitted
<1>5. \A j \in Ids :
        /\ j \in old => View(j) = "done" /\ j \in In(accepted)
        /\ j \in Left(DOMAIN records, order, n) <=> j \in DOMAIN records /\ j \notin old
  BY <1>0, EvictedView
<1>6. View(id) = "unknown"
  BY <1>3 DEF View
<1>7. \A j \in Ids : View(j)' = IF j = id THEN "pending"
                                ELSE IF j \in old THEN "forgotten" ELSE View(j)
  BY <1>2, <1>3, <1>4, <1>5 DEF View, Terminal
<1>8. ~closed /\ closed' = closed
  BY <1>1 DEF Submitted, Reservable
<1>9. Service!Accept(id, old)
  <2>1. \A j \in old : View(j) = "done"
    BY <1>5
  <2> QED
    BY <1>6, <1>7, <1>8, <2>1 DEF Service!Accept, Service!Done, View
<1> QED
  BY <1>9

LEMMA SubmitFailsForgets ==
  ASSUME ExecutorInv, NEW id \in Ids, SubmitFails(id)
  PROVE  \E old \in SUBSET Ids : Service!Forget(old)
<1> USE DEF ExecutorInv
<1>1. PICK n \in 0..Len(order) :
        /\ records' = Keep(records, Left(DOMAIN records, order, n))
        /\ UNCHANGED <<closed, accepted>>
  BY DEF SubmitFails
<1>0. PICK old \in SUBSET Ids : old = In(SubSeq(order, 1, n)) \cap Ids
  OBVIOUS
<1>2. /\ DOMAIN records' = Left(DOMAIN records, order, n)
      /\ \A j \in DOMAIN records' : records'[j] = records[j]
  BY <1>1 DEF Keep
<1>3. \A j \in Ids :
        /\ j \in old => View(j) = "done" /\ j \in In(accepted)
        /\ j \in Left(DOMAIN records, order, n) <=> j \in DOMAIN records /\ j \notin old
  BY <1>0, EvictedView
<1>4. \A j \in Ids : View(j)' = IF j \in old THEN "forgotten" ELSE View(j)
  BY <1>1, <1>2, <1>3 DEF View
<1>5. Service!Forget(old)
  BY <1>1, <1>3, <1>4 DEF Service!Forget, Service!Done, View
<1> QED
  BY <1>5

LEMMA EndFinishes ==
  ASSUME ExecutorInv, NEW status \in Terminal, End(status)
  PROVE  \E id \in Ids : Service!Finish(id)
<1>1. /\ job \in Unfinished /\ records' = [records EXCEPT ![job] = status]
      /\ closed' = closed /\ accepted' = accepted
  BY EndEffect DEF historyVars
<1>2. PICK id \in Ids : id = job
  BY <1>1 DEF Unfinished, ExecutorInv, Typed
<1>3. id \in DOMAIN records /\ records[id] \notin Terminal
  BY <1>1, <1>2 DEF Unfinished
<1>4. View(id) = "pending"
  BY <1>3 DEF View
<1>5. \A j \in Ids : View(j)' = IF j = id THEN "done" ELSE View(j)
  BY <1>1, <1>2, <1>3 DEF View
<1>6. Service!Finish(id)
  BY <1>1, <1>4, <1>5 DEF Service!Finish, View
<1> QED
  BY <1>6

\* The remaining steps change nothing that a submitter can see, or close.
LEMMA OtherSteps ==
  ASSUME ExecutorInv, Close \/ Dequeue \/ Begin \/ Exit \/ UNCHANGED executorVars
  PROVE  Service!Shut \/ UNCHANGED Service!serviceVars
<1>1. accepted' = accepted
  BY DEF Close, Dequeue, Begin, Exit, executorVars, historyVars
<1>2. /\ DOMAIN records' = DOMAIN records
      /\ \A j \in DOMAIN records : records'[j] \in Terminal <=> records[j] \in Terminal
  <2>1. CASE Begin
    <3>1. CASE job \in DOMAIN records
      <4>1. records[job] \notin Terminal
        BY <2>1, <3>1, TakenJob DEF Begin, Unfinished
      <4> QED
        BY <2>1, <3>1, <4>1 DEF Begin, Terminal
    <3>2. CASE job \notin DOMAIN records
      BY <2>1, <3>2 DEF Begin
    <3> QED
      BY <3>1, <3>2
  <2>2. CASE Close \/ Dequeue \/ Exit \/ UNCHANGED executorVars
    BY <2>2 DEF Close, Dequeue, Exit, executorVars
  <2> QED
    BY <2>1, <2>2
<1>3. \A j \in Ids : View(j)' = View(j)
  BY <1>1, <1>2 DEF View
<1>4. Close \/ closed' = closed
  BY DEF Dequeue, Begin, Exit, executorVars
<1> QED
  BY <1>3, <1>4 DEF Close, Service!Shut, Service!serviceVars, View

\* Every behaviour of the executor is one of the service: accepted jobs stay
\* pending until they are done, and only jobs that are done are forgotten.
THEOREM ExecutorKeepsJobs == ExecutorSpec => KeepsJobs
<1>1. ExecutorInit => Service!ServiceInit
  <2> SUFFICES ASSUME ExecutorInit PROVE Service!ServiceInit
    OBVIOUS
  <2>1. In(accepted) = {} /\ DOMAIN records = {} /\ closed = FALSE
    <3>1. accepted \in Seq(Ids) /\ Len(accepted) = 0
      BY EmptySeq DEF ExecutorInit
    <3>2. In(accepted) = {accepted[i] : i \in 1..0}
      BY <3>1, InSeq
    <3> QED
      BY <3>2 DEF ExecutorInit
  <2> QED
    BY <2>1 DEF Service!ServiceInit
<1>2. ExecutorInv /\ [ExecutorNext]_executorVars
        => [Service!ServiceNext]_(Service!serviceVars)
  <2> SUFFICES ASSUME ExecutorInv, [ExecutorNext]_executorVars
               PROVE  Service!ServiceNext \/ UNCHANGED Service!serviceVars
    OBVIOUS
  <2>1. ASSUME NEW id \in Ids, Submit(id)
        PROVE  Service!ServiceNext
    BY <2>1, SubmitAccepts DEF Service!ServiceNext
  <2>2. ASSUME NEW id \in Ids, SubmitFails(id)
        PROVE  Service!ServiceNext
    BY <2>2, SubmitFailsForgets DEF Service!ServiceNext
  <2>3. ASSUME NEW status \in Terminal, End(status)
        PROVE  Service!ServiceNext
    BY <2>3, EndFinishes DEF Service!ServiceNext
  <2>4. CASE Close \/ Dequeue \/ Begin \/ Exit \/ UNCHANGED executorVars
    BY <2>4, OtherSteps DEF Service!ServiceNext
  <2> QED
    BY <2>1, <2>2, <2>3, <2>4 DEF ExecutorNext, Worker
<1> QED
  BY <1>1, <1>2, ExecutorInvHolds, PTL DEF ExecutorSpec, KeepsJobs, Service!ServiceSpec

-----------------------------------------------------------------------------
(* LoopbackServer: the slots.                                              *)

\* A connection is busy from the moment it has a slot until its thread ends.
BusyStates == {"admitted", "reading", "queued", "handling", "respond", "shutting_down",
               "answered", "leaving"}

Busy == {r \in Requests : request[r] \in BusyStates}

ServerTyped ==
  /\ request \in [Requests -> States]
  /\ reply \in [Requests -> {"none", "other", "application", "server_busy",
                             "server_shutting_down"}]
  /\ open \subseteq Requests /\ slots \in Nat
  /\ closing \in BOOLEAN /\ listening \in BOOLEAN
  /\ loop \in Requests \cup {"idle", "dead"}
  /\ closer \in {"none", "start", "cut", "loop", "join", "joined", "stopped"}

SlotPerBusy == slots + Cardinality(Busy) = MaxWorkers

LEMMA BusyIs == Busy = Threads \cup RequestsIn("admitted")
BY DEF Busy, BusyStates, Threads, RequestsIn

LEMMA BusyFinite == IsFiniteSet(Busy) /\ Cardinality(Busy) \in Nat
BY ServerAssumption, FS_Subset, FS_CardinalityType DEF Busy

\* Taking and giving back a slot with the busy connection keeps the account;
\* so does whatever leaves both alone.
LEMMA SlotTaken ==
  ASSUME ServerTyped, SlotPerBusy, NEW r \in Requests \ Busy,
         Busy' = Busy \cup {r}, slots > 0, slots' = slots - 1
  PROVE  SlotPerBusy'
<1>1. Cardinality(Busy') = Cardinality(Busy) + 1
  BY BusyFinite, FS_AddElement
<1> QED
  BY <1>1, BusyFinite, ServerAssumption DEF ServerTyped, SlotPerBusy

LEMMA SlotGiven ==
  ASSUME ServerTyped, SlotPerBusy, NEW r \in Busy,
         Busy' = Busy \ {r}, slots' = slots + 1
  PROVE  SlotPerBusy'
<1>1. Cardinality(Busy') = Cardinality(Busy) - 1
  BY BusyFinite, FS_RemoveElement
<1> QED
  BY <1>1, BusyFinite, ServerAssumption DEF ServerTyped, SlotPerBusy

LEMMA SlotKept ==
  ASSUME SlotPerBusy, Busy' = Busy, slots' = slots
  PROVE  SlotPerBusy'
BY DEF SlotPerBusy

-----------------------------------------------------------------------------
(* The inductive invariant.                                                *)

\* Only the accept loop holds a connection that has no thread yet.
LoopHolds ==
  \A r \in Requests : request[r] \in {"accepted", "admitted"} => loop = r

\* What has been achieved at each step of closing.  Once the closer waits for the
\* threads, the loop is dead and can open no socket any more.
Stages ==
  /\ loop = "dead" => closer # "none"
  /\ loop = "dead" /\ closer = "loop" => open = {}
  /\ closer \in {"join", "joined", "stopped"} => loop = "dead" /\ open = {}
  /\ closer \in {"joined", "stopped"} => Threads = {}
  /\ closer = "stopped" => ~listening
  /\ ~listening => RequestsIn("backlog") = {}

ServerInv == ServerTyped /\ SlotPerBusy /\ LoopHolds /\ QuiescentOnceClosing /\ Stages

LEMMA InitServerInv == ServerInit => ServerInv
<1> SUFFICES ASSUME ServerInit PROVE ServerInv
  OBVIOUS
<1>1. Busy = {}
  BY DEF ServerInit, Busy, BusyStates
<1>2. SlotPerBusy
  BY <1>1, FS_EmptySet, ServerAssumption DEF ServerInit, SlotPerBusy
<1>3. ServerTyped
  BY ServerAssumption DEF ServerInit, ServerTyped, States
<1>4. LoopHolds /\ QuiescentOnceClosing /\ Stages
  BY DEF ServerInit, LoopHolds, QuiescentOnceClosing, Stages, RequestsIn, Threads
<1> QED
  BY <1>2, <1>3, <1>4 DEF ServerInv

LEMMA AcceptsStep ==
  ASSUME ServerInv, NEW r \in Requests, Connect(r) \/ Accepts(r)
  PROVE  ServerInv'
<1> USE ServerAssumption DEF ServerInv
<1>1. ServerTyped'
  BY DEF ServerTyped, States, Accepts, Connect, GetRequest, RejectBusy, TakeSlot, StartWorker,
         RefuseWorker, To
<1>2. SlotPerBusy'
  <2>1. CASE Connect(r) \/ GetRequest(r) \/ RejectBusy(r) \/ StartWorker(r)
    <3>1. Busy' = Busy /\ slots' = slots
      BY <2>1 DEF ServerTyped, Busy, BusyStates, Connect, GetRequest, RejectBusy, StartWorker, To
    <3> QED
      BY <3>1, SlotKept
  <2>2. CASE TakeSlot(r)
    <3>1. r \notin Busy /\ Busy' = Busy \cup {r}
      BY <2>2 DEF ServerTyped, Busy, BusyStates, TakeSlot, To
    <3> QED
      BY <2>2, <3>1, SlotTaken DEF TakeSlot
  <2>3. CASE RefuseWorker(r)
    <3>1. r \in Busy /\ Busy' = Busy \ {r}
      BY <2>3 DEF ServerTyped, Busy, BusyStates, RefuseWorker, To
    <3> QED
      BY <2>3, <3>1, SlotGiven DEF RefuseWorker
  <2> QED
    BY <2>1, <2>2, <2>3 DEF Accepts
<1>3. LoopHolds'
  BY DEF ServerTyped, LoopHolds, Accepts, Connect, GetRequest, RejectBusy, TakeSlot, StartWorker,
         RefuseWorker, To
<1>4. QuiescentOnceClosing'
  BY DEF ServerTyped, QuiescentOnceClosing, RequestsIn, Accepts, Connect, GetRequest, RejectBusy,
         TakeSlot, StartWorker, RefuseWorker, To
<1>5. Stages'
  BY DEF ServerTyped, LoopHolds, Stages, RequestsIn, Threads, Accepts, Connect, GetRequest, RejectBusy,
         TakeSlot, StartWorker, RefuseWorker, To
<1> QED
  BY <1>1, <1>2, <1>3, <1>4, <1>5

LEMMA WorkerStep ==
  ASSUME ServerInv, NEW r \in Requests, RunWorker(r)
  PROVE  ServerInv'
<1> USE DEF ServerInv
<1>1. ServerTyped'
  BY DEF ServerTyped, States, RunWorker, Parse, AnswerDirectly, Dispatch, Handled, Respond, HangUp,
         EndWorker, To
<1>2. SlotPerBusy'
  <2>1. CASE EndWorker(r)
    <3>1. r \in Busy /\ Busy' = Busy \ {r}
      BY <2>1 DEF ServerTyped, Busy, BusyStates, EndWorker, To
    <3> QED
      BY <2>1, <3>1, SlotGiven DEF EndWorker
  <2>2. CASE Parse(r) \/ AnswerDirectly(r) \/ Dispatch(r) \/ Handled(r) \/ Respond(r)
               \/ HangUp(r)
    <3>1. Busy' = Busy /\ slots' = slots
      BY <2>2 DEF ServerTyped, Busy, BusyStates, Parse, AnswerDirectly, Dispatch, Handled,
                  Respond, HangUp, To
    <3> QED
      BY <3>1, SlotKept
  <2> QED
    BY <2>1, <2>2 DEF RunWorker
<1>3. LoopHolds'
  BY DEF ServerTyped, LoopHolds, RunWorker, Parse, AnswerDirectly, Dispatch, Handled, Respond,
         HangUp, EndWorker, To
<1>4. QuiescentOnceClosing'
  BY DEF ServerTyped, QuiescentOnceClosing, DispatchFree, RequestsIn, RunWorker, Parse, AnswerDirectly,
         Dispatch, Handled, Respond, HangUp, EndWorker, To
<1>5. Stages'
  BY DEF ServerTyped, Stages, RequestsIn, Threads, RunWorker, Parse, AnswerDirectly, Dispatch, Handled,
         Respond, HangUp, EndWorker, To
<1> QED
  BY <1>1, <1>2, <1>3, <1>4, <1>5

LEMMA ClosingStep ==
  ASSUME ServerInv, Interrupt \/ ShutDown \/ Closes
  PROVE  ServerInv'
<1> USE ServerAssumption DEF ServerInv
<1>1. ServerTyped'
  BY DEF ServerTyped, States, RequestsIn, Interrupt, ShutDown, Closes, StartClosing, CutOff,
         CloseListener, StopLoop, Join, ServerClose, StopListening
<1>2. SlotPerBusy'
  <2>1. Busy' = Busy /\ slots' = slots
    BY DEF ServerTyped, Busy, BusyStates, RequestsIn, Interrupt, ShutDown, Closes, StartClosing, CutOff,
           CloseListener, StopLoop, Join, ServerClose, StopListening
  <2> QED
    BY <2>1, SlotKept
<1>3. LoopHolds'
  BY DEF ServerTyped, LoopHolds, RequestsIn, Interrupt, ShutDown, Closes, StartClosing, CutOff,
         CloseListener, StopLoop, Join, ServerClose, StopListening
<1>4. QuiescentOnceClosing'
  BY DEF ServerTyped, QuiescentOnceClosing, DispatchFree, RequestsIn, Interrupt, ShutDown, Closes,
         StartClosing, CutOff, CloseListener, StopLoop, Join, ServerClose, StopListening
<1>5. Stages'
  BY DEF ServerTyped, Stages, RequestsIn, Threads, Interrupt, ShutDown, Closes, StartClosing, CutOff,
         CloseListener, StopLoop, Join, ServerClose, StopListening
<1> QED
  BY <1>1, <1>2, <1>3, <1>4, <1>5

LEMMA Stutter ==
  ASSUME ServerInv, UNCHANGED serverVars
  PROVE  ServerInv'
BY DEF ServerInv, serverVars, ServerTyped, SlotPerBusy, Busy, LoopHolds, QuiescentOnceClosing,
       Stages, RequestsIn, Threads

THEOREM ServerInvHolds == ServerSpec => []ServerInv
<1>1. ServerInv /\ [ServerNext]_serverVars => ServerInv'
  BY AcceptsStep, WorkerStep, ClosingStep, Stutter DEF ServerNext
<1> QED
  BY <1>1, InitServerInv, PTL DEF ServerSpec

-----------------------------------------------------------------------------
(* What follows from it.                                                   *)

\* Values stay in their sets; in particular no slot is given back twice.
THEOREM ServerTypeCorrect == ServerSpec => []ServerTypeOK
<1>1. ServerInv => ServerTypeOK
  BY BusyFinite, ServerAssumption DEF ServerInv, ServerTyped, SlotPerBusy, ServerTypeOK
<1> QED
  BY <1>1, ServerInvHolds, PTL

\* A slot is out exactly for the connections that have a thread or are about to.
THEOREM SlotsAreAccounted == ServerSpec => []SlotsAccounted
<1>1. ServerInv => SlotsAccounted
  BY BusyIs DEF ServerInv, SlotPerBusy, SlotsAccounted
<1> QED
  BY <1>1, ServerInvHolds, PTL

\* The application is quiescent from the moment closing is set.
THEOREM ServerQuiescent == ServerSpec => []QuiescentOnceClosing
BY ServerInvHolds, PTL DEF ServerInv

\* When closing has ended nothing of the server is left.
THEOREM ServerLeavesNothing == ServerSpec => []NothingLeftBehind
<1>1. ServerInv => NothingLeftBehind
  <2> SUFFICES ASSUME ServerInv, closer = "stopped"
               PROVE  /\ Threads = {} /\ open = {} /\ slots = MaxWorkers
                      /\ \A r \in Requests : request[r] \in {"none", "closed"}
    BY DEF NothingLeftBehind
  <2> USE DEF ServerInv
  <2>1. Threads = {} /\ open = {} /\ loop = "dead" /\ RequestsIn("backlog") = {}
    BY DEF Stages
  <2>2. \A r \in Requests : request[r] \notin {"accepted", "admitted"}
    BY <2>1, ServerAssumption DEF LoopHolds
  <2>3. Busy = {}
    BY <2>1, <2>2, BusyIs DEF RequestsIn
  <2>4. slots = MaxWorkers
    BY <2>3, FS_EmptySet DEF SlotPerBusy, ServerTyped
  <2>5. \A r \in Requests : request[r] \in {"none", "closed"}
    BY <2>1, <2>2 DEF ServerTyped, States, Threads, RequestsIn
  <2> QED
    BY <2>1, <2>4, <2>5
<1> QED
  BY <1>1, ServerInvHolds, PTL

-----------------------------------------------------------------------------
(* The research page: types.                                               *)

LEMMA MoveTyped ==
  ASSUME DurableOK, Move \/ Progress
  PROVE  durable' \in Evidence
BY DEF DurableOK, Move, Progress, Evidence

LEMMA SeenTyped ==
  ASSUME DurableOK, NEW t \in Nat \cup {Nothing}
  PROVE  Seen(t) \in Snapshots
BY DEF DurableOK, Seen, Snapshots

\* The server's steps keep the types of what they change.
LEMMA ReadTypes ==
  ASSUME DurableOK, ReadingOK, Reads
  PROVE  ReadingOK'
<1> USE DEF ReadingOK, ReadTo, RefuseRead, Unread
<1>1. durable.revision \in Nat
  BY DEF DurableOK, Evidence
<1>2. CASE ReadSession
  BY <1>1, <1>2 DEF ReadSession
<1>3. CASE ReadSnapshot
  <2>1. Seen(Nothing) \in Snapshots
    BY SeenTyped
  <2>2. CASE reading' = [reading EXCEPT !.stage = "read", !.seen = Seen(Nothing)]
    BY <2>1, <2>2
  <2>3. CASE reading' = [Unread EXCEPT !.stage = "refused"]
    BY <2>3
  <2>4. QED
    BY <1>3, <2>2, <2>3 DEF ReadSnapshot
<1>4. CASE ReadTimeline
  <2>1. /\ reading.stage = "read" /\ reading.seen \in Snapshots
    BY <1>4 DEF ReadTimeline
  <2>2. [reading.seen EXCEPT !.timeline = durable.revision] \in Snapshots
    BY <1>1, <2>1 DEF Snapshots
  <2>3. \/ reading' = [reading EXCEPT !.stage = "timed",
                           !.seen = [reading.seen EXCEPT !.timeline = durable.revision]]
        \/ reading' = [Unread EXCEPT !.stage = "refused"]
    BY <1>4 DEF ReadTimeline
  <2>4. CASE reading' = [Unread EXCEPT !.stage = "refused"]
    BY <2>4
  <2>5. CASE reading' = [reading EXCEPT !.stage = "timed",
                           !.seen = [reading.seen EXCEPT !.timeline = durable.revision]]
    BY <2>1, <2>2, <2>5
  <2>6. QED
    BY <2>3, <2>4, <2>5
<1>5. CASE ReadAgain
  BY <1>5 DEF ReadAgain
<1>6. QED
  BY <1>2, <1>3, <1>4, <1>5 DEF Reads

LEMMA PostTypes ==
  ASSUME DurableOK, PostOK, Serves
  PROVE  PostOK'
<1> USE DEF PostOK, PostTo, Answer, Unsent
<1>1. CASE ServeDecision
  BY <1>1 DEF ServeDecision
<1>2. CASE AnswerDecision
  <2>1. Seen(Nothing) \in Snapshots
    BY SeenTyped
  <2>2. QED
    BY <1>2, <2>1 DEF AnswerDecision
<1>3. CASE ServeStale \/ ServeError
  <2>1. /\ post.basis \in Evidence
        /\ \/ post' = [post EXCEPT !.stage = "stale"]
           \/ post' = [post EXCEPT !.stage = "refused"]
           \/ post' = Unsent
    BY <1>3 DEF ServeStale, ServeError
  <2>2. CASE post' = Unsent
    BY <2>2
  <2>3. CASE post' = [post EXCEPT !.stage = "stale"]
    BY <2>1, <2>3
  <2>4. CASE post' = [post EXCEPT !.stage = "refused"]
    BY <2>1, <2>4
  <2>5. QED
    BY <2>1, <2>2, <2>3, <2>4
<1>4. ASSUME NEW w \in Works, ServeAdmission(w) \/ RepeatAdmission(w) PROVE PostOK'
  <2>1. /\ post.basis \in Evidence
        /\ post' \in {[post EXCEPT !.stage = "accepted", !.job = w], Unsent}
    BY <1>4 DEF ServeAdmission, RepeatAdmission
  <2>2. CASE post' = Unsent
    BY <2>2
  <2>3. CASE post' = [post EXCEPT !.stage = "accepted", !.job = w]
    BY <2>1, <2>3
  <2>4. QED
    BY <2>1, <2>2, <2>3
<1>5. ASSUME NEW w \in Works, BeginWork(w) \/ EndWork(w) \/ LoseWork(w) PROVE PostOK'
  BY <1>5 DEF BeginWork, EndWork, LoseWork
<1>6. QED
  BY <1>1, <1>2, <1>3, <1>4, <1>5 DEF Serves

LEMMA WorkTypes ==
  ASSUME DurableOK, WorkOK, PostOK, Serves
  PROVE  WorkOK'
<1> USE DEF WorkOK
<1>1. CASE ServeDecision \/ AnswerDecision \/ ServeStale \/ ServeError
  BY <1>1 DEF ServeDecision, AnswerDecision, ServeStale, ServeError, serverSide
<1>2. ASSUME NEW w \in Works, ServeAdmission(w) PROVE WorkOK'
  BY <1>2 DEF ServeAdmission, PostOK
<1>3. ASSUME NEW w \in Works, RepeatAdmission(w) PROVE WorkOK'
  BY <1>3 DEF RepeatAdmission, serverSide
<1>4. ASSUME NEW w \in Works, BeginWork(w) PROVE WorkOK'
  BY <1>4 DEF BeginWork
<1>5. ASSUME NEW w \in Works, EndWork(w) PROVE WorkOK'
  <2>1. durable.revision \in Nat
    BY DEF DurableOK, Evidence
  <2>2. /\ work[w].status # "unused"
        /\ work' = [work EXCEPT ![w] = [work[w] EXCEPT !.status = "ended",
                                                      !.result = durable.revision]]
    BY <1>5 DEF EndWork
  <2>3. [work[w] EXCEPT !.status = "ended", !.result = durable.revision]
          \in [status : {"unused", "queued", "begun", "ended", "gone"},
               basis : Evidence \cup {Nothing}, result : Nat]
    BY <2>1
  <2>4. work[w].basis \in Evidence
    BY <2>2
  <2>5. QED
    BY <2>2, <2>3, <2>4
<1>6. ASSUME NEW w \in Works, LoseWork(w) PROVE WorkOK'
  BY <1>6 DEF LoseWork
<1>7. QED
  BY <1>1, <1>2, <1>3, <1>4, <1>5, <1>6 DEF Serves

LEMMA DurableTypes ==
  ASSUME DurableOK, WorkOK, Serves \/ Elsewhere
  PROVE  DurableOK'
<1>1. CASE Elsewhere
  BY <1>1, MoveTyped DEF Elsewhere, DurableOK
<1>2. CASE ServeDecision
  BY <1>2, MoveTyped DEF ServeDecision, DurableOK
<1>3. CASE AnswerDecision \/ ServeStale \/ ServeError
  BY <1>3 DEF AnswerDecision, ServeStale, ServeError, serverSide, DurableOK
<1>4. ASSUME NEW w \in Works, ServeAdmission(w) \/ RepeatAdmission(w) PROVE DurableOK'
  BY <1>4 DEF ServeAdmission, RepeatAdmission, serverSide, DurableOK
<1>5. ASSUME NEW w \in Works, BeginWork(w) PROVE DurableOK'
  <2>1. work[w].basis \in Evidence
    BY <1>5 DEF BeginWork, WorkOK
  <2>2. work[w].basis.revision \in Nat
    BY <2>1 DEF Evidence
  <2>3. QED
    BY <1>5, <2>2, MoveTyped DEF BeginWork, DurableOK
<1>6. ASSUME NEW w \in Works, EndWork(w) \/ LoseWork(w) PROVE DurableOK'
  BY <1>6 DEF EndWork, LoseWork, DurableOK
<1>7. QED
  BY <1>1, <1>2, <1>3, <1>4, <1>5, <1>6 DEF Serves


\* The page's own steps.
Coordinated ==
  /\ page.pc \in {"polling", "completing"} => page.job # Nothing
  /\ page.pc \in {"gone", "loading", "deciding", "exporting", "admitting", "submitting"} =>
       page.job = Nothing
  /\ page.pc = "admitting" => page.admission # Nothing \/ page.shown # Nothing
  /\ page.job # Nothing => page.attempt = page.job

LEMMA BasisTyped ==
  ASSUME PageOK, page.admission # Nothing \/ page.shown # Nothing
  PROVE  Basis \in Evidence
BY DEF PageOK, PageShapes, Basis, Snapshots

LEMMA PageTypes ==
  ASSUME PostOK, ReadingOK, PageOK, StoredOK, Coordinated, PageSteps
  PROVE  PageOK'
<1> USE DEF PageOK, PageShapes
<1>1. CASE Attach
  <2>1. /\ stored.job \in Works \cup {Nothing}
        /\ stored.admission \in Evidence \cup {Nothing}
    BY DEF StoredOK
  <2> DEFINE opened(a) == [Gone EXCEPT !.job = stored.job, !.attempt = stored.job,
                                        !.admission = a]
  <2>2. \E a \in {stored.admission, Nothing} :
          \/ page' = [opened(a) EXCEPT !.pc = "polling"]
          \/ page' = [opened(a) EXCEPT !.pc = "loading", !.after = "initial"]
    BY <1>1 DEF Attach, Turn
  <2>3. ASSUME NEW a \in {stored.admission, Nothing}
        PROVE  /\ [opened(a) EXCEPT !.pc = "polling"] \in PageShapes
               /\ [opened(a) EXCEPT !.pc = "loading", !.after = "initial"] \in PageShapes
    <3>1. opened(a) \in PageShapes
      BY <2>1 DEF Gone
    <3>2. ASSUME NEW p \in PageShapes
          PROVE  /\ [p EXCEPT !.pc = "polling"] \in PageShapes
                 /\ [p EXCEPT !.pc = "loading", !.after = "initial"] \in PageShapes
      OBVIOUS
    <3> HIDE DEF opened, PageShapes
    <3>3. QED
      BY <3>1, <3>2
  <2>4. PICK a \in {stored.admission, Nothing} :
          \/ page' = [opened(a) EXCEPT !.pc = "polling"]
          \/ page' = [opened(a) EXCEPT !.pc = "loading", !.after = "initial"]
    BY <2>2
  <2>5. page' \in PageShapes
    <3> HIDE DEF opened, PageShapes
    <3>1. QED
      BY <2>3, <2>4
  <2>6. QED
    BY <2>5
<1>2. CASE Leave
  BY <1>2 DEF Leave, Turn, Gone, Unread, GivenUp, Unsent
<1>3. CASE Loaded
  <2>1. reading.seen \in Snapshots
    BY <1>3 DEF Loaded, ReadingOK
  <2> DEFINE read == Show([page EXCEPT !.pc = "idle", !.after = "none",
                                       !.attempt = Nothing], reading.seen)
  <2>2. read \in [pc : {"idle"}, after : {"none"}, shown : Snapshots \cup {Nothing},
                  enabled : BOOLEAN, job : Works \cup {Nothing},
                  attempt : Works \cup {Nothing}, admission : Evidence \cup {Nothing},
                  canContinue : BOOLEAN, canRetry : BOOLEAN, hidden : BOOLEAN]
    BY <2>1 DEF Show
  <2>3. \E a \in {read.admission, Nothing}, r \in BOOLEAN :
          page' = [read EXCEPT !.admission = a, !.canRetry = r]
    <3>1. read.canRetry \in BOOLEAN /\ read.canRetry = page.canRetry
      BY <2>2 DEF Show
    <3>2. page' = [read EXCEPT
                     !.admission = IF page.after = "job" /\ OfAttempt(page.admission)
                                   THEN Nothing ELSE read.admission,
                     !.canRetry = read.canRetry
                                    \/ (page.after = "initial" /\ page.admission #
                                       Nothing)]
      BY <1>3 DEF Loaded, Turn, Resting
    <3>3. QED
      BY <3>1, <3>2
  <2>4. QED
    BY <2>2, <2>3
<1>4. CASE LoadFailed
  BY <1>4 DEF LoadFailed, Turn, Resting, Unread
<1>5. CASE Decide
  BY <1>5 DEF Decide, Turn, Sent, Unsent, Offers
<1>6. CASE Decided
  <2>1. post.seen \in Snapshots
    BY <1>6 DEF Decided, PostOK
  <2>2. QED
    BY <1>6, <2>1 DEF Decided, Turn, Show
<1>7. CASE DecisionStale
  BY <1>7 DEF DecisionStale, Load, Turn, Asked, Unread, Unsent
<1>8. CASE DecisionFailed
  BY <1>8 DEF DecisionFailed, Turn, GivenUp, Unsent
<1>9. CASE Export
  BY <1>9 DEF Export, Turn
<1>10. CASE Exported
  BY <1>10 DEF Exported, Turn
<1>11. CASE StartJob
  BY <1>11 DEF StartJob, Turn
<1>12. CASE RetryAdmission
  BY <1>12 DEF RetryAdmission, Turn
<1>13. CASE SendAdmission
  <2>1. Basis \in Evidence
    BY <1>13, BasisTyped DEF SendAdmission, Coordinated
  <2>2. QED
    BY <1>13, <2>1 DEF SendAdmission, Turn
<1>14. CASE NotSent
  BY <1>14 DEF NotSent, Turn, Cleared, ClearStored
<1>15. CASE AttemptOver
  BY <1>15 DEF AttemptOver, Load, Turn, Cleared, ClearStored, Asked, Unread
<1>16. CASE Admitted
  <2>1. post.job \in Works
    BY <1>16 DEF Admitted, Answered, PostOK
  <2> DEFINE following == [page EXCEPT !.pc = "polling", !.job = post.job,
                                       !.attempt = post.job, !.canContinue = FALSE]
  <2>2. page' = following \/ page' = [following EXCEPT !.admission = Nothing]
    BY <1>16 DEF Admitted, Turn
  <2>3. CASE page' = following
    BY <2>1, <2>3
  <2>4. CASE page' = [following EXCEPT !.admission = Nothing]
    BY <2>1, <2>4
  <2>5. QED
    BY <2>2, <2>3, <2>4
<1>17. CASE AdmissionStale
  BY <1>17 DEF AdmissionStale, Answered, Load, Turn, Cleared, ClearStored, Asked,
     Unread, Unsent
<1>18. CASE AdmissionRefused
  BY <1>18 DEF AdmissionRefused, Answered, Turn, Cleared, ClearStored, Unsent
<1>19. CASE AdmissionLocked
  BY <1>19 DEF AdmissionLocked, Answered, Turn, Unsent
<1>20. CASE AdmissionUnknown
  BY <1>20 DEF AdmissionUnknown, Turn, GivenUp, Unsent
<1>21. CASE PollEnded
  BY <1>21 DEF PollEnded, PageTurns, Turn
<1>22. CASE Completed
  BY <1>22 DEF Completed, Dropped, Load, Turn, Asked, Unread
<1>23. CASE PollMissing
  BY <1>23 DEF PollMissing, Dropped, Load, Turn, Asked, Unread
<1>24. CASE Pause
  BY <1>24 DEF Pause, PageTurns, Turn
<1>25. CASE Continue
  BY <1>25 DEF Continue, PageTurns, Turn
<1>26. CASE Hide
  <2>1. CASE page' = [page EXCEPT !.hidden = TRUE]
    BY <2>1
  <2>2. ASSUME NEW offered \in BOOLEAN,
               page' = [page EXCEPT !.hidden = TRUE, !.pc = "idle", !.canContinue = offered]
        PROVE  PageOK'
    BY <2>2
  <2>3. QED
    BY <1>26, <2>1, <2>2 DEF Hide, PageTurns, Turn
<1>27. CASE Unhide
  <2>1. CASE page' = [page EXCEPT !.hidden = FALSE]
    BY <2>1
  <2>2. CASE page' = [page EXCEPT !.hidden = FALSE, !.pc = "polling", !.canContinue = FALSE]
    BY <2>2
  <2>3. QED
    BY <1>27, <2>1, <2>2 DEF Unhide, PageTurns, Turn
<1>28. QED
  BY <1>1, <1>2, <1>3, <1>4, <1>5, <1>6, <1>7, <1>8, <1>9, <1>10, <1>11, <1>12, <1>13,
     <1>14, <1>15, <1>16, <1>17, <1>18, <1>19, <1>20, <1>21, <1>22, <1>23, <1>24, <1>25,
     <1>26, <1>27 DEF PageSteps

LEMMA PagePosts ==
  ASSUME PostOK, PageOK, Coordinated, PageSteps
  PROVE  PostOK'
<1> USE DEF PostOK
<1>1. CASE Leave
  BY <1>1 DEF Leave, GivenUp, Unsent
<1>2. CASE Decide
  <2>1. page.shown.evidence \in Evidence
    BY <1>2 DEF Decide, Offers, PageOK, PageShapes, Snapshots
  <2>2. QED
    BY <1>2, <2>1 DEF Decide, Sent, Unsent
<1>3. CASE Decided
  BY <1>3 DEF Decided, Unsent
<1>4. CASE DecisionStale
  BY <1>4 DEF DecisionStale, Unsent
<1>5. CASE DecisionFailed
  BY <1>5 DEF DecisionFailed, GivenUp, Unsent
<1>6. CASE SendAdmission
  <2>1. Basis \in Evidence
    BY <1>6, BasisTyped DEF SendAdmission, Coordinated
  <2>2. QED
    BY <1>6, <2>1 DEF SendAdmission, Sent, Unsent
<1>7. CASE Admitted
  BY <1>7 DEF Admitted, Unsent
<1>8. CASE AdmissionStale
  BY <1>8 DEF AdmissionStale, Unsent
<1>9. CASE AdmissionRefused
  BY <1>9 DEF AdmissionRefused, Unsent
<1>10. CASE AdmissionLocked
  BY <1>10 DEF AdmissionLocked, Unsent
<1>11. CASE AdmissionUnknown
  BY <1>11 DEF AdmissionUnknown, GivenUp, Unsent
<1>12. CASE Attach \/ Loaded \/ LoadFailed \/ Export \/ Exported \/ StartJob \/
   RetryAdmission \/ NotSent \/ AttemptOver \/ PollEnded \/ Completed \/ PollMissing \/
   Pause \/ Continue \/ Hide \/ Unhide
  BY <1>12 DEF Attach, Turn, Gone, Asked, Unread, Loaded, Show, Resting, LoadFailed,
     Export, Exported, StartJob, RetryAdmission, NotSent, Cleared, ClearStored,
     AttemptOver, Load, PollEnded, PageTurns, Completed, Dropped, PollMissing, Pause,
     Continue, Hide, Unhide
<1>13. QED
  BY <1>1, <1>2, <1>3, <1>4, <1>5, <1>6, <1>7, <1>8, <1>9, <1>10, <1>11, <1>12 DEF
     PageSteps

LEMMA PageReads ==
  ASSUME ReadingOK, PageSteps
  PROVE  ReadingOK'
<1> USE DEF ReadingOK
<1>1. reading' \in {reading, Unread, Asked}
  <2>1. CASE Attach
    BY <2>1 DEF Attach, Turn, Gone, Asked, Unread
  <2>2. CASE Leave
    BY <2>2 DEF Leave, Turn, Gone, Unread, GivenUp, Unsent
  <2>3. CASE Loaded
    BY <2>3 DEF Loaded, Turn, Show, Resting, Unread
  <2>4. CASE LoadFailed
    BY <2>4 DEF LoadFailed, Turn, Resting, Unread
  <2>5. CASE Decide
    BY <2>5 DEF Decide, Turn, Sent, Unsent, Offers
  <2>6. CASE Decided
    BY <2>6 DEF Decided, Turn, Show, Unsent
  <2>7. CASE DecisionStale
    BY <2>7 DEF DecisionStale, Load, Turn, Asked, Unread, Unsent
  <2>8. CASE DecisionFailed
    BY <2>8 DEF DecisionFailed, Turn, GivenUp, Unsent
  <2>9. CASE Export
    BY <2>9 DEF Export, Turn
  <2>10. CASE Exported
    BY <2>10 DEF Exported, Turn
  <2>11. CASE StartJob
    BY <2>11 DEF StartJob, Turn
  <2>12. CASE RetryAdmission
    BY <2>12 DEF RetryAdmission, Turn
  <2>13. CASE SendAdmission
    BY <2>13 DEF SendAdmission, Turn, Sent, Unsent
  <2>14. CASE NotSent
    BY <2>14 DEF NotSent, Turn, Cleared, ClearStored
  <2>15. CASE AttemptOver
    BY <2>15 DEF AttemptOver, Load, Turn, Cleared, ClearStored, Asked, Unread
  <2>16. CASE Admitted
    BY <2>16 DEF Admitted, Answered, Turn, Unsent
  <2>17. CASE AdmissionStale
    BY <2>17 DEF AdmissionStale, Answered, Load, Turn, Cleared, ClearStored, Asked,
       Unread, Unsent
  <2>18. CASE AdmissionRefused
    BY <2>18 DEF AdmissionRefused, Answered, Turn, Cleared, ClearStored, Unsent
  <2>19. CASE AdmissionLocked
    BY <2>19 DEF AdmissionLocked, Answered, Turn, Unsent
  <2>20. CASE AdmissionUnknown
    BY <2>20 DEF AdmissionUnknown, Turn, GivenUp, Unsent
  <2>21. CASE PollEnded
    BY <2>21 DEF PollEnded, PageTurns, Turn
  <2>22. CASE Completed
    BY <2>22 DEF Completed, Dropped, Load, Turn, Asked, Unread
  <2>23. CASE PollMissing
    BY <2>23 DEF PollMissing, Dropped, Load, Turn, Asked, Unread
  <2>24. CASE Pause
    BY <2>24 DEF Pause, PageTurns, Turn
  <2>25. CASE Continue
    BY <2>25 DEF Continue, PageTurns, Turn
  <2>26. CASE Hide
    BY <2>26 DEF Hide, PageTurns, Turn
  <2>27. CASE Unhide
    BY <2>27 DEF Unhide, PageTurns, Turn
  <2>28. QED
    BY <2>1, <2>2, <2>3, <2>4, <2>5, <2>6, <2>7, <2>8, <2>9, <2>10, <2>11, <2>12, <2>13,
       <2>14, <2>15, <2>16, <2>17, <2>18, <2>19, <2>20, <2>21, <2>22, <2>23, <2>24, <2>25,
       <2>26, <2>27 DEF PageSteps
<1>2. QED
  BY <1>1 DEF Unread, Asked

LEMMA PageStores ==
  ASSUME PostOK, PageOK, StoredOK, Coordinated, PageSteps
  PROVE  StoredOK'
<1> USE DEF StoredOK
<1>1. CASE Attach
  BY <1>1 DEF Attach
<1>2. CASE Loaded
  BY <1>2 DEF Loaded, Turn, Show, Resting, Unread
<1>3. CASE SendAdmission
  <2>1. Basis \in Evidence
    BY <1>3, BasisTyped DEF SendAdmission, Coordinated
  <2>2. QED
    BY <1>3, <2>1 DEF SendAdmission
<1>4. CASE NotSent
  BY <1>4 DEF NotSent, Turn, Cleared, ClearStored
<1>5. CASE AttemptOver
  BY <1>5 DEF AttemptOver, Load, Turn, Cleared, ClearStored, Asked, Unread
<1>6. CASE Admitted
  <2>1. post.job \in Works
    BY <1>6 DEF Admitted, Answered, PostOK
  <2>2. QED
    BY <1>6, <2>1 DEF Admitted
<1>7. CASE AdmissionStale
  BY <1>7 DEF AdmissionStale, Answered, Load, Turn, Cleared, ClearStored, Asked, Unread,
     Unsent
<1>8. CASE AdmissionRefused
  BY <1>8 DEF AdmissionRefused, Answered, Turn, Cleared, ClearStored, Unsent
<1>9. CASE Completed
  BY <1>9 DEF Completed, Dropped, Load, Turn, Asked, Unread
<1>10. CASE PollMissing
  BY <1>10 DEF PollMissing, Dropped, Load, Turn, Asked, Unread
<1>11. CASE Leave \/ LoadFailed \/ Decide \/ Decided \/ DecisionStale \/ DecisionFailed
   \/ Export \/ Exported \/ StartJob \/ RetryAdmission \/ AdmissionLocked \/
   AdmissionUnknown \/ PollEnded \/ Pause \/ Continue \/ Hide \/ Unhide
  BY <1>11 DEF Leave, Turn, Gone, Unread, GivenUp, Unsent, LoadFailed, Resting, Decide,
     Sent, Offers, Decided, Show, DecisionStale, Load, Asked, DecisionFailed, Export,
     Exported, StartJob, RetryAdmission, AdmissionLocked, Answered, AdmissionUnknown,
     PollEnded, PageTurns, Pause, Continue, Hide, Unhide
<1>12. QED
  BY <1>1, <1>2, <1>3, <1>4, <1>5, <1>6, <1>7, <1>8, <1>9, <1>10, <1>11 DEF PageSteps

-----------------------------------------------------------------------------
(* The job that the page follows.                                          *)

\* The page's part in following a job: what a step of the page may rest on.
FollowInv == Coordinated /\ NoChoiceWhileFollowing /\ JobIsFollowed

LEMMA OthersLeavePage ==
  ASSUME Elsewhere \/ Reads \/ Serves
  PROVE  UNCHANGED <<page, stored>>
<1>1. CASE Elsewhere
  BY <1>1 DEF Elsewhere
<1>2. CASE Reads
  BY <1>2 DEF Reads, ReadSession, ReadSnapshot, ReadTimeline, ReadAgain, RefuseRead, ReadTo
<1>3. CASE ServeDecision \/ AnswerDecision \/ ServeStale \/ ServeError
  BY <1>3 DEF ServeDecision, AnswerDecision, ServeStale, ServeError, Answer, PostTo
<1>4. ASSUME NEW w \in Works, ServeAdmission(w) \/ RepeatAdmission(w)
      PROVE  UNCHANGED <<page, stored>>
  BY <1>4 DEF ServeAdmission, RepeatAdmission, Answer, PostTo
<1>5. ASSUME NEW w \in Works, BeginWork(w) \/ EndWork(w) \/ LoseWork(w)
      PROVE  UNCHANGED <<page, stored>>
  BY <1>5 DEF BeginWork, EndWork, LoseWork
<1>6. QED
  BY <1>1, <1>2, <1>3, <1>4, <1>5 DEF Serves

LEMMA PageLeavesOthers ==
  ASSUME PageSteps
  PROVE  UNCHANGED serverSide
<1>1. CASE Attach
  BY <1>1 DEF Attach, Turn, Gone, Asked, Unread
<1>2. CASE Leave
  BY <1>2 DEF Leave, Turn, Gone, Unread, GivenUp, Unsent
<1>3. CASE Loaded
  BY <1>3 DEF Loaded, Turn, Show, Resting, Unread
<1>4. CASE LoadFailed
  BY <1>4 DEF LoadFailed, Turn, Resting, Unread
<1>5. CASE Decide
  BY <1>5 DEF Decide, Turn, Sent, Unsent, Offers, Idle
<1>6. CASE Decided
  BY <1>6 DEF Decided, Turn, Show, Unsent
<1>7. CASE DecisionStale
  BY <1>7 DEF DecisionStale, Load, Turn, Asked, Unread, Unsent
<1>8. CASE DecisionFailed
  BY <1>8 DEF DecisionFailed, Turn, GivenUp, Unsent
<1>9. CASE Export
  BY <1>9 DEF Export, Turn, Offers, Idle
<1>10. CASE Exported
  BY <1>10 DEF Exported, Turn
<1>11. CASE StartJob
  BY <1>11 DEF StartJob, Turn, Offers, Idle
<1>12. CASE RetryAdmission
  BY <1>12 DEF RetryAdmission, Turn, Idle
<1>13. CASE SendAdmission
  BY <1>13 DEF SendAdmission, Turn, Sent, Unsent
<1>14. CASE NotSent
  BY <1>14 DEF NotSent, Turn, Cleared, ClearStored
<1>15. CASE AttemptOver
  BY <1>15 DEF AttemptOver, Load, Turn, Cleared, ClearStored, Asked, Unread
<1>16. CASE Admitted
  BY <1>16 DEF Admitted, Answered, Turn, Unsent
<1>17. CASE AdmissionStale
  BY <1>17 DEF AdmissionStale, Answered, Load, Turn, Cleared, ClearStored, Asked,
     Unread, Unsent
<1>18. CASE AdmissionRefused
  BY <1>18 DEF AdmissionRefused, Answered, Turn, Cleared, ClearStored, Unsent
<1>19. CASE AdmissionLocked
  BY <1>19 DEF AdmissionLocked, Answered, Turn, Unsent
<1>20. CASE AdmissionUnknown
  BY <1>20 DEF AdmissionUnknown, Turn, GivenUp, Unsent
<1>21. CASE PollEnded
  BY <1>21 DEF PollEnded, PageTurns, Turn
<1>22. CASE Completed
  BY <1>22 DEF Completed, Dropped, Load, Turn, Asked, Unread
<1>23. CASE PollMissing
  BY <1>23 DEF PollMissing, Dropped, Load, Turn, Asked, Unread
<1>24. CASE Pause
  BY <1>24 DEF Pause, PageTurns, Turn
<1>25. CASE Continue
  BY <1>25 DEF Continue, PageTurns, Turn, Idle
<1>26. CASE Hide
  BY <1>26 DEF Hide, PageTurns, Turn
<1>27. CASE Unhide
  BY <1>27 DEF Unhide, PageTurns, Turn
<1>28. QED
  BY <1>1, <1>2, <1>3, <1>4, <1>5, <1>6, <1>7, <1>8, <1>9, <1>10, <1>11, <1>12, <1>13,
     <1>14, <1>15, <1>16, <1>17, <1>18, <1>19, <1>20, <1>21, <1>22, <1>23, <1>24, <1>25,
     <1>26, <1>27 DEF PageSteps

LEMMA PageFollows ==
  ASSUME PostOK, PageOK, StoredOK, FollowInv, PageSteps
  PROVE  FollowInv'
<1> USE DEF FollowInv, Coordinated, NoChoiceWhileFollowing, JobIsFollowed
<1>a. page \in PageShapes /\ Nothing \notin Works
  BY PageAssumption DEF PageOK
<1> USE <1>a DEF PageShapes
<1>1. CASE Attach
  <2>1. stored.job \in Works \cup {Nothing}
    BY DEF StoredOK
  <2> DEFINE opened(a) == [Gone EXCEPT !.job = stored.job, !.attempt = stored.job,
                                        !.admission = a]
  <2>2. \E a \in {stored.admission, Nothing} :
          \/ stored.job # Nothing /\ page' = [opened(a) EXCEPT !.pc = "polling"]
          \/ /\ stored.job = Nothing
             /\ page' = [opened(a) EXCEPT !.pc = "loading", !.after = "initial"]
    BY <1>1 DEF Attach, Turn
  <2>3. /\ page'.pc = IF stored.job # Nothing THEN "polling" ELSE "loading"
        /\ page'.job = stored.job /\ page'.attempt = stored.job /\ ~page'.enabled
    BY <2>2 DEF Gone
  <2>4. QED
    BY <2>1, <2>3
<1>2. CASE Leave
  BY <1>2 DEF Leave, Turn, Gone, Unread, GivenUp, Unsent
<1>3. CASE Loaded
  BY <1>3 DEF Loaded, Turn, Show, Resting, Unread
<1>4. CASE LoadFailed
  BY <1>4 DEF LoadFailed, Turn, Resting, Unread
<1>5. CASE Decide
  BY <1>5 DEF Decide, Turn, Sent, Unsent, Offers, Idle
<1>6. CASE Decided
  BY <1>6 DEF Decided, Turn, Show, Unsent
<1>7. CASE DecisionStale
  BY <1>7 DEF DecisionStale, Load, Turn, Asked, Unread, Unsent
<1>8. CASE DecisionFailed
  BY <1>8 DEF DecisionFailed, Turn, GivenUp, Unsent
<1>9. CASE Export
  BY <1>9 DEF Export, Turn, Offers, Idle
<1>10. CASE Exported
  BY <1>10 DEF Exported, Turn
<1>11. CASE StartJob
  BY <1>11 DEF StartJob, Turn, Offers, Idle
<1>12. CASE RetryAdmission
  BY <1>12 DEF RetryAdmission, Turn, Idle
<1>13. CASE SendAdmission
  BY <1>13 DEF SendAdmission, Turn, Sent, Unsent
<1>14. CASE NotSent
  BY <1>14 DEF NotSent, Turn, Cleared, ClearStored
<1>15. CASE AttemptOver
  BY <1>15 DEF AttemptOver, Load, Turn, Cleared, ClearStored, Asked, Unread
<1>16. CASE Admitted
  <2>1. post.job \in Works
    BY <1>16 DEF Admitted, Answered, PostOK
  <2> DEFINE following == [page EXCEPT !.pc = "polling", !.job = post.job,
                                       !.attempt = post.job, !.canContinue = FALSE]
  <2>2. page' = following \/ page' = [following EXCEPT !.admission = Nothing]
    BY <1>16 DEF Admitted, Turn
  <2>3. page.pc = "submitting" /\ ~page.enabled
    BY <1>16 DEF Admitted, Answered
  <2>4. /\ page'.pc = "polling" /\ page'.job = post.job /\ page'.attempt = post.job
        /\ page'.enabled = page.enabled
    BY <2>2
  <2>5. QED
    BY <2>1, <2>3, <2>4
<1>17. CASE AdmissionStale
  BY <1>17 DEF AdmissionStale, Answered, Load, Turn, Cleared, ClearStored, Asked,
     Unread, Unsent
<1>18. CASE AdmissionRefused
  BY <1>18 DEF AdmissionRefused, Answered, Turn, Cleared, ClearStored, Unsent
<1>19. CASE AdmissionLocked
  BY <1>19 DEF AdmissionLocked, Answered, Turn, Unsent
<1>20. CASE AdmissionUnknown
  BY <1>20 DEF AdmissionUnknown, Turn, GivenUp, Unsent
<1>21. CASE PollEnded
  BY <1>21 DEF PollEnded, PageTurns, Turn
<1>22. CASE Completed
  BY <1>22 DEF Completed, Dropped, Load, Turn, Asked, Unread
<1>23. CASE PollMissing
  BY <1>23 DEF PollMissing, Dropped, Load, Turn, Asked, Unread
<1>24. CASE Pause
  BY <1>24 DEF Pause, PageTurns, Turn
<1>25. CASE Continue
  BY <1>25 DEF Continue, PageTurns, Turn, Idle
<1>26. CASE Hide
  BY <1>26 DEF Hide, PageTurns, Turn
<1>27. CASE Unhide
  BY <1>27 DEF Unhide, PageTurns, Turn
<1>28. QED
  BY <1>1, <1>2, <1>3, <1>4, <1>5, <1>6, <1>7, <1>8, <1>9, <1>10, <1>11, <1>12, <1>13,
     <1>14, <1>15, <1>16, <1>17, <1>18, <1>19, <1>20, <1>21, <1>22, <1>23, <1>24, <1>25,
     <1>26, <1>27 DEF PageSteps

-----------------------------------------------------------------------------
(* Evidence: faithful when read, whatever happens to the session later.    *)

\* An evidence read off the store: later it may be of an earlier revision, and in
\* the present one it is still the session, but for what an acquisition records.
Faithful(e, d) ==
  /\ e.revision <= d.revision
  /\ e.revision = d.revision =>
       e.state = d.state /\ (e.state # Acquiring => e.material = d.material)

EvidenceOf(e, d) == e = Nothing \/ Faithful(e, d)

SnapshotOf(s, d) ==
  \/ s = Nothing
  \/ Faithful(s.evidence, d) /\ s.timeline \in {Nothing, s.evidence.revision}

PageHeld == SnapshotOf(page.shown, durable) /\ EvidenceOf(page.admission, durable)

StoredHeld == EvidenceOf(stored.admission, durable)

PostHeld ==
  /\ post.stage # "none" => Faithful(post.basis, durable)
  /\ SnapshotOf(post.seen, durable)

ReadingHeld ==
  reading.stage \in {"read", "timed", "answered"} =>
    /\ reading.seen.evidence.revision = reading.revision
    /\ Faithful(reading.seen.evidence, durable)
    /\ reading.seen.timeline \in {Nothing, reading.seen.evidence.revision}

WorkHeld == \A w \in Works : work[w].status # "unused" => Faithful(work[w].basis, durable)

EvidenceInv == PageHeld /\ StoredHeld /\ PostHeld /\ ReadingHeld /\ WorkHeld

LEMMA FaithfulLasts ==
  ASSUME DurableOK, Move \/ Progress \/ UNCHANGED durable,
         NEW e \in Evidence, Faithful(e, durable)
  PROVE  Faithful(e, durable')
<1>1. e.revision \in Nat /\ durable.revision \in Nat
  BY DEF DurableOK, Evidence
<1>2. CASE Move
  BY <1>1, <1>2 DEF Move, Faithful
<1>3. CASE Progress
  <2>1. durable.state = Acquiring
    BY <1>3 DEF Progress
  <2>2. durable'.revision = durable.revision /\ durable'.state = durable.state
    BY <1>3 DEF Progress, DurableOK, Evidence
  <2>3. QED
    BY <2>1, <2>2 DEF Faithful
<1>4. QED
  BY <1>2, <1>3

LEMMA HeldLasts ==
  ASSUME DurableOK, Move \/ Progress \/ UNCHANGED durable
  PROVE  /\ \A e \in Evidence \cup {Nothing} :
              EvidenceOf(e, durable) => EvidenceOf(e, durable')
         /\ \A s \in Snapshots \cup {Nothing} :
              SnapshotOf(s, durable) => SnapshotOf(s, durable')
<1>1. ASSUME NEW e \in Evidence \cup {Nothing}, EvidenceOf(e, durable)
      PROVE  EvidenceOf(e, durable')
  BY <1>1, FaithfulLasts DEF EvidenceOf
<1>2. ASSUME NEW s \in Snapshots \cup {Nothing}, SnapshotOf(s, durable)
      PROVE  SnapshotOf(s, durable')
  <2>1. CASE s = Nothing
    BY <2>1 DEF SnapshotOf
  <2>2. CASE s # Nothing
    <3>1. s.evidence \in Evidence /\ Faithful(s.evidence, durable)
      BY <1>2, <2>2 DEF SnapshotOf, Snapshots
    <3>2. Faithful(s.evidence, durable')
      BY <3>1, FaithfulLasts
    <3>3. QED
      BY <1>2, <2>2, <3>2 DEF SnapshotOf
  <2>3. QED
    BY <2>1, <2>2
<1>3. QED
  BY <1>1, <1>2

\* What is read off the store is faithful to it.
LEMMA SeenHeld ==
  ASSUME DurableOK, NEW t \in {Nothing, durable.revision}
  PROVE  SnapshotOf(Seen(t), durable)
<1>1. Seen(t).evidence = durable /\ Seen(t).timeline = t
  BY DEF Seen
<1>2. Faithful(durable, durable)
  BY DEF Faithful, DurableOK, Evidence
<1>3. QED
  BY <1>1, <1>2 DEF SnapshotOf

LEMMA NothingHeld ==
  EvidenceOf(Nothing, durable) /\ SnapshotOf(Nothing, durable)
BY DEF EvidenceOf, SnapshotOf

\* A step that takes up no evidence keeps what is held faithful.
LEMMA NothingTakenUp ==
  ASSUME PageTypeOK, EvidenceInv, Move \/ Progress \/ UNCHANGED durable,
         UNCHANGED <<page, stored, reading>>,
         post'.basis = post.basis, post'.seen = post.seen,
         post.stage = "none" => post'.stage = "none",
         \A w \in Works : /\ work'[w].basis = work[w].basis
                          /\ work[w].status = "unused" => work'[w].status = "unused"
  PROVE  EvidenceInv'
<1>1. DurableOK
  BY DEF PageTypeOK
<1>2. /\ page.shown \in Snapshots \cup {Nothing} /\ page.admission \in Evidence \cup {Nothing}
      /\ stored.admission \in Evidence \cup {Nothing}
  BY DEF PageTypeOK, PageOK, PageShapes, StoredOK
<1>3. PageHeld' /\ StoredHeld'
  BY <1>1, <1>2, HeldLasts DEF EvidenceInv, PageHeld, StoredHeld
<1>4. PostHeld'
  <2>1. /\ post.seen \in Snapshots \cup {Nothing}
        /\ post.stage # "none" => post.basis \in Evidence
    BY DEF PageTypeOK, PostOK
  <2>2. PostHeld
    BY DEF EvidenceInv
  <2>3. SnapshotOf(post.seen, durable')
    BY <1>1, <2>1, <2>2, HeldLasts DEF PostHeld
  <2>4. post.stage # "none" => Faithful(post.basis, durable')
    BY <1>1, <2>1, <2>2, FaithfulLasts DEF PostHeld
  <2>5. QED
    BY <2>3, <2>4 DEF PostHeld
<1>5. ReadingHeld'
  <2>1. CASE reading.stage \in {"read", "timed", "answered"}
    <3>1. reading.seen.evidence \in Evidence
      BY <2>1 DEF PageTypeOK, ReadingOK, Snapshots
    <3>2. Faithful(reading.seen.evidence, durable)
      BY <2>1 DEF EvidenceInv, ReadingHeld
    <3>3. Faithful(reading.seen.evidence, durable')
      BY <1>1, <3>1, <3>2, FaithfulLasts
    <3>4. QED
      BY <2>1, <3>3 DEF EvidenceInv, ReadingHeld
  <2>2. QED
    BY <2>1 DEF ReadingHeld
<1>6. ASSUME NEW w \in Works, work'[w].status # "unused"
      PROVE  Faithful(work'[w].basis, durable')
  <2>1. work[w].status # "unused" /\ work'[w].basis = work[w].basis
    BY <1>6
  <2>2. work[w].basis \in Evidence /\ Faithful(work[w].basis, durable)
    BY <2>1 DEF PageTypeOK, WorkOK, EvidenceInv, WorkHeld
  <2>3. QED
    BY <1>1, <2>1, <2>2, FaithfulLasts
<1>7. QED
  BY <1>3, <1>4, <1>5, <1>6 DEF EvidenceInv, WorkHeld

\* The four reads of a snapshot.
LEMMA ReadsKeepEvidence ==
  ASSUME PageTypeOK, EvidenceInv, Reads
  PROVE  EvidenceInv'
<1>1. UNCHANGED <<durable, work, post, page, stored>>
  BY DEF Reads, ReadSession, ReadSnapshot, ReadTimeline, ReadAgain, RefuseRead, ReadTo, serverSide
<1>2. PageHeld' /\ StoredHeld' /\ PostHeld' /\ WorkHeld'
  BY <1>1 DEF EvidenceInv, PageHeld, StoredHeld, PostHeld, WorkHeld
<1>3. ReadingHeld'
  <2> USE DEF ReadTo, RefuseRead
  <2>1. reading \in [stage : {"none", "asked", "found", "read", "timed", "answered", "refused"},
                     revision : Nat, seen : Snapshots \cup {Nothing}]
    BY DEF PageTypeOK, ReadingOK
  <2>2. ReadingHeld
    BY DEF EvidenceInv
  <2>3. CASE reading' = [Unread EXCEPT !.stage = "refused"]
    BY <2>3 DEF ReadingHeld, Unread
  <2>4. CASE ReadSession
    BY <2>1, <2>2, <2>4, <1>1 DEF ReadSession, ReadingHeld
  <2>5. CASE ReadSnapshot
    <3>1. /\ Seen(Nothing).evidence = durable /\ Seen(Nothing).timeline = Nothing
          /\ Faithful(durable, durable)
      BY DEF PageTypeOK, Seen, Faithful, DurableOK, Evidence
    <3>2. CASE /\ Unmoved(reading.revision)
               /\ reading' = [reading EXCEPT !.stage = "read", !.seen = Seen(Nothing)]
      BY <2>1, <3>1, <3>2, <1>1 DEF ReadingHeld, Unmoved
    <3>3. QED
      BY <2>3, <2>5, <3>2 DEF ReadSnapshot
  <2>6. CASE ReadTimeline
    <3>1. CASE /\ Unmoved(reading.revision) /\ reading.stage = "read"
               /\ reading' = [reading EXCEPT !.stage = "timed",
                                             !.seen.timeline = durable.revision]
      <4>1. /\ reading.seen \in Snapshots
            /\ reading.seen.evidence.revision = durable.revision
            /\ Faithful(reading.seen.evidence, durable)
        BY <3>1, <2>2 DEF PageTypeOK, ReadingOK, ReadingHeld, Unmoved
      <4>2. /\ reading'.seen = [reading.seen EXCEPT !.timeline = durable.revision]
            /\ reading'.revision = reading.revision
        BY <3>1, <2>1
      <4>3. /\ reading'.seen.evidence = reading.seen.evidence
            /\ reading'.seen.timeline = durable.revision
        BY <4>1, <4>2 DEF Snapshots
      <4>4. QED
        BY <4>1, <4>2, <4>3, <3>1, <1>1 DEF ReadingHeld, Unmoved
    <3>2. QED
      BY <2>3, <2>6, <3>1 DEF ReadTimeline
  <2>7. CASE ReadAgain
    <3>1. CASE /\ reading.stage = "timed"
               /\ reading' = [reading EXCEPT !.stage = "answered"]
      BY <2>1, <2>2, <3>1, <1>1 DEF ReadingHeld
    <3>2. QED
      BY <2>3, <2>7, <3>1 DEF ReadAgain
  <2>8. QED
    BY <2>4, <2>5, <2>6, <2>7 DEF Reads
<1>4. QED
  BY <1>2, <1>3 DEF EvidenceInv

\* POSTs and jobs: what the server takes up is what was sent.
LEMMA ServesKeepEvidence ==
  ASSUME PageTypeOK, EvidenceInv, Serves
  PROVE  EvidenceInv'
<1>1. PostHeld /\ WorkHeld /\ StoredHeld /\ PageHeld /\ ReadingHeld
  BY DEF EvidenceInv
<1>2. \A w \in Works : work[w] \in [status : {"unused", "queued", "begun", "ended", "gone"},
                                    basis : Evidence \cup {Nothing}, result : Nat]
  BY DEF PageTypeOK, WorkOK
<1>3. post \in [kind : {"none", "decision", "admission"}, basis : Evidence \cup {Nothing},
                stage : {"none", "sent", "committed", "answered", "accepted", "stale",
                         "refused"},
                seen : Snapshots \cup {Nothing}, job : Works \cup {Nothing}, mine : BOOLEAN]
  BY DEF PageTypeOK, PostOK
<1>4. ASSUME post' = Unsent \/ (/\ post.stage # "none" /\ post'.basis = post.basis
                                /\ SnapshotOf(post'.seen, durable)),
             durable' = durable
      PROVE  PostHeld'
  BY <1>1, <1>4, NothingHeld DEF PostHeld, Unsent
<1>5. ASSUME UNCHANGED <<durable, page, stored, reading>>
      PROVE  PageHeld' /\ StoredHeld' /\ ReadingHeld'
  BY <1>1, <1>5 DEF PageHeld, StoredHeld, ReadingHeld
<1>6. CASE ServeDecision
  <2>1. /\ UNCHANGED <<work, page, stored, reading>> /\ Move
        /\ post.stage = "sent" /\ post' = [post EXCEPT !.stage = "committed"]
    BY <1>6 DEF ServeDecision, PostTo
  <2>2. post'.basis = post.basis /\ post'.seen = post.seen
    BY <1>3, <2>1
  <2>3. QED
    BY <2>1, <2>2, NothingTakenUp
<1>7. CASE AnswerDecision
  <2>1. /\ UNCHANGED <<durable, work, page, stored, reading>>
        /\ post.stage = "committed"
        /\ post' \in {[post EXCEPT !.stage = "answered", !.seen = Seen(Nothing)], Unsent}
    BY <1>7 DEF AnswerDecision, Answer, PostTo, serverSide
  <2>2. SnapshotOf(Seen(Nothing), durable)
    BY SeenHeld DEF PageTypeOK
  <2>3. PostHeld'
    BY <1>3, <1>4, <2>1, <2>2
  <2>4. QED
    BY <1>1, <1>5, <2>1, <2>3 DEF EvidenceInv, WorkHeld
<1>8. CASE ServeStale \/ ServeError
  <2>1. /\ UNCHANGED <<durable, work, page, stored, reading>>
        /\ post.stage = "sent"
        /\ \/ post' = [post EXCEPT !.stage = "stale"]
           \/ post' = [post EXCEPT !.stage = "refused"]
           \/ post' = Unsent
    BY <1>8 DEF ServeStale, ServeError, Answer, PostTo, serverSide
  <2>2. PostHeld'
    BY <1>1, <1>3, <1>4, <2>1 DEF PostHeld
  <2>3. QED
    BY <1>1, <1>5, <2>1, <2>2 DEF EvidenceInv, WorkHeld
<1>9. ASSUME NEW w \in Works, ServeAdmission(w) \/ RepeatAdmission(w)
      PROVE  EvidenceInv'
  <2>1. /\ UNCHANGED <<durable, page, stored, reading>>
        /\ post.stage = "sent"
        /\ post' \in {[post EXCEPT !.stage = "accepted", !.job = w], Unsent}
        /\ \/ UNCHANGED work
           \/ work' = [work EXCEPT ![w] = [status |-> "queued", basis |-> post.basis,
                                           result |-> 0]]
    BY <1>9 DEF ServeAdmission, RepeatAdmission, Answer, PostTo, serverSide
  <2>2. PostHeld'
    BY <1>1, <1>3, <1>4, <2>1 DEF PostHeld
  <2>3. WorkHeld'
    <3>1. Faithful(post.basis, durable)
      BY <1>1, <2>1 DEF PostHeld
    <3>2. \A v \in Works : work'[v] = work[v] \/ work'[v].basis = post.basis
      BY <2>1 DEF PageTypeOK, WorkOK
    <3>3. QED
      BY <1>1, <2>1, <3>1, <3>2 DEF WorkHeld
  <2>4. QED
    BY <1>5, <2>1, <2>2, <2>3 DEF EvidenceInv
<1>10. ASSUME NEW w \in Works, BeginWork(w) \/ EndWork(w) \/ LoseWork(w)
       PROVE  EvidenceInv'
  <2>1. /\ UNCHANGED <<page, stored, reading, post>>
        /\ Move \/ Progress \/ UNCHANGED durable
        /\ work[w].status # "unused"
        /\ \/ work' = [work EXCEPT ![w].status = "begun"]
           \/ work' = [work EXCEPT ![w].status = "ended", ![w].result = durable.revision]
           \/ work' = [work EXCEPT ![w].status = "gone"]
    BY <1>10 DEF BeginWork, EndWork, LoseWork
  <2>2. \A v \in Works : /\ work'[v].basis = work[v].basis
                         /\ work[v].status = "unused" => work'[v].status = "unused"
    BY <1>2, <2>1 DEF PageTypeOK, WorkOK
  <2>3. QED
    BY <2>1, <2>2, NothingTakenUp
<1>11. QED
  BY <1>6, <1>7, <1>8, <1>9, <1>10 DEF Serves

LEMMA BasisHeld ==
  ASSUME Coordinated, PageHeld, page.pc = "admitting"
  PROVE  Faithful(Basis, durable)
BY DEF Coordinated, PageHeld, Basis, EvidenceOf, SnapshotOf

LEMMA PageKeepsPage ==
  ASSUME PageTypeOK, Coordinated, EvidenceInv, PageSteps
  PROVE  PageHeld'
<1>a. /\ durable' = durable
      /\ SnapshotOf(page.shown, durable) /\ EvidenceOf(page.admission, durable)
      /\ EvidenceOf(stored.admission, durable) /\ SnapshotOf(post.seen, durable)
      /\ EvidenceOf(Nothing, durable) /\ SnapshotOf(Nothing, durable)
  BY PageLeavesOthers, NothingHeld
     DEF EvidenceInv, PageHeld, StoredHeld, PostHeld, serverSide
<1>b. page \in PageShapes
  BY DEF PageTypeOK, PageOK
<1> USE <1>a, <1>b DEF PageHeld, PageShapes
<1>1. CASE Attach
  <2> DEFINE opened(a) == [Gone EXCEPT !.job = stored.job, !.attempt = stored.job,
                                        !.admission = a]
  <2>1. \E a \in {stored.admission, Nothing} :
          \/ page' = [opened(a) EXCEPT !.pc = "polling"]
          \/ page' = [opened(a) EXCEPT !.pc = "loading", !.after = "initial"]
    BY <1>1 DEF Attach, Turn
  <2>2. page'.admission \in {stored.admission, Nothing} /\ page'.shown = Nothing
    BY <2>1 DEF Gone
  <2>3. QED
    BY <2>2
<1>2. CASE Leave
  BY <1>2 DEF Leave, Turn, Gone, Unread, GivenUp, Unsent
<1>3. CASE Loaded
  <2>1. SnapshotOf(reading.seen, durable)
    BY <1>3 DEF Loaded, EvidenceInv, ReadingHeld, SnapshotOf
  <2>2. page'.shown = reading.seen /\ page'.admission \in {page.admission, Nothing}
    BY <1>3 DEF Loaded, Turn, Show, Resting
  <2>3. QED
    BY <2>1, <2>2
<1>4. CASE LoadFailed
  BY <1>4 DEF LoadFailed, Turn, Resting, Unread
<1>5. CASE Decide
  BY <1>5 DEF Decide, Turn, Sent, Unsent, Offers, Idle
<1>6. CASE Decided
  BY <1>6 DEF Decided, Turn, Show, Unsent
<1>7. CASE DecisionStale
  BY <1>7 DEF DecisionStale, Load, Turn, Asked, Unread, Unsent
<1>8. CASE DecisionFailed
  BY <1>8 DEF DecisionFailed, Turn, GivenUp, Unsent
<1>9. CASE Export
  BY <1>9 DEF Export, Turn, Offers, Idle
<1>10. CASE Exported
  BY <1>10 DEF Exported, Turn
<1>11. CASE StartJob
  BY <1>11 DEF StartJob, Turn, Offers, Idle
<1>12. CASE RetryAdmission
  BY <1>12 DEF RetryAdmission, Turn, Idle
<1>13. CASE SendAdmission
  <2>1. Faithful(Basis, durable)
    BY <1>13, BasisHeld DEF SendAdmission, EvidenceInv
  <2>2. page'.admission = Basis /\ page'.shown = page.shown
    BY <1>13 DEF SendAdmission, Turn
  <2>3. QED
    BY <2>1, <2>2 DEF EvidenceOf
<1>14. CASE NotSent
  BY <1>14 DEF NotSent, Turn, Cleared, ClearStored
<1>15. CASE AttemptOver
  BY <1>15 DEF AttemptOver, Load, Turn, Cleared, ClearStored, Asked, Unread
<1>16. CASE Admitted
  <2> DEFINE following == [page EXCEPT !.pc = "polling", !.job = post.job,
                                       !.attempt = post.job, !.canContinue = FALSE]
  <2>1. page' = following \/ page' = [following EXCEPT !.admission = Nothing]
    BY <1>16 DEF Admitted, Turn
  <2>2. page'.shown = page.shown /\ page'.admission \in {page.admission, Nothing}
    BY <2>1
  <2>3. QED
    BY <2>2
<1>17. CASE AdmissionStale
  BY <1>17 DEF AdmissionStale, Answered, Load, Turn, Cleared, ClearStored, Asked,
     Unread, Unsent
<1>18. CASE AdmissionRefused
  BY <1>18 DEF AdmissionRefused, Answered, Turn, Cleared, ClearStored, Unsent
<1>19. CASE AdmissionLocked
  BY <1>19 DEF AdmissionLocked, Answered, Turn, Unsent
<1>20. CASE AdmissionUnknown
  BY <1>20 DEF AdmissionUnknown, Turn, GivenUp, Unsent
<1>21. CASE PollEnded
  BY <1>21 DEF PollEnded, PageTurns, Turn
<1>22. CASE Completed
  BY <1>22 DEF Completed, Dropped, Load, Turn, Asked, Unread
<1>23. CASE PollMissing
  BY <1>23 DEF PollMissing, Dropped, Load, Turn, Asked, Unread
<1>24. CASE Pause
  BY <1>24 DEF Pause, PageTurns, Turn
<1>25. CASE Continue
  BY <1>25 DEF Continue, PageTurns, Turn, Idle
<1>26. CASE Hide
  BY <1>26 DEF Hide, PageTurns, Turn
<1>27. CASE Unhide
  BY <1>27 DEF Unhide, PageTurns, Turn
<1>28. QED
  BY <1>1, <1>2, <1>3, <1>4, <1>5, <1>6, <1>7, <1>8, <1>9, <1>10, <1>11, <1>12, <1>13,
     <1>14, <1>15, <1>16, <1>17, <1>18, <1>19, <1>20, <1>21, <1>22, <1>23, <1>24, <1>25,
     <1>26, <1>27 DEF PageSteps

LEMMA PageKeepsStored ==
  ASSUME PageTypeOK, Coordinated, EvidenceInv, PageSteps
  PROVE  StoredHeld'
<1>a. /\ durable' = durable
      /\ EvidenceOf(stored.admission, durable) /\ EvidenceOf(Nothing, durable)
  BY PageLeavesOthers, NothingHeld DEF EvidenceInv, StoredHeld, serverSide
<1>b. stored \in [job : Works \cup {Nothing}, admission : Evidence \cup {Nothing}]
  BY DEF PageTypeOK, StoredOK
<1> USE <1>a, <1>b DEF StoredHeld
<1>1. CASE Attach
  BY <1>1 DEF Attach
<1>2. CASE Loaded
  BY <1>2 DEF Loaded, Turn, Show, Resting, Unread
<1>3. CASE SendAdmission
  <2>1. Faithful(Basis, durable)
    BY <1>3, BasisHeld DEF SendAdmission, EvidenceInv
  <2>2. stored'.admission = Basis
    BY <1>3 DEF SendAdmission
  <2>3. QED
    BY <2>1, <2>2 DEF EvidenceOf
<1>4. CASE NotSent
  BY <1>4 DEF NotSent, Turn, Cleared, ClearStored
<1>5. CASE AttemptOver
  BY <1>5 DEF AttemptOver, Load, Turn, Cleared, ClearStored, Asked, Unread
<1>6. CASE Admitted
  BY <1>6 DEF Admitted, Answered, Turn, Unsent
<1>7. CASE AdmissionStale
  BY <1>7 DEF AdmissionStale, Answered, Load, Turn, Cleared, ClearStored, Asked, Unread,
     Unsent
<1>8. CASE AdmissionRefused
  BY <1>8 DEF AdmissionRefused, Answered, Turn, Cleared, ClearStored, Unsent
<1>9. CASE Completed
  BY <1>9 DEF Completed, Dropped, Load, Turn, Asked, Unread
<1>10. CASE PollMissing
  BY <1>10 DEF PollMissing, Dropped, Load, Turn, Asked, Unread
<1>11. CASE Leave \/ LoadFailed \/ Decide \/ Decided \/ DecisionStale \/ DecisionFailed
   \/ Export \/ Exported \/ StartJob \/ RetryAdmission \/ AdmissionLocked \/
   AdmissionUnknown \/ PollEnded \/ Pause \/ Continue \/ Hide \/ Unhide
  BY <1>11 DEF Leave, Turn, Gone, Unread, GivenUp, Unsent, LoadFailed, Resting, Decide,
     Sent, Offers, Idle, Decided, Show, DecisionStale, Load, Asked, DecisionFailed,
     Export, Exported, StartJob, RetryAdmission, AdmissionLocked, Answered,
     AdmissionUnknown, PollEnded, PageTurns, Pause, Continue, Hide, Unhide
<1>12. QED
  BY <1>1, <1>2, <1>3, <1>4, <1>5, <1>6, <1>7, <1>8, <1>9, <1>10, <1>11 DEF PageSteps

LEMMA PageKeepsPost ==
  ASSUME PageTypeOK, Coordinated, EvidenceInv, PageSteps
  PROVE  PostHeld'
<1>a. durable' = durable /\ PostHeld /\ PageHeld /\ SnapshotOf(Nothing, durable)
  BY PageLeavesOthers, NothingHeld DEF EvidenceInv, serverSide
<1>b. post \in [kind : {"none", "decision", "admission"}, basis : Evidence \cup {Nothing},
                 stage : {"none", "sent", "committed", "answered", "accepted", "stale",
                          "refused"},
                 seen : Snapshots \cup {Nothing}, job : Works \cup {Nothing}, mine : BOOLEAN]
  BY DEF PageTypeOK, PostOK
<1> USE <1>a, <1>b DEF PostHeld
<1>1. CASE Leave
  BY <1>1 DEF Leave, GivenUp, Unsent
<1>2. CASE Decide
  <2>1. Faithful(page.shown.evidence, durable)
    BY <1>2 DEF Decide, Offers, PageHeld, SnapshotOf
  <2>2. post'.basis = page.shown.evidence /\ post'.seen = Nothing
    BY <1>2 DEF Decide, Sent, Unsent
  <2>3. QED
    BY <2>1, <2>2
<1>3. CASE Decided
  BY <1>3 DEF Decided, Unsent
<1>4. CASE DecisionStale
  BY <1>4 DEF DecisionStale, Unsent
<1>5. CASE DecisionFailed
  BY <1>5 DEF DecisionFailed, GivenUp, Unsent
<1>6. CASE SendAdmission
  <2>1. Faithful(Basis, durable)
    BY <1>6, BasisHeld DEF SendAdmission
  <2>2. post'.basis = Basis /\ post'.seen = Nothing
    BY <1>6 DEF SendAdmission, Sent, Unsent
  <2>3. QED
    BY <2>1, <2>2
<1>7. CASE Admitted
  BY <1>7 DEF Admitted, Unsent
<1>8. CASE AdmissionStale
  BY <1>8 DEF AdmissionStale, Unsent
<1>9. CASE AdmissionRefused
  BY <1>9 DEF AdmissionRefused, Unsent
<1>10. CASE AdmissionLocked
  BY <1>10 DEF AdmissionLocked, Unsent
<1>11. CASE AdmissionUnknown
  BY <1>11 DEF AdmissionUnknown, GivenUp, Unsent
<1>12. CASE Attach \/ Loaded \/ LoadFailed \/ Export \/ Exported \/ StartJob \/
   RetryAdmission \/ NotSent \/ AttemptOver \/ PollEnded \/ Completed \/ PollMissing \/
   Pause \/ Continue \/ Hide \/ Unhide
  BY <1>12 DEF Attach, Turn, Gone, Asked, Unread, Loaded, Show, Resting, LoadFailed,
     Export, Offers, Idle, Exported, StartJob, RetryAdmission, NotSent, Cleared,
     ClearStored, AttemptOver, Load, PollEnded, PageTurns, Completed, Dropped,
     PollMissing, Pause, Continue, Hide, Unhide
<1>13. QED
  BY <1>1, <1>2, <1>3, <1>4, <1>5, <1>6, <1>7, <1>8, <1>9, <1>10, <1>11, <1>12 DEF
     PageSteps

LEMMA PageAsks ==
  ASSUME PageSteps
  PROVE  reading' \in {reading, Unread, Asked}
<1>1. CASE Attach
  BY <1>1 DEF Attach, Turn, Gone, Asked, Unread
<1>2. CASE Leave
  BY <1>2 DEF Leave, Turn, Gone, Unread, GivenUp, Unsent
<1>3. CASE Loaded
  BY <1>3 DEF Loaded, Turn, Show, Resting, Unread
<1>4. CASE LoadFailed
  BY <1>4 DEF LoadFailed, Turn, Resting, Unread
<1>5. CASE Decide
  BY <1>5 DEF Decide, Turn, Sent, Unsent, Offers, Idle
<1>6. CASE Decided
  BY <1>6 DEF Decided, Turn, Show, Unsent
<1>7. CASE DecisionStale
  BY <1>7 DEF DecisionStale, Load, Turn, Asked, Unread, Unsent
<1>8. CASE DecisionFailed
  BY <1>8 DEF DecisionFailed, Turn, GivenUp, Unsent
<1>9. CASE Export
  BY <1>9 DEF Export, Turn, Offers, Idle
<1>10. CASE Exported
  BY <1>10 DEF Exported, Turn
<1>11. CASE StartJob
  BY <1>11 DEF StartJob, Turn, Offers, Idle
<1>12. CASE RetryAdmission
  BY <1>12 DEF RetryAdmission, Turn, Idle
<1>13. CASE SendAdmission
  BY <1>13 DEF SendAdmission, Turn, Sent, Unsent
<1>14. CASE NotSent
  BY <1>14 DEF NotSent, Turn, Cleared, ClearStored
<1>15. CASE AttemptOver
  BY <1>15 DEF AttemptOver, Load, Turn, Cleared, ClearStored, Asked, Unread
<1>16. CASE Admitted
  BY <1>16 DEF Admitted, Answered, Turn, Unsent
<1>17. CASE AdmissionStale
  BY <1>17 DEF AdmissionStale, Answered, Load, Turn, Cleared, ClearStored, Asked,
     Unread, Unsent
<1>18. CASE AdmissionRefused
  BY <1>18 DEF AdmissionRefused, Answered, Turn, Cleared, ClearStored, Unsent
<1>19. CASE AdmissionLocked
  BY <1>19 DEF AdmissionLocked, Answered, Turn, Unsent
<1>20. CASE AdmissionUnknown
  BY <1>20 DEF AdmissionUnknown, Turn, GivenUp, Unsent
<1>21. CASE PollEnded
  BY <1>21 DEF PollEnded, PageTurns, Turn
<1>22. CASE Completed
  BY <1>22 DEF Completed, Dropped, Load, Turn, Asked, Unread
<1>23. CASE PollMissing
  BY <1>23 DEF PollMissing, Dropped, Load, Turn, Asked, Unread
<1>24. CASE Pause
  BY <1>24 DEF Pause, PageTurns, Turn
<1>25. CASE Continue
  BY <1>25 DEF Continue, PageTurns, Turn, Idle
<1>26. CASE Hide
  BY <1>26 DEF Hide, PageTurns, Turn
<1>27. CASE Unhide
  BY <1>27 DEF Unhide, PageTurns, Turn
<1>28. QED
  BY <1>1, <1>2, <1>3, <1>4, <1>5, <1>6, <1>7, <1>8, <1>9, <1>10, <1>11, <1>12, <1>13,
     <1>14, <1>15, <1>16, <1>17, <1>18, <1>19, <1>20, <1>21, <1>22, <1>23, <1>24, <1>25,
     <1>26, <1>27 DEF PageSteps

LEMMA EvidenceStep ==
  ASSUME PageTypeOK, Coordinated, EvidenceInv, PageNext
  PROVE  EvidenceInv'
<1>1. CASE Elsewhere
  BY <1>1, NothingTakenUp DEF Elsewhere
<1>2. CASE Reads
  BY <1>2, ReadsKeepEvidence
<1>3. CASE Serves
  BY <1>3, ServesKeepEvidence
<1>4. CASE PageSteps
  <2>1. UNCHANGED <<durable, work>>
    BY <1>4, PageLeavesOthers DEF serverSide
  <2>2. ReadingHeld' /\ WorkHeld'
    BY <1>4, <2>1, PageAsks DEF EvidenceInv, ReadingHeld, WorkHeld, Unread, Asked
  <2>3. QED
    BY <1>4, <2>2, PageKeepsPage, PageKeepsStored, PageKeepsPost DEF EvidenceInv
<1>5. QED
  BY <1>1, <1>2, <1>3, <1>4 DEF PageNext

-----------------------------------------------------------------------------
(* Results of jobs.                                                        *)

Settled(w) == work[w].status \in {"ended", "gone"}

\* A job that the page has let go of is over, and the read that follows begins
\* after the job's last transaction.
ResultInv ==
  /\ \A w \in Works : work[w].result <= durable.revision
  /\ page.pc = "completing" => Settled(page.job)
  /\ page.pc = "loading" /\ page.after = "job" =>
       /\ page.attempt \in Works /\ Settled(page.attempt)
       /\ reading.stage \in {"found", "read", "timed", "answered"} =>
            work[page.attempt].result <= reading.revision

LEMMA RevisionGrows ==
  ASSUME DurableOK, Move \/ Progress
  PROVE  durable'.revision \in Nat /\ durable.revision <= durable'.revision
BY DEF DurableOK, Evidence, Move, Progress

LEMMA ReadsKeepResults ==
  ASSUME PageTypeOK, Coordinated, ResultInv, Reads
  PROVE  ResultInv'
<1>1. UNCHANGED <<durable, work, page>>
  BY DEF Reads, ReadSession, ReadSnapshot, ReadTimeline, ReadAgain, RefuseRead, ReadTo, serverSide
<1>2. \/ reading'.stage = "refused"
      \/ reading'.revision = durable.revision
      \/ /\ reading.stage \in {"found", "read", "timed", "answered"}
         /\ reading'.revision = reading.revision
  BY DEF Reads, ReadSession, ReadSnapshot, ReadTimeline, ReadAgain, RefuseRead, ReadTo, Unread,
         PageTypeOK, ReadingOK
<1>3. QED
  BY <1>1, <1>2 DEF ResultInv, Settled

LEMMA OthersKeepResults ==
  ASSUME PageTypeOK, Coordinated, ResultInv, Elsewhere \/ Serves
  PROVE  ResultInv'
<1>1. DurableOK /\ durable.revision \in Nat
  BY DEF PageTypeOK, DurableOK, Evidence
<1>2. work \in [Works -> [status : {"unused", "queued", "begun", "ended", "gone"},
                          basis : Evidence \cup {Nothing}, result : Nat]]
  BY DEF PageTypeOK, WorkOK
<1>3. ASSUME UNCHANGED <<page, reading>>,
             Move \/ Progress \/ UNCHANGED durable,
             \A w \in Works : work'[w].result \in {work[w].result, durable.revision, 0},
             \A w \in Works : w \in {page.job, page.attempt} /\ Settled(w) =>
               Settled(w)' /\ work'[w].result = work[w].result
      PROVE  ResultInv'
  <2>1. durable'.revision \in Nat /\ durable.revision <= durable'.revision
    BY <1>1, <1>3, RevisionGrows
  <2>2. ASSUME NEW w \in Works PROVE work'[w].result <= durable'.revision
    <3>1. work[w].result \in Nat /\ work[w].result <= durable.revision
      BY <1>2 DEF ResultInv
    <3>2. QED
      BY <1>1, <1>3, <2>1, <3>1
  <2>3. page'.pc = "completing" => Settled(page.job)'
    <3>1. page.pc = "completing" => page.job \in Works /\ Settled(page.job)
      BY DEF ResultInv, Coordinated, PageTypeOK, PageOK, PageShapes
    <3>2. QED
      BY <1>3, <3>1 DEF Settled
  <2>4. QED
    BY <1>3, <2>2, <2>3 DEF ResultInv, Settled
<1>4. CASE Elsewhere
  BY <1>3, <1>4 DEF Elsewhere, Settled
<1>5. CASE ServeDecision
  BY <1>3, <1>5 DEF ServeDecision, PostTo, Settled
<1>6. CASE AnswerDecision \/ ServeStale \/ ServeError
  BY <1>3, <1>6
     DEF AnswerDecision, ServeStale, ServeError, Answer, PostTo, serverSide, Settled
<1>7. ASSUME NEW w \in Works, RepeatAdmission(w) PROVE ResultInv'
  BY <1>3, <1>7 DEF RepeatAdmission, Answer, PostTo, serverSide, Settled
<1>8. ASSUME NEW w \in Works, ServeAdmission(w) PROVE ResultInv'
  <2>1. /\ UNCHANGED <<page, reading, durable>> /\ Fresh(w)
        /\ work' = [work EXCEPT ![w] = [status |-> "queued", basis |-> post.basis,
                                        result |-> 0]]
    BY <1>8 DEF ServeAdmission, Answer, PostTo
  <2>2. \A v \in Works : work'[v].result \in {work[v].result, 0}
    BY <1>2, <2>1
  <2>3. ASSUME NEW v \in Works, v \in {page.job, page.attempt}, Settled(v)
        PROVE  work'[v] = work[v]
    <3>1. v # w
      BY <2>1, <2>3 DEF Fresh, Settled
    <3>2. QED
      BY <1>2, <2>1, <3>1
  <2>4. QED
    BY <1>3, <2>1, <2>2, <2>3 DEF Settled
<1>9. ASSUME NEW w \in Works, BeginWork(w) \/ EndWork(w) \/ LoseWork(w) PROVE ResultInv'
  <2>1. /\ UNCHANGED <<page, reading>>
        /\ Move \/ Progress \/ UNCHANGED durable
        /\ \/ /\ ~Settled(w)
              /\ work' = [work EXCEPT ![w].status = "begun"]
           \/ /\ ~Settled(w)
              /\ work' = [work EXCEPT ![w].status = "ended", ![w].result = durable.revision]
           \/ work' = [work EXCEPT ![w].status = "gone"]
    BY <1>9 DEF BeginWork, EndWork, LoseWork, Settled
  <2>2. \A v \in Works : work'[v].result \in {work[v].result, durable.revision}
    BY <1>2, <2>1
  <2>3. ASSUME NEW v \in Works, Settled(v)
        PROVE  Settled(v)' /\ work'[v].result = work[v].result
    <3>1. CASE v # w
      BY <1>2, <2>1, <2>3, <3>1 DEF Settled
    <3>2. CASE v = w
      BY <1>2, <2>1, <2>3, <3>2 DEF Settled
    <3>3. QED
      BY <3>1, <3>2
  <2>4. QED
    BY <1>3, <2>1, <2>2, <2>3
<1>10. QED
  BY <1>4, <1>5, <1>6, <1>7, <1>8, <1>9 DEF Serves

\* A step of the page: it completes what is over, and asks anew before it loads.
LEMMA PageKeepsResults ==
  ASSUME PageTypeOK, Coordinated, ResultInv, PageSteps
  PROVE  ResultInv'
<1>a. UNCHANGED <<durable, work>>
  BY PageLeavesOthers DEF serverSide
<1>b. page \in PageShapes
  BY DEF PageTypeOK, PageOK
<1>1. ASSUME page'.pc \notin {"loading", "completing"} PROVE ResultInv'
  BY <1>a, <1>1 DEF ResultInv
<1>2. ASSUME page'.pc = "loading", page'.after # "job" PROVE ResultInv'
  BY <1>a, <1>2 DEF ResultInv
<1>3. ASSUME page'.pc = page.pc, page'.after = page.after, page'.job = page.job,
             page'.attempt = page.attempt, UNCHANGED reading
      PROVE  ResultInv'
  BY <1>a, <1>3 DEF ResultInv, Settled
<1>4. CASE PollEnded
  <2>1. page'.pc = "completing" /\ page'.job = page.job /\ Settled(page.job)
    BY <1>4, <1>b DEF PollEnded, PageTurns, Turn, Over, Settled, PageShapes
  <2>2. QED
    BY <1>a, <2>1 DEF ResultInv, Settled
<1>5. CASE Completed \/ PollMissing
  <2>1. /\ page'.pc = "loading" /\ page'.attempt = page.attempt
        /\ reading'.stage = "asked" /\ Settled(page.job) /\ page.job # Nothing
    BY <1>5, <1>b
       DEF Completed, PollMissing, Dropped, Load, Turn, Asked, Unread, Settled, PageShapes,
           ResultInv, Coordinated
  <2>2. page.attempt = page.job /\ page.job \in Works
    BY <2>1, <1>b DEF Coordinated, PageShapes
  <2>3. QED
    BY <1>a, <2>1, <2>2 DEF ResultInv, Settled
<1>6. CASE Attach
  <2> DEFINE opened(a) == [Gone EXCEPT !.job = stored.job, !.attempt = stored.job,
                                        !.admission = a]
  <2>1. \E a \in {stored.admission, Nothing} :
          \/ page' = [opened(a) EXCEPT !.pc = "polling"]
          \/ page' = [opened(a) EXCEPT !.pc = "loading", !.after = "initial"]
    BY <1>6 DEF Attach, Turn
  <2>2. ASSUME NEW a \in {stored.admission, Nothing}
        PROVE  /\ [opened(a) EXCEPT !.pc = "polling"].pc = "polling"
               /\ [opened(a) EXCEPT !.pc = "loading", !.after = "initial"].pc = "loading"
               /\ [opened(a) EXCEPT !.pc = "loading", !.after = "initial"].after = "initial"
    BY DEF Gone
  <2>3. PICK a \in {stored.admission, Nothing} :
          \/ page' = [opened(a) EXCEPT !.pc = "polling"]
          \/ page' = [opened(a) EXCEPT !.pc = "loading", !.after = "initial"]
    BY <2>1
  <2>4. page'.pc = "polling" \/ (page'.pc = "loading" /\ page'.after = "initial")
    <3> HIDE DEF opened
    <3>1. QED
      BY <2>2, <2>3
  <2>5. QED
    BY <1>1, <1>2, <2>4
<1>7. CASE DecisionStale \/ AttemptOver \/ AdmissionStale
  <2>1. page'.pc = "loading" /\ page'.after # "job"
    BY <1>7, <1>b
       DEF DecisionStale, AttemptOver, AdmissionStale, Load, Turn, Cleared, PageShapes
  <2>2. QED
    BY <1>2, <2>1
<1>8. CASE Admitted
  <2> DEFINE following == [page EXCEPT !.pc = "polling", !.job = post.job,
                                       !.attempt = post.job, !.canContinue = FALSE]
  <2>1. page' = following \/ page' = [following EXCEPT !.admission = Nothing]
    BY <1>8 DEF Admitted, Turn
  <2>2. page'.pc = "polling"
    BY <2>1, <1>b DEF PageShapes
  <2>3. QED
    BY <1>1, <2>2
<1>9. CASE Hide \/ Unhide
  <2>1. \/ page' = [page EXCEPT !.hidden = TRUE] /\ UNCHANGED reading
        \/ page' = [page EXCEPT !.hidden = FALSE] /\ UNCHANGED reading
        \/ page'.pc \in {"idle", "polling"}
    BY <1>9, <1>b DEF Hide, Unhide, PageTurns, Turn, PageShapes
  <2>2. QED
    BY <1>1, <1>3, <1>b, <2>1 DEF PageShapes
<1>10. CASE Loaded
  <2>1. page'.pc = "idle"
    BY <1>10, <1>b DEF Loaded, Turn, Show, Resting, PageShapes
  <2>2. QED
    BY <1>1, <2>1
<1>11. CASE \/ Leave \/ LoadFailed \/ Decide \/ Decided \/ DecisionFailed \/ Export \/ Exported
            \/ StartJob \/ RetryAdmission \/ SendAdmission \/ NotSent
            \/ AdmissionRefused \/ AdmissionLocked \/ AdmissionUnknown \/ Pause \/ Continue
  <2> USE <1>b DEF Turn, PageTurns, PageShapes
  <2>1. CASE Leave \/ Decide \/ Export \/ Exported \/ Pause \/ Continue
    <3>1. page'.pc \in {"gone", "deciding", "exporting", "idle", "polling"}
      <4>1. CASE Leave
        BY <4>1 DEF Leave, Gone
      <4>2. CASE Decide \/ Export \/ Exported
        BY <4>2 DEF Decide, Export, Exported
      <4>3. CASE Pause \/ Continue
        BY <4>3 DEF Pause, Continue
      <4>4. QED
        BY <2>1, <4>1, <4>2, <4>3
    <3>2. QED
      BY <1>1, <3>1
  <2>2. CASE LoadFailed \/ Decided \/ DecisionFailed
    <3>1. page'.pc = "idle"
      <4>1. CASE LoadFailed
        BY <4>1 DEF LoadFailed, Resting
      <4>2. CASE Decided
        BY <4>2 DEF Decided, Show
      <4>3. CASE DecisionFailed
        BY <4>3 DEF DecisionFailed
      <4>4. QED
        BY <2>2, <4>1, <4>2, <4>3
    <3>2. QED
      BY <1>1, <3>1
  <2>3. CASE StartJob \/ RetryAdmission \/ SendAdmission
    <3>1. page'.pc \in {"admitting", "submitting"}
      BY <2>3 DEF StartJob, RetryAdmission, SendAdmission
    <3>2. QED
      BY <1>1, <3>1
  <2>4. CASE NotSent \/ AdmissionRefused \/ AdmissionLocked \/ AdmissionUnknown
    <3>1. page'.pc = "idle"
      BY <2>4 DEF NotSent, AdmissionRefused, AdmissionLocked, AdmissionUnknown, Cleared
    <3>2. QED
      BY <1>1, <3>1
  <2>5. QED
    BY <1>11, <2>1, <2>2, <2>3, <2>4
<1>12. QED
  BY <1>4, <1>5, <1>6, <1>7, <1>8, <1>9, <1>10, <1>11 DEF PageSteps

LEMMA ServesLeaveReading ==
  ASSUME Serves
  PROVE  UNCHANGED reading
<1>1. CASE ServeDecision \/ AnswerDecision \/ ServeStale \/ ServeError
  BY <1>1 DEF ServeDecision, AnswerDecision, ServeStale, ServeError, Answer, PostTo
<1>2. ASSUME NEW w \in Works, ServeAdmission(w) \/ RepeatAdmission(w) PROVE UNCHANGED reading
  BY <1>2 DEF ServeAdmission, RepeatAdmission, Answer, PostTo
<1>3. ASSUME NEW w \in Works, BeginWork(w) \/ EndWork(w) \/ LoseWork(w)
      PROVE  UNCHANGED reading
  BY <1>3 DEF BeginWork, EndWork, LoseWork
<1>4. QED
  BY <1>1, <1>2, <1>3 DEF Serves

-----------------------------------------------------------------------------
(* The inductive invariant, and what follows from it.                      *)

PageInv == PageTypeOK /\ FollowInv /\ EvidenceInv /\ ResultInv

LEMMA PageInvInit ==
  ASSUME PageInit
  PROVE  PageInv
<1> USE PageAssumption DEF PageInit, Unsent, Unread, Gone
<1>1. PageTypeOK
  BY DEF PageTypeOK, DurableOK, WorkOK, PostOK, ReadingOK, PageOK, PageShapes, StoredOK,
         Evidence
<1>2. FollowInv
  BY DEF FollowInv, Coordinated, NoChoiceWhileFollowing, JobIsFollowed
<1>3. EvidenceInv
  BY DEF EvidenceInv, PageHeld, StoredHeld, PostHeld, ReadingHeld, WorkHeld, EvidenceOf,
         SnapshotOf
<1>4. ResultInv
  BY DEF ResultInv, Settled
<1>5. QED
  BY <1>1, <1>2, <1>3, <1>4 DEF PageInv

LEMMA PageInvStep ==
  ASSUME PageInv, [PageNext]_workspaceVars
  PROVE  PageInv'
<1> USE DEF PageInv
<1>1. CASE UNCHANGED workspaceVars
  <2> USE <1>1 DEF workspaceVars
  <2>1. PageTypeOK'
    BY DEF PageTypeOK, DurableOK, WorkOK, PostOK, ReadingOK, PageOK, StoredOK
  <2>2. FollowInv'
    BY DEF FollowInv, Coordinated, NoChoiceWhileFollowing, JobIsFollowed
  <2>3. EvidenceInv'
    BY DEF EvidenceInv, PageHeld, StoredHeld, PostHeld, ReadingHeld, WorkHeld
  <2>4. ResultInv'
    BY DEF ResultInv, Settled
  <2>5. QED
    BY <2>1, <2>2, <2>3, <2>4
<1>2. CASE PageNext
  <2>1. Coordinated
    BY DEF FollowInv
  <2>2. EvidenceInv'
    BY <1>2, <2>1, EvidenceStep
  <2>3. CASE PageSteps
    <3>1. DurableOK' /\ WorkOK'
      BY <2>3, PageLeavesOthers DEF PageTypeOK, DurableOK, WorkOK, serverSide
    <3>2. PageTypeOK'
      BY <2>1, <2>3, <3>1, PageTypes, PagePosts, PageReads, PageStores DEF PageTypeOK
    <3>3. FollowInv'
      BY <2>3, PageFollows DEF PageTypeOK
    <3>4. QED
      BY <2>1, <2>2, <2>3, <3>2, <3>3, PageKeepsResults
  <2>4. CASE Elsewhere \/ Reads \/ Serves
    <3>1. UNCHANGED <<page, stored>>
      BY <2>4, OthersLeavePage
    <3>2. PageOK' /\ StoredOK' /\ FollowInv'
      BY <3>1
         DEF PageTypeOK, PageOK, StoredOK, FollowInv, Coordinated, NoChoiceWhileFollowing,
             JobIsFollowed
    <3>3. DurableOK' /\ WorkOK' /\ PostOK' /\ ReadingOK'
      <4>1. CASE Elsewhere
        BY <4>1, DurableTypes
           DEF Elsewhere, PageTypeOK, WorkOK, PostOK, ReadingOK
      <4>2. CASE Reads
        <5>1. UNCHANGED <<durable, started, work, post>>
          BY <4>2
             DEF Reads, ReadSession, ReadSnapshot, ReadTimeline, ReadAgain, RefuseRead, ReadTo,
                 serverSide
        <5>2. QED
          BY <4>2, <5>1, ReadTypes DEF PageTypeOK, DurableOK, WorkOK, PostOK
      <4>3. CASE Serves
        <5>1. UNCHANGED reading
          BY <4>3, ServesLeaveReading
        <5>2. QED
          BY <4>3, <5>1, DurableTypes, WorkTypes, PostTypes DEF PageTypeOK, ReadingOK
      <4>4. QED
        BY <2>4, <4>1, <4>2, <4>3
    <3>4. ResultInv'
      BY <2>1, <2>4, ReadsKeepResults, OthersKeepResults
    <3>5. QED
      BY <2>2, <3>2, <3>3, <3>4 DEF PageTypeOK
  <2>5. QED
    BY <1>2, <2>3, <2>4 DEF PageNext
<1>3. QED
  BY <1>1, <1>2

LEMMA PageInvHolds == PageSpec => []PageInv
BY PageInvInit, PageInvStep, PTL DEF PageSpec

\* Every variable of the page, its requests and its storage keeps its shape.
THEOREM PageTypeCorrect == PageSpec => []PageTypeOK
<1>1. PageInv => PageTypeOK
  BY DEF PageInv
<1> QED
  BY <1>1, PageInvHolds, PTL

\* The page shows a session as it was at the revision that it names, the parts of the
\* snapshot all of that revision.
THEOREM EvidenceShown == PageSpec => []EvidenceIsOfItsRevision
<1>1. PageInv => EvidenceIsOfItsRevision
  BY DEF PageInv, EvidenceInv, PageHeld, SnapshotOf, Faithful, Current, EvidenceIsOfItsRevision
<1> QED
  BY <1>1, PageInvHolds, PTL

\* No decision is offered while the page follows a job or waits.
THEOREM NoChoiceOffered == PageSpec => []NoChoiceWhileFollowing
<1>1. PageInv => NoChoiceWhileFollowing
  BY DEF PageInv, FollowInv
<1> QED
  BY <1>1, PageInvHolds, PTL

\* A job that is not polled can be continued.
THEOREM JobStaysFollowed == PageSpec => []JobIsFollowed
<1>1. PageInv => JobIsFollowed
  BY DEF PageInv, FollowInv
<1> QED
  BY <1>1, PageInvHolds, PTL

\* A step of the page sends its request, keeps it or forgets it.
LEMMA PagePostStages ==
  ASSUME PostOK, PageSteps
  PROVE  post'.stage \in {"none", "sent", post.stage}
<1> USE DEF PostOK
<1>1. CASE Leave
  BY <1>1 DEF Leave, GivenUp, Unsent
<1>2. CASE Decide
  BY <1>2 DEF Decide, Sent, Unsent
<1>3. CASE Decided
  BY <1>3 DEF Decided, Unsent
<1>4. CASE DecisionStale
  BY <1>4 DEF DecisionStale, Unsent
<1>5. CASE DecisionFailed
  BY <1>5 DEF DecisionFailed, GivenUp, Unsent
<1>6. CASE SendAdmission
  BY <1>6 DEF SendAdmission, Sent, Unsent
<1>7. CASE Admitted
  BY <1>7 DEF Admitted, Unsent
<1>8. CASE AdmissionStale
  BY <1>8 DEF AdmissionStale, Unsent
<1>9. CASE AdmissionRefused
  BY <1>9 DEF AdmissionRefused, Unsent
<1>10. CASE AdmissionLocked
  BY <1>10 DEF AdmissionLocked, Unsent
<1>11. CASE AdmissionUnknown
  BY <1>11 DEF AdmissionUnknown, GivenUp, Unsent
<1>12. CASE Attach \/ Loaded \/ LoadFailed \/ Export \/ Exported \/ StartJob \/
   RetryAdmission \/ NotSent \/ AttemptOver \/ PollEnded \/ Completed \/ PollMissing \/
   Pause \/ Continue \/ Hide \/ Unhide
  BY <1>12 DEF Attach, Turn, Gone, Asked, Unread, Loaded, Show, Resting, LoadFailed,
     Export, Offers, Idle, Exported, StartJob, RetryAdmission, NotSent, Cleared,
     ClearStored, AttemptOver, Load, PollEnded, PageTurns, Completed, Dropped,
     PollMissing, Pause, Continue, Hide, Unhide
<1>13. QED
  BY <1>1, <1>2, <1>3, <1>4, <1>5, <1>6, <1>7, <1>8, <1>9, <1>10, <1>11, <1>12 DEF
     PageSteps

\* Only a decision in the store commits, and only a job that begins changes what has begun.
LEMMA CommitsByDecision ==
  ASSUME PageTypeOK, PageNext, post.stage = "sent", post'.stage = "committed"
  PROVE  ServeDecision
<1>1. post \in [kind : {"none", "decision", "admission"}, basis : Evidence \cup {Nothing},
                stage : {"none", "sent", "committed", "answered", "accepted", "stale",
                         "refused"},
                seen : Snapshots \cup {Nothing}, job : Works \cup {Nothing}, mine : BOOLEAN]
  BY DEF PageTypeOK, PostOK
<1>2. CASE Elsewhere
  BY <1>2 DEF Elsewhere
<1>3. CASE Reads
  BY <1>3 DEF Reads, ReadSession, ReadSnapshot, ReadTimeline, ReadAgain, RefuseRead, ReadTo
<1>4. CASE AnswerDecision
  BY <1>4 DEF AnswerDecision
<1>5. CASE ServeStale \/ ServeError
  BY <1>1, <1>5 DEF ServeStale, ServeError, Answer, PostTo, Unsent
<1>6. ASSUME NEW w \in Works, ServeAdmission(w) \/ RepeatAdmission(w)
      PROVE  FALSE
  <2>1. post' \in {[post EXCEPT !.stage = "accepted", !.job = w], Unsent}
    BY <1>6 DEF ServeAdmission, RepeatAdmission, Answer, PostTo
  <2>2. CASE post' = [post EXCEPT !.stage = "accepted", !.job = w]
    BY <1>1, <2>2
  <2>3. CASE post' = Unsent
    BY <2>3 DEF Unsent
  <2>4. QED
    BY <2>1, <2>2, <2>3
<1>7. ASSUME NEW w \in Works, BeginWork(w) \/ EndWork(w) \/ LoseWork(w)
      PROVE  FALSE
  BY <1>7 DEF BeginWork, EndWork, LoseWork
<1>8. CASE PageSteps
  <2>1. post'.stage \in {"none", "sent", post.stage}
    BY <1>8, PagePostStages DEF PageTypeOK
  <2>2. QED
    BY <2>1
<1>9. QED
  BY <1>2, <1>3, <1>4, <1>5, <1>6, <1>7, <1>8 DEF PageNext, Serves

LEMMA BeginsByWork ==
  ASSUME PageNext, started' # started
  PROVE  \E w \in Works : BeginWork(w)
<1>1. CASE Elsewhere
  BY <1>1 DEF Elsewhere
<1>2. CASE Reads
  BY <1>2
     DEF Reads, ReadSession, ReadSnapshot, ReadTimeline, ReadAgain, RefuseRead, ReadTo, serverSide
<1>3. CASE ServeDecision \/ AnswerDecision \/ ServeStale \/ ServeError
  BY <1>3 DEF ServeDecision, AnswerDecision, ServeStale, ServeError, serverSide
<1>4. ASSUME NEW w \in Works,
             ServeAdmission(w) \/ RepeatAdmission(w) \/ EndWork(w) \/ LoseWork(w)
      PROVE  FALSE
  BY <1>4 DEF ServeAdmission, RepeatAdmission, EndWork, LoseWork, serverSide
<1>5. CASE PageSteps
  BY <1>5, PageLeavesOthers DEF serverSide
<1>6. QED
  BY <1>1, <1>2, <1>3, <1>4, <1>5 DEF PageNext, Serves

\* A decision is committed and a job begins on the session that the user saw.
THEOREM AcceptedCorrectly == PageSpec => AcceptedOnItsEvidence
<1>1. ASSUME PageInv, [PageNext]_workspaceVars
      PROVE  [AcceptsOnEvidence]_workspaceVars
  <2> SUFFICES ASSUME PageNext PROVE AcceptsOnEvidence
    BY <1>1
  <2>1. PageTypeOK /\ PostHeld /\ WorkHeld
    BY <1>1 DEF PageInv, EvidenceInv
  <2>2. ASSUME post.stage = "sent", post'.stage = "committed"
        PROVE  post.basis = durable
    <3>1. Expects(post.basis, Deciding)
      BY <2>1, <2>2, CommitsByDecision DEF ServeDecision
    <3>2. post.basis \in Evidence /\ durable \in Evidence
      BY <2>1, <2>2 DEF PageTypeOK, PostOK, DurableOK
    <3>3. Faithful(post.basis, durable)
      BY <2>1, <2>2 DEF PostHeld
    <3>4. durable.state # Acquiring
      BY <3>1, PageAssumption DEF Expects
    <3>5. /\ post.basis.revision = durable.revision
          /\ post.basis.state = durable.state
          /\ post.basis.material = durable.material
      BY <3>1, <3>3, <3>4 DEF Expects, Faithful
    <3>6. QED
      BY <3>2, <3>5 DEF Evidence
  <2>3. ASSUME NEW w \in Works, work[w].status = "queued", work'[w].status = "begun",
               started' # started
        PROVE  work[w].basis.revision = durable.revision /\ Current(work[w].basis)
    <3>1. PICK v \in Works : BeginWork(v)
      BY <2>3, BeginsByWork
    <3>2. v = w
      BY <2>1, <2>3, <3>1 DEF BeginWork, PageTypeOK, WorkOK
    <3>3. work[w].basis.revision \notin started
      BY <2>3, <3>1, <3>2 DEF BeginWork
    <3>4. work[w].basis.revision = durable.revision
      BY <3>1, <3>2, <3>3 DEF BeginWork, Admissible, Expects
    <3>5. Faithful(work[w].basis, durable)
      BY <2>1, <2>3 DEF WorkHeld
    <3>6. QED
      BY <3>4, <3>5 DEF Faithful, Current
  <2>4. QED
    BY <2>2, <2>3 DEF AcceptsOnEvidence
<1>2. QED
  BY <1>1, PageInvHolds, PTL DEF PageSpec, AcceptedOnItsEvidence

LEMMA LetsGo ==
  ASSUME PageOK, Coordinated, ResultInv, PageSteps, page.job # Nothing, page'.job # page.job
  PROVE  page'.pc = "gone" \/ Settled(page.job)
<1> USE DEF PageOK, PageShapes, Coordinated
<1>1. CASE Attach
  BY <1>1 DEF Attach
<1>2. CASE Leave
  BY <1>2 DEF Leave, Turn, Gone, Unread, GivenUp, Unsent
<1>3. CASE Loaded
  BY <1>3 DEF Loaded, Turn, Show, Resting, Unread
<1>4. CASE LoadFailed
  BY <1>4 DEF LoadFailed, Turn, Resting, Unread
<1>5. CASE Decide
  BY <1>5 DEF Decide, Turn, Sent, Unsent, Offers, Idle
<1>6. CASE Decided
  BY <1>6 DEF Decided, Turn, Show, Unsent
<1>7. CASE DecisionStale
  BY <1>7 DEF DecisionStale, Load, Turn, Asked, Unread, Unsent
<1>8. CASE DecisionFailed
  BY <1>8 DEF DecisionFailed, Turn, GivenUp, Unsent
<1>9. CASE Export
  BY <1>9 DEF Export, Turn, Offers, Idle
<1>10. CASE Exported
  BY <1>10 DEF Exported, Turn
<1>11. CASE StartJob
  BY <1>11 DEF StartJob, Turn, Offers, Idle
<1>12. CASE RetryAdmission
  BY <1>12 DEF RetryAdmission, Turn, Idle
<1>13. CASE SendAdmission
  BY <1>13 DEF SendAdmission, Turn, Sent, Unsent
<1>14. CASE NotSent
  BY <1>14 DEF NotSent, Turn, Cleared, ClearStored
<1>15. CASE AttemptOver
  BY <1>15 DEF AttemptOver, Load, Turn, Cleared, ClearStored, Asked, Unread
<1>16. CASE Admitted
  BY <1>16 DEF Admitted, Answered
<1>17. CASE AdmissionStale
  BY <1>17 DEF AdmissionStale, Answered, Load, Turn, Cleared, ClearStored, Asked,
     Unread, Unsent
<1>18. CASE AdmissionRefused
  BY <1>18 DEF AdmissionRefused, Answered, Turn, Cleared, ClearStored, Unsent
<1>19. CASE AdmissionLocked
  BY <1>19 DEF AdmissionLocked, Answered, Turn, Unsent
<1>20. CASE AdmissionUnknown
  BY <1>20 DEF AdmissionUnknown, Turn, GivenUp, Unsent
<1>21. CASE PollEnded
  BY <1>21 DEF PollEnded, PageTurns, Turn
<1>22. CASE Completed
  BY <1>22 DEF Completed, ResultInv
<1>23. CASE PollMissing
  BY <1>23 DEF PollMissing, Settled
<1>24. CASE Pause
  BY <1>24 DEF Pause, PageTurns, Turn
<1>25. CASE Continue
  BY <1>25 DEF Continue, PageTurns, Turn, Idle
<1>26. CASE Hide
  BY <1>26 DEF Hide, PageTurns, Turn
<1>27. CASE Unhide
  BY <1>27 DEF Unhide, PageTurns, Turn
<1>28. QED
  BY <1>1, <1>2, <1>3, <1>4, <1>5, <1>6, <1>7, <1>8, <1>9, <1>10, <1>11, <1>12, <1>13,
     <1>14, <1>15, <1>16, <1>17, <1>18, <1>19, <1>20, <1>21, <1>22, <1>23, <1>24, <1>25,
     <1>26, <1>27 DEF PageSteps

\* Controls that are offered after a load for a job are those of what was loaded.
LEMMA ShowsByLoad ==
  ASSUME PageOK, NoChoiceWhileFollowing, PageSteps, page.pc = "loading", page.after = "job",
         page'.enabled
  PROVE  Loaded
<1>a. page \in PageShapes /\ ~page.enabled
  BY DEF PageOK, NoChoiceWhileFollowing
<1> USE <1>a DEF PageShapes
<1>1. CASE Attach
  BY <1>1 DEF Attach
<1>2. CASE Leave
  BY <1>2 DEF Leave, Turn, Gone, Unread, GivenUp, Unsent
<1>3. CASE Loaded
  BY <1>3
<1>4. CASE LoadFailed
  BY <1>4 DEF LoadFailed, Turn, Resting, Unread
<1>5. CASE Decide
  BY <1>5 DEF Decide, Offers
<1>6. CASE Decided
  BY <1>6 DEF Decided
<1>7. CASE DecisionStale
  BY <1>7 DEF DecisionStale, Load, Turn, Asked, Unread, Unsent
<1>8. CASE DecisionFailed
  BY <1>8 DEF DecisionFailed
<1>9. CASE Export
  BY <1>9 DEF Export, Turn, Offers, Idle
<1>10. CASE Exported
  BY <1>10 DEF Exported, Turn
<1>11. CASE StartJob
  BY <1>11 DEF StartJob, Turn, Offers, Idle
<1>12. CASE RetryAdmission
  BY <1>12 DEF RetryAdmission, Turn, Idle
<1>13. CASE SendAdmission
  BY <1>13 DEF SendAdmission, Turn, Sent, Unsent
<1>14. CASE NotSent
  BY <1>14 DEF NotSent
<1>15. CASE AttemptOver
  BY <1>15 DEF AttemptOver
<1>16. CASE Admitted
  BY <1>16 DEF Admitted, Answered
<1>17. CASE AdmissionStale
  BY <1>17 DEF AdmissionStale, Answered, Load, Turn, Cleared, ClearStored, Asked,
     Unread, Unsent
<1>18. CASE AdmissionRefused
  BY <1>18 DEF AdmissionRefused, Answered, Turn, Cleared, ClearStored, Unsent
<1>19. CASE AdmissionLocked
  BY <1>19 DEF AdmissionLocked, Answered, Turn, Unsent
<1>20. CASE AdmissionUnknown
  BY <1>20 DEF AdmissionUnknown, Turn, GivenUp, Unsent
<1>21. CASE PollEnded
  BY <1>21 DEF PollEnded, PageTurns, Turn
<1>22. CASE Completed
  BY <1>22 DEF Completed, Dropped, Load, Turn, Asked, Unread
<1>23. CASE PollMissing
  BY <1>23 DEF PollMissing, Dropped, Load, Turn, Asked, Unread
<1>24. CASE Pause
  BY <1>24 DEF Pause, PageTurns, Turn
<1>25. CASE Continue
  BY <1>25 DEF Continue, PageTurns, Turn, Idle
<1>26. CASE Hide
  BY <1>26 DEF Hide, PageTurns, Turn
<1>27. CASE Unhide
  BY <1>27 DEF Unhide, PageTurns, Turn
<1>28. QED
  BY <1>1, <1>2, <1>3, <1>4, <1>5, <1>6, <1>7, <1>8, <1>9, <1>10, <1>11, <1>12, <1>13,
     <1>14, <1>15, <1>16, <1>17, <1>18, <1>19, <1>20, <1>21, <1>22, <1>23, <1>24, <1>25,
     <1>26, <1>27 DEF PageSteps

\* A job is let go of when it is over, and what is loaded after it shows its result.
THEOREM ResultsShown == PageSpec => JobResultShown
<1>1. ASSUME PageInv, [PageNext]_workspaceVars
      PROVE  [ShowsResult]_workspaceVars
  <2> SUFFICES ASSUME PageNext PROVE ShowsResult
    BY <1>1
  <2>0. /\ page \in PageShapes /\ PageOK /\ PageTypeOK /\ Coordinated /\ NoChoiceWhileFollowing
        /\ ResultInv /\ ReadingHeld
    BY <1>1 DEF PageInv, PageTypeOK, PageOK, FollowInv, EvidenceInv
  <2>1. CASE ~PageSteps
    <3>1. UNCHANGED page
      BY <2>1, OthersLeavePage DEF PageNext
    <3>2. QED
      BY <2>0, <3>1 DEF ShowsResult, NoChoiceWhileFollowing
  <2>2. CASE PageSteps
    <3>1. ASSUME page.job # Nothing, page'.job # page.job
          PROVE  page'.pc = "gone" \/ Settled(page.job)
      BY <2>0, <2>2, <3>1, LetsGo
    <3>2. ASSUME page.pc = "loading", page.after = "job", page'.enabled
          PROVE  work[page.attempt].result <= page'.shown.evidence.revision
      <4>1. Loaded
        BY <2>0, <2>2, <3>2, ShowsByLoad
      <4>2. reading.stage = "answered" /\ page'.shown = reading.seen
        BY <2>0, <4>1 DEF Loaded, Turn, Show, Resting, PageShapes
      <4>3. reading.seen.evidence.revision = reading.revision
        BY <2>0, <4>2 DEF ReadingHeld
      <4>4. work[page.attempt].result <= reading.revision
        BY <2>0, <3>2, <4>2 DEF ResultInv
      <4>5. QED
        BY <4>2, <4>3, <4>4
    <3>3. QED
      BY <3>1, <3>2 DEF ShowsResult, Settled
  <2>3. QED
    BY <2>1, <2>2
<1>2. QED
  BY <1>1, PageInvHolds, PTL DEF PageSpec, JobResultShown

=============================================================================
