----------------------------- MODULE MCSearchIndex -----------------------------
(* The full-text index from the transcripts to its readers: how a transcript is cut,  *)
(* what a rebuild scans, and an assessment and a server that read what is published.    *)
(* They share no state, so that each is explored while the others have not begun.      *)
EXTENDS LocalAssessment, CorpusScan, PassageChunking, TLC

CONSTANTS c1, c2, p1, p2, p3, v1, v2, f1, f2, f3, d1, d2, z1, i1, i2, i3, i4

(* Two queries in two languages; generations and contents differ in what is found.    *)

\* One passage is found by both queries at different ranks, one in both languages.
Even == << << <<p1, p2>>, <<p3>> >>, << <<p2>>, <<p2, p1>> >> >>

Odd == << << <<p3>>, <<>> >>, << <<>>, <<>> >> >>

MCHits == [g \in Generations |-> IF g % 2 = 0 THEN Even ELSE Odd]

MCVideoHits == [c \in Contents |-> IF c = c1 THEN << <<v1, v2>>, <<v2>> >> ELSE << <<v2>>, <<>> >>]

\* The readers change nothing the other reads: one of them at a time is enough.
OneReader == At("assessment", "idle") \/ At("server", "idle")

\* After three publications of any kind the fourth ends an exchange, or takes back the
\* receipt of a refresh that has failed.
LastTakesBack ==
  changes < changes' /\ changes' = MaxChanges =>
    \/ displaced # NoFile /\ displaced' = NoFile
    \/ ~(receipts \subseteq receipts')

(* Three transcripts, of which one has no name the scan knows and two are of one video *)
(* in one language, in a channel's directory and beside the directories.             *)
MCOrder == <<f1, f2, f3>>

MCFolderOf == f1 :> Flat @@ f2 :> d1 @@ f3 :> Flat

MCKeyOf == f1 :> z1 @@ f2 :> z1 @@ f3 :> NoKey

TranscriptsThere ==
  /\ place = f1 :> i1 @@ f2 :> i2 @@ f3 :> i3
  /\ bytes \in [Inodes -> {[part \in 1..2 |-> [no |-> 0, kind |-> kind]] : kind \in Kinds}]
  /\ \A i \in {i3, i4} : bytes[i][1].kind = "good"
  /\ bytes[i2][1].kind # "empty"
  /\ CorpusInit /\ info[f1] = d1

\* One of the two that the scan can use is disturbed, while the other is not.
ScanBound == f3 \notin touched /\ ~{f1, f2} \subseteq touched

(* Five captions of up to five words, which come in order except for the last; this    *)
(* one may repeat the first; the second may be an annotation.                       *)
Size == {0, 1, 2, 5}

Sizes == {size \in [1..5 -> Size] : \A i \in 1..5 : size[i] = 0 => i = 2}

InOrder == {at \in [1..5 -> {0, 1, 3}] : \A i \in 1..3 : at[i] <= at[i + 1]}

MCFiles ==
  {[i \in 1..5 |->
      [at |-> at[i], text |-> IF i = 5 /\ repeat THEN <<1, size[1]>> ELSE <<i, size[i]>>]] :
   at \in InOrder, size \in Sizes, repeat \in BOOLEAN}

MCWordsOf == [text \in (1..5) \X Size |-> text[2]]

(* What the others are while one is explored.                                   *)
AssessmentRests == changes = 0 /\ catalog.content = c1 /\ \A p \in Searchers : At(p, "idle")

ScanRests == place = [p \in Paths |-> Absent] /\ writes = 0 /\ Reached("list")

ChunkRests == segments = Unread

NoTranscripts ==
  /\ place = [p \in Paths |-> Absent]
  /\ bytes = [i \in Inodes |-> [part \in 1..2 |-> [no |-> 0, kind |-> "good"]]]
  /\ CorpusInit /\ info[f1] = d1 /\ info[f3] = d1

MCInit ==
  /\ AssessmentInit /\ AssessmentRests
  /\ NoTranscripts \/ TranscriptsThere
  /\ ChunkInit

MCNext ==
  \/ /\ ScanRests /\ ChunkRests /\ AssessmentNext /\ LastTakesBack
     /\ UNCHANGED <<corpusVars, chunkVars>>
  \/ AssessmentRests /\ ChunkRests /\ CorpusNext /\ UNCHANGED <<assessmentVars, chunkVars>>
  \/ AssessmentRests /\ ScanRests /\ ChunkNext /\ UNCHANGED <<assessmentVars, corpusVars>>

MCSpec == MCInit /\ [][MCNext]_<<assessmentVars, corpusVars, chunkVars>>
================================================================================
