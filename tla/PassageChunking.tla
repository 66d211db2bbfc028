---------------------------- MODULE PassageChunking ----------------------------
(***************************************************************************)
(* How a transcript becomes passages of the full-text index: the captions of *)
(* a VTT file are read into segments (parse_vtt_timestamped of               *)
(* src/yt_insights/vtt_parser.py), and build_passages                        *)
(* (src/yt_insights/search/chunker.py) cuts these into passages that overlap, *)
(* each of them long enough to be read and short enough to be a place in the *)
(* video.                                                                  *)
(***************************************************************************)
EXTENDS Integers, Sequences, FiniteSets, FiniteSetsExt

CONSTANTS
  Files,         \* VTT files: sequences of captions with their time and text
  WordsOf,       \* the words of a text; 0 for an annotation in brackets, or markup alone
  MinWords, MaxWords, MinDuration, MaxDuration, Overlap

ASSUME ChunkingAssumption ==
  /\ Files \subseteq Seq([at : Nat, text : DOMAIN WordsOf])
  /\ \A text \in DOMAIN WordsOf : WordsOf[text] \in Nat
  /\ {MaxWords, MaxDuration} \subseteq Nat
  /\ MinWords \in 1..MaxWords /\ MinDuration \in 0..MaxDuration /\ Overlap \in 0..MaxDuration

VARIABLES
  segments,      \* what is read from the file, and Unread before
  start,         \* the segment the next passage starts with; 0 when all is done
  passages

chunkVars == <<segments, start, passages>>

Unread == <<[at |-> 0, words |-> 0]>>

-----------------------------------------------------------------------------
(* parse_vtt_timestamped.                                                  *)

\* Automatic captions repeat: of one text the first caption counts.
Firsts(file) ==
  {i \in 1..Len(file) :
     /\ WordsOf[file[i].text] > 0
     /\ \A j \in 1..(i - 1) : file[j].text # file[i].text}

\* The captions that count, by their time; the sort is stable.
Earlier(file, i, j) == file[i].at < file[j].at \/ (file[i].at = file[j].at /\ i < j)

Place(file, i) == 1 + Cardinality({j \in Firsts(file) : Earlier(file, j, i)})

SegmentsOf(file) ==
  [k \in 1..Cardinality(Firsts(file)) |->
     LET caption == file[CHOOSE i \in Firsts(file) : Place(file, i) = k]
     IN [at |-> caption.at, words |-> WordsOf[caption.text]]]

Parse ==
  /\ segments = Unread
  /\ \E file \in Files : segments' = SegmentsOf(file)
  /\ start' = IF segments' = <<>> THEN 0 ELSE 1
  /\ UNCHANGED passages

-----------------------------------------------------------------------------
(* build_passages: one turn of its loop is one step.                       *)

WordsIn(first, last) == MapThenSumSet(LAMBDA i : segments[i].words, first..last)

Duration(first, last) == segments[last].at - segments[first].at

\* What may be added to a passage: it stays within the limits.
Fits(first, last) ==
  WordsIn(first, last) <= MaxWords /\ Duration(first, last) <= MaxDuration

\* What is enough, once something was added.
Enough(first, last) ==
  WordsIn(first, last) >= MinWords /\ Duration(first, last) >= MinDuration

\* The segments are added one by one, until it is enough or the next does not fit.
LastOf(first) ==
  CHOOSE last \in first..Len(segments) :
    /\ \A l \in (first + 1)..last : Fits(first, l)
    /\ \A l \in (first + 1)..(last - 1) : ~Enough(first, l)
    /\ \/ last = Len(segments)
       \/ last > first /\ Enough(first, last)
       \/ ~Fits(first, last + 1)

\* Where it ends: where the next segment starts, if there is one.
EndOf(last) == segments[IF last < Len(segments) THEN last + 1 ELSE last].at

\* Faulty: passages do not overlap.
StartAfter_End(first, last) ==
  Min({i \in (first + 1)..Len(segments) : segments[i].at >= EndOf(last)})

\* The next one starts up to Overlap seconds before that end.
StartAfter(first, last) ==
  Min({i \in (first + 1)..Len(segments) : segments[i].at >= EndOf(last) - Overlap})

Chunk ==
  /\ segments # Unread /\ start # 0
  /\ LET last == LastOf(start) IN
       /\ passages' = Append(passages,
            [first |-> start, last |-> last, end |-> EndOf(last)])
       /\ start' = IF last = Len(segments) THEN 0 ELSE StartAfter(start, last)
  /\ UNCHANGED segments

ChunkInit == segments = Unread /\ start = 1 /\ passages = <<>>

ChunkNext == Parse \/ Chunk

ChunkSpec == ChunkInit /\ [][ChunkNext]_chunkVars

-----------------------------------------------------------------------------
(* Properties.                                                             *)

ChunkTypeOK ==
  /\ start \in 0..Len(segments)
  /\ \A k \in 1..Len(passages) : passages[k].first \in 1..passages[k].last
                               /\ passages[k].last \in 1..Len(segments)

\* Words of one passage that a query finds together.
Together(i, j) ==
  \E k \in 1..Len(passages) : passages[k].first <= i /\ j <= passages[k].last

\* A passage is found by what is said in it: passages go forward, no segment is left
\* out, none is longer than the limits unless it is one segment, and what is said within
\* the overlap is found together wherever the cut comes, if the limits allow it at all
\* (build_passages, OVERLAP_SECONDS).
Findable ==
  /\ \A k \in 1..Len(passages) :
       /\ k > 1 => passages[k].first > passages[k - 1].first
       /\ passages[k].end >= segments[passages[k].last].at
       /\ \/ passages[k].first = passages[k].last
          \/ Fits(passages[k].first, passages[k].last)
  /\ start = 0 =>
       /\ \A i \in 1..Len(segments) : Together(i, i)
       /\ \A i \in 1..(Len(segments) - 1) :
            Fits(i, i + 1) /\ Duration(i, i + 1) <= Overlap => Together(i, i + 1)

================================================================================
