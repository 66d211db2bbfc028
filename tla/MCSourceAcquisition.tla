-------------------------- MODULE MCSourceAcquisition --------------------------
\* Two videos; a user who wants both with insights, one who selects a year among
\* repeated, undated and invalid entries, and a research session's single video,
\* without analysis and refresh.  The first video is renamed between two downloads.
EXTENDS SourceAcquisition, TLC
CONSTANTS v, w
MCNames == {<<v, "before">>, <<v, "after">>, <<w, "title">>}
Found(id, year) == [id |-> id, year |-> year, valid |-> TRUE]
MCRequests ==
  {[found |-> <<Found(v, 2024), Found(w, 2025), Found(v, 2024)>>, years |-> {},
    analyze |-> TRUE, refresh |-> TRUE],
   [found |-> <<Found(w, 0), [id |-> None, year |-> 2024, valid |-> FALSE], Found(v, 2024)>>,
    years |-> {2024}, analyze |-> FALSE, refresh |-> TRUE],
   [found |-> <<Found(v, 2024)>>, years |-> {}, analyze |-> FALSE, refresh |-> FALSE]}
Exchangeable == Permutations(Runs)
=============================================================================
