------------------------------- MODULE MCCatalog -------------------------------
(* The two sides of the catalog: how it is published (IndexPublication) and what  *)
(* it holds (TopicDiscovery, CatalogContents).  They share no state, so that       *)
(* each is explored while the other has not begun.                               *)
EXTENDS IndexPublication, TopicDiscovery, TLC

CONSTANTS v, w, p, q, x, y, z, news, talks

Symmetry == Permutations(Writers) \cup Permutations(Refreshes)

MCLayouts == <<"inbox", "a">>

\* Two titles of one video, and a name the catalog does not support.
MCArtifacts ==
  << [video |-> v, title |-> "old", kind |-> "insight"],
     [video |-> v, title |-> "old", kind |-> "transcript"],
     [video |-> v, title |-> "new", kind |-> "transcript"],
     [video |-> None, title |-> "old", kind |-> "transcript"] >>

MCFeeds ==
  { [slug |-> "a", errors |-> FALSE, videos |-> <<[video |-> v, title |-> None]>>],
    [slug |-> "b", errors |-> TRUE,
     videos |-> <<[video |-> v, title |-> "new"], [video |-> w, title |-> "old"]>>] }

From(video, channel) == [video |-> video, channel |-> channel]

\* Answers overlap, repeat a channel, lack a channel and hold an invalid record.
MCAnswers ==
  { [videos |-> <<From(v, news), From(w, news), From(p, talks)>>, problems |-> {}],
    [videos |-> <<From(q, None), From(w, news), From(None, talks)>>, problems |-> {}],
    [videos |-> <<From(p, talks), From(q, talks)>>, problems |-> {"partial_metadata"}],
    [videos |-> <<>>, problems |-> {"provider_exit_nonzero"}] }

\* The provider reads only which videos the catalog has.
OneAtATime == topic.phase = "idle" \/ edits = 0

PublicationNotBegun ==
  /\ catalog = NoFile /\ search = NoFile /\ corpus = 0
  /\ \A process \in Procs : At(process, "idle")

ContentsNotBegun == edits = 0 /\ visits = 0 /\ topic = NoTopic

MCInit == PublicationInit /\ DiscoveryInit

MCNext ==
  \/ ContentsNotBegun /\ PublicationNext /\ UNCHANGED discoveryVars
  \/ PublicationNotBegun /\ DiscoveryNext /\ UNCHANGED publicationVars

MCSpec == MCInit /\ [][MCNext]_<<publicationVars, discoveryVars>>
================================================================================
