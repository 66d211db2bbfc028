---------------------------- MODULE TopicDiscovery -----------------------------
(***************************************************************************)
(* The discovery provider of research sessions                              *)
(* (src/yt_insights/research/discovery.py): one metadata search per query,    *)
(* each of which may fail, then one look into the published catalog, and a    *)
(* choice that goes round the channels.  Sessions publish new catalogs        *)
(* between any two of these steps.                                          *)
(***************************************************************************)
EXTENDS CatalogContents, FiniteSetsExt

CONSTANTS
  Uploaders,      \* channels
  Answers,        \* what a search may return: videos with their channels, and trouble
  TopicQueries,   \* number of queries
  Limit           \* candidates to offer

ASSUME DiscoveryAssumption ==
  /\ {TopicQueries, Limit} \subseteq Nat \ {0}
  /\ \A answer \in Answers :
       /\ answer.problems \subseteq {"provider_exit_nonzero", "partial_metadata"}
       /\ answer.videos \in Seq([video : Videos \cup {None}, channel : Uploaders \cup {None}])

VARIABLE topic   \* the discovery: what was found in order, errors, and what is offered

discoveryVars == <<contentsVars, topic>>

NoTopic == [phase |-> "idle", query |-> 1, found |-> <<>>, errors |-> {}, known |-> {},
            offered |-> <<>>]

Going(phase) == topic.phase = phase /\ UNCHANGED contentsVars

StartDiscovery ==
  /\ Going("idle")
  /\ topic' = [NoTopic EXCEPT !.phase = "search"]

\* Where a video was found before; a candidate keeps its first rank.
FoundBefore(found, video) == {k \in DOMAIN found : found[k].video = video}

FoundAgain(found, video, query) ==
  [k \in DOMAIN found |->
     IF k \in FoundBefore(found, video)
     THEN [found[k] EXCEPT !.queries = @ \cup {query}] ELSE found[k]]

\* One record of an answer; a record without a valid video is an error.
Noted(now, record, rank, query) ==
  IF record.video = None
  THEN [now EXCEPT !.errors = @ \cup {"invalid_metadata_record"}]
  ELSE IF FoundBefore(now.found, record.video) # {}
  THEN [now EXCEPT !.found = FoundAgain(@, record.video, query)]
  ELSE [now EXCEPT !.found = Append(@, [video |-> record.video, rank |-> rank,
          channel |-> IF record.channel = None THEN record.video ELSE record.channel,
          queries |-> {query}])]

NotedUpTo(answer) ==
  LET noted[k \in 0..Len(answer.videos)] ==
        IF k = 0 THEN [topic EXCEPT !.errors = @ \cup answer.problems]
        ELSE Noted(noted[k - 1], answer.videos[k], k, topic.query)
  IN noted[Len(answer.videos)]

Advance(now) ==
  [now EXCEPT !.query = @ + 1, !.phase = IF topic.query = TopicQueries THEN "look" ELSE "search"]

Fetch(answer) ==
  /\ Going("search")
  /\ topic' = Advance(NotedUpTo(answer))

FetchFails(problem) ==
  /\ Going("search")
  /\ topic' = Advance([topic EXCEPT !.errors = @ \cup {problem}])

InCatalog == {video \in Videos : tables.videos[video] # None}

\* The catalog cannot be read or changes while it is.
LookFails ==
  /\ Going("look")
  /\ topic' = [topic EXCEPT !.phase = "failed", !.errors = @ \cup {"catalog_membership_failed"}]

\* The candidates the catalog does not have, by their numbers in the order found.
Unseen(found, known) == {k \in DOMAIN found : found[k].video \notin known}

\* The candidates of the channel of the k-th.
Peers(list, unseen, k) == {j \in unseen : list[j].channel = list[k].channel}

Offset(list, unseen, k) == Cardinality({j \in Peers(list, unseen, k) : j < k})

\* The candidate that stands for its channel: the first to be found.
Leader(list, unseen, k) == Min(Peers(list, unseen, k))

\* Channels take turns in the order of their leaders' ranks.
Sooner(list, unseen, j, k) ==
  LET Place(i) == LET leader == Leader(list, unseen, i)
                  IN <<Offset(list, unseen, i), list[leader].rank, leader>>
  IN \E i \in 1..3 : /\ Place(j)[i] < Place(k)[i]
                     /\ \A h \in 1..(i - 1) : Place(j)[h] = Place(k)[h]

Turn(list, unseen, k) == 1 + Cardinality({j \in unseen : Sooner(list, unseen, j, k)})

Room(unseen, limit) == IF Cardinality(unseen) < limit THEN Cardinality(unseen) ELSE limit

\* Faulty: the first ones found are offered.
RoundRobin_InOrder(list, unseen, limit) ==
  [n \in 1..Room(unseen, limit) |->
     list[CHOOSE k \in unseen : Cardinality({j \in unseen : j <= k}) = n]]

RoundRobin(list, unseen, limit) ==
  [n \in 1..Room(unseen, limit) |-> list[CHOOSE k \in unseen : Turn(list, unseen, k) = n]]

Look ==
  /\ Going("look")
  /\ LET offered == RoundRobin(topic.found, Unseen(topic.found, InCatalog), Limit)
     IN topic' = [topic EXCEPT !.phase = "offered", !.known = InCatalog, !.offered = offered,
                    !.errors = IF offered = <<>> THEN @ \cup {"no_candidates"} ELSE @]

\* The provider calls the discovery complete.
Completed == topic.phase = "offered" /\ topic.offered # <<>> /\ topic.errors = {}

Provider ==
  \/ StartDiscovery
  \/ \E answer \in Answers : Fetch(answer)
  \/ \E problem \in {"provider_exit_nonzero", "invalid_metadata_record"} : FetchFails(problem)
  \/ Look \/ LookFails

DiscoveryInit == ContentsInit /\ topic = NoTopic

DiscoveryNext == Provider \/ (ContentsNext /\ UNCHANGED topic)

DiscoverySpec == DiscoveryInit /\ [][DiscoveryNext]_discoveryVars

-----------------------------------------------------------------------------
Offered(channel) == {n \in DOMAIN topic.offered : topic.offered[n].channel = channel}

Available(channel) ==
  {k \in DOMAIN topic.found :
     topic.found[k].channel = channel /\ topic.found[k].video \notin topic.known}

Channels == {topic.found[k].channel : k \in DOMAIN topic.found}

\* What is offered is new, without duplicates and as much as there is room for, and no
\* channel gets two turns more than one that has candidates left: a prolific channel does
\* not crowd out the others (YtDlpDiscoveryProvider._round_robin_channels).
FairOffer ==
  topic.phase = "offered" =>
    LET total == Cardinality({k \in DOMAIN topic.found : topic.found[k].video \notin topic.known})
    IN /\ Len(topic.offered) = IF total < Limit THEN total ELSE Limit
       /\ \A m, n \in DOMAIN topic.offered :
            /\ topic.offered[n].video \notin topic.known
            /\ topic.offered[m].video = topic.offered[n].video => m = n
       /\ \A c, d \in Channels :
            Cardinality(Offered(c)) > Cardinality(Offered(d)) + 1 =>
              Cardinality(Offered(d)) = Cardinality(Available(d))

================================================================================
