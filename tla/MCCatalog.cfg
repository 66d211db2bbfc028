SPECIFICATION MCSpec
CONSTANTS
  Writers = {w1, w2}
  Refreshes = {r1, r2}
  Rebuilds = {b}
  First = First
  MaxCorpus = 1
  MaxFaults = 1
  MaxCrashes = 1
  NoFile = NoFile
  NoOne = NoOne
  v = v
  w = w
  p = p
  q = q
  x = x
  y = y
  z = z
  news = news
  talks = talks
  Layouts <- MCLayouts
  Artifacts <- MCArtifacts
  Videos = {v, w, p, q}
  Titles = {"old", "new"}
  Kinds = {"transcript", "insight"}
  Contents = {x, y, z}
  Broken = {y}
  Incomplete = {z}
  Slugs = {"inbox", "a", "b"}
  Feeds <- MCFeeds
  Uploaders = {news, talks}
  Answers <- MCAnswers
  TopicQueries = 2
  Limit = 3
  MaxEdits = 2
  MaxVisits = 3
  None = None
SYMMETRY Symmetry
CONSTRAINT OneAtATime
INVARIANTS
  UpdatesKept
  SearchUsable
  
  SearchRowsAgree
  
  FairOffer
PROPERTY NothingForgotten
CHECK_DEADLOCK FALSE
