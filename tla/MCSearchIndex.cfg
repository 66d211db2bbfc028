SPECIFICATION MCSpec
CONSTANTS
  Queries = 2
  Languages = 2
  Limit = 2
  Contents = {c1, c2}
  c1 = c1
  c2 = c2
  p1 = p1
  p2 = p2
  p3 = p3
  v1 = v1
  v2 = v2
  Hits <- MCHits
  VideoHits <- MCVideoHits
  MaxChanges = 4
  NoFile = NoFile
  Absent = Absent
  f1 = f1
  f2 = f2
  f3 = f3
  d1 = d1
  d2 = d2
  z1 = z1
  i1 = i1
  i2 = i2
  i3 = i3
  i4 = i4
  Order <- MCOrder
  FolderOf <- MCFolderOf
  KeyOf <- MCKeyOf
  Channels = {d1, d2}
  Inodes = {i1, i2, i3, i4}
  MaxWrites = 2
  MaxTroubles = 1
  Flat = Flat
  NoKey = NoKey
  Symlink = Symlink
  Files <- MCFiles
  WordsOf <- MCWordsOf
  MinWords = 2
  MaxWords = 4
  MinDuration = 1
  MaxDuration = 2
  Overlap = 1
CONSTRAINTS OneReader ScanBound
INVARIANTS
  AssessmentOfOnePair
  AnswersAreValidated
  ScanIsFaithful
  Findable
CHECK_DEADLOCK FALSE
