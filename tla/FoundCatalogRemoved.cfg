SPECIFICATION PublicationSpec
CONSTANTS
  Writers = {w1, w2}
  Refreshes = {r1, r2}
  Rebuilds = {b}
  First = First
  MaxCorpus = 1
  MaxFaults = 1
  MaxCrashes = 1
  NoFile = NoFile
  NoOne = NoOne
PROPERTY RestoresPrevious
CHECK_DEADLOCK FALSE
