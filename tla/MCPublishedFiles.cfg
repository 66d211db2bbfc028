SPECIFICATION MCSpec
CONSTANTS
  a1 = a1
  a2 = a2
  k1 = k1
  k2 = k2
  Manifest = Manifest
  Order <- MCOrder
  Clients <- MCClients
  AssetsOf <- MCAssetsOf
  Versions = {"v1", "v2"}
  MaxRuns = 2
  MaxEdits = 1
  MaxFaults = 1
  w1 = w1
  w2 = w2
  w3 = w3
  Writers = {w1, w2, w3}
  Prior = Prior
  Foreign = Foreign
  None = None
  MaxErrors = 1
  MaxCrashes = 1
  en = en
  fr = fr
  r1 = r1
  r2 = r2
  e1 = e1
  e2 = e2
  Exporters = {e1, e2}
  Languages = {en, fr}
  Rooms = {r1, r2}
  MaxRewrites = 1
  MaxTroubles = 1
  MaxKills = 1
  Nothing = Nothing
CONSTRAINTS DossierBound ExportBound
INVARIANTS
  
  Resumable
  
  ExportIsOneText
  TwoExportsAreSafe
PROPERTIES
  NoFileIsLost
  ReplacedOnlyByCommitted
CHECK_DEADLOCK FALSE
