CONSTANTS
  Terms = {t1}
  NoTerm = NoTerm
  FidMod = 16
  Ops = {"BUILD", "BUILD_MERGE"}
  MaxFID = 4
  MaxRecTerms = 1
  ChunkLimit = 2
  BlockLimit = 3
  CacheLimit = 4
  MergeBuffer = 100
  UrlIsCwd = TRUE
  CarefulFIDs = TRUE
  MaxCrashes = 0
  MaxSessions = 2
  t1 = t1
SPECIFICATION Spec
PROPERTY ImplementsLiveIndex
