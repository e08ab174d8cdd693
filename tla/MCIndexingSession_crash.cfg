CONSTANTS
  Terms = {t1}
  NoTerm = NoTerm
  FidMod = 16
  Ops = {"BUILD"}
  MaxFID = 6
  MaxRecTerms = 1
  ChunkLimit = 2
  BlockLimit = 2
  CacheLimit = 5
  MergeBuffer = 100
  UrlIsCwd = TRUE
  CarefulFIDs = TRUE
  MaxCrashes = 1
  MaxSessions = 2
  t1 = t1
SPECIFICATION Spec
INVARIANT IndexGenuine
PROPERTY AckedKept
