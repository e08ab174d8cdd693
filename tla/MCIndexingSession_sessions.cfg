CONSTANTS
  Terms = {t1, t2}
  NoTerm = NoTerm
  FidMod = 16
  Ops = {"GET", "BUILD", "BUILD_MERGE"}
  MaxFID = 3
  MaxRecTerms = 2
  ChunkLimit = 1
  BlockLimit = 2
  CacheLimit = 3
  MergeBuffer = 100
  UrlIsCwd = TRUE
  CarefulFIDs = FALSE
  MaxCrashes = 0
  MaxSessions = 2
  t1 = t1
  t2 = t2
SPECIFICATION Spec
SYMMETRY Lists
INVARIANT TypeOK
INVARIANT ListsSound
INVARIANT DeltaExtendsLive
PROPERTY LiveUntouchedBeforeMerge
