CONSTANTS
  Terms = {t1, t2}
  NoTerm = NoTerm
  FidMod = 16
  Ops = {"BUILD", "BUILD_MERGE"}
  MaxFID = 4
  MaxRecTerms = 2
  ChunkLimit = 2
  BlockLimit = 2
  CacheLimit = 3
  BatchLimit = 2
  MergeBuffer = 1
  RetriesFlush = FALSE
  ReadsLast = TRUE
  MaxTroubles = 1
  MaxSessions = 2
  t1 = t1
  t2 = t2
SPECIFICATION Spec
SYMMETRY Lists
INVARIANT KeysCoverDelta
INVARIANT ListsSound
INVARIANT NoPhantomPosting
INVARIANT NeverRefused
INVARIANT AckedSafe
