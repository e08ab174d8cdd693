CONSTANTS
  r1 = r1
  r2 = r2
  r3 = r3
  NoName = NoName
  NoFile = NoFile
  Drivers = {"TC", "CB"}
  Recordings = {r1, r2, r3}
  Broken = {r3}
  LFs <- Lengths
  Directories = {{r2}, {r1, r3}, {r1, r2, r3}}
  CacheLimit = 2
  Reach = 1
  CarefulBase = TRUE
  WithID3 = TRUE
  MaxFID = 3
  MaxRuns = 4
  MaxTroubles = 1
SPECIFICATION Spec
INVARIANT CollectionsAgree
INVARIANT IndexedInFull
INVARIANT AnswersRight
PROPERTY RunEnds
CHECK_DEADLOCK FALSE
