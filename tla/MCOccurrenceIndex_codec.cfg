CONSTANTS
  Radix = 2
  Recordings <- Recorded
  Modes = {"MSCALE", "XSCALE"}
  Kmin = 18
  Kmed = 100
  Nbands = 3
  qF = 9
  qT = 5
  qB = 186
  Dmax = 2
  Tmax = 8
  RoundedDown <- Rounded
  Gaps = {1, 10}
  ChunkInts = 8
  BlockBytes = 20
  MaxRecordings = 3
SPECIFICATION Spec
INVARIANT TermsApart
INVARIANT CacheSound
INVARIANT ListsDecode
INVARIANT ReaderRight
CHECK_DEADLOCK FALSE
