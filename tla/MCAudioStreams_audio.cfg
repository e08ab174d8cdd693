SPECIFICATION Spec
CONSTANTS
  OrigWindowSize = 3
  hopSize = 2
  MinSize = 7
  Samples = {0, 1, 2}
  Energy <- Spectra
  Kmin = 1
  Kmax = 3
  rNpT = 1
  rNpF = 0
  rWp = 1
  rHp = 1
  rWcT = 0
  nst = 1
  nbt = 1
  Clients = {"INDEX", "IDENTIFY"}
  Recordings <- Audio
  Sizes = {1, 4, 5, 8, 14}
  BlockSize = 5
  ChunkSize = 14
  BufferSize = 19
  SnippetSize = 12
  Second = 2
  MaxRecordingLength = 15
INVARIANT AudioKept
INVARIANT LFsInSequence
INVARIANT InteriorAgree
CHECK_DEADLOCK FALSE
