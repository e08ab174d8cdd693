CONSTANTS
  r1 = r1
  r2 = r2
  FIDs = {r1, r2}
  NoFID = NoFID
  IdModes = {"EASY", "STRICT"}
  Types = {"FUZZY", "BINARY"}
  Confs = {13000, 25200}
  MaxTies = 1
  Overflows = {TRUE, FALSE}
  Nk = 3
  Extracted = {0, 4}
  Duration = 25
  FlushTimes = {20}
  BinaryIdThreshold = 20000
  BinaryIdMinTime = 60
  LateBound = 100
  TimeBound = 200
  Grace = 0
SPECIFICATION Spec
SYMMETRY Recordings
INVARIANT AnswerInTime
INVARIANT AnswersSound
PROPERTY AnsweredOnce
