CONSTANTS
  Recordings <- Database
  Queries <- Heard
  Modes = {"MSCALE", "XSCALE"}
  RoundedDown = {}
  Kmin = 18
  qF = 9
  qT = 5
  qB = 186
  Dmax = 2
  Tmax = 12
  HistoSizes = {11, 30}
  Nk = 3
  Tk = 20
  Ntf = 4
  Smax = 1000
  IDI = 10
  TopK = 2
  TieMax = 1
  Threshold = 20
  ReadsFail = TRUE
SPECIFICATION Spec
INVARIANT ListsReadThrough
INVARIANT EvidenceRight
INVARIANT TopIsBest
PROPERTY BestOnlyGrows
