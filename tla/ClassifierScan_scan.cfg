CONSTANTS
  ConfStep = 252
  MaxTime = 210
SPECIFICATION ScanSpec
INVARIANT SettledInTime
INVARIANT ConfidenceHelps
CHECK_DEADLOCK FALSE
