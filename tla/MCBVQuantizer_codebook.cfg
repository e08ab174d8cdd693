SPECIFICATION Spec
CONSTANTS
  IDI = 5
  BlockBits = 2
  MaxDist = 2
  Descriptors <- Corners
  MaxPoints = 6
  K = 3
  MaxIt = 1
  MaxChange = 1
  Written = {6, 8, 12, 18}
INVARIANT ClustersSound
INVARIANT CodesKept
PROPERTY ErrorNeverGrows
CHECK_DEADLOCK FALSE
