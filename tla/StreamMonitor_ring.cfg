CONSTANTS
  Size = 3
  BlockChunks = 2
  MaxChunks = 9
SPECIFICATION Spec
INVARIANT NoSharedBlock
INVARIANT BacklogMatchesEvents
INVARIANT HeardInOrder
PROPERTY FullRingDrains
PROPERTY TerminateReturns
