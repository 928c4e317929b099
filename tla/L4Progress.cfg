SPECIFICATION FairSpec
CONSTANTS
  east = east
  west = west
  Node <- TwoNodes
  NumCir = 1
  Mod = 4
  Trawir <- Window2
  Retry = 2
  TxCut = 3
  Callers = {east}
  MaxId = 5
  MaxMsg <- ThreeOnly
  NetMax = 8
  MaxConnects = 1
  MaxDisconnects = 1
  MaxLoss = 1
  MaxDup = 0
  MaxSwap = 0
  MaxRestarts = 0
  MaxLow = 0
  MaxIdle = 1
  Patient = TRUE
INVARIANT TypeOK
PROPERTY WaitEnds Delivers LeavingEnds ChokeEnds
CHECK_DEADLOCK FALSE
