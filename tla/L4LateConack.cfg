SPECIFICATION Spec
CONSTANTS
  east = east
  west = west
  Node <- TwoNodes
  NumCir = 1
  Mod = 8
  Trawir <- Window2
  Retry = 2
  TxCut = 150
  Callers = {east}
  MaxId = 2
  MaxMsg <- Two
  NetMax = 4
  MaxConnects = 1
  MaxDisconnects = 1
  MaxLoss = 0
  MaxDup = 0
  MaxSwap = 0
  MaxRestarts = 0
  MaxLow = 0
  MaxIdle = 0
  Patient = TRUE
CHECK_DEADLOCK FALSE
PROPERTY MarkedEnds
