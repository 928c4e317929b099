SPECIFICATION Spec
CONSTANTS
  east = east
  west = west
  Node <- TwoNodes
  NumCir = 1
  Mod = 6
  Trawir <- Window2
  Retry = 2
  TxCut = 150
  Callers = {east}
  MaxId = 2
  MaxMsg <- Three
  NetMax = 4
  MaxConnects = 1
  MaxDisconnects = 0
  MaxLoss = 0
  MaxDup = 1
  MaxSwap = 1
  MaxRestarts = 0
  MaxLow = 1
  MaxIdle = 0
  Patient = TRUE
INVARIANTS WindowInList WaitTimed
CHECK_DEADLOCK FALSE
PROPERTY PipeSpec
