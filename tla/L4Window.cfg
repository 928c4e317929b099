SPECIFICATION Spec
CONSTANTS
  east = east
  west = west
  Node <- TwoNodes
  NumCir = 1
  Mod = 128
  Trawir <- Window127
  Retry = 2
  TxCut = 150
  Callers = {east}
  MaxId = 2
  MaxMsg <- Two
  NetMax = 4
  MaxConnects = 1
  MaxDisconnects = 0
  MaxLoss = 1
  MaxDup = 0
  MaxSwap = 0
  MaxRestarts = 0
  MaxLow = 0
  MaxIdle = 0
  Patient = TRUE
INVARIANT NotKeptAgain
CHECK_DEADLOCK FALSE
