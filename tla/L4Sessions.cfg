SPECIFICATION Spec
CONSTANTS
  east = east
  west = west
  Node <- TwoNodes
  NumCir = 1
  Mod = 8
  Trawir <- Window2
  Retry = 2
  TxCut = 150
  Callers = {east, west}
  MaxId = 4
  MaxMsg <- OneEach
  NetMax = 4
  MaxConnects = 2
  MaxDisconnects = 1
  MaxLoss = 1
  MaxDup = 0
  MaxSwap = 0
  MaxRestarts = 1
  MaxLow = 0
  MaxIdle = 0
  Patient = TRUE
CHECK_DEADLOCK FALSE
PROPERTY PipeSpec
