SPECIFICATION Spec
CONSTANTS
  east = east
  west = west
  Node <- TwoNodes
  ModStd = 4
  MaxframeStd = 2
  MaxframeExt = 3
  EaxMode <- NoEax
  DestEax = {FALSE}
  AutoMaxframe = FALSE
  Retry = 2
  IpollRetry = 2
  ShortFrames = TRUE
  Level3 = FALSE
  Conctl = 2
  TosendMax = 150
  MaxMsg <- Simplex
  Callers = {east}
  TxMax = 3
  RxMax = 1
  MaxConnects = 1
  MaxDisconnects = 1
  MaxLoss = 0
  MaxRestarts = 0
  Patient = TRUE
  IdleTimer = FALSE
  MaxLow = 0
INVARIANTS FreeBlockEmpty
CHECK_DEADLOCK FALSE
