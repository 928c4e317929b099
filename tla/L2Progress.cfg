SPECIFICATION ProgressSpec
CONSTANTS
  east = east
  west = west
  Node <- TwoNodes
  ModStd = 4
  MaxframeStd = 2
  MaxframeExt = 3
  EaxMode <- NoEax
  DestEax = {FALSE}
  AutoMaxframe = TRUE
  Retry = 2
  IpollRetry = 2
  ShortFrames = TRUE
  Level3 = FALSE
  Conctl = 2
  TosendMax = 150
  MaxMsg <- Simplex
  Callers = {east}
  TxMax = 2
  RxMax = 1
  MaxConnects = 2
  MaxDisconnects = 0
  MaxLoss = 1
  MaxRestarts = 1
  Patient = TRUE
  IdleTimer = TRUE
  MaxLow = 2
PROPERTY Delivers Answered NoHalfOpen
CHECK_DEADLOCK FALSE
