SPECIFICATION Spec
CONSTANTS
  east = east
  west = west
  Node <- TwoNodes
  ModStd = 4
  MaxframeStd = 2
  MaxframeExt = 3
  EaxMode <- MHeard
  DestEax = {FALSE, TRUE}
  AutoMaxframe = FALSE
  Retry = 2
  IpollRetry = 2
  ShortFrames = FALSE
  Level3 = FALSE
  Conctl = 2
  TosendMax = 150
  MaxMsg <- Simplex
  Callers = {east}
  TxMax = 3
  RxMax = 1
  MaxConnects = 2
  MaxDisconnects = 1
  MaxLoss = 2
  MaxRestarts = 1
  Patient = TRUE
  IdleTimer = FALSE
  MaxLow = 0
INVARIANTS SameMode
CHECK_DEADLOCK FALSE
