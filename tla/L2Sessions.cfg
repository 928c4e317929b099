SPECIFICATION Spec
CONSTANTS
  east = east
  west = west
  Node <- TwoNodes
  ModStd = 4
  MaxframeStd = 2
  MaxframeExt = 3
  EaxMode <- NoEax
  DestEax = {FALSE}
  AutoMaxframe = TRUE
  Retry = 2
  IpollRetry = 2
  ShortFrames = TRUE
  Level3 = TRUE
  Conctl = 2
  TosendMax = 1
  MaxMsg <- Simplex
  Callers = {east, west}
  TxMax = 3
  RxMax = 1
  MaxConnects = 2
  MaxDisconnects = 1
  MaxLoss = 1
  MaxRestarts = 1
  Patient = TRUE
  IdleTimer = FALSE
  MaxLow = 0
INVARIANTS AwaitingTimed
PROPERTY PipeSpec
CHECK_DEADLOCK FALSE
