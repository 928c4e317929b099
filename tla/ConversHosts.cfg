SPECIFICATION MCSpec
CONSTANTS
  a = a
  b = b
  c = c
  u = u
  v = v
  Host = {a, b, c}
  Stream <- Ring
  NoStream = NoStream
  NoHost = NoHost
  User = {u, v}
  Channel = {1, 2}
  Logins <- AtTheEnds
  MaxEvents = 3
  MaxMessages = 1
  MaxFaults = 1
CHECK_DEADLOCK FALSE
INVARIANTS
  ChannelsExist
  WaysOpen
  AwayKnown
  HeardOnce
  NoFalseAlarm
PROPERTIES
  Converges
  LoopCut
