SPECIFICATION FairSpec
CONSTANTS
  Router = {"a", "b"}
  Local = {"d"}
  Pos <- MCPos
  Home <- MCHome
  Rtt <- Even
  Line <- Pair
  Hidden = {}
  MaxLt = 10
  ObcIni = 1
  TimLiv = 4
  ChanMax = 1
  MaxFail = 2
  MaxReset = 1
  MaxRestart = 1
  MaxLocal = 2
  MaxHourly = 1
  MaxMinutes = 0
  MaxJam = 1
  MaxMeasure = 0
  MaxCircuits = 2
  MaxKept = 1
  MaxUntidy = 0
  MaxDisturbances = 2
INVARIANTS
  NumRoutesAgree
  CircuitsReachable
  Withdrawable
PROPERTY
  Converges
CHECK_DEADLOCK FALSE
