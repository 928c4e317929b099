SPECIFICATION WarmSpec
CONSTANTS
  Router = {"a", "b"}
  Local = {"d"}
  Pos <- MCPos
  Home <- MCHome
  Rtt <- Even
  Line <- Pair
  Hidden = {}
  MaxLt = 10
  ObcIni = 1
  TimLiv = 4
  ChanMax = 2
  MaxFail = 0
  MaxReset = 1
  MaxRestart = 0
  MaxLocal = 3
  MaxHourly = 0
  MaxMinutes = 0
  MaxJam = 0
  MaxMeasure = 1
  MaxCircuits = 0
  MaxKept = 1
  MaxUntidy = 1
  MaxDisturbances = 5
INVARIANT
  WorseIsTold
CHECK_DEADLOCK FALSE
