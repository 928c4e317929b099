SPECIFICATION WarmSpec
CONSTANTS
  Router = {"a", "b", "c"}
  Local = {"d"}
  Pos <- MCPos
  Home <- MCHome
  Rtt <- Uneven
  Line <- Triangle
  Hidden = {"c"}
  MaxLt = 5
  ObcIni = 1
  TimLiv = 4
  ChanMax = 2
  MaxFail = 0
  MaxReset = 0
  MaxRestart = 0
  MaxLocal = 1
  MaxHourly = 0
  MaxMinutes = 0
  MaxJam = 0
  MaxMeasure = 1
  MaxCircuits = 0
  MaxKept = 0
  MaxUntidy = 0
  MaxDisturbances = 2
INVARIANTS
  SettledRight
  WorseIsTold
CHECK_DEADLOCK FALSE
