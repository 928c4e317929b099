SPECIFICATION FairSpec
CONSTANTS
  a = a
  b = b
  h1 = h1
  k = k
  NoUid = NoUid
  L2User = {a}
  L4User = {k}
  HostUser = {}
  HostPos <- MCHostPos
  Ypar = 1
  MaxCq = 1
  MaxGatewayCq = 1
  MaxFrmr = 0
  MaxReuse = 0
  MaxMiscount = 1
  MaxImpatient = 1
PROPERTIES
  HthAnswered
  CallEnds
