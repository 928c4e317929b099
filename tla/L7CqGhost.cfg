SPECIFICATION Spec
CONSTANTS
  a = a
  b = b
  h1 = h1
  k = k
  NoUid = NoUid
  L2User = {a, b}
  L4User = {}
  HostUser = {h1}
  HostPos <- MCHostPos
  Ypar = 1
  MaxCq = 2
  MaxGatewayCq = 0
  MaxFrmr = 0
  MaxReuse = 0
  MaxMiscount = 1
  MaxImpatient = 0
SYMMETRY Symmetry
INVARIANT NoGhost
