CONSTANTS
  a = a
  b = b
  e = e
  f = f
  p1 = p1
  p2 = p2
  Clients <- TwoClients
  Pages <- TwoPages
  page <- PageOf
  MaxCandidates = 0
  MaxReloads = 1
CHECK_DEADLOCK FALSE
SPECIFICATION ReloadSpec
PROPERTY EveryPairConnects
