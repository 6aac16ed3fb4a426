CONSTANTS
  a = a
  b = b
  e = e
  f = f
  p1 = p1
  p2 = p2
  Clients <- ThreeClients
  Pages <- TwoPages
  page <- PageOf
  MaxCandidates = 1
CHECK_DEADLOCK FALSE
SPECIFICATION Spec
INVARIANTS
  TypeOK
  ChannelsPaired
  OffererHeard
 
