CONSTANTS
  s1 = s1
  s2 = s2
  net = net
  k = k
  Sockets <- TwoSockets
  NoSocket = NoSocket
  Subnets <- OneSubnet
  Connections <- OneConnection
  NoConnection = NoConnection
  MaxSuffix = 1
  BindAliases <- BoundAliases
  Polite = TRUE
  MaxBatch = 2
  IdBound = 1
  PortBound = 1
SPECIFICATION Spec
INVARIANTS
  UniqueIds
  AliasesHoldPorts
  AcceptReachesOwner
PROPERTIES
  AliasKept
  EveryRequestAnswered
  DepartureAnnounced
