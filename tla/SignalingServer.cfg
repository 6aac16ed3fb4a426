CONSTANTS
  s1 = s1
  s2 = s2
  net = net
  k = k
  Sockets <- TwoSockets
  NoSocket = NoSocket
  Subnets <- OneSubnet
  Connections <- OneConnection
  NoConnection = NoConnection
  MaxSuffix = 1
  BindAliases <- OwnPort
  Polite = FALSE
  MaxBatch = 2
  IdBound = 1
  PortBound = 1
SYMMETRY SocketSymmetry
VIEW ServerState
SPECIFICATION Spec
INVARIANTS
  TypeOK
  ClientsConnected
  NoOrphanAlias
  NothingLeaked
PROPERTY OnlyOwnerRetracts
