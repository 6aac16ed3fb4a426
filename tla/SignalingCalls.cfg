CONSTANTS
  c1 = c1
  c2 = c2
  net = net
  Clients <- TwoClients
  Connections <- TwoClients
  NoConnection = NoConnection
  NoSocket = NoSocket
  Subnets <- OneSubnet
  subnetPrefix = net
  MaxSuffix = 3
  BindAliases <- OneAlias
  MaxOpens = 2
  Unreliable <- One
  Habits = {}
  MaxQueue = 1
  PortBound = 1
  MaxCalls = 2
CHECK_DEADLOCK FALSE
SPECIFICATION FairSpec
INVARIANTS
  NoStaleAlias
  IdOfConnection
PROPERTIES
  EveryCallReturns
  Reconnects
