CONSTANTS
  c1 = c1
  c2 = c2
  net = net
  Clients <- TwoClients
  Connections <- TwoClients
  NoConnection = NoConnection
  NoSocket = NoSocket
  Subnets <- OneSubnet
  subnetPrefix = net
  MaxSuffix = 3
  BindAliases <- OneAlias
  MaxOpens = 1
  Unreliable <- NoClient
  Habits = {"tidy"}
  MaxCalls = 3
  MaxQueue = 1
  PortBound = 1
CHECK_DEADLOCK FALSE
SPECIFICATION FairSpec
PROPERTY EveryCallReturns
