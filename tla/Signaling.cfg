CONSTANTS
  c1 = c1
  c2 = c2
  net = net
  Clients <- TwoClients
  Connections <- TwoClients
  NoConnection = NoConnection
  NoSocket = NoSocket
  Subnets <- OneSubnet
  subnetPrefix = net
  MaxSuffix = 3
  BindAliases <- OneAlias
  MaxOpens = 1
  Unreliable <- NoClient
  Habits = {"tidy"}
  MaxCalls = 5
  MaxQueue = 3
  PortBound = 1
SYMMETRY ClientSymmetry
CHECK_DEADLOCK FALSE
SPECIFICATION Spec
INVARIANTS
  TypeOK
  TablesAgree
PROPERTIES
  AliasCallOutcome
  ConnectionOutcome
