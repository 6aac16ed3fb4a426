CONSTANTS
  c1 = c1
  c2 = c2
  c3 = c3
  net = net
  Calls <- MCCalls
  Subnets <- MCSubnets
  Requests <- MCRequests
  NoCall = NoCall
  Done = Done
  Throws = Throws
  MaxSuffix = 1
  PortBound = 1
SPECIFICATION Spec
INVARIANTS
  TypeOK
  MutualExclusion
  SearchStillCurrent
  PortsHosted
PROPERTIES
  ImplementsAddressBook
  EveryCallReturns
