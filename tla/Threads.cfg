CONSTANTS
  t1 = t1
  t2 = t2
  t3 = t3
  l = l
  r = r
  x = x
  Threads <- TwoThreads
  Remote = Remote
  NoOne = NoOne
  Order <- FirstAdded
  Sharing <- Second
  BindAliases <- Own
  RemoteAliases <- Elsewhere
  ConnectAliases <- OnePort
  Recycled <- Reused
  MaxDescriptors = 2
  MaxSends = 1
  MaxQueue = 2
CHECK_DEADLOCK FALSE
SPECIFICATION Spec
INVARIANTS
  TypeOK
  
  NoStaleAlias
  Reachable
PROPERTY EveryRequestAnswered
