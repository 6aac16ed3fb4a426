CONSTANTS
  r1 = r1
  l1 = l1
  l2 = l2
  p1 = p1
  p2 = p2
  d1 = d1
  d2 = d2
  k1 = k1
  k2 = k2
  a1 = a1
  Remotes <- OneRemote
  Locals <- TwoLocals
  Connections <- TwoConnections
  Candidates = {}
  Calls <- OneCall
  Senders = {}
  Receivers <- TwoLocals
  None = None
  MaxChannels = 2
  MaxMessages = 2
SPECIFICATION Spec
INVARIANT NoRecvForgotten
PROPERTY FirstInFirstOut
