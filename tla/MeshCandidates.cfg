CONSTANTS
  a = a
  b = b
  e = e
  f = f
  p1 = p1
  p2 = p2
  Clients <- TwoClients
  Pages <- TwoPages
  page <- PageOf
  MaxCandidates = 2
CHECK_DEADLOCK FALSE
SPECIFICATION Spec
INVARIANT CandidatesExchanged
