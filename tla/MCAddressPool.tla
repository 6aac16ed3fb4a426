---- MODULE MCAddressPool ----
(***************************************************************************)
(* Three overlapping calls on one subnet of two suffixes and ports 0 and 1.*)
(***************************************************************************)
EXTENDS AddressPool, TLC

CONSTANTS c1, c2, c3, net

MCCalls == {c1, c2, c3}
MCSubnets == {net}

ip(n) == toIPAddress(net, n)
tcp(n, port) == toTCPAddress(ip(n), port)

MCRequests ==
  {[op |-> "createIPAddress", subnet |-> net],
   [op |-> "createTCPAddress", addr |-> ip(0)],
   [op |-> "createTCPAddress", addr |-> NoAddress],
   [op |-> "claimTCPAddress", addr |-> tcp(0, 0)],
   [op |-> "claimTCPAddress", addr |-> tcp(1, 1)],
   [op |-> "removeIPAddress", addr |-> ip(0)],
   [op |-> "removeTCPAddress", addr |-> tcp(0, 0)]}
====
