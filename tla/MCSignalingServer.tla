---- MODULE MCSignalingServer ----
(***************************************************************************)
(* Two connections on one subnet.                                          *)
(***************************************************************************)
EXTENDS SignalingServer, TLC

CONSTANTS s1, s2, net, k

TwoSockets == {s1, s2}
OneSubnet == {net}
OneConnection == {k}

ip(n) == toIPAddress(net, n)

\* The port that a client's first connect would get as well.
OwnPort == {toTCPAddress(ip(0), 0)}

\* Port 0 of the first host, which its client may connect from as well, and a
\* port of a host that is free as long as one client is connected.
BoundAliases == {toTCPAddress(ip(0), 0), toTCPAddress(ip(1), 1)}

SocketSymmetry == Permutations({s1, s2})

\* No invariant looks at the messages of the last step.
ServerState == <<open, refused, goodbyes, clients, aliases, subnets, members, ports, tasks>>
====
