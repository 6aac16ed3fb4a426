---- MODULE MCSignaling ----
(***************************************************************************)
(* Two clients on one subnet.                                              *)
(***************************************************************************)
EXTENDS Signaling, TLC

CONSTANTS c1, c2, net

TwoClients == {c1, c2}
NoClient == {}
One == {c1}
OneSubnet == {net}

\* A port of a host that no client has as its id.
OneAlias == {[subnet |-> net, suffix |-> 8, port |-> 7]}

ClientSymmetry == Permutations({c1, c2})
====
