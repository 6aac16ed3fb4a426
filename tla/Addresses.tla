---- MODULE Addresses ----
(***************************************************************************)
(* The addresses the signaling server hands out, and the search for the    *)
(* next free number it makes twice: for the suffix of a new client         *)
(* (createIPAddress) and for the port of a new connection                  *)
(* (createTCPAddress).                                                     *)
(*                                                                         *)
(* An address is a string in the code, "a.b.c.d" or "a.b.c.d:p"; here it   *)
(* is the record the parsers split it into.                                *)
(***************************************************************************)
EXTENDS Integers, FiniteSets, FiniteSetsExt

CONSTANTS Subnets,    \* the subnets clients knock for ("a.b.c")
          MaxSuffix   \* the last suffix of a subnet: 255 in the code

ASSUME AddressesAssumption ==
  /\ MaxSuffix \in Nat
  /\ "-1" \notin Subnets

IPAddresses == [subnet : Subnets, suffix : Nat]
TCPAddresses == [subnet : Subnets, suffix : Nat, port : Nat]

\* The id of a refused knock is the string "-1": it parses to a subnet that
\* does not exist (and to the suffix NaN, which nobody looks at then).
NoAddress == [subnet |-> "-1", suffix |-> 0]

Answers == IPAddresses \cup {NoAddress}

toIPAddress(subnet, suffix) == [subnet |-> subnet, suffix |-> suffix]

toTCPAddress(ip, port) ==
  [subnet |-> ip.subnet, suffix |-> ip.suffix, port |-> port]

\* parseInt stops at the colon, so the host of a TCP address parses as well.
parseIPAddress(a) == [subnet |-> a.subnet, suffix |-> a.suffix]

\* The keys of the member map of a subnet, and the ports of one member.
Suffixes(members, subnet) ==
  {m.suffix : m \in {x \in members : x.subnet = subnet}}

PortsOf(ports, ip) ==
  {p.port : p \in {x \in ports : parseIPAddress(x) = ip}}

(***************************************************************************)
(* The code sorts the numbers in use and returns the first index whose     *)
(* number differs from it, or the length when there is none. The index of  *)
(* x in the sorted array is the number of smaller elements.                *)
(***************************************************************************)
Index(S, x) == Cardinality({y \in S : y < x})

Mismatches(S) == {Index(S, x) : x \in {y \in S : y # Index(S, y)}}

\* Mutant: the next number is the length, whatever the numbers are.
FirstGap_Length(S) == Cardinality(S)

FirstGap(S) ==
  IF Mismatches(S) = {} THEN Cardinality(S) ELSE Min(Mismatches(S))

====
