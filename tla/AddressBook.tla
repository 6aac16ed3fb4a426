---- MODULE AddressBook ----
(***************************************************************************)
(* What the signaling server's address functions promise to the handlers   *)
(* that call them, however those calls overlap: each call is answered by   *)
(* one indivisible operation on the set of members (IP addresses in use)   *)
(* and the set of ports (TCP addresses in use), made while the call is     *)
(* pending. AddressPool, with its mutex and its await inside the critical  *)
(* section, is shown to implement this.                                    *)
(*                                                                         *)
(* A granted address is any free one: that the code picks the next free    *)
(* number is not part of the promise, but a knock is refused only when     *)
(* the subnet is full.                                                     *)
(***************************************************************************)
EXTENDS Addresses

CONSTANTS Calls,      \* the calls that can be under way at once
          Requests,   \* what a handler may ask for
          Done,       \* the answer of a call that returns nothing
          Throws      \* the answer of a call that throws

\* What a call is asked for: a function of the code and its argument.
CreateIPs  == [op : {"createIPAddress"}, subnet : Subnets]
CreateTCPs == [op : {"createTCPAddress"}, addr : Answers]
RemoveIPs  == [op : {"removeIPAddress"}, addr : Answers \cup TCPAddresses]
Claims     == [op : {"claimTCPAddress"}, addr : TCPAddresses]
RemoveTCPs == [op : {"removeTCPAddress"}, addr : TCPAddresses]

RequestsTyped ==
  Requests \subseteq CreateIPs \cup CreateTCPs \cup RemoveIPs
                     \cup Claims \cup RemoveTCPs

NoRequest == [op |-> "none"]

\* What it answers: an address, nothing, or an exception.
Replies == Answers \cup TCPAddresses \cup {Done, Throws}

VARIABLES subnets,   \* the subnets the server knows
          members,   \* the IP addresses in use
          ports,     \* the TCP addresses in use
          request,   \* the request of each call
          reply,     \* the answer of each call
          status     \* "idle", "pending" or "answered"

vars == <<subnets, members, ports, request, reply, status>>

Init ==
  /\ subnets = {} /\ members = {} /\ ports = {}
  /\ request = [c \in Calls |-> NoRequest]
  /\ reply = [c \in Calls |-> Done]
  /\ status = [c \in Calls |-> "idle"]

Ask(c, r) ==
  /\ status[c] = "idle"
  /\ status' = [status EXCEPT ![c] = "pending"]
  /\ request' = [request EXCEPT ![c] = r]
  /\ UNCHANGED <<subnets, members, ports, reply>>

\* A subnet exists from its first knock on, before that knock is answered.
OpenSubnet(c) ==
  /\ status[c] = "pending" /\ request[c].op = "createIPAddress"
  /\ subnets' = subnets \cup {request[c].subnet}
  /\ UNCHANGED <<members, ports, request, reply, status>>

Answer(c, a) ==
  /\ status[c] = "pending"
  /\ status' = [status EXCEPT ![c] = "answered"]
  /\ reply' = [reply EXCEPT ![c] = a]
  /\ UNCHANGED <<subnets, request>>

GrantIP(c) ==
  \E n \in 0 .. MaxSuffix :
    LET ip == toIPAddress(request[c].subnet, n) IN
    /\ request[c].op = "createIPAddress"
    /\ ip \notin members
    /\ members' = members \cup {ip}
    /\ UNCHANGED ports
    /\ Answer(c, ip)

RefuseIP(c) ==
  /\ request[c].op = "createIPAddress"
  /\ \A n \in 0 .. MaxSuffix : toIPAddress(request[c].subnet, n) \in members
  /\ UNCHANGED <<members, ports>>
  /\ Answer(c, NoAddress)

\* Ports have no upper limit; a free one is found among as many numbers as
\* there are ports in use, and one.
GrantPort(c) ==
  LET ip == parseIPAddress(request[c].addr) IN
  /\ request[c].op = "createTCPAddress"
  /\ ip \in members
  /\ \E n \in 0 .. Cardinality(PortsOf(ports, ip)) :
       /\ toTCPAddress(ip, n) \notin ports
       /\ ports' = ports \cup {toTCPAddress(ip, n)}
       /\ Answer(c, toTCPAddress(ip, n))
  /\ UNCHANGED members

Claim(c) ==
  LET tcp == request[c].addr IN
  /\ request[c].op = "claimTCPAddress"
  /\ tcp.subnet \in subnets
  /\ tcp \notin ports
  /\ members' = members \cup {parseIPAddress(tcp)}
  /\ ports' = ports \cup {tcp}
  /\ Answer(c, Done)

\* An address in use, or one of an unknown host or subnet, throws.
Throw(c) ==
  /\ \/ /\ request[c].op = "createTCPAddress"
        /\ parseIPAddress(request[c].addr) \notin members
     \/ /\ request[c].op = "claimTCPAddress"
        /\ request[c].addr \in ports \/ request[c].addr.subnet \notin subnets
  /\ UNCHANGED <<members, ports>>
  /\ Answer(c, Throws)

\* A host leaves with all its ports.
FreeIP(c) ==
  LET ip == parseIPAddress(request[c].addr) IN
  /\ request[c].op = "removeIPAddress"
  /\ members' = members \ {ip}
  /\ ports' = {p \in ports : parseIPAddress(p) # ip}
  /\ Answer(c, Done)

FreePort(c) ==
  /\ request[c].op = "removeTCPAddress"
  /\ ports' = ports \ {request[c].addr}
  /\ UNCHANGED members
  /\ Answer(c, Done)

Serve(c) == \/ GrantIP(c) \/ RefuseIP(c) \/ GrantPort(c) \/ Claim(c)
            \/ Throw(c) \/ FreeIP(c) \/ FreePort(c)

Take(c) ==
  /\ status[c] = "answered"
  /\ status' = [status EXCEPT ![c] = "idle"]
  /\ request' = [request EXCEPT ![c] = NoRequest]
  /\ reply' = [reply EXCEPT ![c] = Done]
  /\ UNCHANGED <<subnets, members, ports>>

Next == \E c \in Calls : \/ \E r \in Requests : Ask(c, r)
                         \/ OpenSubnet(c) \/ Serve(c) \/ Take(c)

\* Every call that is asked is answered, in any order.
Fairness == \A c \in Calls : WF_vars(Serve(c))

Spec == Init /\ [][Next]_vars /\ Fairness

====
