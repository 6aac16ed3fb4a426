---- MODULE SignalingServerProofs ----
(***************************************************************************)
(* What the handlers of the signaling server keep true, for any number of  *)
(* connections, subnets, aliases and handlers that overlap in one turn.    *)
(*                                                                         *)
(* The properties say what holds between turns. What makes them hold is    *)
(* what a handler under way still owes: a port that is in use belongs to a *)
(* registered alias or to a task that will register it or give it back,    *)
(* and so on for the hosts, and for the aliases of clients that leave.     *)
(***************************************************************************)
EXTENDS SignalingServer, AddressesProofs

\* The steps of the handlers by what their messages carry.
KnockPlaces   == {"knock", "acknowledge", "greet"}
AliasPlaces   == {"bind", "claim", "register", "accepting", "shutdown", "freePort",
                  "freeHost", "retract", "expireHost", "expirePort"}
CreatedPlaces == {"lookup", "undo", "refuse", "introduce", "accept", "confirm"}
ConnectPlaces == {"connect"} \cup CreatedPlaces
LeavePlaces   == {"close", "expire"}

\* What the local variables of a task are at the step it is at.
TaskOK(t) ==
  /\ t \in Tasks
  /\ t.at \in KnockPlaces => t.data.subnet \in Subnets
  /\ t.at = "acknowledge" => t.addr \in Answers
  /\ t.at = "greet" => t.addr \in IPAddresses
  /\ t.at \in AliasPlaces => t.data.id \in Answers /\ t.data.alias \in TCPAddresses
  /\ t.at \in ConnectPlaces => t.data.id \in Answers /\ t.data.remoteAlias \in TCPAddresses
  /\ t.at \in CreatedPlaces => t.addr \in TCPAddresses
  /\ t.at \in LeavePlaces => t.data.id \in IPAddresses

TasksTyped == \A t \in tasks : TaskOK(t)

DataTyped ==
  /\ open \subseteq Sockets
  /\ refused \subseteq Sockets
  /\ goodbyes \in [Sockets -> SUBSET IPAddresses]
  /\ DOMAIN clients \subseteq IPAddresses /\ clients \in [DOMAIN clients -> Sockets]
  /\ DOMAIN aliases \subseteq TCPAddresses /\ aliases \in [DOMAIN aliases -> MAliases]
  /\ subnets \subseteq Subnets
  /\ members \subseteq IPAddresses /\ IsFiniteSet(members)
  /\ ports \subseteq TCPAddresses /\ IsFiniteSet(ports)

\* Whose requests can be under way: a client keeps its socket for the turn.
Present(id) == id = NoAddress \/ \E s \in open : id \in goodbyes[s]

AskersPresent ==
  \A t \in tasks :
    /\ t.at \in KnockPlaces => t.sock \in open
    /\ t.at \in {"bind", "claim", "register", "connect", "lookup"} => Present(t.data.id)

Departing(id) == \E t \in tasks : t.at \in LeavePlaces /\ t.data.id = id

OwnersKnown ==
  \A alias \in DOMAIN aliases :
    Present(aliases[alias].id) \/ Departing(aliases[alias].id)

\* A task that will register a port or give it back, and one that will do the
\* same with the host.
HoldsPort(t, p) ==
  \/ t.at \in {"register", "freePort", "expireHost", "expirePort"} /\ t.data.alias = p
  \/ t.at \in {"lookup", "undo"} /\ t.addr = p

HoldsHost(t, ip) ==
  \/ t.at \in {"acknowledge", "greet"} /\ t.addr = ip
  \/ t.at = "close" /\ t.data.id = ip
  \/ /\ t.at \in {"register", "freePort", "freeHost", "expireHost"}
     /\ parseIPAddress(t.data.alias) = ip

PortsAccounted ==
  \A p \in ports : p \in DOMAIN aliases \/ \E t \in tasks : HoldsPort(t, p)

HostsAccounted ==
  \A ip \in members :
    \/ \E s \in open : ip \in goodbyes[s]
    \/ \E alias \in DOMAIN aliases : parseIPAddress(alias) = ip
    \/ \E t \in tasks : HoldsHost(t, ip)

PortsHosted == \A p \in ports : parseIPAddress(p) \in members

IInv ==
  /\ TasksTyped /\ DataTyped
  /\ ClientsConnected /\ AskersPresent /\ OwnersKnown
  /\ PortsAccounted /\ HostsAccounted /\ PortsHosted

----
(***************************************************************************)
(* Lemmas about the operators of the model                                 *)
(***************************************************************************)
\* A task that goes on keeps its message and its variables.
LEMMA TaskMoves ==
  ASSUME NEW t \in Tasks, NEW place \in Places
  PROVE  LET u == [t EXCEPT !.at = place] IN
         /\ u \in Tasks /\ u.at = place /\ u.sock = t.sock
         /\ u.data = t.data /\ u.addr = t.addr
  BY DEF Tasks

\* A handler starts with its message and nothing else.
LEMMA TaskBegins ==
  ASSUME NEW copy \in 0 .. MaxBatch, NEW s \in Sockets, NEW place \in Places,
         NEW data \in Data
  PROVE  LET u == Begin(copy, s, place, data) IN
         u \in Tasks /\ u.at = place /\ u.sock = s /\ u.data = data
  BY DEF Begin, Tasks, Answers

\* The host of an alias is an IP address.
LEMMA HostOfAlias ==
  ASSUME NEW alias \in TCPAddresses
  PROVE  parseIPAddress(alias) \in IPAddresses /\ alias.subnet \in Subnets
  BY DEF parseIPAddress, TCPAddresses, IPAddresses

----
(***************************************************************************)
(* The types                                                               *)
(***************************************************************************)
\* A task that ends leaves the others as they are.
LEMMA EndTyped ==
  ASSUME TasksTyped, NEW t, End(t)
  PROVE  TasksTyped'
  BY DEF TasksTyped, End

\* So does one that becomes another well-formed task.
LEMMA MoveTyped ==
  ASSUME TasksTyped, NEW t, NEW u, TaskOK(u), tasks' = (tasks \ {t}) \cup {u}
  PROVE  TasksTyped'
  BY DEF TasksTyped

\* Going on is well typed when the next step needs no more than this one has.
LEMMA GotoTyped ==
  ASSUME TasksTyped, NEW t \in tasks, NEW place \in Places, Goto(t, place),
         \/ place \in {"claim", "register", "freePort", "freeHost", "retract",
                       "expireHost", "expirePort"} /\ t.at \in AliasPlaces
         \/ place \in {"refuse", "confirm"} /\ t.at \in CreatedPlaces
         \/ place = "expire" /\ t.at \in LeavePlaces
         \/ place = "greet" /\ t.at = "acknowledge" /\ t.addr # NoAddress
  PROVE  TasksTyped'
<1> DEFINE u == [t EXCEPT !.at = place]
<1>1. TaskOK(t) /\ t \in Tasks
  BY DEF TasksTyped, TaskOK
<1>2. u \in Tasks /\ u.at = place /\ u.data = t.data /\ u.addr = t.addr
  BY <1>1, TaskMoves
<1> HIDE DEF u
<1>3. TaskOK(u)
  BY <1>1, <1>2
  DEF TaskOK, KnockPlaces, AliasPlaces, CreatedPlaces, ConnectPlaces, LeavePlaces, Answers
<1>4. tasks' = (tasks \ {t}) \cup {u}
  BY DEF Goto, u
<1> QED
  BY <1>3, <1>4, MoveTyped

\* A message that is well formed, and signed as a client of the socket may sign it.
Signed(s, m) ==
  /\ m \in Data /\ m.op \in Places
  /\ m.op \in {"knock", "bind", "accepting", "shutdown", "connect", "offer",
               "answer", "candidate"}
  /\ m.op = "knock" => m.subnet \in Subnets
  /\ m.op \in {"bind", "accepting", "shutdown"} => m.id \in Answers /\ m.alias \in TCPAddresses
  /\ m.op = "connect" => m.id \in Answers /\ m.remoteAlias \in TCPAddresses
  /\ m.op \in {"bind", "connect"} => m.id \in IdsOf(s)

\* So are those that clients send.
LEMMA MessagesSigned ==
  ASSUME DataTyped, NEW s \in open, NEW m \in MessagesFrom(s) \cup RelayedFrom(s)
  PROVE  Signed(s, m)
<1>1. s \in Sockets /\ goodbyes[s] \subseteq IPAddresses
  BY DEF DataTyped
<1>2. IdsOf(s) \subseteq Answers
  BY <1>1 DEF IdsOf, Answers
<1>3. BindAliases \cup DOMAIN aliases \subseteq TCPAddresses
  BY ServerAssumption DEF DataTyped
<1>4. members \subseteq Answers
  BY DEF DataTyped, Answers
<1>5. \/ m \in Knocks
      \/ m \in [op : {"bind"}, id : Answers, alias : TCPAddresses]
      \/ m \in [op : {"accepting"}, id : Answers, alias : TCPAddresses]
      \/ m \in [op : {"shutdown"}, id : Answers, alias : TCPAddresses]
      \/ m \in Connects
      \/ m \in [op : {"offer", "candidate"}, offererId : Answers, answererId : Answers]
      \/ m \in [op : {"answer", "candidate"}, offererId : Answers, answererId : Answers]
  BY <1>2, <1>3, <1>4 DEF MessagesFrom, RelayedFrom, Connects
<1>6. m.op \in Places /\ m \in Data
  BY <1>5 DEF Places, Data, Knocks, Requests, Connects, Relayed
<1>7. /\ m.op \in {"knock", "bind", "accepting", "shutdown", "connect", "offer",
                   "answer", "candidate"}
      /\ m.op = "knock" => m.subnet \in Subnets
      /\ m.op \in {"bind", "accepting", "shutdown"} => m.id \in Answers /\ m.alias \in TCPAddresses
      /\ m.op = "connect" => m.id \in Answers /\ m.remoteAlias \in TCPAddresses
  BY <1>5 DEF Knocks, Connects
<1>8. m.op \in {"bind", "connect"} => m.id \in IdsOf(s)
  BY DEF MessagesFrom, RelayedFrom, Knocks
<1> QED
  BY <1>6, <1>7, <1>8 DEF Signed

\* The message a handler starts with is what its first step takes it for.
LEMMA BatchTyped ==
  ASSUME NEW s \in Sockets, NEW m, Signed(s, m), NEW copy \in 0 .. MaxBatch
  PROVE  TaskOK(Begin(copy, s, m.op, m))
<1> DEFINE u == Begin(copy, s, m.op, m)
<1>1. u \in Tasks /\ u.at = m.op /\ u.data = m
  BY TaskBegins DEF Signed
<1> HIDE DEF u
<1>2. TaskOK(u)
  BY <1>1
  DEF Signed, TaskOK, KnockPlaces, AliasPlaces, CreatedPlaces, ConnectPlaces, LeavePlaces
<1> QED
  BY <1>2 DEF u

\* createIPAddress and createTCPAddress hand out well-formed addresses.
LEMMA FreeSuffix ==
  ASSUME DataTyped, NEW subnet \in Subnets
  PROVE  toIPAddress(subnet, FirstGap(Suffixes(members, subnet))) \in IPAddresses
<1>1. FirstGap(Suffixes(members, subnet)) \in Nat
  BY NumbersInUse, FirstGapIsLeastFree DEF DataTyped
<1> QED
  BY <1>1 DEF toIPAddress, IPAddresses

LEMMA FreePort ==
  ASSUME DataTyped, NEW ip \in members
  PROVE  LET tcp == toTCPAddress(ip, FirstGap(PortsOf(ports, ip)))
         IN  tcp \in TCPAddresses /\ parseIPAddress(tcp) = ip
<1>1. FirstGap(PortsOf(ports, ip)) \in Nat
  BY NumbersInUse, FirstGapIsLeastFree DEF DataTyped
<1>2. ip \in IPAddresses
  BY DEF DataTyped
<1> QED
  BY <1>1, <1>2 DEF toTCPAddress, parseIPAddress, TCPAddresses, IPAddresses

\* Every step of a handler leaves well-formed tasks.
LEMMA RunTasksTyped ==
  ASSUME TasksTyped, DataTyped, NEW t \in tasks, Run(t)
  PROVE  TasksTyped'
<1>0. TaskOK(t) /\ t \in Tasks
  BY DEF TasksTyped, TaskOK
<1>1. CASE createIPAddress(t)
  <2> DEFINE id == toIPAddress(t.data.subnet, FirstGap(Suffixes(members, t.data.subnet)))
             a == IF FirstGap(Suffixes(members, t.data.subnet)) > MaxSuffix
                    THEN NoAddress ELSE id
             u == [t EXCEPT !.at = "acknowledge", !.addr = a]
  <2>1. a \in Answers
    BY <1>0, <1>1, FreeSuffix DEF createIPAddress, At, TaskOK, KnockPlaces, Answers
  <2>2. tasks' = (tasks \ {t}) \cup {u}
    BY <1>1 DEF createIPAddress
  <2> HIDE DEF a
  <2>3. u \in Tasks /\ u.at = "acknowledge" /\ u.data = t.data /\ u.addr = a
    BY <1>0, <2>1 DEF Tasks, Places
  <2> HIDE DEF u
  <2>4. TaskOK(u)
    BY <1>0, <1>1, <2>1, <2>3
    DEF createIPAddress, At, TaskOK, KnockPlaces, AliasPlaces, CreatedPlaces,
        ConnectPlaces, LeavePlaces
  <2> QED
    BY <2>2, <2>4, MoveTyped
<1>2. CASE \/ greet(t) \/ register(t) \/ handleAccepting(t) \/ retract(t) \/ refuse(t)
           \/ confirm(t) \/ relay(t)
  BY <1>2, EndTyped
  DEF greet, register, handleAccepting, retract, refuse, confirm, relay, Throw
<1>3. CASE acknowledge(t)
  BY <1>3, EndTyped, GotoTyped DEF acknowledge, At, Places
<1>4. CASE bind(t)
  BY <1>4, EndTyped, GotoTyped DEF bind, At, Throw, Places, AliasPlaces
<1>5. CASE claimTCPAddress(t)
  BY <1>5, EndTyped, GotoTyped DEF claimTCPAddress, At, Throw, Places, AliasPlaces
<1>6. CASE shutdown(t)
  BY <1>6, EndTyped, GotoTyped DEF shutdown, At, Throw, Places, AliasPlaces
<1>7. CASE removeTCPAddress(t) \/ removeIPAddress(t) \/ expireHost(t) \/ expirePort(t)
  BY <1>7, GotoTyped
  DEF removeTCPAddress, removeIPAddress, expireHost, expirePort, At, Places, AliasPlaces
<1>8. CASE createTCPAddress(t)
  <2> DEFINE ip == parseIPAddress(t.data.id)
             tcp == toTCPAddress(ip, FirstGap(PortsOf(ports, ip)))
             u == [t EXCEPT !.at = "lookup", !.addr = tcp]
  <2>1. CASE ip \in members /\ tasks' = (tasks \ {t}) \cup {u}
    <3>1. tcp \in TCPAddresses
      BY <2>1, FreePort
    <3> HIDE DEF tcp
    <3>2. u \in Tasks /\ u.at = "lookup" /\ u.data = t.data /\ u.addr = tcp
      BY <1>0, <3>1 DEF Tasks, Places
    <3> HIDE DEF u
    <3>3. TaskOK(u)
      BY <1>0, <1>8, <3>1, <3>2
      DEF createTCPAddress, At, TaskOK, KnockPlaces, AliasPlaces, CreatedPlaces,
          ConnectPlaces, LeavePlaces
    <3> QED
      BY <2>1, <3>3, MoveTyped
  <2> QED
    BY <1>8, <2>1, EndTyped DEF createTCPAddress, Throw
<1>9. CASE lookup(t)
  <2> DEFINE u(place) == [t EXCEPT !.at = place, !.client = Get(t.data.id)]
  <2>1. Get(t.data.id) \in Sockets \cup {NoSocket}
    BY DEF Get, DataTyped
  <2>2. ASSUME NEW place \in {"undo", "introduce"} PROVE TaskOK(u(place))
    <3>1. /\ u(place) \in Tasks /\ u(place).at = place /\ u(place).data = t.data
          /\ u(place).addr = t.addr
      BY <1>0, <2>1, <2>2 DEF Tasks, Places
    <3> HIDE DEF u
    <3> QED
      BY <1>0, <1>9, <2>2, <3>1
      DEF lookup, At, TaskOK, KnockPlaces, AliasPlaces, CreatedPlaces, ConnectPlaces,
          LeavePlaces
  <2> QED
    BY <1>9, <2>2, MoveTyped, EndTyped DEF lookup, Throw
<1>10. CASE undo(t) \/ accept(t)
  BY <1>10, GotoTyped DEF undo, accept, At, Places, CreatedPlaces
<1>11. CASE introduce(t)
  <2> DEFINE remote == t.data.remoteAlias
             owner == IF remote \in DOMAIN aliases THEN aliases[remote].id ELSE NoAddress
             u == [t EXCEPT !.at = "accept", !.server = Get(owner), !.owner = owner]
  <2>1. owner \in Answers /\ Get(owner) \in Sockets \cup {NoSocket}
    BY DEF Get, DataTyped, MAliases, Answers
  <2>2. CASE tasks' = (tasks \ {t}) \cup {u}
    <3> HIDE DEF owner
    <3>1. u \in Tasks /\ u.at = "accept" /\ u.data = t.data /\ u.addr = t.addr
      BY <1>0, <2>1 DEF Tasks, Places
    <3> HIDE DEF u
    <3>2. TaskOK(u)
      BY <1>0, <1>11, <3>1
      DEF introduce, At, TaskOK, KnockPlaces, AliasPlaces, CreatedPlaces, ConnectPlaces,
          LeavePlaces
    <3> QED
      BY <2>2, <3>2, MoveTyped
  <2> QED
    BY <1>11, <2>2, EndTyped DEF introduce, Throw
<1>12. CASE leave(t)
  BY <1>12, GotoTyped DEF leave, At, Places, LeavePlaces
<1>13. CASE expire(t)
  <2> DEFINE gone == {alias \in DOMAIN aliases : aliases[alias].id = t.data.id}
             data(alias) == [op |-> "expire", id |-> t.data.id, alias |-> alias]
             u(alias) == Begin(0, t.sock, "expireHost", data(alias))
  <2>1. t.data.id \in Answers /\ t.sock \in Sockets
    BY <1>0, <1>13 DEF expire, At, TaskOK, LeavePlaces, Answers, Tasks
  <2>2. ASSUME NEW alias \in gone PROVE TaskOK(u(alias))
    <3>1. alias \in TCPAddresses
      BY <2>2 DEF DataTyped
    <3>2. data(alias) \in Data
      BY <2>1, <3>1 DEF Data, Expiries
    <3>3. data(alias).id = t.data.id /\ data(alias).alias = alias
      OBVIOUS
    <3> HIDE DEF data
    <3>4. /\ u(alias) \in Tasks /\ u(alias).at = "expireHost"
          /\ u(alias).data = data(alias)
      BY <2>1, <3>2, ServerAssumption, TaskBegins DEF Places
    <3> HIDE DEF u
    <3> QED
      BY <2>1, <3>1, <3>3, <3>4
      DEF TaskOK, KnockPlaces, AliasPlaces, CreatedPlaces, ConnectPlaces, LeavePlaces
  <2>3. tasks' = (tasks \ {t}) \cup {u(alias) : alias \in gone}
    BY <1>13 DEF expire
  <2> QED
    BY <2>2, <2>3 DEF TasksTyped
<1> QED
  BY <1>1, <1>2, <1>3, <1>4, <1>5, <1>6, <1>7, <1>8, <1>9, <1>10, <1>11, <1>12, <1>13
  DEF Run, handleKnock, handleBind, handleShutdown, handleConnect, goodbye

\* The steps that only send: the maps and the addresses stay as they are.
SendsOnly(t) ==
  \/ bind(t) \/ retract(t) \/ refuse(t) \/ introduce(t) \/ accept(t) \/ confirm(t)
  \/ relay(t)

LEMMA SendsOnlyChangesNothing ==
  ASSUME NEW t, SendsOnly(t)
  PROVE  UNCHANGED <<open, refused, goodbyes, clients, aliases, subnets, members, ports>>
  BY DEF SendsOnly, bind, retract, refuse, introduce, accept, confirm, relay, connected,
         addresses

\* Freeing a host or a port removes members and ports, and nothing else.
LEMMA FreeingRemoves ==
  ASSUME DataTyped, NEW t,
         removeTCPAddress(t) \/ removeIPAddress(t) \/ undo(t) \/ leave(t)
           \/ expireHost(t) \/ expirePort(t)
  PROVE  /\ members' \subseteq members /\ ports' \subseteq ports
         /\ UNCHANGED <<open, refused, goodbyes, clients, aliases, subnets>>
         /\ IsFiniteSet(members') /\ IsFiniteSet(ports')
<1>1. /\ members' \subseteq members /\ ports' \subseteq ports
      /\ UNCHANGED <<open, refused, goodbyes, clients, aliases, subnets>>
  BY DEF removeTCPAddress, removeIPAddress, undo, leave, expireHost, expirePort,
         freePort, freeHost, connected
<1> QED
  BY <1>1, FS_Subset DEF DataTyped

\* Every step of a handler leaves well-formed maps.
LEMMA RunDataTyped ==
  ASSUME TasksTyped, DataTyped, NEW t \in tasks, Run(t)
  PROVE  DataTyped'
<1>0. TaskOK(t) /\ t \in Tasks
  BY DEF TasksTyped, TaskOK
<1>1. CASE createIPAddress(t)
  <2> DEFINE id == toIPAddress(t.data.subnet, FirstGap(Suffixes(members, t.data.subnet)))
  <2>1. t.data.subnet \in Subnets /\ id \in IPAddresses
    BY <1>0, <1>1, FreeSuffix DEF createIPAddress, At, TaskOK, KnockPlaces
  <2>2. /\ subnets' = subnets \cup {t.data.subnet}
        /\ members' = members \/ members' = members \cup {id}
        /\ UNCHANGED <<open, refused, goodbyes, clients, aliases, ports>>
    BY <1>1 DEF createIPAddress, connected
  <2> HIDE DEF id
  <2>3. IsFiniteSet(members')
    BY <2>2, FS_AddElement DEF DataTyped
  <2> QED
    BY <2>1, <2>2, <2>3 DEF DataTyped
<1>2. CASE SendsOnly(t)
  BY <1>2, SendsOnlyChangesNothing DEF DataTyped
<1>3. CASE acknowledge(t)
  <2>1. /\ refused' = refused \/ refused' = refused \cup {t.sock}
        /\ UNCHANGED <<open, goodbyes, clients, aliases, subnets, members, ports>>
    BY <1>3 DEF acknowledge, addresses
  <2>2. t.sock \in Sockets
    BY <1>0 DEF Tasks
  <2> QED
    BY <2>1, <2>2 DEF DataTyped
<1>4. CASE greet(t)
  <2>1. t.addr \in IPAddresses /\ t.sock \in Sockets
    BY <1>0, <1>4 DEF greet, At, TaskOK, Tasks
  <2>2. /\ clients' = Put(clients, t.addr, t.sock)
        /\ goodbyes' = [goodbyes EXCEPT ![t.sock] = @ \cup {t.addr}]
        /\ UNCHANGED <<open, refused, aliases, subnets, members, ports>>
    BY <1>4 DEF greet, addresses
  <2>3. DOMAIN clients' \subseteq IPAddresses /\ clients' \in [DOMAIN clients' -> Sockets]
    BY <2>1, <2>2 DEF DataTyped, Put
  <2> QED
    BY <2>1, <2>2, <2>3 DEF DataTyped
<1>5. CASE claimTCPAddress(t)
  <2> DEFINE alias == t.data.alias
  <2>1. alias \in TCPAddresses /\ parseIPAddress(alias) \in IPAddresses
    BY <1>0, <1>5, HostOfAlias DEF claimTCPAddress, At, TaskOK, AliasPlaces
  <2>2. /\ members' = members \/ members' = members \cup {parseIPAddress(alias)}
        /\ ports' = ports \/ ports' = ports \cup {alias}
        /\ UNCHANGED <<open, refused, goodbyes, clients, aliases, subnets>>
    BY <1>5 DEF claimTCPAddress, connected
  <2>3. IsFiniteSet(members \cup {parseIPAddress(alias)}) /\ IsFiniteSet(ports \cup {alias})
    BY FS_AddElement DEF DataTyped
  <2> QED
    BY <2>1, <2>2, <2>3 DEF DataTyped
<1>6. CASE register(t)
  <2>1. t.data.alias \in TCPAddresses /\ [id |-> t.data.id, accepting |-> FALSE] \in MAliases
    BY <1>0, <1>6 DEF register, At, TaskOK, AliasPlaces, MAliases
  <2>2. /\ aliases' = Put(aliases, t.data.alias, [id |-> t.data.id, accepting |-> FALSE])
        /\ UNCHANGED <<open, refused, goodbyes, clients, subnets, members, ports>>
    BY <1>6 DEF register, connected, addresses
  <2>3. DOMAIN aliases' \subseteq TCPAddresses /\ aliases' \in [DOMAIN aliases' -> MAliases]
    BY <2>1, <2>2 DEF DataTyped, Put
  <2> QED
    BY <2>2, <2>3 DEF DataTyped
<1>7. CASE handleAccepting(t)
  <2>1. /\ \/ aliases' = aliases
           \/ /\ t.data.alias \in DOMAIN aliases
              /\ aliases' = [aliases EXCEPT ![t.data.alias].accepting = TRUE]
        /\ UNCHANGED <<open, refused, goodbyes, clients, subnets, members, ports>>
    BY <1>7 DEF handleAccepting, owns, connected, addresses
  <2>2. DOMAIN aliases' = DOMAIN aliases /\ aliases' \in [DOMAIN aliases -> MAliases]
    BY <2>1 DEF DataTyped, MAliases
  <2> QED
    BY <2>1, <2>2 DEF DataTyped
<1>8. CASE shutdown(t)
  <2>1. /\ aliases' = aliases \/ aliases' = Without(aliases, {t.data.alias})
        /\ UNCHANGED <<open, refused, goodbyes, clients, subnets, members, ports>>
    BY <1>8 DEF shutdown, connected, addresses
  <2>2. DOMAIN aliases' \subseteq TCPAddresses /\ aliases' \in [DOMAIN aliases' -> MAliases]
    BY <2>1 DEF DataTyped, Without, Restrict
  <2> QED
    BY <2>1, <2>2 DEF DataTyped
<1>9. CASE \/ removeTCPAddress(t) \/ removeIPAddress(t) \/ undo(t) \/ leave(t)
           \/ expireHost(t) \/ expirePort(t)
  BY <1>9, FreeingRemoves DEF DataTyped
<1>10. CASE createTCPAddress(t)
  <2> DEFINE ip == parseIPAddress(t.data.id)
             tcp == toTCPAddress(ip, FirstGap(PortsOf(ports, ip)))
  <2>1. /\ \/ ports' = ports
           \/ ip \in members /\ ports' = ports \cup {tcp}
        /\ UNCHANGED <<open, refused, goodbyes, clients, aliases, subnets, members>>
    BY <1>10 DEF createTCPAddress, connected
  <2>2. ip \in members => tcp \in TCPAddresses
    BY FreePort
  <2> HIDE DEF ip, tcp
  <2>3. IsFiniteSet(ports')
    BY <2>1, FS_AddElement DEF DataTyped
  <2> QED
    BY <2>1, <2>2, <2>3 DEF DataTyped
<1>11. CASE lookup(t)
  <2>1. t.addr \in TCPAddresses /\ [id |-> t.data.id, accepting |-> FALSE] \in MAliases
    BY <1>0, <1>11 DEF lookup, At, TaskOK, ConnectPlaces, CreatedPlaces, MAliases
  <2>2. /\ \/ aliases' = aliases
           \/ aliases' = Put(aliases, t.addr, [id |-> t.data.id, accepting |-> FALSE])
        /\ UNCHANGED <<open, refused, goodbyes, clients, subnets, members, ports>>
    BY <1>11 DEF lookup, connected, addresses
  <2>3. DOMAIN aliases' \subseteq TCPAddresses /\ aliases' \in [DOMAIN aliases' -> MAliases]
    BY <2>1, <2>2 DEF DataTyped, Put
  <2> QED
    BY <2>2, <2>3 DEF DataTyped
<1>12. CASE expire(t)
  <2>1. /\ \E gone : aliases' = Without(aliases, gone)
        /\ UNCHANGED <<open, refused, goodbyes, clients, subnets, members, ports>>
    BY <1>12 DEF expire, connected, addresses
  <2>2. DOMAIN aliases' \subseteq TCPAddresses /\ aliases' \in [DOMAIN aliases' -> MAliases]
    BY <2>1 DEF DataTyped, Without, Restrict
  <2> QED
    BY <2>1, <2>2 DEF DataTyped
<1> QED
  BY <1>1, <1>2, <1>3, <1>4, <1>5, <1>6, <1>7, <1>8, <1>9, <1>10, <1>11, <1>12
  DEF Run, handleKnock, handleBind, handleShutdown, handleConnect, goodbye, SendsOnly

----
(***************************************************************************)
(* Who is connected, and whose aliases there are                           *)
(***************************************************************************)
\* What a task becomes: the same handler at a later step, for the same client.
Follows(t, u) ==
  /\ u.at # t.at /\ u.sock = t.sock
  /\ u.at \in KnockPlaces => t.at \in KnockPlaces
  /\ u.at \in LeavePlaces => t.at \in LeavePlaces
  /\ u.at \notin KnockPlaces => u.data.id = t.data.id
  /\ u.at \notin {"bind", "connect"}
  /\ u.at = "claim" => t.at = "bind"
  /\ u.at = "register" => t.at = "claim"
  /\ u.at = "lookup" => t.at = "connect"

\* A step of a task removes it, and adds only what it becomes.
LEMMA Successors ==
  ASSUME TasksTyped, NEW t \in tasks, Run(t)
  PROVE  /\ tasks \ {t} \subseteq tasks'
         /\ \A u \in tasks' \ (tasks \ {t}) : Follows(t, u)
<1>0. t \in Tasks
  BY DEF TasksTyped, TaskOK
<1> USE DEF At
<1>1. CASE createIPAddress(t)
  BY <1>0, <1>1 DEF createIPAddress, Follows, Tasks, KnockPlaces, LeavePlaces
<1>2. CASE \/ greet(t) \/ register(t) \/ handleAccepting(t) \/ retract(t) \/ refuse(t)
           \/ confirm(t) \/ relay(t)
  BY <1>2
  DEF greet, register, handleAccepting, retract, refuse, confirm, relay, Throw, End
<1>3. CASE acknowledge(t)
  BY <1>0, <1>3 DEF acknowledge, End, Goto, Follows, Tasks, KnockPlaces, LeavePlaces
<1>4. CASE bind(t)
  BY <1>0, <1>4 DEF bind, Throw, End, Goto, Follows, Tasks, KnockPlaces, LeavePlaces
<1>5. CASE claimTCPAddress(t)
  BY <1>0, <1>5
  DEF claimTCPAddress, Throw, End, Goto, Follows, Tasks, KnockPlaces, LeavePlaces
<1>6. CASE shutdown(t)
  BY <1>0, <1>6 DEF shutdown, Throw, End, Goto, Follows, Tasks, KnockPlaces, LeavePlaces
<1>7. CASE \/ removeTCPAddress(t) \/ removeIPAddress(t) \/ undo(t) \/ accept(t)
           \/ leave(t) \/ expireHost(t) \/ expirePort(t)
  BY <1>0, <1>7
  DEF removeTCPAddress, removeIPAddress, undo, accept, leave, expireHost, expirePort,
      Goto, Follows, Tasks, KnockPlaces, LeavePlaces
<1>8. CASE createTCPAddress(t)
  BY <1>0, <1>8
  DEF createTCPAddress, Throw, End, Follows, Tasks, KnockPlaces, LeavePlaces
<1>9. CASE lookup(t)
  BY <1>0, <1>9 DEF lookup, Throw, End, Follows, Tasks, KnockPlaces, LeavePlaces
<1>10. CASE introduce(t)
  BY <1>0, <1>10 DEF introduce, Throw, End, Follows, Tasks, KnockPlaces, LeavePlaces
<1>11. CASE expire(t)
  BY <1>0, <1>11 DEF expire, Begin, Follows, KnockPlaces, LeavePlaces
<1> QED
  BY <1>1, <1>2, <1>3, <1>4, <1>5, <1>6, <1>7, <1>8, <1>9, <1>10, <1>11
  DEF Run, handleKnock, handleBind, handleShutdown, handleConnect, goodbye

\* Within a turn sockets stay, and clients only gain ids.
LEMMA RunKeepsPresent ==
  ASSUME TasksTyped, DataTyped, NEW t \in tasks, Run(t)
  PROVE  /\ open' = open
         /\ \A s \in open : goodbyes[s] \subseteq goodbyes'[s]
         /\ \A id : Present(id) => Present(id)'
<1>1. open' = open
  BY DEF Run, handleKnock, handleBind, handleShutdown, handleConnect, goodbye, connected,
     createIPAddress, acknowledge, greet, bind, claimTCPAddress, register, handleAccepting,
     shutdown, removeTCPAddress, removeIPAddress, retract, createTCPAddress, lookup, undo,
     refuse, introduce, accept, confirm, relay, leave, expire, expireHost, expirePort
<1>2. \/ goodbyes' = goodbyes
      \/ goodbyes' = [goodbyes EXCEPT ![t.sock] = @ \cup {t.addr}]
  BY DEF Run, handleKnock, handleBind, handleShutdown, handleConnect, goodbye, connected,
     createIPAddress, acknowledge, greet, bind, claimTCPAddress, register, handleAccepting,
     shutdown, removeTCPAddress, removeIPAddress, retract, createTCPAddress, lookup, undo,
     refuse, introduce, accept, confirm, relay, leave, expire, expireHost, expirePort
<1>3. \A s \in open : goodbyes[s] \subseteq goodbyes'[s]
  BY <1>2 DEF DataTyped
<1> QED
  BY <1>1, <1>3 DEF Present

\* Whoever is served is still there: sockets close between turns.
LEMMA RunAskersPresent ==
  ASSUME TasksTyped, DataTyped, AskersPresent, NEW t \in tasks, Run(t)
  PROVE  AskersPresent'
<1>1. /\ tasks \ {t} \subseteq tasks'
      /\ \A u \in tasks' \ (tasks \ {t}) : Follows(t, u)
  BY Successors
<1>2. open' = open /\ \A id : Present(id) => Present(id)'
  BY RunKeepsPresent
<1>3. ASSUME NEW u \in tasks \ {t}
      PROVE  /\ u.at \in KnockPlaces => u.sock \in open'
             /\ u.at \in {"bind", "claim", "register", "connect", "lookup"} => Present(u.data.id)'
  BY <1>2 DEF AskersPresent
<1>4. ASSUME NEW u \in tasks' \ (tasks \ {t})
      PROVE  /\ u.at \in KnockPlaces => u.sock \in open'
             /\ u.at \in {"bind", "claim", "register", "connect", "lookup"} => Present(u.data.id)'
  BY <1>1, <1>2 DEF AskersPresent, Follows, KnockPlaces
<1> QED
  BY <1>3, <1>4 DEF AskersPresent

\* The only handler that registers a client is that of its knock, and it
\* registers the close listener in the same step.
LEMMA RunClientsConnected ==
  ASSUME TasksTyped, DataTyped, AskersPresent, ClientsConnected, NEW t \in tasks, Run(t)
  PROVE  ClientsConnected'
<1>1. CASE greet(t)
  <2>1. t.sock \in open /\ t.sock \in Sockets
    BY <1>1 DEF greet, At, AskersPresent, KnockPlaces, DataTyped
  <2>2. /\ clients' = Put(clients, t.addr, t.sock)
        /\ goodbyes' = [goodbyes EXCEPT ![t.sock] = @ \cup {t.addr}]
        /\ open' = open
    BY <1>1 DEF greet
  <2>3. ASSUME NEW id \in DOMAIN clients'
        PROVE  clients'[id] \in open' /\ id \in goodbyes'[clients'[id]]
    <3>1. CASE id = t.addr
      BY <2>1, <2>2, <3>1 DEF Put, DataTyped
    <3>2. CASE id # t.addr
      <4>1. id \in DOMAIN clients /\ clients'[id] = clients[id]
        BY <2>2, <2>3, <3>2 DEF Put
      <4> QED
        BY <2>1, <2>2, <4>1 DEF ClientsConnected, DataTyped
    <3> QED
      BY <3>1, <3>2
  <2> QED
    BY <2>3 DEF ClientsConnected
<1>2. CASE ~ greet(t)
  <2>1. clients' = clients /\ goodbyes' = goodbyes /\ open' = open
    BY <1>2 DEF Run, handleKnock, handleBind, handleShutdown, handleConnect, goodbye,
       connected, createIPAddress, acknowledge, bind, claimTCPAddress, register,
       handleAccepting, shutdown, removeTCPAddress, removeIPAddress, retract,
       createTCPAddress, lookup, undo, refuse, introduce, accept, confirm, relay, leave,
       expire, expireHost, expirePort
  <2> QED
    BY <2>1 DEF ClientsConnected
<1> QED
  BY <1>1, <1>2

\* The handlers that change the map of aliases, and those that do not.
ChangesAliases(t) ==
  register(t) \/ handleAccepting(t) \/ shutdown(t) \/ lookup(t) \/ expire(t)

LEMMA AliasesUnchanged ==
  ASSUME NEW t, Run(t), ~ ChangesAliases(t)
  PROVE  aliases' = aliases
  BY DEF ChangesAliases, Run, handleKnock, handleBind, handleShutdown, handleConnect,
     goodbye, createIPAddress, acknowledge, greet, bind, claimTCPAddress,
     removeTCPAddress, removeIPAddress, retract, createTCPAddress, undo, refuse, introduce,
     accept, confirm, relay, leave, expireHost, expirePort

\* What an alias that was there keeps, and what an alias that is new has.
LEMMA AliasOwners ==
  ASSUME DataTyped, NEW t, ChangesAliases(t)
  PROVE  \A alias \in DOMAIN aliases' :
           \/ alias \in DOMAIN aliases /\ aliases'[alias].id = aliases[alias].id
           \/ t.at \in {"register", "lookup"} /\ aliases'[alias].id = t.data.id
<1>1. CASE register(t)
  BY <1>1 DEF register, At, Put
<1>2. CASE handleAccepting(t)
  <2>1. \/ aliases' = aliases
        \/ /\ t.data.alias \in DOMAIN aliases
           /\ aliases' = [aliases EXCEPT ![t.data.alias].accepting = TRUE]
    BY <1>2 DEF handleAccepting, owns
  <2> QED
    BY <2>1 DEF DataTyped, MAliases
<1>3. CASE shutdown(t)
  BY <1>3 DEF shutdown, Without, Restrict
<1>4. CASE lookup(t)
  BY <1>4 DEF lookup, At, Put
<1>5. CASE expire(t)
  BY <1>5 DEF expire, Without, Restrict
<1> QED
  BY <1>1, <1>2, <1>3, <1>4, <1>5 DEF ChangesAliases

\* An alias belongs to a client that is there, or that is leaving and whose
\* aliases will be removed.
LEMMA RunOwnersKnown ==
  ASSUME TasksTyped, DataTyped, AskersPresent, OwnersKnown, NEW t \in tasks, Run(t)
  PROVE  OwnersKnown'
<1>1. /\ tasks \ {t} \subseteq tasks'
      /\ \A u \in tasks' \ (tasks \ {t}) : Follows(t, u)
  BY Successors
<1>2. \A id : Present(id) => Present(id)'
  BY RunKeepsPresent
<1>3. ASSUME NEW id, Departing(id), ~ Departing(id)' PROVE expire(t) /\ t.data.id = id
  <2>1. PICK u \in tasks : u.at \in LeavePlaces /\ u.data.id = id
    BY <1>3 DEF Departing
  <2>2. u = t
    BY <1>1, <1>3, <2>1 DEF Departing
  <2>3. ~ leave(t)
    <3>1. ASSUME leave(t) PROVE FALSE
      <4>1. [t EXCEPT !.at = "expire"] \in tasks'
        BY <3>1 DEF leave, Goto
      <4>2. /\ [t EXCEPT !.at = "expire"].at = "expire"
            /\ [t EXCEPT !.at = "expire"].data = t.data
        BY TaskMoves DEF TasksTyped, TaskOK, Places
      <4> QED
        BY <1>3, <2>1, <2>2, <4>1, <4>2 DEF Departing, LeavePlaces
    <3> QED
      BY <3>1
  <2> QED
    BY <2>1, <2>2, <2>3
    DEF LeavePlaces, At, Run, handleKnock, handleBind, handleShutdown, handleConnect,
        goodbye, createIPAddress, acknowledge, greet, bind, claimTCPAddress, register,
        handleAccepting, shutdown, removeTCPAddress, removeIPAddress, retract,
        createTCPAddress, lookup, undo, refuse, introduce, accept, confirm, relay,
        expireHost, expirePort
<1>4. ASSUME NEW alias \in DOMAIN aliases', NEW id, aliases'[alias].id = id,
             alias \in DOMAIN aliases, aliases[alias].id = id
      PROVE  Present(id)' \/ Departing(id)'
  <2>1. Present(id) \/ Departing(id)
    BY <1>4 DEF OwnersKnown
  <2>2. expire(t) => id # t.data.id
    BY <1>4 DEF expire, Without, Restrict
  <2> QED
    BY <1>2, <1>3, <2>1, <2>2
<1>5. ASSUME t.at \in {"register", "lookup"}
      PROVE  Present(t.data.id)'
  BY <1>2, <1>5 DEF AskersPresent
<1>6. ASSUME NEW alias \in DOMAIN aliases', NEW id, aliases'[alias].id = id
      PROVE  Present(id)' \/ Departing(id)'
  <2>1. CASE ChangesAliases(t)
    BY <1>4, <1>5, <1>6, <2>1, AliasOwners
  <2>2. CASE ~ ChangesAliases(t)
    BY <1>4, <1>6, <2>2, AliasesUnchanged
  <2> QED
    BY <2>1, <2>2
<1> QED
  BY <1>6 DEF OwnersKnown, Present, Departing

----
(***************************************************************************)
(* The addresses in use                                                    *)
(***************************************************************************)
\* The handlers that change the addresses, and those that do not.
ChangesAddresses(t) ==
  \/ createIPAddress(t) \/ claimTCPAddress(t) \/ createTCPAddress(t) \/ undo(t)
  \/ removeTCPAddress(t) \/ removeIPAddress(t) \/ leave(t) \/ expireHost(t) \/ expirePort(t)

LEMMA AddressesUnchanged ==
  ASSUME NEW t, Run(t), ~ ChangesAddresses(t)
  PROVE  UNCHANGED <<subnets, members, ports>>
  BY DEF ChangesAddresses, Run, handleKnock, handleBind, handleShutdown, handleConnect,
     goodbye, acknowledge, greet, bind, register, handleAccepting, shutdown, retract,
     lookup, refuse, introduce, accept, confirm, relay, expire, addresses

\* A port is in the member of its host: freeing the member frees the ports.
LEMMA RunPortsHosted ==
  ASSUME TasksTyped, DataTyped, PortsHosted, NEW t \in tasks, Run(t)
  PROVE  PortsHosted'
<1>1. CASE createIPAddress(t)
  BY <1>1 DEF createIPAddress, PortsHosted
<1>2. CASE claimTCPAddress(t)
  BY <1>2 DEF claimTCPAddress, PortsHosted
<1>3. CASE createTCPAddress(t)
  <2> DEFINE ip == parseIPAddress(t.data.id)
             tcp == toTCPAddress(ip, FirstGap(PortsOf(ports, ip)))
  <2>1. CASE ip \in members /\ ports' = ports \cup {tcp}
    <3>1. parseIPAddress(tcp) = ip
      BY <2>1, FreePort
    <3> HIDE DEF tcp, ip
    <3> QED
      BY <1>3, <2>1, <3>1 DEF createTCPAddress, PortsHosted
  <2> QED
    BY <1>3, <2>1 DEF createTCPAddress, PortsHosted
<1>4. CASE removeIPAddress(t) \/ leave(t) \/ expireHost(t)
  BY <1>4 DEF removeIPAddress, leave, expireHost, freeHost, PortsHosted
<1>5. CASE removeTCPAddress(t) \/ undo(t) \/ expirePort(t)
  BY <1>5 DEF removeTCPAddress, undo, expirePort, freePort, PortsHosted
<1>6. CASE ~ ChangesAddresses(t)
  BY <1>6, AddressesUnchanged DEF PortsHosted
<1> QED
  BY <1>1, <1>2, <1>3, <1>4, <1>5, <1>6 DEF ChangesAddresses

\* The steps at which a task holds a port.
LEMMA PortHolders ==
  ASSUME NEW t, NEW p, HoldsPort(t, p)
  PROVE  t.at \in {"register", "freePort", "expireHost", "expirePort", "lookup", "undo"}
  BY DEF HoldsPort

\* Every port in use is an alias, or a task will register it or give it back.
LEMMA RunPortsAccounted ==
  ASSUME TasksTyped, DataTyped, PortsAccounted, NEW t \in tasks, Run(t)
  PROVE  PortsAccounted'
<1>0. t \in Tasks
  BY DEF TasksTyped, TaskOK
<1>1. tasks \ {t} \subseteq tasks'
  BY Successors
<1> DEFINE Kept(p) == p \in DOMAIN aliases' \/ \E u \in tasks' : HoldsPort(u, p)
           next(place) == [t EXCEPT !.at = place]
<1>2. ASSUME NEW p \in ports, ~ Kept(p), DOMAIN aliases \subseteq DOMAIN aliases'
      PROVE  HoldsPort(t, p)
  BY <1>1, <1>2 DEF PortsAccounted
<1>3. ASSUME NEW place \in Places
      PROVE  /\ next(place).at = place /\ next(place).data = t.data
             /\ next(place).addr = t.addr
  BY <1>0, TaskMoves
<1> HIDE DEF next
<1> SUFFICES ASSUME NEW p \in ports' PROVE Kept(p)
  BY DEF PortsAccounted
<1>4. CASE claimTCPAddress(t)
  <2>1. DOMAIN aliases \subseteq DOMAIN aliases' /\ t.at = "claim"
    BY <1>4 DEF claimTCPAddress, At
  <2>2. CASE p \in ports
    BY <1>2, <2>1, <2>2, PortHolders
  <2>3. CASE p \notin ports
    <3>1. p = t.data.alias /\ next("register") \in tasks'
      BY <1>4, <2>3 DEF claimTCPAddress, Goto, next
    <3> QED
      BY <1>3, <3>1 DEF HoldsPort, Places
  <2> QED
    BY <2>2, <2>3
<1>5. CASE createTCPAddress(t)
  <2>1. DOMAIN aliases \subseteq DOMAIN aliases' /\ t.at = "connect"
    BY <1>5 DEF createTCPAddress, At
  <2>2. CASE p \in ports
    BY <1>2, <2>1, <2>2, PortHolders
  <2>3. CASE p \notin ports
    <3>1. [t EXCEPT !.at = "lookup", !.addr = p] \in tasks'
      BY <1>5, <2>3 DEF createTCPAddress
    <3>2. /\ [t EXCEPT !.at = "lookup", !.addr = p].at = "lookup"
          /\ [t EXCEPT !.at = "lookup", !.addr = p].addr = p
      BY <1>0 DEF Tasks
    <3> QED
      BY <3>1, <3>2 DEF HoldsPort
  <2> QED
    BY <2>2, <2>3
<1>6. CASE register(t)
  <2>1. /\ DOMAIN aliases' = DOMAIN aliases \cup {t.data.alias} /\ ports' = ports
        /\ t.at = "register"
    BY <1>6 DEF register, Put, addresses, At
  <2> QED
    BY <1>2, <2>1 DEF HoldsPort
<1>7. CASE shutdown(t)
  <2>1. ports' = ports /\ t.at = "shutdown"
    BY <1>7 DEF shutdown, addresses, At
  <2>2. CASE p = t.data.alias /\ next("freePort") \in tasks'
    BY <1>3, <2>2 DEF HoldsPort, Places
  <2>3. \/ aliases' = aliases
        \/ /\ DOMAIN aliases' = DOMAIN aliases \ {t.data.alias}
           /\ next("freePort") \in tasks'
    BY <1>7 DEF shutdown, Without, Restrict, Goto, next
  <2>4. ~ HoldsPort(t, p)
    BY <2>1 DEF HoldsPort
  <2> QED
    BY <1>1, <2>1, <2>2, <2>3, <2>4 DEF PortsAccounted
<1>8. CASE removeTCPAddress(t) \/ expirePort(t)
  <2>1. /\ ports' = ports \ {t.data.alias} /\ aliases' = aliases
        /\ t.at \in {"freePort", "expirePort"}
    BY <1>8 DEF removeTCPAddress, expirePort, freePort, At
  <2> QED
    BY <1>2, <2>1 DEF HoldsPort
<1>9. CASE lookup(t)
  <2>1. ports' = ports /\ t.at = "lookup"
    BY <1>9 DEF lookup, addresses, At
  <2>2. CASE aliases' = Put(aliases, t.addr, [id |-> t.data.id, accepting |-> FALSE])
    BY <1>2, <2>1, <2>2 DEF Put, HoldsPort
  <2>3. CASE /\ aliases' = aliases
             /\ [t EXCEPT !.at = "undo", !.client = Get(t.data.id)] \in tasks'
    <3>1. /\ [t EXCEPT !.at = "undo", !.client = Get(t.data.id)].at = "undo"
          /\ [t EXCEPT !.at = "undo", !.client = Get(t.data.id)].addr = t.addr
      BY <1>0 DEF Tasks
    <3> QED
      BY <1>2, <2>1, <2>3, <3>1 DEF HoldsPort
  <2> QED
    BY <1>9, <2>2, <2>3 DEF lookup
<1>10. CASE undo(t)
  <2>1. ports' = ports \ {t.addr} /\ aliases' = aliases /\ t.at = "undo"
    BY <1>10 DEF undo, freePort, At
  <2> QED
    BY <1>2, <2>1 DEF HoldsPort
<1>11. CASE expire(t)
  <2> DEFINE gone == {alias \in DOMAIN aliases : aliases[alias].id = t.data.id}
             u == Begin(0, t.sock, "expireHost", [op |-> "expire", id |-> t.data.id, alias |-> p])
  <2>1. ports' = ports /\ DOMAIN aliases' = DOMAIN aliases \ gone /\ t.at = "expire"
    BY <1>11 DEF expire, addresses, Without, Restrict, At
  <2>2. CASE p \in gone
    <3>1. u \in tasks'
      BY <1>11, <2>2 DEF expire
    <3>2. u.at = "expireHost" /\ u.data.alias = p
      BY DEF Begin
    <3> QED
      BY <3>1, <3>2 DEF HoldsPort
  <2>3. CASE p \notin gone
    <3>1. ~ HoldsPort(t, p)
      BY <2>1, PortHolders
    <3> QED
      BY <1>1, <2>1, <2>3, <3>1 DEF PortsAccounted
  <2> QED
    BY <2>2, <2>3
<1>12. CASE expireHost(t)
  <2>1. /\ ports' \subseteq ports /\ aliases' = aliases /\ t.at = "expireHost"
        /\ next("expirePort") \in tasks'
    BY <1>12 DEF expireHost, freeHost, At, Goto, next
  <2>2. ASSUME HoldsPort(t, p) PROVE HoldsPort(next("expirePort"), p)
    BY <1>3, <2>1, <2>2 DEF HoldsPort, Places
  <2> QED
    BY <1>2, <2>1, <2>2
<1>13. CASE \/ createIPAddress(t) \/ acknowledge(t) \/ greet(t) \/ bind(t) \/ handleAccepting(t)
            \/ removeIPAddress(t) \/ retract(t) \/ refuse(t) \/ introduce(t) \/ accept(t)
            \/ confirm(t) \/ relay(t) \/ leave(t)
  <2>1. ports' \subseteq ports /\ DOMAIN aliases \subseteq DOMAIN aliases'
    BY <1>13
    DEF createIPAddress, acknowledge, greet, bind, handleAccepting, removeIPAddress, retract,
        refuse, introduce, accept, confirm, relay, leave, freeHost, addresses
  <2>2. ~ HoldsPort(t, p)
    BY <1>13, PortHolders
    DEF createIPAddress, acknowledge, greet, bind, handleAccepting, removeIPAddress, retract,
        refuse, introduce, accept, confirm, relay, leave, At
  <2> QED
    BY <1>2, <2>1, <2>2
<1> QED
  BY <1>4, <1>5, <1>6, <1>7, <1>8, <1>9, <1>10, <1>11, <1>12, <1>13
  DEF Run, handleKnock, handleBind, handleShutdown, handleConnect, goodbye

\* The steps at which a task holds a host.
LEMMA HostHolders ==
  ASSUME NEW t, NEW ip, HoldsHost(t, ip)
  PROVE  t.at \in {"acknowledge", "greet", "close", "register", "freePort", "freeHost",
                   "expireHost"}
  BY DEF HoldsHost

\* Every member is the id of a client that is there, the host of an alias, or a
\* task will make it one of these or give it back.
LEMMA RunHostsAccounted ==
  ASSUME TasksTyped, DataTyped, AskersPresent, PortsHosted, HostsAccounted,
         NEW t \in tasks, Run(t)
  PROVE  HostsAccounted'
<1>0. t \in Tasks
  BY DEF TasksTyped, TaskOK
<1>1. tasks \ {t} \subseteq tasks'
  BY Successors
<1>2. open' = open /\ \A s \in open : goodbyes[s] \subseteq goodbyes'[s]
  BY RunKeepsPresent
<1> DEFINE Kept(ip) == \/ \E s \in open' : ip \in goodbyes'[s]
                       \/ \E alias \in DOMAIN aliases' : parseIPAddress(alias) = ip
                       \/ \E u \in tasks' : HoldsHost(u, ip)
           next(place) == [t EXCEPT !.at = place]
<1>3. ASSUME NEW ip \in members, ~ Kept(ip), DOMAIN aliases \subseteq DOMAIN aliases'
      PROVE  HoldsHost(t, ip)
  BY <1>1, <1>2, <1>3 DEF HostsAccounted
<1>4. ASSUME NEW place \in Places
      PROVE  /\ next(place).at = place /\ next(place).data = t.data
             /\ next(place).addr = t.addr
  BY <1>0, TaskMoves
<1> HIDE DEF next
<1> SUFFICES ASSUME NEW ip \in members' PROVE Kept(ip)
  BY DEF HostsAccounted
<1>5. CASE createIPAddress(t)
  <2>1. DOMAIN aliases \subseteq DOMAIN aliases' /\ t.at = "knock"
    BY <1>5 DEF createIPAddress, At
  <2>2. CASE ip \in members
    BY <1>3, <2>1, <2>2, HostHolders
  <2>3. CASE ip \notin members
    <3>1. [t EXCEPT !.at = "acknowledge", !.addr = ip] \in tasks'
      BY <1>5, <2>3 DEF createIPAddress
    <3>2. /\ [t EXCEPT !.at = "acknowledge", !.addr = ip].at = "acknowledge"
          /\ [t EXCEPT !.at = "acknowledge", !.addr = ip].addr = ip
      BY <1>0 DEF Tasks
    <3> QED
      BY <3>1, <3>2 DEF HoldsHost
  <2> QED
    BY <2>2, <2>3
<1>6. CASE acknowledge(t)
  <2>1. /\ members' = members /\ aliases' = aliases /\ t.at = "acknowledge"
        /\ t.addr = NoAddress \/ next("greet") \in tasks'
    BY <1>6 DEF acknowledge, addresses, At, Goto, next
  <2>2. ip # NoAddress
    BY <2>1, AddressesAssumption DEF DataTyped, NoAddress, IPAddresses
  <2> QED
    BY <1>3, <1>4, <2>1, <2>2 DEF HoldsHost, Places
<1>7. CASE greet(t)
  <2>1. /\ members' = members /\ aliases' = aliases /\ t.at = "greet"
        /\ goodbyes' = [goodbyes EXCEPT ![t.sock] = @ \cup {t.addr}]
    BY <1>7 DEF greet, addresses, At
  <2>2. t.sock \in open' /\ t.addr \in goodbyes'[t.sock]
    BY <1>2, <2>1 DEF AskersPresent, KnockPlaces, DataTyped
  <2> QED
    BY <1>3, <2>1, <2>2 DEF HoldsHost
<1>8. CASE claimTCPAddress(t)
  <2> DEFINE host == parseIPAddress(t.data.alias)
  <2>1. DOMAIN aliases \subseteq DOMAIN aliases' /\ t.at = "claim"
    BY <1>8 DEF claimTCPAddress, At
  <2>2. CASE ip \in members
    BY <1>3, <2>1, <2>2, HostHolders
  <2>3. CASE ip \notin members
    <3>1. ip = host /\ t.data.alias.subnet \in subnets
      BY <1>8, <2>3 DEF claimTCPAddress
    <3>2. t.data.alias \notin ports
      BY <2>3, <3>1 DEF PortsHosted
    <3>3. next("register") \in tasks'
      BY <1>8, <3>1, <3>2 DEF claimTCPAddress, Goto, next
    <3> QED
      BY <1>4, <3>1, <3>3 DEF HoldsHost, Places
  <2> QED
    BY <2>2, <2>3
<1>9. CASE register(t)
  <2>1. /\ DOMAIN aliases' = DOMAIN aliases \cup {t.data.alias} /\ members' = members
        /\ t.at = "register"
    BY <1>9 DEF register, Put, addresses, At
  <2> QED
    BY <1>3, <2>1 DEF HoldsHost
<1>10. CASE shutdown(t)
  <2>1. members' = members /\ t.at = "shutdown"
    BY <1>10 DEF shutdown, addresses, At
  <2>2. CASE ip = parseIPAddress(t.data.alias) /\ next("freePort") \in tasks'
    BY <1>4, <2>2 DEF HoldsHost, Places
  <2>3. \/ aliases' = aliases
        \/ /\ DOMAIN aliases' = DOMAIN aliases \ {t.data.alias}
           /\ next("freePort") \in tasks'
    BY <1>10 DEF shutdown, Without, Restrict, Goto, next
  <2>4. ~ HoldsHost(t, ip)
    BY <2>1, HostHolders
  <2> QED
    BY <1>1, <1>2, <2>1, <2>2, <2>3, <2>4 DEF HostsAccounted
<1>11. CASE removeTCPAddress(t)
  <2>1. /\ members' = members /\ aliases' = aliases /\ t.at = "freePort"
        /\ next("freeHost") \in tasks'
    BY <1>11 DEF removeTCPAddress, freePort, At, Goto, next
  <2>2. ASSUME HoldsHost(t, ip) PROVE HoldsHost(next("freeHost"), ip)
    BY <1>4, <2>1, <2>2 DEF HoldsHost, Places
  <2> QED
    BY <1>3, <2>1, <2>2
<1>12. CASE removeIPAddress(t) \/ expireHost(t)
  <2>1. /\ members' = members \ {parseIPAddress(t.data.alias)} /\ aliases' = aliases
        /\ t.at \in {"freeHost", "expireHost"}
    BY <1>12 DEF removeIPAddress, expireHost, freeHost, At
  <2> QED
    BY <1>3, <2>1 DEF HoldsHost
<1>13. CASE leave(t)
  <2>1. members' = members \ {t.data.id} /\ aliases' = aliases /\ t.at = "close"
    BY <1>13 DEF leave, freeHost, At
  <2> QED
    BY <1>3, <2>1 DEF HoldsHost
<1>14. CASE expire(t)
  <2> DEFINE gone == {alias \in DOMAIN aliases : aliases[alias].id = t.data.id}
             u(alias) == Begin(0, t.sock, "expireHost",
                               [op |-> "expire", id |-> t.data.id, alias |-> alias])
  <2>1. members' = members /\ DOMAIN aliases' = DOMAIN aliases \ gone /\ t.at = "expire"
    BY <1>14 DEF expire, addresses, Without, Restrict, At
  <2>2. ASSUME NEW alias \in gone, parseIPAddress(alias) = ip
        PROVE  Kept(ip)
    <3>1. u(alias) \in tasks'
      BY <1>14, <2>2 DEF expire
    <3>2. u(alias).at = "expireHost" /\ u(alias).data.alias = alias
      BY DEF Begin
    <3> QED
      BY <2>2, <3>1, <3>2 DEF HoldsHost
  <2>3. ~ HoldsHost(t, ip)
    BY <2>1, HostHolders
  <2> QED
    BY <1>1, <1>2, <2>1, <2>2, <2>3 DEF HostsAccounted
<1>15. CASE \/ bind(t) \/ handleAccepting(t) \/ retract(t) \/ createTCPAddress(t) \/ lookup(t)
            \/ undo(t) \/ refuse(t) \/ introduce(t) \/ accept(t) \/ confirm(t) \/ relay(t)
            \/ expirePort(t)
  <2>1. members' = members /\ DOMAIN aliases \subseteq DOMAIN aliases'
    BY <1>15
    DEF bind, handleAccepting, retract, createTCPAddress, lookup, undo, refuse, introduce,
        accept, confirm, relay, expirePort, freePort, addresses, Put
  <2>2. ~ HoldsHost(t, ip)
    BY <1>15, HostHolders
    DEF bind, handleAccepting, retract, createTCPAddress, lookup, undo, refuse, introduce,
        accept, confirm, relay, expirePort, At
  <2> QED
    BY <1>3, <2>1, <2>2
<1> QED
  BY <1>5, <1>6, <1>7, <1>8, <1>9, <1>10, <1>11, <1>12, <1>13, <1>14, <1>15
  DEF Run, handleKnock, handleBind, handleShutdown, handleConnect, goodbye

----
(***************************************************************************)
(* The turns of the event loop                                             *)
(***************************************************************************)
\* Handlers start only when none is under way; so nothing is owed then.
LEMMA RequestsKeepInv ==
  ASSUME IInv, NEW s \in open, tasks = {},
         UNCHANGED <<open, refused, goodbyes, clients, aliases, subnets, members, ports>>,
         \A u \in tasks' : \E m : \E copy \in 0 .. MaxBatch :
           Signed(s, m) /\ u = Begin(copy, s, m.op, m)
  PROVE  IInv'
<1>1. tasks = {} /\ s \in open /\ s \in Sockets
  BY DEF IInv, DataTyped
<1>2. UNCHANGED <<open, refused, goodbyes, clients, aliases, subnets, members, ports>>
  OBVIOUS
<1>3. TasksTyped'
  BY <1>1, BatchTyped DEF TasksTyped
<1>4. DataTyped' /\ ClientsConnected' /\ PortsHosted'
  BY <1>2 DEF IInv, DataTyped, ClientsConnected, PortsHosted
<1>5. AskersPresent'
  <2>1. \A id \in IdsOf(s) : Present(id)
    BY <1>1 DEF IdsOf, Present
  <2>2. \A id : Present(id) => Present(id)'
    BY <1>2 DEF Present
  <2>3. ASSUME NEW u \in tasks'
        PROVE  /\ u.at \in KnockPlaces => u.sock \in open'
               /\ u.at \in {"bind", "claim", "register", "connect", "lookup"} =>
                    Present(u.data.id)'
    <3>0. PICK m : \E copy \in 0 .. MaxBatch : Signed(s, m) /\ u = Begin(copy, s, m.op, m)
      OBVIOUS
    <3>1. PICK copy \in 0 .. MaxBatch : Signed(s, m) /\ u = Begin(copy, s, m.op, m)
      BY <3>0
    <3>2. u.at = m.op /\ u.sock = s /\ u.data = m
      BY <3>1 DEF Begin
    <3>3. m.op \in {"bind", "claim", "register", "connect", "lookup"} => m.id \in IdsOf(s)
      BY <3>1 DEF Signed
    <3> QED
      BY <1>1, <1>2, <2>1, <2>2, <3>2, <3>3
  <2> QED
    BY <2>3 DEF AskersPresent
<1>6. OwnersKnown' /\ PortsAccounted' /\ HostsAccounted'
  BY <1>1, <1>2 DEF IInv, OwnersKnown, PortsAccounted, HostsAccounted, Present, Departing
<1> QED
  BY <1>3, <1>4, <1>5, <1>6 DEF IInv

\* The messages of a chunk start such handlers.
LEMMA ReceiveKeepsInv ==
  ASSUME IInv, NEW s \in Sockets, Chunk(s)
  PROVE  IInv'
<1>1. tasks = {} /\ s \in open
  BY DEF Chunk, Receive
<1>2. UNCHANGED <<open, refused, goodbyes, clients, aliases, subnets, members, ports>>
  BY DEF Chunk, Receive, connected, addresses
<1>3. \A u \in tasks' :
        \E m \in MessagesFrom(s) \cup RelayedFrom(s), copy \in 0 .. MaxBatch :
          u = Begin(copy, s, m.op, m)
  <2>1. ASSUME NEW n \in 1 .. MaxBatch, NEW batch \in [1 .. n -> MessagesFrom(s)],
               NEW i \in 1 .. n
        PROVE  Cardinality({j \in 1 .. i : batch[j] = batch[i]}) \in 0 .. MaxBatch
    <3> DEFINE same == {j \in 1 .. i : batch[j] = batch[i]}
    <3>1. IsFiniteSet(1 .. i) /\ Cardinality(1 .. i) = i
      BY FS_Interval
    <3>2. IsFiniteSet(same) /\ Cardinality(same) <= i
      BY <3>1, FS_Subset
    <3>3. Cardinality(same) \in Nat
      BY <3>2, FS_CardinalityType
    <3> HIDE DEF same
    <3>4. Cardinality(same) \in 0 .. MaxBatch
      BY <3>2, <3>3, ServerAssumption
    <3> QED
      BY <3>4 DEF same
  <2>2. CASE \E n \in 1 .. MaxBatch : \E batch \in [1 .. n -> MessagesFrom(s)] :
               ~ hasty(batch) /\ Receive(s, batch)
    <3>0. PICK n \in 1 .. MaxBatch :
            \E batch \in [1 .. n -> MessagesFrom(s)] : Receive(s, batch)
      BY <2>2
    <3>1. PICK batch \in [1 .. n -> MessagesFrom(s)] : Receive(s, batch)
      BY <3>0
    <3>2. tasks' = {Begin(Cardinality({j \in 1 .. i : batch[j] = batch[i]}),
                          s, batch[i].op, batch[i]) : i \in 1 .. n}
      BY <3>1 DEF Receive
    <3>3. \A i \in 1 .. n : batch[i] \in MessagesFrom(s)
      OBVIOUS
    <3> QED
      BY <2>1, <3>2, <3>3
  <2>3. CASE \E m \in RelayedFrom(s) : Receive(s, <<m>>)
    <3>1. PICK m \in RelayedFrom(s) : Receive(s, <<m>>)
      BY <2>3
    <3>2. DOMAIN <<m>> = {1} /\ <<m>>[1] = m
      OBVIOUS
    <3> DEFINE same == {j \in 1 .. 1 : <<m>>[j] = <<m>>[1]}
               copy == Cardinality(same)
    <3>3. copy = 1
      <4>1. same = {1}
        OBVIOUS
      <4> HIDE DEF same
      <4> QED
        BY <4>1, FS_Singleton
    <3>4. tasks' = {Begin(copy, s, m.op, m)}
      BY <3>1, <3>2 DEF Receive
    <3>5. copy \in 0 .. MaxBatch
      BY <3>3, ServerAssumption
    <3> HIDE DEF copy
    <3> QED
      BY <3>4, <3>5
  <2> QED
    BY <2>2, <2>3 DEF Chunk
<1>4. \A u \in tasks' : \E m : \E copy \in 0 .. MaxBatch :
        Signed(s, m) /\ u = Begin(copy, s, m.op, m)
  <2>1. TAKE u \in tasks'
  <2>2. PICK m \in MessagesFrom(s) \cup RelayedFrom(s), copy \in 0 .. MaxBatch :
          u = Begin(copy, s, m.op, m)
    BY <1>3
  <2>3. DataTyped
    BY DEF IInv
  <2>4. Signed(s, m)
    BY <1>1, <2>3, MessagesSigned
  <2> QED
    BY <2>2, <2>4
<1> QED
  BY <1>1, <1>2, <1>4, RequestsKeepInv

\* The sockets that close take their ids out of the map of clients; a close
\* listener starts for each id, and will remove what belongs to it.
LEMMA CloseKeepsInv ==
  ASSUME IInv, NEW S \in SUBSET open, Close(S)
  PROVE  IInv'
<1> DEFINE u(s, id) == Begin(0, s, "close", [op |-> "close", id |-> id])
<1>1. /\ tasks = {} /\ open' = open \ S /\ refused' = refused \ S
      /\ goodbyes' = [s \in Sockets |-> IF s \in S THEN {} ELSE goodbyes[s]]
      /\ clients' = Without(clients, UNION {goodbyes[s] : s \in S})
      /\ tasks' = UNION {{u(s, id) : id \in goodbyes[s]} : s \in S}
      /\ UNCHANGED <<aliases, subnets, members, ports>>
  BY DEF Close, addresses
<1>2. \A s \in S : s \in Sockets /\ goodbyes[s] \subseteq IPAddresses
  BY DEF IInv, DataTyped
<1>3. \A s, id : u(s, id).at = "close" /\ u(s, id).data.id = id
  BY DEF Begin
<1>4. TasksTyped'
  <2>1. ASSUME NEW s \in S, NEW id \in goodbyes[s]
        PROVE  TaskOK(u(s, id))
    <3>1. id \in IPAddresses /\ [op |-> "close", id |-> id] \in Data
      BY <1>2 DEF Data, Departures, Answers
    <3>2. u(s, id) \in Tasks
      BY <1>2, <3>1, ServerAssumption, TaskBegins DEF Places
    <3> HIDE DEF u
    <3> QED
      BY <1>3, <3>1, <3>2
      DEF TaskOK, KnockPlaces, AliasPlaces, CreatedPlaces, ConnectPlaces, LeavePlaces
  <2> HIDE DEF u
  <2> QED
    BY <1>1, <2>1 DEF TasksTyped
<1>5. DataTyped'
  <2>1. DOMAIN clients' \subseteq IPAddresses /\ clients' \in [DOMAIN clients' -> Sockets]
    BY <1>1 DEF IInv, DataTyped, Without, Restrict
  <2>2. goodbyes' \in [Sockets -> SUBSET IPAddresses]
    BY <1>1 DEF IInv, DataTyped
  <2> QED
    BY <1>1, <2>1, <2>2 DEF IInv, DataTyped
<1>6. ClientsConnected'
  <2>1. ASSUME NEW id \in DOMAIN clients'
        PROVE  clients'[id] \in open' /\ id \in goodbyes'[clients'[id]]
    <3>1. /\ id \in DOMAIN clients /\ clients'[id] = clients[id]
          /\ \A s \in S : id \notin goodbyes[s]
      BY <1>1, <2>1 DEF Without, Restrict
    <3>2. clients[id] \in open /\ id \in goodbyes[clients[id]] /\ clients[id] \in Sockets
      BY <3>1 DEF IInv, ClientsConnected, DataTyped
    <3> QED
      BY <1>1, <3>1, <3>2
  <2> QED
    BY <2>1 DEF ClientsConnected
<1> HIDE DEF u
<1>7. AskersPresent'
  BY <1>1, <1>3 DEF AskersPresent, KnockPlaces
<1>8. ASSUME NEW id, NEW s \in open, id \in goodbyes[s]
      PROVE  (\E r \in open' : id \in goodbyes'[r]) \/ u(s, id) \in tasks'
  <2>1. s \in Sockets
    BY DEF IInv, DataTyped
  <2> QED
    BY <1>1, <1>8, <2>1
<1>9. OwnersKnown'
  <2>1. ASSUME NEW alias \in DOMAIN aliases, NEW id, id = aliases[alias].id
        PROVE  Present(id)' \/ Departing(id)'
    <3>1. Present(id)
      BY <1>1, <2>1 DEF IInv, OwnersKnown, Departing
    <3> QED
      BY <1>3, <1>8, <3>1 DEF Present, Departing, LeavePlaces
  <2> QED
    BY <1>1, <2>1 DEF OwnersKnown, Present, Departing
<1>10. PortsAccounted' /\ PortsHosted'
  BY <1>1 DEF IInv, PortsAccounted, PortsHosted
<1>11. HostsAccounted'
  <2>1. ASSUME NEW ip \in members, NEW s \in open, ip \in goodbyes[s]
        PROVE  (\E r \in open' : ip \in goodbyes'[r]) \/ \E v \in tasks' : HoldsHost(v, ip)
    BY <1>3, <1>8, <2>1 DEF HoldsHost
  <2> QED
    BY <1>1, <2>1 DEF IInv, HostsAccounted
<1> QED
  BY <1>4, <1>5, <1>6, <1>7, <1>9, <1>10, <1>11 DEF IInv

\* A new connection has no id yet.
LEMMA ConnectionKeepsInv ==
  ASSUME IInv, NEW s \in Sockets, Connection(s)
  PROVE  IInv'
<1>1. /\ tasks = {} /\ open' = open \cup {s}
      /\ UNCHANGED <<refused, goodbyes, clients, aliases, subnets, members, ports, tasks>>
  BY DEF Connection, addresses
<1>2. TasksTyped' /\ DataTyped' /\ ClientsConnected' /\ AskersPresent'
  BY <1>1 DEF IInv, TasksTyped, DataTyped, ClientsConnected, AskersPresent
<1>3. OwnersKnown' /\ PortsAccounted' /\ HostsAccounted' /\ PortsHosted'
  BY <1>1
  DEF IInv, OwnersKnown, PortsAccounted, HostsAccounted, PortsHosted, Present, Departing
<1> QED
  BY <1>2, <1>3 DEF IInv

----
(***************************************************************************)
(* The theorems                                                            *)
(***************************************************************************)
\* Nobody has connected yet.
LEMMA InitKeepsInv == Init => IInv
<1> SUFFICES ASSUME Init PROVE IInv
  OBVIOUS
<1>1. DataTyped
  BY FS_EmptySet DEF Init, DataTyped
<1>2. TasksTyped /\ ClientsConnected /\ AskersPresent
  BY DEF Init, TasksTyped, ClientsConnected, AskersPresent
<1>3. OwnersKnown /\ PortsAccounted /\ HostsAccounted /\ PortsHosted
  BY DEF Init, OwnersKnown, PortsAccounted, HostsAccounted, PortsHosted
<1> QED
  BY <1>1, <1>2, <1>3 DEF IInv

\* Every step preserves the invariant.
LEMMA RunKeepsInv ==
  ASSUME IInv, NEW t \in tasks, Run(t)
  PROVE  IInv'
  BY RunTasksTyped, RunDataTyped, RunClientsConnected, RunAskersPresent, RunOwnersKnown,
     RunPortsAccounted, RunHostsAccounted, RunPortsHosted DEF IInv

\* The invariant says nothing of the messages that are sent.
LEMMA SendingKeepsInv ==
  ASSUME IInv,
         UNCHANGED <<open, refused, goodbyes, clients, aliases, subnets, members, ports, tasks>>
  PROVE  IInv'
  BY DEF IInv, TasksTyped, DataTyped, ClientsConnected, AskersPresent, OwnersKnown,
     PortsAccounted, HostsAccounted, PortsHosted, Present, Departing

LEMMA NextKeepsInv == IInv /\ [Next]_vars => IInv'
<1> SUFFICES ASSUME IInv, [Next]_vars PROVE IInv'
  OBVIOUS
<1>1. CASE UNCHANGED vars
  BY <1>1, SendingKeepsInv DEF vars
<1>2. ASSUME NEW s \in Sockets, Connection(s) PROVE IInv'
  BY <1>2, ConnectionKeepsInv
<1>3. ASSUME NEW s \in Sockets, Chunk(s) PROVE IInv'
  BY <1>3, ReceiveKeepsInv
<1>4. ASSUME NEW S \in SUBSET open, Close(S) PROVE IInv'
  BY <1>4, CloseKeepsInv
<1>5. ASSUME NEW t \in tasks, Run(t) PROVE IInv'
  BY <1>5, RunKeepsInv
<1> QED
  BY <1>1, <1>2, <1>3, <1>4, <1>5 DEF Next, Handlers

\* THEOREM Invariance: what every handler of the server relies on and keeps.
THEOREM Invariance == Spec => []IInv
<1> QED
  BY InitKeepsInv, NextKeepsInv, PTL DEF Spec

\* THEOREM TypeCorrect: the maps of the server and the variables of its
\* handlers are what the code declares them to be.
THEOREM TypeCorrect == Spec => []TypeOK
<1>1. IInv => TypeOK
  BY DEF IInv, TasksTyped, TaskOK, DataTyped, TypeOK
<1> QED
  BY <1>1, Invariance, PTL

\* THEOREM RegisteredAreConnected: clients.get never returns a socket that is
\* closed, or one whose close would leave the entry in the map.
THEOREM RegisteredAreConnected == Spec => []ClientsConnected
<1>1. IInv => ClientsConnected
  BY DEF IInv
<1> QED
  BY <1>1, Invariance, PTL

\* THEOREM NoAliasSurvivesItsOwner: once the handlers of a turn are done, every
\* alias belongs to a client that is connected.
THEOREM NoAliasSurvivesItsOwner == Spec => []NoOrphanAlias
<1>1. IInv => NoOrphanAlias
  BY DEF IInv, OwnersKnown, Present, Departing, NoOrphanAlias
<1> QED
  BY <1>1, Invariance, PTL

\* THEOREM NothingStaysInUse: once the handlers of a turn are done, every port
\* and every member in use belongs to an alias or a client.
THEOREM NothingStaysInUse == Spec => []NothingLeaked
<1>1. IInv => NothingLeaked
  BY DEF IInv, PortsAccounted, HostsAccounted, NothingLeaked, NoLeakedPort, NoLeakedSuffix
<1> QED
  BY <1>1, Invariance, PTL

\* A step that removes an alias is one of the client that the alias belongs to.
LEMMA RetractedByOwner ==
  ASSUME IInv, Next, NEW alias \in DOMAIN aliases \ DOMAIN aliases'
  PROVE  \E t \in tasks \ tasks' : t.data.id = aliases[alias].id
<1>1. PICK t \in tasks : Run(t)
  <2>1. (\E s \in Sockets : Connection(s) \/ Chunk(s)) => aliases' = aliases
    BY DEF Connection, Chunk, Receive
  <2>2. (\E S \in SUBSET open \ {{}} : Close(S)) => aliases' = aliases
    BY DEF Close
  <2> QED
    BY <2>1, <2>2 DEF Next, Handlers
<1>2. t \notin tasks'
  BY <1>1, Successors DEF IInv, Follows
<1>3. ChangesAliases(t)
  BY <1>1, AliasesUnchanged
<1>4. CASE shutdown(t)
  BY <1>1, <1>2, <1>4 DEF shutdown, owns, Without, Restrict
<1>5. CASE expire(t)
  BY <1>1, <1>2, <1>5 DEF expire, Without, Restrict
<1>6. CASE register(t) \/ handleAccepting(t) \/ lookup(t)
  BY <1>6 DEF register, handleAccepting, lookup, Put
<1> QED
  BY <1>3, <1>4, <1>5, <1>6 DEF ChangesAliases

\* THEOREM OnlyItsOwnerRetracts: no request of another client, however it
\* overlaps, takes an alias away.
THEOREM OnlyItsOwnerRetracts == Spec => OnlyOwnerRetracts
<1>1. IInv /\ [Next]_vars =>
        [\A alias \in DOMAIN aliases \ DOMAIN aliases' :
           \E t \in tasks \ tasks' : t.data.id = aliases[alias].id]_vars
  BY RetractedByOwner
<1> QED
  BY <1>1, Invariance, PTL DEF Spec, OnlyOwnerRetracts

====
