---- MODULE SignalingServer ----
(***************************************************************************)
(* The signaling server: who is connected under which id, which alias      *)
(* belongs to whom, and which addresses are in use.                        *)
(*                                                                         *)
(* The handlers are async functions. A handler is a task; between two      *)
(* awaits it runs alone, so each step of a task below is the code from one *)
(* await to the next. All awaits of this class resolve on the microtask    *)
(* queue, which node drains before the next I/O callback. Handlers overlap *)
(* therefore only within one turn of the event loop, and a turn starts     *)
(* with the messages of one chunk read from one socket, or with the close  *)
(* events of sockets the heartbeat or the server closed together. Within a *)
(* turn any interleaving is allowed here, which includes the one the       *)
(* microtask queue produces. The address functions are single steps:       *)
(* AddressPool shows that their mutex makes them so.                       *)
(***************************************************************************)
EXTENDS Operations, Sequences, Functions

CONSTANTS Sockets,       \* connections of the WebSocket server
          NoSocket,      \* what clients.get returns for an unknown id
          BindAliases,   \* the aliases clients ask to bind
          Polite,        \* whether clients stay clear of each other's hosts
          MaxBatch,      \* bound: messages in one chunk
          IdBound,       \* bound: a socket knocks again below this many ids
          PortBound      \* bound: a client connects below this many ports

ASSUME ServerAssumption ==
  /\ NoSocket \notin Sockets
  /\ BindAliases \subseteq TCPAddresses
  /\ Polite \in BOOLEAN
  /\ MaxBatch \in Nat \ {0}

VARIABLES open,      \* the sockets that are connected
          refused,   \* the sockets told that their subnet is full
          goodbyes,  \* the ids for whose departure a socket has a close listener
          clients,   \* id -> socket
          aliases,   \* alias -> [id, accepting] (MAlias)
          subnets, members, ports,   \* the addresses in use
          tasks,     \* the handlers that are under way
          sent       \* the messages the last step sent

vars == <<open, refused, goodbyes, clients, aliases, subnets, members, ports,
          tasks, sent>>

connected == <<open, refused, goodbyes>>
addresses == <<subnets, members, ports>>

----
\* Close listeners, and what they start for every alias of the client that left.
Departures == [op : {"close"}, id : Answers]
Expiries   == [op : {"expire"}, id : Answers, alias : TCPAddresses]

Data == Knocks \cup Requests \cup Connects \cup Relayed \cup Departures \cup Expiries

MAliases == [id : Answers, accepting : BOOLEAN]

\* A task: which copy of its message it handles, the socket it came from, the
\* step it is at, the message and the local variables of the handler.
Places == {"knock", "acknowledge", "greet", "bind", "claim", "register",
           "accepting", "shutdown", "freePort", "freeHost", "retract",
           "connect", "lookup", "undo", "refuse", "introduce", "accept", "confirm",
           "offer", "answer", "candidate",
           "close", "expire", "expireHost", "expirePort"}

Tasks == [copy : 0 .. MaxBatch, sock : Sockets, at : Places, data : Data,
          addr : Answers \cup TCPAddresses,       \* the id or clientAlias created
          client : Sockets \cup {NoSocket},
          server : Sockets \cup {NoSocket},
          owner : Answers]                         \* serverId.id

Begin(copy, s, at, data) ==
  [copy |-> copy, sock |-> s, at |-> at, data |-> data, addr |-> NoAddress,
   client |-> NoSocket, server |-> NoSocket, owner |-> NoAddress]

TypeOK ==
  /\ open \subseteq Sockets
  /\ refused \subseteq Sockets
  /\ goodbyes \in [Sockets -> SUBSET IPAddresses]
  /\ DOMAIN clients \subseteq IPAddresses /\ clients \in [DOMAIN clients -> Sockets]
  /\ DOMAIN aliases \subseteq TCPAddresses /\ aliases \in [DOMAIN aliases -> MAliases]
  /\ subnets \subseteq Subnets
  /\ members \subseteq IPAddresses
  /\ ports \subseteq TCPAddresses
  /\ tasks \subseteq Tasks

----
Put(f, k, v) == [x \in DOMAIN f \cup {k} |-> IF x = k THEN v ELSE f[x]]

Without(f, K) == Restrict(f, DOMAIN f \ K)

Get(id) == IF id \in DOMAIN clients THEN clients[id] ELSE NoSocket

owns_Anyone(id, alias) == alias \in DOMAIN aliases   \* mutant: no owner check

owns(id, alias) == alias \in DOMAIN aliases /\ aliases[alias].id = id

accepting(alias) == alias \in DOMAIN aliases /\ aliases[alias].accepting

To(socket, message) == {[to |-> socket, message |-> message]}

ToAll(message) == UNION {To(clients[id], message) : id \in DOMAIN clients}

At(t, place) == t \in tasks /\ t.at = place

Goto(t, place) == tasks' = (tasks \ {t}) \cup {[t EXCEPT !.at = place]}

End(t) == tasks' = tasks \ {t}

Send(messages) == sent' = messages

\* An exception, or a send without a client (ClientClosedError): the promise of
\* the handler is rejected, and the peer hears nothing.
Throw(t) == End(t) /\ Send({})

freePort_Nothing(tcp) == UNCHANGED addresses   \* mutant: the port stays in use

freePort_OfHost(tcp) ==   \* mutant: all ports of the host are freed
  /\ ports' = {p \in ports : parseIPAddress(p) # parseIPAddress(tcp)}
  /\ UNCHANGED <<subnets, members>>

\* removeIPAddress and removeTCPAddress
freeHost(ip) ==
  /\ members' = members \ {ip}
  /\ ports' = {p \in ports : parseIPAddress(p) # ip}
  /\ UNCHANGED subnets

freePort(tcp) ==
  /\ ports' = ports \ {tcp}
  /\ UNCHANGED <<subnets, members>>

Init ==
  /\ open = {} /\ refused = {}
  /\ goodbyes = [s \in Sockets |-> {}]
  /\ clients = [id \in {} |-> NoSocket]
  /\ aliases = [alias \in {} |-> NoSocket]
  /\ subnets = {} /\ members = {} /\ ports = {}
  /\ tasks = {} /\ sent = {}

----
(***************************************************************************)
(* The turns of the event loop.                                            *)
(***************************************************************************)
Connection(s) ==
  /\ tasks = {}
  /\ s \notin open
  /\ open' = open \cup {s}
  /\ Send({})
  /\ UNCHANGED <<refused, goodbyes, clients, aliases, addresses, tasks>>

\* The ids a client may sign its messages with, and what it may ask for. The
\* alias of a connection can only be shut down: it belongs to whoever connected,
\* so that accepting on it, or connecting to it, is like naming one that is not
\* bound. A polite client binds on its own host or on an unused one, or asks for an
\* alias that is taken; it keeps the aliases on the hosts of clients until it
\* leaves, and stops when it is refused.
IdsOf(s) ==
  goodbyes[s] \cup (IF s \in refused /\ ~ Polite THEN {NoAddress} ELSE {})

mayBind(id, alias) ==
  Polite => alias \in DOMAIN aliases \/ parseIPAddress(alias) \notin members \ {id}

mayShutdown(alias) ==
  Polite => \A s \in open : parseIPAddress(alias) \notin goodbyes[s]

MessagesFrom(s) ==
  LET known == BindAliases \cup DOMAIN aliases
      room == {id \in IdsOf(s) : Cardinality(PortsOf(ports, id)) < PortBound}
  IN  {m \in Knocks : Cardinality(goodbyes[s]) < IdBound}
        \cup {m \in [op : {"bind"}, id : IdsOf(s), alias : BindAliases] :
                mayBind(m.id, m.alias)}
        \cup [op : {"accepting"}, id : IdsOf(s), alias : BindAliases]
        \cup {m \in [op : {"shutdown"}, id : IdsOf(s), alias : known] :
                mayShutdown(m.alias)}
        \cup [op : {"connect"}, id : room, remoteAlias : BindAliases,
              clientConnectionId : Connections]

\* Messages between clients, which the server passes on. Both ends of a connection
\* send candidates under the ids of its offer.
RelayedFrom(s) ==
  [op : {"offer", "candidate"}, offererId : IdsOf(s), answererId : members]
    \cup [op : {"answer", "candidate"}, offererId : members, answererId : IdsOf(s)]

\* One chunk read from a socket: `message` fires for each frame in it, and
\* starts a handler; the copies of one message are numbered.
Receive(s, batch) ==
  /\ tasks = {}
  /\ s \in open
  /\ tasks' = {Begin(Cardinality({j \in 1 .. i : batch[j] = batch[i]}),
                     s, batch[i].op, batch[i]) : i \in DOMAIN batch}
  /\ Send({})
  /\ UNCHANGED <<connected, clients, aliases, addresses>>

\* A polite client waits for its id before it asks for anything else, and for the
\* answer before it asks twice for a host that is not its own, or binds or connects
\* to an alias that it is closing.
hasty(batch) ==
  Polite /\ \E i, j \in DOMAIN batch :
    \/ batch[i].op = "knock" /\ batch[j].op # "knock"
    \/ /\ i # j /\ batch[i].op = "bind" /\ batch[j].op = "bind"
       /\ parseIPAddress(batch[i].alias) = parseIPAddress(batch[j].alias)
       /\ parseIPAddress(batch[i].alias) # batch[i].id
    \/ batch[i].op = "shutdown" /\ batch[j].op = "bind" /\ batch[i].alias = batch[j].alias
    \/ batch[i].op = "shutdown" /\ batch[j].op = "connect" /\ batch[i].alias = batch[j].remoteAlias

\* Relaying is one step that changes nothing the other handlers look at, so a
\* relayed message comes alone.
Chunk(s) ==
  /\ tasks = {}
  /\ \/ \E n \in 1 .. MaxBatch : \E batch \in [1 .. n -> MessagesFrom(s)] :
          ~ hasty(batch) /\ Receive(s, batch)
     \/ \E m \in RelayedFrom(s) : Receive(s, <<m>>)

\* Sockets that close in one turn: the listeners of all of them run up to
\* their first await, clients.delete(id), before any of them goes on.
Close(S) ==
  /\ tasks = {}
  /\ open' = open \ S
  /\ refused' = refused \ S
  /\ goodbyes' = [s \in Sockets |-> IF s \in S THEN {} ELSE goodbyes[s]]
  /\ clients' = Without(clients, UNION {goodbyes[s] : s \in S})
  /\ tasks' = UNION {{Begin(0, s, "close", [op |-> "close", id |-> id])
                        : id \in goodbyes[s]} : s \in S}
  /\ Send({})
  /\ UNCHANGED <<aliases, addresses>>

----
(***************************************************************************)
(* handleKnock                                                             *)
(***************************************************************************)
createIPAddress(t) ==
  LET subnet == t.data.subnet
      suffix == FirstGap(Suffixes(members, subnet))
      full == suffix > MaxSuffix
      id == IF full THEN NoAddress ELSE toIPAddress(subnet, suffix)
  IN
  /\ At(t, "knock")
  /\ subnets' = subnets \cup {subnet}
  /\ members' = IF full THEN members ELSE members \cup {id}
  /\ tasks' = (tasks \ {t}) \cup {[t EXCEPT !.at = "acknowledge", !.addr = id]}
  /\ Send({})
  /\ UNCHANGED <<connected, clients, aliases, ports>>

acknowledge_NoReturn(t) ==   \* mutant: a refused knock goes on
  /\ At(t, "acknowledge")
  /\ Send(To(t.sock, Acknowledgement(t.addr, t.addr = NoAddress)))
  /\ Goto(t, "greet")
  /\ UNCHANGED <<connected, clients, aliases, addresses>>

acknowledge(t) ==
  /\ At(t, "acknowledge")
  /\ \/ /\ t.addr = NoAddress
        /\ refused' = refused \cup {t.sock}
        /\ Send(To(t.sock, Acknowledgement(t.addr, TRUE)))
        /\ End(t)
     \/ /\ t.addr # NoAddress
        /\ UNCHANGED refused
        /\ Send(To(t.sock, Acknowledgement(t.addr, FALSE)))
        /\ Goto(t, "greet")
  /\ UNCHANGED <<open, goodbyes, clients, aliases, addresses>>

greet_NoGoodbye(t) ==   \* mutant: nobody listens for the departure
  LET others == DOMAIN clients \ {t.addr} IN
  /\ At(t, "greet")
  /\ Send(UNION {To(clients[other], Greeting(other, t.addr)) : other \in others})
  /\ clients' = Put(clients, t.addr, t.sock)
  /\ End(t)
  /\ UNCHANGED <<connected, aliases, addresses>>

\* Every registered client is asked to make an offer to the new one, which is
\* then registered; registerGoodbye listens for its departure.
greet(t) ==
  LET id == t.addr
      others == DOMAIN clients \ {id}
  IN
  /\ At(t, "greet")
  /\ Send(UNION {To(clients[other], Greeting(other, id)) : other \in others})
  /\ clients' = Put(clients, id, t.sock)
  /\ goodbyes' = [goodbyes EXCEPT ![t.sock] = @ \cup {id}]
  /\ End(t)
  /\ UNCHANGED <<open, refused, aliases, addresses>>

(***************************************************************************)
(* handleOffer, handleAnswer and handleCandidate                           *)
(***************************************************************************)
relay(t) ==
  LET addressee == IF t.at = "answer" THEN t.data.offererId ELSE t.data.answererId IN
  /\ \E place \in {"offer", "answer", "candidate"} : At(t, place)
  /\ \/ Get(addressee) = NoSocket /\ Throw(t)
     \/ Get(addressee) # NoSocket /\ End(t) /\ Send(To(Get(addressee), t.data))
  /\ UNCHANGED <<connected, clients, aliases, addresses>>

(***************************************************************************)
(* handleBind                                                              *)
(***************************************************************************)
bind(t) ==
  LET client == Get(t.data.id) IN
  /\ At(t, "bind")
  /\ \/ /\ t.data.alias \notin DOMAIN aliases
        /\ Goto(t, "claim")
        /\ Send({})
     \/ /\ t.data.alias \in DOMAIN aliases /\ client # NoSocket
        /\ Send(To(client, Alias(t.data.id, t.data.alias, FALSE, NoConnection)))
        /\ End(t)
     \/ /\ t.data.alias \in DOMAIN aliases /\ client = NoSocket
        /\ Throw(t)
  /\ UNCHANGED <<connected, clients, aliases, addresses>>

claimTCPAddress(t) ==
  LET alias == t.data.alias IN
  /\ At(t, "claim")
  /\ members' = IF alias.subnet \in subnets THEN members \cup {parseIPAddress(alias)}
                                            ELSE members
  /\ \/ /\ alias.subnet \in subnets /\ alias \notin ports
        /\ ports' = ports \cup {alias}
        /\ Goto(t, "register")
        /\ Send({})
     \/ /\ alias.subnet \notin subnets \/ alias \in ports
        /\ Throw(t)
        /\ UNCHANGED ports
  /\ UNCHANGED <<connected, clients, aliases, subnets>>

register_ToOthers(t) ==   \* mutant: the client that binds is not told
  LET id == t.data.id
      alias == t.data.alias
  IN
  /\ At(t, "register")
  /\ aliases' = Put(aliases, alias, [id |-> id, accepting |-> FALSE])
  /\ Send(ToAll(Alias(id, alias, TRUE, NoConnection)) \ To(t.sock, Alias(id, alias, TRUE, NoConnection)))
  /\ End(t)
  /\ UNCHANGED <<connected, clients, addresses>>

register(t) ==
  LET id == t.data.id
      alias == t.data.alias
  IN
  /\ At(t, "register")
  /\ aliases' = Put(aliases, alias, [id |-> id, accepting |-> FALSE])
  /\ Send(ToAll(Alias(id, alias, TRUE, NoConnection)))
  /\ End(t)
  /\ UNCHANGED <<connected, clients, addresses>>

(***************************************************************************)
(* handleAccepting: an alias that does not exist or belongs to another     *)
(* client is ignored.                                                      *)
(***************************************************************************)
handleAccepting(t) ==
  LET alias == t.data.alias IN
  /\ At(t, "accepting")
  /\ aliases' = IF owns(t.data.id, alias)
                  THEN [aliases EXCEPT ![alias].accepting = TRUE]
                  ELSE aliases
  /\ End(t)
  /\ Send({})
  /\ UNCHANGED <<connected, clients, addresses>>

(***************************************************************************)
(* handleShutdown                                                          *)
(***************************************************************************)
shutdown(t) ==
  LET id == t.data.id
      alias == t.data.alias
  IN
  /\ At(t, "shutdown")
  /\ \/ /\ owns(id, alias)
        /\ aliases' = Without(aliases, {alias})
        /\ Goto(t, "freePort")
        /\ Send({})
     \/ /\ ~ owns(id, alias) /\ Get(id) # NoSocket
        /\ Send(To(Get(id), Alias(id, alias, TRUE, NoConnection)))
        /\ End(t)
        /\ UNCHANGED aliases
     \/ /\ ~ owns(id, alias) /\ Get(id) = NoSocket
        /\ Throw(t)
        /\ UNCHANGED aliases
  /\ UNCHANGED <<connected, clients, addresses>>

removeTCPAddress(t) ==
  /\ At(t, "freePort")
  /\ freePort(t.data.alias)
  /\ Goto(t, "freeHost")
  /\ Send({})
  /\ UNCHANGED <<connected, clients, aliases>>

\* The alias is passed as an IP address, and parses to its host.
removeIPAddress(t) ==
  /\ At(t, "freeHost")
  /\ freeHost(parseIPAddress(t.data.alias))
  /\ Goto(t, "retract")
  /\ Send({})
  /\ UNCHANGED <<connected, clients, aliases>>

retract(t) ==
  /\ At(t, "retract")
  /\ Send(ToAll(Alias(t.data.id, t.data.alias, FALSE, NoConnection)))
  /\ End(t)
  /\ UNCHANGED <<connected, clients, aliases, addresses>>

(***************************************************************************)
(* handleConnect                                                           *)
(***************************************************************************)
createTCPAddress(t) ==
  LET ip == parseIPAddress(t.data.id)
      tcp == toTCPAddress(ip, FirstGap(PortsOf(ports, ip)))
  IN
  /\ At(t, "connect")
  /\ \/ /\ ip \in members
        /\ ports' = ports \cup {tcp}
        /\ tasks' = (tasks \ {t}) \cup {[t EXCEPT !.at = "lookup", !.addr = tcp]}
        /\ Send({})
     \/ /\ ip \notin members
        /\ Throw(t)
        /\ UNCHANGED ports
  /\ UNCHANGED <<connected, clients, aliases, subnets, members>>

\* The client is looked up before the alias is checked, and used after it. A
\* client that is gone by now makes the send throw when its alias is set.
lookup(t) ==
  LET data == t.data
      client == Get(data.id)
      clientAlias == ConnectionAlias(data.id, t.addr, data.clientConnectionId)
  IN
  /\ At(t, "lookup")
  /\ \/ /\ ~ accepting(data.remoteAlias)
        /\ tasks' = (tasks \ {t}) \cup {[t EXCEPT !.at = "undo", !.client = client]}
        /\ Send({})
        /\ UNCHANGED aliases
     \/ /\ accepting(data.remoteAlias)
        /\ aliases' = Put(aliases, t.addr, [id |-> data.id, accepting |-> FALSE])
        /\ \/ /\ client # NoSocket
              /\ Send(To(client, clientAlias))
              /\ tasks' = (tasks \ {t}) \cup {[t EXCEPT !.at = "introduce", !.client = client]}
           \/ client = NoSocket /\ Throw(t)
  /\ UNCHANGED <<connected, clients, addresses>>

undo_Last(t) ==   \* mutant: a refused connect ends without an answer
  /\ At(t, "undo")
  /\ freePort(t.addr)
  /\ Throw(t)
  /\ UNCHANGED <<connected, clients, aliases>>

undo(t) ==
  /\ At(t, "undo")
  /\ freePort(t.addr)
  /\ Goto(t, "refuse")
  /\ Send({})
  /\ UNCHANGED <<connected, clients, aliases>>

refuse(t) ==
  LET data == t.data IN
  /\ At(t, "refuse")
  /\ \/ /\ t.client # NoSocket
        /\ Send(To(t.client, Alias(data.id, t.addr, FALSE, data.clientConnectionId)))
        /\ End(t)
     \/ t.client = NoSocket /\ Throw(t)
  /\ UNCHANGED <<connected, clients, aliases, addresses>>

introduce_ToClient(t) ==   \* mutant: the connecting client is told to accept
  LET remote == t.data.remoteAlias IN
  /\ At(t, "introduce")
  /\ remote \in DOMAIN aliases
  /\ Send(To(t.client, Alias(t.data.id, t.addr, TRUE, NoConnection)))
  /\ tasks' = (tasks \ {t}) \cup
       {[t EXCEPT !.at = "accept", !.server = t.client, !.owner = aliases[remote].id]}
  /\ UNCHANGED <<connected, clients, aliases, addresses>>

\* The remote alias is read again, after the await of the first send.
introduce(t) ==
  LET remote == t.data.remoteAlias
      owner == IF remote \in DOMAIN aliases THEN aliases[remote].id ELSE NoAddress
      server == Get(owner)
  IN
  /\ At(t, "introduce")
  /\ \/ /\ server # NoSocket
        /\ Send(To(server, Alias(t.data.id, t.addr, TRUE, NoConnection)))
        /\ tasks' = (tasks \ {t}) \cup
             {[t EXCEPT !.at = "accept", !.server = server, !.owner = owner]}
     \/ server = NoSocket /\ Throw(t)
  /\ UNCHANGED <<connected, clients, aliases, addresses>>

accept(t) ==
  /\ At(t, "accept")
  /\ Send(To(t.server, Accept(t.data.remoteAlias, t.addr)))
  /\ Goto(t, "confirm")
  /\ UNCHANGED <<connected, clients, aliases, addresses>>

confirm(t) ==
  LET data == t.data IN
  /\ At(t, "confirm")
  /\ Send(To(t.client, Alias(t.owner, data.remoteAlias, TRUE, data.clientConnectionId)))
  /\ End(t)
  /\ UNCHANGED <<connected, clients, aliases, addresses>>

(***************************************************************************)
(* The close listener of registerGoodbye, after clients.delete(id)         *)
(***************************************************************************)
leave(t) ==
  /\ At(t, "close")
  /\ freeHost(t.data.id)
  /\ Goto(t, "expire")
  /\ Send({})
  /\ UNCHANGED <<connected, clients, aliases>>

expire_NoAliases(t) ==   \* mutant: the aliases of the client stay
  /\ At(t, "expire")
  /\ End(t)
  /\ Send(ToAll(Goodbye(t.data.id)))
  /\ UNCHANGED <<connected, clients, aliases, addresses>>

\* aliases.forEach starts an async callback for each alias and awaits none of
\* them, so the Goodbye goes out first.
expire(t) ==
  LET id == t.data.id
      gone == {alias \in DOMAIN aliases : aliases[alias].id = id}
  IN
  /\ At(t, "expire")
  /\ aliases' = Without(aliases, gone)
  /\ tasks' = (tasks \ {t}) \cup
       {Begin(0, t.sock, "expireHost", [op |-> "expire", id |-> id, alias |-> alias])
          : alias \in gone}
  /\ Send(ToAll(Goodbye(id)))
  /\ UNCHANGED <<connected, clients, addresses>>

expireHost(t) ==
  /\ At(t, "expireHost")
  /\ freeHost(parseIPAddress(t.data.alias))
  /\ Goto(t, "expirePort")
  /\ Send({})
  /\ UNCHANGED <<connected, clients, aliases>>

expirePort(t) ==
  /\ At(t, "expirePort")
  /\ freePort(t.data.alias)
  /\ Goto(t, "retract")
  /\ Send({})
  /\ UNCHANGED <<connected, clients, aliases>>

----
handleKnock(t) == createIPAddress(t) \/ acknowledge(t) \/ greet(t)

handleBind(t) == bind(t) \/ claimTCPAddress(t) \/ register(t)

handleShutdown(t) == shutdown(t) \/ removeTCPAddress(t) \/ removeIPAddress(t) \/ retract(t)

handleConnect(t) == \/ createTCPAddress(t) \/ lookup(t) \/ undo(t) \/ refuse(t)
                    \/ introduce(t) \/ accept(t) \/ confirm(t)

goodbye(t) == leave(t) \/ expire(t) \/ expireHost(t) \/ expirePort(t)

Run(t) == \/ handleKnock(t) \/ handleBind(t) \/ handleAccepting(t) \/ handleShutdown(t)
          \/ handleConnect(t) \/ relay(t) \/ goodbye(t)

Handlers == \E t \in tasks : Run(t)

Next == \/ \E s \in Sockets : Connection(s) \/ Chunk(s)
        \/ \E S \in SUBSET open \ {{}} : Close(S)
        \/ Handlers

\* The microtask queue is drained: a handler whose await is over goes on.
Spec == Init /\ [][Next]_vars /\ WF_vars(Handlers)

----
(***************************************************************************)
(* Properties                                                              *)
(***************************************************************************)

\* An id is only ever registered for a socket that is connected and that will
\* take the id out again when it closes.
ClientsConnected ==
  \A id \in DOMAIN clients : clients[id] \in open /\ id \in goodbyes[clients[id]]

\* Between turns every alias belongs to a client whose socket is connected:
\* none survives its owner, however closes and handlers overlapped. (A client
\* whose knock was refused has no id and no close listener.)
NoOrphanAlias ==
  tasks = {} => \A alias \in DOMAIN aliases :
    \/ aliases[alias].id = NoAddress
    \/ \E s \in open : aliases[alias].id \in goodbyes[s]

\* Between turns every port in use belongs to a registered alias: refused
\* connects, lost clients and colliding binds leave none behind.
NoLeakedPort == tasks = {} => ports \subseteq DOMAIN aliases

\* Between turns every member is the id of a connected client or the host of an
\* alias: departures leave no suffix behind.
NoLeakedSuffix ==
  tasks = {} => \A ip \in members :
    \/ \E s \in open : ip \in goodbyes[s]
    \/ \E alias \in DOMAIN aliases : parseIPAddress(alias) = ip

\* What createIPAddress, createTCPAddress and claimTCPAddress took is given back.
NothingLeaked == NoLeakedPort /\ NoLeakedSuffix

\* Only the client an alias belongs to takes it away, by a shutdown or by
\* leaving.
OnlyOwnerRetracts ==
  [][\A alias \in DOMAIN aliases \ DOMAIN aliases' :
       \E t \in tasks \ tasks' : t.data.id = aliases[alias].id]_vars

\* No two connected clients have one id.
UniqueIds ==
  \A s, r \in open : s # r => goodbyes[s] \cap goodbyes[r] = {}

\* A registered alias keeps its port, until its owner leaves.
AliasesHoldPorts ==
  \A alias \in DOMAIN aliases \ ports :
    \E t \in tasks : t.at = "expire" /\ t.data.id = aliases[alias].id

\* An alias stays with the client it was registered for: no connect is given
\* the port of an alias in use.
AliasKept ==
  [][\A alias \in DOMAIN aliases \cap DOMAIN aliases' :
       aliases'[alias].id = aliases[alias].id]_vars

\* Accept is sent to the client that owns the bound alias, and the alias of the
\* connection that it names is registered.
AcceptReachesOwner ==
  \A m \in sent : m.message.op = "accept" =>
    /\ m.message.clientAlias \in DOMAIN aliases
    /\ \E id \in DOMAIN clients : clients[id] = m.to /\ owns(id, m.message.boundAlias)

Received(s, message(_)) == \E m \in sent : m.to = s /\ message(m.message)

\* Every knock is answered, by an id or by a refusal.
EveryKnockAnswered ==
  \A s \in Sockets :
    (\E t \in tasks : t.at = "knock" /\ t.sock = s)
      ~> Received(s, LAMBDA m : m.op = "acknowledgement")

\* Every connect is answered: by the alias of the remote end, which completes
\* the handshake, or by the retraction of the client's own.
EveryConnectAnswered ==
  \A s \in Sockets, remote \in BindAliases :
    (\E t \in tasks : t.at = "connect" /\ t.sock = s /\ t.data.remoteAlias = remote)
      ~> Received(s, LAMBDA m : /\ m.op = "alias" /\ m.clientConnectionId # NoConnection
                                /\ ~ m.set \/ m.alias = remote)

\* No request that promises an answer waits for ever.
EveryRequestAnswered == EveryKnockAnswered /\ EveryConnectAnswered

\* When a client leaves, every client that stays hears of it, and hears that
\* each alias the client had bound is gone.
DepartureAnnounced ==
  \A s \in Sockets, alias \in BindAliases :
    LET stays == \E id \in DOMAIN clients : clients[id] = s
        ownerLeaves == \E t \in tasks : t.at = "close" /\ owns(t.data.id, alias)
    IN  /\ (stays /\ ownerLeaves) ~> Received(s, LAMBDA m : m.op = "goodbye")
        /\ (stays /\ ownerLeaves)
             ~> Received(s, LAMBDA m : m.op = "alias" /\ m.alias = alias /\ ~ m.set)

====
