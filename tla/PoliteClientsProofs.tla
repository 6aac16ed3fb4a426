---- MODULE PoliteClientsProofs ----
(***************************************************************************)
(* What the signaling server keeps true for polite clients. A shutdown or  *)
(* a departure frees the host of each alias that ends, whoever else is on  *)
(* that host; polite clients see to it that nobody is. Then no id is given *)
(* to two clients, no alias loses its port or passes to another client,    *)
(* and a connection is announced to the owner of the alias it names.       *)
(***************************************************************************)
EXTENDS SignalingServerProofs

\* An id that a connected client has.
Connected(id) == \E s \in open : id \in goodbyes[s]

\* The three kinds of turn.
ExpiryPlaces  == {"expireHost", "expirePort"}
ClosePlaces   == LeavePlaces \cup ExpiryPlaces
RequestPlaces == Places \ (KnockPlaces \cup ClosePlaces)

TurnsApart ==
  \/ \A t \in tasks : t.at \in KnockPlaces
  \/ \A t \in tasks : t.at \in ClosePlaces \cup {"retract"}
  \/ \A t \in tasks : t.at \in RequestPlaces

\* A socket that has closed has no ids left, and the ids of the others are in use.
IdsHosted ==
  /\ \A s \in Sockets \ open : goodbyes[s] = {}
  /\ \A s \in open : goodbyes[s] \subseteq members

\* The id a knock is about to be answered with is nobody's, and its host is empty.
IdsFresh ==
  \A t \in tasks : t.at \in {"acknowledge", "greet"} /\ t.addr # NoAddress =>
    /\ t.addr \in members /\ ~ Connected(t.addr)
    /\ \A alias \in DOMAIN aliases : parseIPAddress(alias) # t.addr
    /\ \A u \in tasks \ {t} : u.at \in {"acknowledge", "greet"} => u.addr # t.addr

IdsGone == \A t \in tasks : t.at \in LeavePlaces => ~ Connected(t.data.id)

\* A bind that is under way, of an alias that is not taken.
Binds(t) ==
  t.at \in {"claim", "register"} \/ (t.at = "bind" /\ t.data.alias \notin DOMAIN aliases)

\* On the host of a client nobody else has an alias, or asks for one.
HostsOwned ==
  /\ \A alias \in DOMAIN aliases :
       Connected(parseIPAddress(alias)) \/ Departing(parseIPAddress(alias)) =>
         aliases[alias].id = parseIPAddress(alias)
  /\ \A t \in tasks :
       Binds(t) /\ Connected(parseIPAddress(t.data.alias)) =>
         t.data.id = parseIPAddress(t.data.alias)

\* Only a client on its own host has, or asks for, several aliases on one host.
HostsApart ==
  /\ \A a, b \in DOMAIN aliases :
       a # b /\ parseIPAddress(a) = parseIPAddress(b) => aliases[a].id = parseIPAddress(a)
  /\ \A a \in DOMAIN aliases, t \in tasks :
       Binds(t) /\ parseIPAddress(a) = parseIPAddress(t.data.alias) =>
         aliases[a].id = parseIPAddress(a) /\ t.data.id = parseIPAddress(a)
  /\ \A t, u \in tasks :
       /\ t # u /\ Binds(t) /\ Binds(u)
       /\ parseIPAddress(t.data.alias) = parseIPAddress(u.data.alias)
       => t.data.id = parseIPAddress(t.data.alias)

\* The host that is freed with an alias is no client's, and holds no other alias.
Empty(h) ==
  /\ \A alias \in DOMAIN aliases : parseIPAddress(alias) # h
  /\ \A t \in tasks : Binds(t) => parseIPAddress(t.data.alias) # h

HostsEmpty ==
  \A t \in tasks :
    /\ t.at \in {"shutdown", "freePort", "freeHost"} \cup ExpiryPlaces =>
         ~ Connected(parseIPAddress(t.data.alias))
    /\ t.at \in {"freePort", "freeHost"} \cup ExpiryPlaces => Empty(parseIPAddress(t.data.alias))

\* Nobody asks, in one turn, for an alias that is being shut down.
RequestsApart ==
  \A t, u \in tasks : t.at = "bind" /\ u.at = "shutdown" => u.data.alias # t.data.alias

\* A port that a task is about to register, or give back, is in use by that task alone.
Holds(t, p) ==
  \/ t.at = "register" /\ t.data.alias = p
  \/ t.at \in {"lookup", "undo"} /\ t.addr = p

PortsHeld ==
  \A t \in tasks : \A p \in TCPAddresses : Holds(t, p) =>
    p \in ports \ DOMAIN aliases /\ \A u \in tasks \ {t} : ~ Holds(u, p)

\* The alias of a connection is on the host of the client that connects.
ConnectsOwned ==
  \A t \in tasks : t.at \in CreatedPlaces =>
    parseIPAddress(t.addr) = t.data.id /\ Connected(t.data.id)

\* Both aliases of a connection stay while the two ends are told of them.
ConnectsTrue ==
  /\ \A t \in tasks :
       /\ t.at \in {"introduce", "accept"} =>
            t.addr \in DOMAIN aliases /\ t.data.remoteAlias \in DOMAIN aliases
       /\ t.at = "accept" =>
            /\ t.owner \in DOMAIN clients /\ clients[t.owner] = t.server
            /\ owns(t.owner, t.data.remoteAlias)
  /\ \A t, u \in tasks :
       t.at \in ConnectPlaces /\ u.at = "shutdown" => u.data.alias # t.data.remoteAlias

PoliteInv ==
  /\ TurnsApart /\ IdsHosted /\ UniqueIds /\ IdsFresh /\ IdsGone
  /\ HostsOwned /\ HostsApart /\ HostsEmpty /\ RequestsApart
  /\ PortsHeld /\ AliasesHoldPorts /\ ConnectsOwned /\ ConnectsTrue

----
(***************************************************************************)
(* The steps of the handlers                                               *)
(***************************************************************************)
\* From one step of a handler to the next.
Edges ==
  {<<"knock", "acknowledge">>, <<"acknowledge", "greet">>,
   <<"bind", "claim">>, <<"claim", "register">>,
   <<"shutdown", "freePort">>, <<"freePort", "freeHost">>, <<"freeHost", "retract">>,
   <<"connect", "lookup">>, <<"lookup", "undo">>, <<"undo", "refuse">>,
   <<"lookup", "introduce">>, <<"introduce", "accept">>, <<"accept", "confirm">>,
   <<"close", "expire">>, <<"expire", "expireHost">>, <<"expireHost", "expirePort">>,
   <<"expirePort", "retract">>}

Continues(t, u) ==
  /\ <<t.at, u.at>> \in Edges
  /\ t.at # "expire" => u.data = t.data
  /\ t.at \notin {"knock", "connect", "expire"} => u.addr = t.addr

\* A handler goes on with its message; only expire starts more than one.
LEMMA RunContinues ==
  ASSUME TasksTyped, NEW t \in tasks, Run(t)
  PROVE  /\ t \notin tasks'
         /\ \A u \in tasks' : u \in tasks \/ Continues(t, u)
         /\ \A u, v \in tasks' \ tasks : u = v \/ t.at = "expire"
<1>0. t \in Tasks
  BY DEF TasksTyped, TaskOK
<1>1. t \notin tasks' /\ tasks' \ (tasks \ {t}) = tasks' \ tasks
  BY Successors DEF Follows
<1> DEFINE Single(u) == tasks' = tasks \ {t} \/ tasks' = (tasks \ {t}) \cup {u}
<1>2. ASSUME NEW u, Single(u), Continues(t, u)
      PROVE  /\ \A v \in tasks' : v \in tasks \/ Continues(t, v)
             /\ \A v, w \in tasks' \ tasks : v = w
  BY <1>2
<1>3. ASSUME NEW place, <<t.at, place>> \in Edges,
             t.at \notin {"knock", "connect", "expire"},
             NEW u, u \in Tasks, u.at = place, u.data = t.data, u.addr = t.addr
      PROVE  Continues(t, u)
  BY <1>3 DEF Continues
<1>4. ASSUME NEW place \in Places
      PROVE  /\ [t EXCEPT !.at = place] \in Tasks /\ [t EXCEPT !.at = place].at = place
             /\ [t EXCEPT !.at = place].data = t.data /\ [t EXCEPT !.at = place].addr = t.addr
  BY <1>0, TaskMoves
<1>5. ASSUME NEW place \in Places, <<t.at, place>> \in Edges,
             t.at \notin {"knock", "connect", "expire"}, End(t) \/ Goto(t, place)
      PROVE  /\ \A v \in tasks' : v \in tasks \/ Continues(t, v)
             /\ \A v, w \in tasks' \ tasks : v = w
  <2> DEFINE u == [t EXCEPT !.at = place]
  <2>1. Continues(t, u)
    BY <1>3, <1>4, <1>5
  <2>2. Single(u)
    BY <1>5 DEF End, Goto
  <2> HIDE DEF u, Single
  <2> QED
    BY <1>2, <2>1, <2>2
<1> USE DEF At
<1>6. CASE createIPAddress(t)
  <2> DEFINE id == toIPAddress(t.data.subnet, FirstGap(Suffixes(members, t.data.subnet)))
             a == IF FirstGap(Suffixes(members, t.data.subnet)) > MaxSuffix
                    THEN NoAddress ELSE id
             u == [t EXCEPT !.at = "acknowledge", !.addr = a]
  <2>1. tasks' = (tasks \ {t}) \cup {u} /\ t.at = "knock"
    BY <1>6 DEF createIPAddress
  <2> HIDE DEF a
  <2>2. u.at = "acknowledge" /\ u.data = t.data
    BY <1>0 DEF Tasks
  <2> HIDE DEF u
  <2>3. Continues(t, u)
    BY <2>1, <2>2 DEF Continues, Edges
  <2> QED
    BY <1>1, <1>2, <2>1, <2>3
<1>7. CASE \/ greet(t) \/ register(t) \/ handleAccepting(t) \/ retract(t) \/ refuse(t)
           \/ confirm(t) \/ relay(t)
  BY <1>1, <1>7
  DEF greet, register, handleAccepting, retract, refuse, confirm, relay, Throw, End
<1>8. CASE acknowledge(t)
  BY <1>1, <1>5, <1>8 DEF acknowledge, Places, Edges
<1>9. CASE bind(t)
  BY <1>1, <1>5, <1>9 DEF bind, Throw, Places, Edges
<1>10. CASE claimTCPAddress(t)
  BY <1>1, <1>5, <1>10 DEF claimTCPAddress, Throw, Places, Edges
<1>11. CASE shutdown(t)
  BY <1>1, <1>5, <1>11 DEF shutdown, Throw, Places, Edges
<1>12. CASE removeTCPAddress(t)
  BY <1>1, <1>5, <1>12 DEF removeTCPAddress, Places, Edges
<1>13. CASE removeIPAddress(t)
  BY <1>1, <1>5, <1>13 DEF removeIPAddress, Places, Edges
<1>14. CASE undo(t)
  BY <1>1, <1>5, <1>14 DEF undo, Places, Edges
<1>15. CASE accept(t)
  BY <1>1, <1>5, <1>15 DEF accept, Places, Edges
<1>16. CASE leave(t)
  BY <1>1, <1>5, <1>16 DEF leave, Places, Edges
<1>17. CASE expireHost(t)
  BY <1>1, <1>5, <1>17 DEF expireHost, Places, Edges
<1>18. CASE expirePort(t)
  BY <1>1, <1>5, <1>18 DEF expirePort, Places, Edges
<1>19. CASE createTCPAddress(t)
  <2> DEFINE ip == parseIPAddress(t.data.id)
             tcp == toTCPAddress(ip, FirstGap(PortsOf(ports, ip)))
             u == [t EXCEPT !.at = "lookup", !.addr = tcp]
  <2>1. Single(u) /\ t.at = "connect"
    BY <1>19 DEF createTCPAddress, Throw, End
  <2> HIDE DEF tcp
  <2>2. u.at = "lookup" /\ u.data = t.data
    BY <1>0 DEF Tasks
  <2> HIDE DEF u
  <2>3. Continues(t, u)
    BY <2>1, <2>2 DEF Continues, Edges
  <2> HIDE DEF Single
  <2> QED
    BY <1>1, <1>2, <2>1, <2>3
<1>20. CASE lookup(t)
  <2> DEFINE u(place) == [t EXCEPT !.at = place, !.client = Get(t.data.id)]
  <2>1. t.at = "lookup" /\ (Single(u("undo")) \/ Single(u("introduce")))
    BY <1>20 DEF lookup, Throw, End
  <2>2. ASSUME NEW place \in {"undo", "introduce"}
        PROVE  u(place).at = place /\ u(place).data = t.data /\ u(place).addr = t.addr
    BY <1>0 DEF Tasks
  <2> HIDE DEF u, Single
  <2>3. Continues(t, u("undo")) /\ Continues(t, u("introduce"))
    BY <2>1, <2>2 DEF Continues, Edges
  <2> QED
    BY <1>1, <1>2, <2>1, <2>3
<1>21. CASE introduce(t)
  <2> DEFINE remote == t.data.remoteAlias
             owner == IF remote \in DOMAIN aliases THEN aliases[remote].id ELSE NoAddress
             u == [t EXCEPT !.at = "accept", !.server = Get(owner), !.owner = owner]
  <2>1. Single(u) /\ t.at = "introduce"
    BY <1>21 DEF introduce, Throw, End
  <2> HIDE DEF owner, Single
  <2>2. u.at = "accept" /\ u.data = t.data /\ u.addr = t.addr
    BY <1>0 DEF Tasks
  <2> HIDE DEF u
  <2>3. Continues(t, u)
    BY <2>1, <2>2 DEF Continues, Edges
  <2> QED
    BY <1>1, <1>2, <2>1, <2>3
<1>22. CASE expire(t)
  BY <1>0, <1>1, <1>22 DEF expire, Begin, Continues, Edges
<1> QED
  BY <1>1, <1>6, <1>7, <1>8, <1>9, <1>10, <1>11, <1>12, <1>13, <1>14, <1>15, <1>16, <1>17,
     <1>18, <1>19, <1>20, <1>21, <1>22
  DEF Run, handleKnock, handleBind, handleShutdown, handleConnect, goodbye

\* The step that a handler is at is the one that runs.
LEMMA RunsAt ==
  ASSUME NEW t, Run(t)
  PROVE  /\ t.at = "knock" => createIPAddress(t)
         /\ t.at = "acknowledge" => acknowledge(t)
         /\ t.at = "greet" <=> greet(t)
         /\ t.at = "bind" <=> bind(t)
         /\ t.at = "claim" <=> claimTCPAddress(t)
         /\ t.at = "register" <=> register(t)
         /\ t.at = "accepting" <=> handleAccepting(t)
         /\ t.at = "shutdown" <=> shutdown(t)
         /\ t.at = "freePort" => removeTCPAddress(t)
         /\ t.at = "freeHost" => removeIPAddress(t)
         /\ t.at = "connect" => createTCPAddress(t)
         /\ t.at = "lookup" <=> lookup(t)
         /\ t.at = "undo" => undo(t)
         /\ t.at = "retract" => retract(t)
         /\ t.at = "refuse" => refuse(t)
         /\ t.at = "introduce" => introduce(t)
         /\ t.at = "accept" => accept(t)
         /\ t.at = "confirm" => confirm(t)
         /\ t.at \in {"offer", "answer", "candidate"} => relay(t)
         /\ t.at = "close" => leave(t)
         /\ t.at = "expire" <=> expire(t)
         /\ t.at = "expireHost" => expireHost(t)
         /\ t.at = "expirePort" => expirePort(t)
  BY DEF Run, handleKnock, handleBind, handleShutdown, handleConnect, goodbye, At,
     createIPAddress, acknowledge, greet, bind, claimTCPAddress, register, handleAccepting,
     shutdown, removeTCPAddress, removeIPAddress, retract, createTCPAddress, lookup, undo,
     refuse, introduce, accept, confirm, relay, leave, expire, expireHost, expirePort

\* Only a greeting connects an id.
LEMMA RunConnected ==
  ASSUME TasksTyped, DataTyped, AskersPresent, NEW t \in tasks, Run(t)
  PROVE  /\ open' = open
         /\ t.at # "greet" => goodbyes' = goodbyes /\ clients' = clients
         /\ t.at = "greet" =>
              /\ t.sock \in open /\ t.addr \in IPAddresses
              /\ \A s \in Sockets :
                   goodbyes'[s] = IF s = t.sock THEN goodbyes[s] \cup {t.addr} ELSE goodbyes[s]
         /\ \A id : Connected(id)' <=> Connected(id) \/ (t.at = "greet" /\ id = t.addr)
<1>1. open' = open
  BY RunKeepsPresent
<1>2. t.at # "greet" => goodbyes' = goodbyes /\ clients' = clients
  BY RunsAt
  DEF Run, handleKnock, handleBind, handleShutdown, handleConnect, goodbye, connected,
     createIPAddress, acknowledge, greet, bind, claimTCPAddress, register, handleAccepting,
     shutdown, removeTCPAddress, removeIPAddress, retract, createTCPAddress, lookup, undo,
     refuse, introduce, accept, confirm, relay, leave, expire, expireHost, expirePort
<1>3. ASSUME t.at = "greet"
      PROVE  /\ t.sock \in open /\ t.sock \in Sockets /\ t.addr \in IPAddresses
             /\ \A s \in Sockets :
                  goodbyes'[s] = IF s = t.sock THEN goodbyes[s] \cup {t.addr} ELSE goodbyes[s]
  <2>1. goodbyes' = [goodbyes EXCEPT ![t.sock] = @ \cup {t.addr}]
    BY <1>3, RunsAt DEF greet
  <2>2. t.sock \in open /\ t.sock \in Sockets /\ t.addr \in IPAddresses
    BY <1>3 DEF AskersPresent, KnockPlaces, DataTyped, TasksTyped, TaskOK
  <2> QED
    BY <2>1, <2>2 DEF DataTyped
<1>4. ASSUME NEW id
      PROVE  Connected(id)' <=> Connected(id) \/ (t.at = "greet" /\ id = t.addr)
  <2>1. CASE t.at = "greet"
    <3>1. \A s \in open : s \in Sockets
      BY DEF DataTyped
    <3> QED
      BY <1>1, <1>3, <2>1, <3>1 DEF Connected
  <2>2. CASE t.at # "greet"
    BY <1>1, <1>2, <2>2 DEF Connected
  <2> QED
    BY <2>1, <2>2
<1> QED
  BY <1>1, <1>2, <1>3, <1>4

\* What a handler takes along from one step to the next.
Brings(t, u) ==
  /\ u.sock = t.sock
  /\ t.at = "knock" =>
       \/ u.addr = NoAddress
       \/ \E n \in 0 .. MaxSuffix : u.addr = toIPAddress(t.data.subnet, n)
  /\ t.at = "lookup" => u.client = Get(t.data.id)
  /\ t.at \in {"undo", "introduce", "accept"} => u.client = t.client
  /\ t.at = "accept" => u.owner = t.owner
  /\ t.at = "expire" => u.data.op = "expire" /\ u.data.id = t.data.id

LEMMA RunBrings ==
  ASSUME TasksTyped, DataTyped, NEW t \in tasks, Run(t), NEW u \in tasks' \ tasks
  PROVE  Brings(t, u)
<1>0. t \in Tasks
  BY DEF TasksTyped, TaskOK
<1>1. u.sock = t.sock /\ Continues(t, u)
  BY Successors, RunContinues DEF Follows
<1>2. CASE t.at = "knock"
  <2> DEFINE n == FirstGap(Suffixes(members, t.data.subnet))
             a == IF n > MaxSuffix THEN NoAddress ELSE toIPAddress(t.data.subnet, n)
  <2>1. u = [t EXCEPT !.at = "acknowledge", !.addr = a]
    BY <1>2, RunsAt DEF createIPAddress
  <2>2. n \in Nat
    BY NumbersInUse, FirstGapIsLeastFree DEF DataTyped
  <2> HIDE DEF n
  <2>3. a = NoAddress \/ \E k \in 0 .. MaxSuffix : a = toIPAddress(t.data.subnet, k)
    BY <2>2, AddressesAssumption
  <2> HIDE DEF a
  <2>4. u.addr = a
    BY <1>0, <2>1 DEF Tasks
  <2> QED
    BY <1>1, <1>2, <2>3, <2>4 DEF Brings
<1>3. CASE t.at = "lookup"
  <2>1. \/ u = [t EXCEPT !.at = "undo", !.client = Get(t.data.id)]
        \/ u = [t EXCEPT !.at = "introduce", !.client = Get(t.data.id)]
    BY <1>3, RunsAt DEF lookup, Throw, End
  <2>2. u.client = Get(t.data.id)
    BY <1>0, <2>1 DEF Tasks
  <2> QED
    BY <1>1, <1>3, <2>2 DEF Brings
<1>4. CASE t.at \in {"undo", "accept"}
  <2>1. \E place : u = [t EXCEPT !.at = place]
    BY <1>4, RunsAt DEF undo, accept, Goto
  <2>2. u.client = t.client /\ u.owner = t.owner
    BY <1>0, <2>1 DEF Tasks
  <2> QED
    BY <1>1, <1>4, <2>2 DEF Brings
<1>5. CASE t.at = "introduce"
  <2> DEFINE remote == t.data.remoteAlias
             owner == IF remote \in DOMAIN aliases THEN aliases[remote].id ELSE NoAddress
  <2>1. u = [t EXCEPT !.at = "accept", !.server = Get(owner), !.owner = owner]
    BY <1>5, RunsAt DEF introduce, Throw, End
  <2> HIDE DEF owner
  <2>2. u.client = t.client
    BY <1>0, <2>1 DEF Tasks
  <2> QED
    BY <1>1, <1>5, <2>2 DEF Brings
<1>6. CASE t.at = "expire"
  <2>1. \E alias : u = Begin(0, t.sock, "expireHost", [op |-> "expire", id |-> t.data.id, alias |-> alias])
    BY <1>6, RunsAt DEF expire
  <2>2. u.data.op = "expire" /\ u.data.id = t.data.id
    BY <2>1 DEF Begin
  <2> QED
    BY <1>1, <1>6, <2>2 DEF Brings
<1> QED
  BY <1>1, <1>2, <1>3, <1>4, <1>5, <1>6 DEF Brings

\* A socket is told once that its subnet is full.
LEMMA RunRefused ==
  ASSUME NEW t \in tasks, Run(t)
  PROVE  \/ refused' = refused
         \/ t.at = "acknowledge" /\ t.addr = NoAddress /\ refused' = refused \cup {t.sock}
<1>1. CASE t.at = "acknowledge"
  BY <1>1, RunsAt DEF acknowledge
<1>2. CASE t.at # "acknowledge"
  BY <1>2
  DEF Run, handleKnock, handleBind, handleShutdown, handleConnect, goodbye, connected, At,
     createIPAddress, acknowledge, greet, bind, claimTCPAddress, register, handleAccepting,
     shutdown, removeTCPAddress, removeIPAddress, retract, createTCPAddress, lookup, undo,
     refuse, introduce, accept, confirm, relay, leave, expire, expireHost, expirePort
<1> QED
  BY <1>1, <1>2

\* A knock is answered, and then greeted, or refused.
LEMMA KnockGoesOn ==
  ASSUME TasksTyped, NEW t \in tasks, Run(t)
  PROVE  /\ t.at = "knock" => \E u \in tasks' : u.at = "acknowledge" /\ u.sock = t.sock
         /\ t.at = "acknowledge" /\ t.addr # NoAddress =>
              \E u \in tasks' : u.at = "greet" /\ u.sock = t.sock /\ u.addr = t.addr
         /\ t.at = "acknowledge" /\ t.addr = NoAddress => refused' = refused \cup {t.sock}
         /\ t.at = "greet" =>
              /\ DOMAIN clients' = DOMAIN clients \cup {t.addr}
              /\ \A i \in DOMAIN clients' :
                   clients'[i] = IF i = t.addr THEN t.sock ELSE clients[i]
<1>1. t \in Tasks
  BY DEF TasksTyped, TaskOK
<1>2. CASE t.at = "knock"
  <2>1. \E a : tasks' = (tasks \ {t}) \cup {[t EXCEPT !.at = "acknowledge", !.addr = a]}
    BY <1>2, RunsAt DEF createIPAddress
  <2>2. PICK a : tasks' = (tasks \ {t}) \cup {[t EXCEPT !.at = "acknowledge", !.addr = a]}
    BY <2>1
  <2>3. /\ [t EXCEPT !.at = "acknowledge", !.addr = a].at = "acknowledge"
        /\ [t EXCEPT !.at = "acknowledge", !.addr = a].sock = t.sock
    BY <1>1 DEF Tasks
  <2> QED
    BY <1>2, <2>2, <2>3
<1>3. CASE t.at = "acknowledge"
  <2>1. /\ [t EXCEPT !.at = "greet"].at = "greet" /\ [t EXCEPT !.at = "greet"].sock = t.sock
        /\ [t EXCEPT !.at = "greet"].addr = t.addr
    BY <1>1 DEF Tasks
  <2> QED
    BY <1>3, <2>1, RunsAt DEF acknowledge, Goto
<1>4. CASE t.at = "greet"
  <2>1. clients' = [x \in DOMAIN clients \cup {t.addr} |-> IF x = t.addr THEN t.sock ELSE clients[x]]
    BY <1>4, RunsAt DEF greet, Put
  <2>2. DOMAIN clients' = DOMAIN clients \cup {t.addr}
    BY <2>1, Zenon
  <2>3. \A i \in DOMAIN clients \cup {t.addr} :
          clients'[i] = IF i = t.addr THEN t.sock ELSE clients[i]
    BY <2>1, Zenon
  <2> QED
    BY <1>4, <2>2, <2>3
<1> QED
  BY <1>2, <1>3, <1>4

\* The steps that register an alias, and those that take one away.
Registers(t, a) ==
  \/ t.at = "register" /\ a = t.data.alias
  \/ t.at = "lookup" /\ a = t.addr /\ accepting(t.data.remoteAlias)

Retracts(t, a) ==
  /\ aliases[a].id = t.data.id
  /\ t.at = "expire" \/ (t.at = "shutdown" /\ a = t.data.alias)

\* An alias keeps its owner or is registered by this step, and goes only when this
\* step retracts it.
LEMMA RunChangesAliases ==
  ASSUME DataTyped, NEW t \in tasks, Run(t)
  PROVE  /\ t.at \notin {"register", "accepting", "shutdown", "lookup", "expire"} =>
              aliases' = aliases
         /\ \A a \in DOMAIN aliases' :
              \/ a \in DOMAIN aliases /\ aliases'[a].id = aliases[a].id
              \/ Registers(t, a) /\ aliases'[a].id = t.data.id
         /\ \A a \in DOMAIN aliases : a \in DOMAIN aliases' <=> ~ Retracts(t, a)
         /\ \A a : Registers(t, a) => a \in DOMAIN aliases'
<1>1. CASE t.at \notin {"register", "accepting", "shutdown", "lookup", "expire"}
  <2>1. aliases' = aliases
    BY <1>1, RunsAt, AliasesUnchanged DEF ChangesAliases
  <2> QED
    BY <1>1, <2>1 DEF Retracts, Registers
<1>2. CASE t.at = "register"
  <2>1. register(t)
    BY <1>2, RunsAt
  <2> QED
    BY <1>2, <2>1 DEF register, Put, Registers, Retracts
<1>3. CASE t.at = "accepting"
  <2>1. handleAccepting(t)
    BY <1>3, RunsAt
  <2>2. \/ aliases' = aliases
        \/ /\ t.data.alias \in DOMAIN aliases
           /\ aliases' = [aliases EXCEPT ![t.data.alias].accepting = TRUE]
    BY <2>1 DEF handleAccepting, owns
  <2> QED
    BY <1>3, <2>2 DEF Registers, Retracts, DataTyped, MAliases
<1>4. CASE t.at = "shutdown"
  <2>1. shutdown(t)
    BY <1>4, RunsAt
  <2>2. CASE owns(t.data.id, t.data.alias)
    <3>1. aliases' = [a \in DOMAIN aliases \ {t.data.alias} |-> aliases[a]]
      BY <2>1, <2>2 DEF shutdown, Without, Restrict
    <3> QED
      BY <1>4, <2>2, <3>1 DEF owns, Registers, Retracts
  <2>3. CASE ~ owns(t.data.id, t.data.alias)
    <3>1. aliases' = aliases
      BY <2>1, <2>3 DEF shutdown
    <3> QED
      BY <1>4, <2>3, <3>1 DEF owns, Registers, Retracts
  <2> QED
    BY <2>2, <2>3
<1>5. CASE t.at = "lookup"
  <2>1. lookup(t)
    BY <1>5, RunsAt
  <2> QED
    BY <1>5, <2>1 DEF lookup, Put, Registers, Retracts
<1>6. CASE t.at = "expire"
  <2>1. expire(t)
    BY <1>6, RunsAt
  <2> QED
    BY <1>6, <2>1 DEF expire, Without, Restrict, Registers, Retracts
<1> QED
  BY <1>1, <1>2, <1>3, <1>4, <1>5, <1>6

\* The steps that give addresses back, and which.
FreesPort(t, p) ==
  \/ t.at \in {"freePort", "expirePort"} /\ p = t.data.alias
  \/ t.at \in {"freeHost", "expireHost"} /\ parseIPAddress(p) = parseIPAddress(t.data.alias)
  \/ t.at = "close" /\ parseIPAddress(p) = t.data.id
  \/ t.at = "undo" /\ p = t.addr

FreesHost(t, ip) ==
  \/ t.at \in {"freeHost", "expireHost"} /\ ip = parseIPAddress(t.data.alias)
  \/ t.at = "close" /\ ip = t.data.id

\* No other port or host is given back.
LEMMA RunFrees ==
  ASSUME NEW t \in tasks, Run(t)
  PROVE  /\ \A p \in ports \ ports' : FreesPort(t, p)
         /\ \A ip \in members \ members' : FreesHost(t, ip)
<1> DEFINE Kept == \A p \in ports \ ports' : FreesPort(t, p)
           Stay == \A ip \in members \ members' : FreesHost(t, ip)
<1> USE DEF At
<1>1. CASE ~ ChangesAddresses(t)
  BY <1>1, AddressesUnchanged
<1>2. CASE createIPAddress(t) \/ claimTCPAddress(t) \/ createTCPAddress(t)
  <2>1. ports \subseteq ports' /\ members \subseteq members'
    BY <1>2 DEF createIPAddress, claimTCPAddress, createTCPAddress
  <2> QED
    BY <2>1
<1>3. CASE undo(t) \/ removeTCPAddress(t) \/ expirePort(t)
  BY <1>3 DEF undo, removeTCPAddress, expirePort, freePort, FreesPort
<1>4. CASE removeIPAddress(t) \/ leave(t) \/ expireHost(t)
  BY <1>4 DEF removeIPAddress, leave, expireHost, freeHost, FreesPort, FreesHost
<1> QED
  BY <1>1, <1>2, <1>3, <1>4 DEF ChangesAddresses

\* What a handler has when it goes on.
Gains(t, u) ==
  /\ u.at = "acknowledge" => u.addr = NoAddress \/ u.addr \in members' \ members
  /\ u.at = "greet" => u.addr # NoAddress
  /\ u.at = "register" => u.data.alias \in ports' \ ports
  /\ u.at = "lookup" =>
       /\ u.addr \in ports' \ ports
       /\ parseIPAddress(u.addr) = parseIPAddress(u.data.id)
       /\ parseIPAddress(u.data.id) \in members
  /\ u.at = "undo" => ~ accepting(u.data.remoteAlias)
  /\ u.at = "introduce" =>
       u.addr \in DOMAIN aliases' /\ u.data.remoteAlias \in DOMAIN aliases'
  /\ u.at = "accept" =>
       /\ u.owner \in DOMAIN clients /\ clients[u.owner] = u.server
       /\ owns(u.owner, u.data.remoteAlias)
  /\ u.at \in {"freePort", "expireHost"} =>
       u.data.alias \in DOMAIN aliases /\ Retracts(t, u.data.alias)

\* Every step that a handler goes on to finds what it needs.
LEMMA RunGains ==
  ASSUME TasksTyped, DataTyped, ClientsConnected, NEW t \in tasks, Run(t),
         NEW u \in tasks' \ tasks
  PROVE  Gains(t, u)
<1>0. t \in Tasks /\ TaskOK(t)
  BY DEF TasksTyped, TaskOK
<1>1. Continues(t, u)
  BY RunContinues
<1>2. CASE u.at = "acknowledge"
  <2> DEFINE suffix == FirstGap(Suffixes(members, t.data.subnet))
             id == toIPAddress(t.data.subnet, suffix)
             a == IF suffix > MaxSuffix THEN NoAddress ELSE id
  <2>1. t.at = "knock" /\ createIPAddress(t)
    BY <1>1, <1>2, RunsAt DEF Continues, Edges
  <2>2. u = [t EXCEPT !.at = "acknowledge", !.addr = a]
    BY <2>1 DEF createIPAddress
  <2>3. members' = IF suffix > MaxSuffix THEN members ELSE members \cup {id}
    BY <2>1 DEF createIPAddress
  <2>4. t.data.subnet \in Subnets
    BY <1>0, <2>1 DEF TaskOK, KnockPlaces
  <2>5. Suffixes(members, t.data.subnet) \in SUBSET Nat
        /\ IsFiniteSet(Suffixes(members, t.data.subnet))
    BY NumbersInUse DEF DataTyped
  <2>6. suffix \notin Suffixes(members, t.data.subnet)
    BY <2>5, FirstGapIsLeastFree
  <2>7. id.subnet = t.data.subnet /\ id.suffix = suffix
    BY DEF toIPAddress
  <2> HIDE DEF suffix, id
  <2>8. id \notin members
    BY <2>6, <2>7 DEF Suffixes
  <2>9. a = NoAddress \/ a \in members' \ members
    BY <2>3, <2>8
  <2> HIDE DEF a
  <2>10. u.addr = a
    BY <1>0, <2>2 DEF Tasks
  <2> QED
    BY <1>2, <2>9, <2>10 DEF Gains
<1>3. CASE u.at = "greet"
  <2>1. t.at = "acknowledge" /\ acknowledge(t) /\ u.addr = t.addr
    BY <1>1, <1>3, RunsAt DEF Continues, Edges
  <2> QED
    BY <1>3, <2>1 DEF acknowledge, End, Gains
<1>4. CASE u.at = "register"
  <2>1. t.at = "claim" /\ claimTCPAddress(t) /\ u.data = t.data
    BY <1>1, <1>4, RunsAt DEF Continues, Edges
  <2> QED
    BY <1>4, <2>1 DEF claimTCPAddress, Throw, End, Gains
<1>5. CASE u.at = "lookup"
  <2> DEFINE ip == parseIPAddress(t.data.id)
             gap == FirstGap(PortsOf(ports, ip))
             tcp == toTCPAddress(ip, gap)
  <2>1. t.at = "connect" /\ createTCPAddress(t) /\ u.data = t.data
    BY <1>1, <1>5, RunsAt DEF Continues, Edges
  <2>2. /\ ip \in members /\ ports' = ports \cup {tcp}
        /\ u = [t EXCEPT !.at = "lookup", !.addr = tcp]
    BY <2>1 DEF createTCPAddress, Throw, End
  <2>3. tcp \in TCPAddresses /\ parseIPAddress(tcp) = ip
    BY <2>2, FreePort
  <2>4. PortsOf(ports, ip) \in SUBSET Nat /\ IsFiniteSet(PortsOf(ports, ip))
    BY NumbersInUse DEF DataTyped
  <2>5. gap \notin PortsOf(ports, ip)
    BY <2>4, FirstGapIsLeastFree
  <2>6. tcp.port = gap
    BY DEF toTCPAddress
  <2> HIDE DEF gap, tcp
  <2>7. tcp \notin ports
    BY <2>3, <2>5, <2>6 DEF PortsOf
  <2>8. u.addr = tcp
    BY <1>0, <2>2 DEF Tasks
  <2> QED
    BY <1>5, <2>1, <2>2, <2>3, <2>7, <2>8 DEF Gains
<1>6. CASE u.at \in {"undo", "introduce"}
  <2> DEFINE v(place) == [t EXCEPT !.at = place, !.client = Get(t.data.id)]
  <2>1. t.at = "lookup" /\ lookup(t) /\ u.data = t.data /\ u.addr = t.addr
    BY <1>1, <1>6, RunsAt DEF Continues, Edges
  <2>2. \A place : v(place).at = place
    BY <1>0 DEF Tasks
  <2>3. \/ ~ accepting(t.data.remoteAlias) /\ u = v("undo")
        \/ /\ accepting(t.data.remoteAlias) /\ u = v("introduce")
           /\ aliases' = Put(aliases, t.addr, [id |-> t.data.id, accepting |-> FALSE])
    BY <2>1 DEF lookup, Throw, End
  <2> HIDE DEF v
  <2>4. \/ ~ accepting(u.data.remoteAlias) /\ u.at = "undo"
        \/ /\ accepting(u.data.remoteAlias) /\ u.at = "introduce"
           /\ DOMAIN aliases' = DOMAIN aliases \cup {u.addr}
    BY <2>1, <2>2, <2>3 DEF Put
  <2> QED
    BY <2>4 DEF Gains, accepting
<1>7. CASE u.at = "accept"
  <2> DEFINE remote == t.data.remoteAlias
             owner == IF remote \in DOMAIN aliases THEN aliases[remote].id ELSE NoAddress
  <2>1. t.at = "introduce" /\ introduce(t) /\ u.data = t.data
    BY <1>1, <1>7, RunsAt DEF Continues, Edges
  <2>2. /\ Get(owner) # NoSocket
        /\ u = [t EXCEPT !.at = "accept", !.server = Get(owner), !.owner = owner]
    BY <2>1 DEF introduce, Throw, End
  <2>3. u.owner = owner /\ u.server = Get(owner)
    BY <1>0, <2>2 DEF Tasks
  <2>4. owner \in DOMAIN clients /\ Get(owner) = clients[owner]
    BY <2>2 DEF Get
  <2>5. owner # NoAddress
    BY <2>4, AddressesAssumption DEF DataTyped, IPAddresses, NoAddress
  <2> QED
    BY <1>7, <2>1, <2>3, <2>4, <2>5 DEF Gains, owns
<1>8. CASE u.at = "freePort"
  <2>1. t.at = "shutdown" /\ shutdown(t) /\ u.data = t.data
    BY <1>1, <1>8, RunsAt DEF Continues, Edges
  <2> QED
    BY <1>8, <2>1 DEF shutdown, Throw, End, owns, Gains, Retracts
<1>9. CASE u.at = "expireHost"
  <2>1. t.at = "expire" /\ expire(t)
    BY <1>1, <1>9, RunsAt DEF Continues, Edges
  <2>2. PICK a \in DOMAIN aliases :
          /\ aliases[a].id = t.data.id
          /\ u = Begin(0, t.sock, "expireHost", [op |-> "expire", id |-> t.data.id, alias |-> a])
    BY <2>1 DEF expire
  <2>3. u.data.alias = a
    BY <2>2 DEF Begin
  <2> QED
    BY <1>9, <2>1, <2>2, <2>3 DEF Gains, Retracts
<1>10. CASE u.at \notin {"acknowledge", "greet", "register", "lookup", "undo", "introduce",
                         "accept", "freePort", "expireHost"}
  BY <1>10 DEF Gains
<1> QED
  BY <1>2, <1>3, <1>4, <1>5, <1>6, <1>7, <1>8, <1>9, <1>10

----
(***************************************************************************)
(* Every handler keeps the invariant                                       *)
(***************************************************************************)
\* A step that follows in a turn is one of the same kind.
LEMMA RunTurnsApart ==
  ASSUME TasksTyped, TurnsApart, NEW t \in tasks, Run(t)
  PROVE  TurnsApart'
<1>1. \A u \in tasks' : u \in tasks \/ Continues(t, u)
  BY RunContinues
<1>2. ASSUME NEW u, Continues(t, u)
      PROVE  /\ t.at \in KnockPlaces => u.at \in KnockPlaces
             /\ t.at \in ClosePlaces \cup {"retract"} => u.at \in ClosePlaces \cup {"retract"}
             /\ t.at \in RequestPlaces => u.at \in RequestPlaces
  BY <1>2
  DEF Continues, Edges, KnockPlaces, ClosePlaces, LeavePlaces, ExpiryPlaces, RequestPlaces,
      Places
<1> QED
  BY <1>1, <1>2 DEF TurnsApart

\* The kind of the turn, from any of its tasks.
LEMMA OneKind ==
  ASSUME TurnsApart, NEW t \in tasks
  PROVE  /\ t.at \in KnockPlaces => \A u \in tasks : u.at \in KnockPlaces
         /\ t.at \in ClosePlaces =>
              \A u \in tasks : u.at \in ClosePlaces \cup {"retract"}
         /\ t.at \in RequestPlaces \ {"retract"} =>
              \A u \in tasks : u.at \in RequestPlaces
  BY DEF TurnsApart, KnockPlaces, ClosePlaces, LeavePlaces, ExpiryPlaces, RequestPlaces

\* Only departures and closes free the host of an id, when the id is gone.
LEMMA RunIdsHosted ==
  ASSUME IInv, PoliteInv, NEW t \in tasks, Run(t)
  PROVE  IdsHosted'
<1>1. /\ open' = open
      /\ t.at # "greet" => goodbyes' = goodbyes
      /\ t.at = "greet" =>
           /\ t.sock \in open /\ t.addr \in IPAddresses
           /\ \A s \in Sockets :
                goodbyes'[s] = IF s = t.sock THEN goodbyes[s] \cup {t.addr} ELSE goodbyes[s]
  BY RunConnected DEF IInv
<1>2. \A s \in Sockets \ open' : goodbyes'[s] = {}
  BY <1>1 DEF PoliteInv, IdsHosted
<1>3. ASSUME NEW id, Connected(id), id \notin members' PROVE FALSE
  <2>1. FreesHost(t, id)
    BY <1>3, RunFrees DEF PoliteInv, IdsHosted, Connected
  <2>2. CASE t.at \in {"freeHost", "expireHost"} /\ id = parseIPAddress(t.data.alias)
    BY <1>3, <2>2 DEF PoliteInv, HostsEmpty, ExpiryPlaces
  <2>3. CASE t.at = "close" /\ id = t.data.id
    BY <1>3, <2>3 DEF PoliteInv, IdsGone, LeavePlaces
  <2> QED
    BY <2>1, <2>2, <2>3 DEF FreesHost
<1>4. t.at = "greet" => t.addr \in members'
  <2>1. ASSUME t.at = "greet" PROVE t.addr \in members'
    <3>1. t.addr # NoAddress
      BY <1>1, <2>1, AddressesAssumption DEF IPAddresses, NoAddress
    <3>2. t.addr \in members
      BY <2>1, <3>1 DEF PoliteInv, IdsFresh
    <3> QED
      BY <2>1, <3>2, RunFrees DEF FreesHost
  <2> QED
    BY <2>1
<1>5. ASSUME NEW s \in open' PROVE goodbyes'[s] \subseteq members'
  <2>1. s \in open /\ s \in Sockets
    BY <1>1 DEF IInv, DataTyped
  <2>2. goodbyes[s] \subseteq members'
    BY <1>3, <2>1 DEF Connected
  <2> QED
    BY <1>1, <1>4, <2>1, <2>2
<1> QED
  BY <1>2, <1>5 DEF IdsHosted

\* The id that a knock is answered with is nobody else's.
LEMMA RunUniqueIds ==
  ASSUME IInv, PoliteInv, NEW t \in tasks, Run(t)
  PROVE  UniqueIds'
<1>1. /\ open' = open
      /\ t.at # "greet" => goodbyes' = goodbyes
      /\ t.at = "greet" =>
           /\ t.addr \in IPAddresses
           /\ \A s \in Sockets :
                goodbyes'[s] = IF s = t.sock THEN goodbyes[s] \cup {t.addr} ELSE goodbyes[s]
  BY RunConnected DEF IInv
<1>2. t.at = "greet" => ~ Connected(t.addr)
  BY <1>1, AddressesAssumption DEF IPAddresses, NoAddress, PoliteInv, IdsFresh
<1>3. ASSUME NEW s \in open, NEW r \in open, s # r
      PROVE  goodbyes'[s] \cap goodbyes'[r] = {}
  <2>1. goodbyes[s] \cap goodbyes[r] = {} /\ s \in Sockets /\ r \in Sockets
    BY <1>3 DEF PoliteInv, UniqueIds, IInv, DataTyped
  <2>2. CASE t.at = "greet"
    <3>1. t.addr \notin goodbyes[s] /\ t.addr \notin goodbyes[r]
      BY <1>2, <2>2 DEF Connected
    <3>2. /\ goodbyes'[s] = IF s = t.sock THEN goodbyes[s] \cup {t.addr} ELSE goodbyes[s]
          /\ goodbyes'[r] = IF r = t.sock THEN goodbyes[r] \cup {t.addr} ELSE goodbyes[r]
      BY <1>1, <2>1, <2>2
    <3> QED
      BY <1>3, <2>1, <3>1, <3>2
  <2> QED
    BY <1>1, <2>1, <2>2
<1> QED
  BY <1>1, <1>3 DEF UniqueIds

\* An id that is created is in use by nobody, and no alias is on its host: the
\* port of an alias keeps its host in use.
LEMMA RunIdsFresh ==
  ASSUME IInv, PoliteInv, NEW t \in tasks, Run(t)
  PROVE  IdsFresh'
<1> DEFINE Knocking(u) == u.at \in {"acknowledge", "greet"} /\ u.addr # NoAddress
<1>1. /\ t \notin tasks'
      /\ \A u \in tasks' : u \in tasks \/ Continues(t, u)
      /\ \A u, v \in tasks' \ tasks : u = v \/ t.at = "expire"
  BY RunContinues DEF IInv
<1>2. \A u \in tasks' \ tasks : Continues(t, u) /\ Gains(t, u)
  BY <1>1, RunGains DEF IInv
<1>3. \A id : Connected(id)' <=> Connected(id) \/ (t.at = "greet" /\ id = t.addr)
  BY RunConnected DEF IInv
<1>4. \A u \in tasks : Knocking(u) =>
        /\ u.addr \in members /\ ~ Connected(u.addr)
        /\ \A alias \in DOMAIN aliases : parseIPAddress(alias) # u.addr
        /\ \A v \in tasks \ {u} : v.at \in {"acknowledge", "greet"} => v.addr # u.addr
  BY DEF PoliteInv, IdsFresh
<1>5. ASSUME NEW u \in tasks', Knocking(u)
      PROVE  /\ t.at \in KnockPlaces /\ \A v \in tasks : v.at \in KnockPlaces
             /\ aliases' = aliases /\ members \subseteq members'
  <2>1. t.at \in KnockPlaces
    <3>1. CASE u \in tasks
      BY <1>5, <3>1, OneKind DEF PoliteInv, KnockPlaces
    <3>2. CASE u \notin tasks
      BY <1>2, <1>5, <3>2 DEF Continues, Edges, KnockPlaces
    <3> QED
      BY <3>1, <3>2
  <2>2. \A v \in tasks : v.at \in KnockPlaces
    BY <2>1, OneKind DEF PoliteInv
  <2>3. aliases' = aliases
    BY <2>1, RunChangesAliases DEF IInv, KnockPlaces
  <2>4. members \subseteq members'
    BY <2>1, RunFrees DEF FreesHost, KnockPlaces
  <2> QED
    BY <2>1, <2>2, <2>3, <2>4
<1>6. ASSUME NEW u \in tasks', u \in tasks, Knocking(u)
      PROVE  /\ u.addr \in members' /\ ~ Connected(u.addr)'
             /\ \A alias \in DOMAIN aliases' : parseIPAddress(alias) # u.addr
             /\ \A v \in tasks' \ {u} : v.at \in {"acknowledge", "greet"} => v.addr # u.addr
  <2>1. /\ u.addr \in members' /\ u.addr \in members
        /\ \A alias \in DOMAIN aliases' : parseIPAddress(alias) # u.addr
    BY <1>4, <1>5, <1>6
  <2>2. t.at = "greet" => t.addr # u.addr
    BY <1>1, <1>4, <1>6
  <2>3. ~ Connected(u.addr)'
    <3>1. PICK id : id = u.addr
      OBVIOUS
    <3>2. ~ Connected(id)'
      BY <1>3, <1>4, <1>6, <2>2, <3>1
    <3> QED
      BY <3>1, <3>2
  <2>4. ASSUME NEW v \in tasks' \ {u}, v.at \in {"acknowledge", "greet"}
        PROVE  v.addr # u.addr
    <3>1. CASE v \in tasks
      BY <1>4, <1>6, <2>4, <3>1
    <3>2. CASE v \notin tasks /\ v.at = "acknowledge"
      BY <1>2, <1>6, <2>1, <3>2 DEF Gains
    <3>3. CASE v \notin tasks /\ v.at = "greet"
      <4>1. t.at = "acknowledge" /\ v.addr = t.addr /\ t # u
        BY <1>1, <1>2, <3>3 DEF Continues, Edges
      <4> QED
        BY <1>4, <1>6, <4>1
    <3> QED
      BY <2>4, <3>1, <3>2, <3>3
  <2> QED
    BY <2>1, <2>3, <2>4
<1>7. ASSUME NEW u \in tasks', u \notin tasks, Knocking(u)
      PROVE  /\ u.addr \in members' /\ ~ Connected(u.addr)'
             /\ \A alias \in DOMAIN aliases' : parseIPAddress(alias) # u.addr
             /\ \A v \in tasks' \ {u} : v.at \in {"acknowledge", "greet"} => v.addr # u.addr
  <2>0. /\ t.at \in {"knock", "acknowledge"}
        /\ \A v \in tasks' \ {u} : v \in tasks /\ v # t
    BY <1>1, <1>2, <1>7 DEF Continues, Edges
  <2>1. CASE u.at = "acknowledge"
    <3>1. u.addr \in members' /\ u.addr \notin members
      BY <1>2, <1>7, <2>1 DEF Gains
    <3>2. ~ Connected(u.addr)
      BY <3>1 DEF PoliteInv, IdsHosted, Connected
    <3>3. \A v \in tasks : v.at # "expire"
      BY <1>5, <1>7 DEF KnockPlaces
    <3>4. \A alias \in DOMAIN aliases : parseIPAddress(alias) \in members
      BY <3>3 DEF PoliteInv, AliasesHoldPorts, IInv, PortsHosted
    <3>5. \A v \in tasks' \ {u} : v.at \in {"acknowledge", "greet"} => v.addr # u.addr
      BY <1>4, <1>7, <2>0, <3>1
    <3>6. PICK id : id = u.addr
      OBVIOUS
    <3>7. ~ Connected(id)'
      BY <1>3, <2>0, <3>2, <3>6
    <3> QED
      BY <1>5, <1>7, <3>1, <3>4, <3>5, <3>6, <3>7
  <2>2. CASE u.at = "greet"
    <3>1. t.at = "acknowledge" /\ u.addr = t.addr /\ t.addr # NoAddress
      BY <1>2, <1>7, <2>2 DEF Continues, Edges
    <3>2. PICK id : id = u.addr
      OBVIOUS
    <3>3. ~ Connected(id)'
      BY <1>3, <1>4, <3>1, <3>2
    <3> QED
      BY <1>4, <1>5, <1>7, <2>0, <3>1, <3>2, <3>3
  <2> QED
    BY <1>7, <2>1, <2>2
<1> QED
  BY <1>6, <1>7 DEF IdsFresh

\* Who has left does not come back before its aliases are gone.
LEMMA RunIdsGone ==
  ASSUME IInv, PoliteInv, NEW t \in tasks, Run(t)
  PROVE  IdsGone'
<1>1. \A id : Connected(id)' <=> Connected(id) \/ (t.at = "greet" /\ id = t.addr)
  BY RunConnected DEF IInv
<1>2. ASSUME NEW u \in tasks', u.at \in LeavePlaces, NEW id, id = u.data.id
      PROVE  ~ Connected(id)'
  <2>1. PICK v \in tasks : v.at \in LeavePlaces /\ v.data.id = id
    <3>1. u \in tasks \/ Continues(t, u)
      BY RunContinues DEF IInv
    <3> QED
      BY <1>2, <3>1 DEF Continues, Edges, LeavePlaces
  <2>2. ~ Connected(id)
    BY <2>1 DEF PoliteInv, IdsGone
  <2>3. t.at # "greet"
    BY <2>1, OneKind DEF PoliteInv, ClosePlaces, LeavePlaces, ExpiryPlaces
  <2> QED
    BY <1>1, <2>2, <2>3
<1> QED
  BY <1>2 DEF IdsGone

\* An alias that a step registers is a new one, and is on the host of the client
\* that connects, or on the one that the client asked for.
LEMMA RunNewAlias ==
  ASSUME IInv, PoliteInv, NEW t \in tasks, Run(t)
  PROVE  /\ \A a \in DOMAIN aliases' \cap DOMAIN aliases :
              aliases'[a].id = aliases[a].id /\ ~ Registers(t, a)
         /\ \A a \in DOMAIN aliases' \ DOMAIN aliases :
              /\ Registers(t, a) /\ aliases'[a].id = t.data.id
              /\ \/ t.at = "register" /\ a = t.data.alias
                 \/ /\ t.at = "lookup" /\ parseIPAddress(a) = t.data.id
                    /\ Connected(t.data.id)
<1>1. \A a : Registers(t, a) => a \notin DOMAIN aliases
  <2>1. ASSUME NEW a, Registers(t, a) PROVE a \notin DOMAIN aliases
    <3>1. Holds(t, a)
      BY <2>1 DEF Registers, Holds
    <3>2. a \in TCPAddresses
      BY <2>1
      DEF Registers, IInv, TasksTyped, TaskOK, AliasPlaces, CreatedPlaces
    <3> QED
      BY <3>1, <3>2 DEF PoliteInv, PortsHeld
  <2> QED
    BY <2>1
<1>2. \A a \in DOMAIN aliases' :
        \/ a \in DOMAIN aliases /\ aliases'[a].id = aliases[a].id
        \/ Registers(t, a) /\ aliases'[a].id = t.data.id
  BY RunChangesAliases DEF IInv
<1>3. t.at = "lookup" => parseIPAddress(t.addr) = t.data.id /\ Connected(t.data.id)
  BY DEF PoliteInv, ConnectsOwned, CreatedPlaces
<1> QED
  BY <1>1, <1>2, <1>3 DEF Registers

\* Binding and connecting happen in turns of requests, in which nobody comes or goes.
LEMMA RequestTurn ==
  ASSUME IInv, PoliteInv, NEW t \in tasks, Run(t),
         NEW u \in tasks, u.at \in RequestPlaces \ {"retract"}
  PROVE  /\ t.at \in RequestPlaces
         /\ goodbyes' = goodbyes /\ clients' = clients
         /\ \A id : Connected(id)' <=> Connected(id)
         /\ \A id : ~ Departing(id)
         /\ \A v \in tasks : v.at # "expire"
<1>1. \A v \in tasks : v.at \in RequestPlaces
  BY OneKind DEF PoliteInv
<1>2. t.at # "greet"
  BY <1>1 DEF RequestPlaces, KnockPlaces
<1> QED
  BY <1>1, <1>2, RunConnected
  DEF IInv, Departing, RequestPlaces, ClosePlaces, LeavePlaces

\* A bind goes on as it is: no alias that is taken becomes free while it is asked for.
LEMMA RunBinds ==
  ASSUME IInv, PoliteInv, NEW t \in tasks, Run(t), NEW u \in tasks', Binds(u)'
  PROVE  \/ u \in tasks /\ u # t /\ Binds(u)
         \/ /\ u \notin tasks /\ Binds(t) /\ t.data = u.data
            /\ t.at \in {"bind", "claim"} /\ u.at \in {"claim", "register"}
<1>1. t \notin tasks' /\ (u \in tasks \/ Continues(t, u))
  BY RunContinues DEF IInv
<1>2. CASE u \in tasks
  <2>1. ASSUME u.at = "bind", u.data.alias \in DOMAIN aliases PROVE FALSE
    <3>1. u.data.alias \notin DOMAIN aliases'
      BY <2>1 DEF Binds
    <3>2. Retracts(t, u.data.alias)
      BY <2>1, <3>1, RunChangesAliases DEF IInv
    <3>3. t.at # "expire"
      BY <1>2, <2>1, OneKind
      DEF PoliteInv, RequestPlaces, Places, KnockPlaces, ClosePlaces, LeavePlaces, ExpiryPlaces
    <3> QED
      BY <1>2, <2>1, <3>2, <3>3 DEF Retracts, PoliteInv, RequestsApart
  <2> QED
    BY <1>1, <1>2, <2>1 DEF Binds
<1>3. CASE u \notin tasks
  <2>1. /\ t.data = u.data /\ t.at \in {"bind", "claim"} /\ u.at \in {"claim", "register"}
        /\ t.at = "bind" => u.at = "claim"
    BY <1>1, <1>3 DEF Continues, Edges, Binds
  <2>2. t.at = "bind" => t.data.alias \notin DOMAIN aliases
    <3>1. ASSUME t.at = "bind", t.data.alias \in DOMAIN aliases PROVE FALSE
      <4>1. bind(t)
        BY <3>1, RunsAt
      <4>2. tasks' = tasks \ {t}
        BY <3>1, <4>1 DEF bind, End, Throw
      <4> QED
        BY <1>3, <4>2
    <3> QED
      BY <3>1
  <2> QED
    BY <1>3, <2>1, <2>2 DEF Binds
<1> QED
  BY <1>2, <1>3

\* Nor is any of these requests made later in the turn.
LEMMA RunRequestsApart ==
  ASSUME IInv, PoliteInv, NEW t \in tasks, Run(t)
  PROVE  RequestsApart'
<1>1. \A u \in tasks' : u \in tasks \/ Continues(t, u)
  BY RunContinues DEF IInv
<1> QED
  BY <1>1 DEF Continues, Edges, PoliteInv, RequestsApart

\* Nobody is given an alias on the host of another client.
LEMMA RunHostsOwned ==
  ASSUME IInv, PoliteInv, NEW t \in tasks, Run(t)
  PROVE  HostsOwned'
<1>1. \A u \in tasks' : u \in tasks \/ Continues(t, u)
  BY RunContinues DEF IInv
<1>2. \A id : Connected(id)' <=> Connected(id) \/ (t.at = "greet" /\ id = t.addr)
  BY RunConnected DEF IInv
<1>3. \A id : Departing(id)' => Departing(id)
  BY <1>1 DEF Departing, Continues, Edges, LeavePlaces
<1>4. ASSUME NEW a \in DOMAIN aliases', NEW h, h = parseIPAddress(a),
             Connected(h)' \/ Departing(h)'
      PROVE  aliases'[a].id = h
  <2>1. CASE a \in DOMAIN aliases
    <3>1. ~ (t.at = "greet" /\ h = t.addr)
      <4>1. t.at = "greet" => t.addr # NoAddress
        BY AddressesAssumption DEF IInv, TasksTyped, TaskOK, IPAddresses, NoAddress
      <4> QED
        BY <1>4, <2>1, <4>1 DEF PoliteInv, IdsFresh
    <3>2. Connected(h) \/ Departing(h)
      BY <1>2, <1>3, <1>4, <3>1
    <3> QED
      BY <1>4, <2>1, <3>2, RunNewAlias DEF PoliteInv, HostsOwned
  <2>2. CASE a \notin DOMAIN aliases
    <3>1. /\ aliases'[a].id = t.data.id
          /\ \/ t.at = "register" /\ a = t.data.alias
             \/ t.at = "lookup" /\ h = t.data.id
      BY <1>4, <2>2, RunNewAlias
    <3>2. (\A id : Connected(id)' <=> Connected(id)) /\ \A id : ~ Departing(id)
      BY <3>1, RequestTurn DEF RequestPlaces, Places, KnockPlaces, ClosePlaces, LeavePlaces,
         ExpiryPlaces
    <3>3. Connected(h)
      BY <1>3, <1>4, <3>2
    <3> QED
      BY <1>4, <3>1, <3>3 DEF PoliteInv, HostsOwned, Binds
  <2> QED
    BY <2>1, <2>2
<1>5. ASSUME NEW u \in tasks', Binds(u)', NEW h, h = parseIPAddress(u.data.alias),
             Connected(h)'
      PROVE  u.data.id = h
  <2>1. PICK v \in tasks : Binds(v) /\ v.data = u.data
    BY <1>5, RunBinds
  <2>2. \A id : Connected(id)' <=> Connected(id)
    BY <2>1, RequestTurn DEF Binds, RequestPlaces, Places, KnockPlaces, ClosePlaces,
       LeavePlaces, ExpiryPlaces
  <2> QED
    BY <1>5, <2>1, <2>2 DEF PoliteInv, HostsOwned
<1> QED
  BY <1>4, <1>5 DEF HostsOwned

\* No two clients come to have aliases on one host.
LEMMA RunHostsApart ==
  ASSUME IInv, PoliteInv, NEW t \in tasks, Run(t)
  PROVE  HostsApart'
<1>1. /\ t \notin tasks'
      /\ \A u \in tasks' : u \in tasks \/ Continues(t, u)
      /\ \A u, v \in tasks' \ tasks : u = v \/ t.at = "expire"
  BY RunContinues DEF IInv
<1>2. \A a \in DOMAIN aliases' \cap DOMAIN aliases : aliases'[a].id = aliases[a].id
  BY RunNewAlias
<1>3. \A a \in DOMAIN aliases' \ DOMAIN aliases :
        /\ Registers(t, a) /\ aliases'[a].id = t.data.id
        /\ \/ t.at = "register" /\ a = t.data.alias
           \/ /\ t.at = "lookup" /\ parseIPAddress(a) = t.data.id
              /\ Connected(t.data.id)
  BY RunNewAlias
<1>4. ASSUME NEW u \in tasks', Binds(u)'
      PROVE  \/ u \in tasks /\ u # t /\ Binds(u)
             \/ /\ u \notin tasks /\ Binds(t) /\ t.data = u.data
                /\ t.at \notin {"register", "lookup", "expire"}
  BY <1>4, RunBinds
<1>5. ASSUME NEW a \in DOMAIN aliases' \ DOMAIN aliases, NEW b \in DOMAIN aliases,
             parseIPAddress(a) = parseIPAddress(b)
      PROVE  /\ aliases'[a].id = parseIPAddress(a)
             /\ aliases[b].id = parseIPAddress(b)
  <2>1. CASE t.at = "register" /\ a = t.data.alias
    BY <1>3, <1>5, <2>1 DEF PoliteInv, HostsApart, Binds
  <2>2. CASE t.at = "lookup" /\ parseIPAddress(a) = t.data.id /\ Connected(t.data.id)
    BY <1>3, <1>5, <2>2 DEF PoliteInv, HostsOwned
  <2> QED
    BY <1>3, <2>1, <2>2
<1>6. ASSUME NEW a \in DOMAIN aliases', NEW b \in DOMAIN aliases', a # b,
             parseIPAddress(a) = parseIPAddress(b)
      PROVE  aliases'[a].id = parseIPAddress(a)
  <2>1. CASE a \in DOMAIN aliases /\ b \in DOMAIN aliases
    BY <1>2, <1>6, <2>1 DEF PoliteInv, HostsApart
  <2>2. CASE a \notin DOMAIN aliases /\ b \in DOMAIN aliases
    BY <1>5, <1>6, <2>2
  <2>3. CASE a \in DOMAIN aliases /\ b \notin DOMAIN aliases
    BY <1>2, <1>5, <1>6, <2>3
  <2>4. CASE a \notin DOMAIN aliases /\ b \notin DOMAIN aliases
    BY <1>3, <1>6, <2>4 DEF Registers
  <2> QED
    BY <2>1, <2>2, <2>3, <2>4
<1>7. ASSUME NEW a \in DOMAIN aliases', NEW u \in tasks', Binds(u)',
             parseIPAddress(a) = parseIPAddress(u.data.alias)
      PROVE  aliases'[a].id = parseIPAddress(a) /\ u.data.id = parseIPAddress(a)
  <2>1. PICK v \in tasks : Binds(v) /\ v.data = u.data /\ (t.at = "register" => v # t)
    BY <1>4, <1>7
  <2>2. CASE a \in DOMAIN aliases
    BY <1>2, <1>7, <2>1, <2>2 DEF PoliteInv, HostsApart
  <2>3. CASE a \notin DOMAIN aliases /\ t.at = "register" /\ a = t.data.alias
    BY <1>3, <1>7, <2>1, <2>3 DEF PoliteInv, HostsApart, Binds
  <2>4. CASE /\ a \notin DOMAIN aliases /\ t.at = "lookup"
             /\ parseIPAddress(a) = t.data.id /\ Connected(t.data.id)
    BY <1>3, <1>7, <2>1, <2>4 DEF PoliteInv, HostsOwned
  <2> QED
    BY <1>3, <2>2, <2>3, <2>4
<1>8. ASSUME NEW u \in tasks', NEW w \in tasks', u # w, Binds(u)', Binds(w)',
             parseIPAddress(u.data.alias) = parseIPAddress(w.data.alias)
      PROVE  u.data.id = parseIPAddress(u.data.alias)
  <2>1. CASE u \in tasks /\ w \in tasks
    BY <1>4, <1>8, <2>1 DEF PoliteInv, HostsApart
  <2>2. CASE u \in tasks /\ w \notin tasks
    <3>1. u # t /\ Binds(t) /\ t.data = w.data
      BY <1>4, <1>8, <2>2
    <3> QED
      BY <1>4, <1>8, <2>2, <3>1 DEF PoliteInv, HostsApart
  <2>3. CASE u \notin tasks /\ w \in tasks
    <3>1. w # t /\ Binds(t) /\ t.data = u.data
      BY <1>4, <1>8, <2>3
    <3> QED
      BY <1>4, <1>8, <2>3, <3>1 DEF PoliteInv, HostsApart
  <2>4. CASE u \notin tasks /\ w \notin tasks
    BY <1>1, <1>4, <1>8, <2>4
  <2> QED
    BY <2>1, <2>2, <2>3, <2>4
<1> QED
  BY <1>6, <1>7, <1>8 DEF HostsApart

\* A host that is empty, and no client's, stays so within the turn.
LEMMA StaysEmpty ==
  ASSUME IInv, PoliteInv, NEW t \in tasks, Run(t),
         NEW h, Empty(h), ~ Connected(h)
  PROVE  Empty(h)'
<1>1. \A u \in tasks' : u \in tasks \/ Continues(t, u)
  BY RunContinues DEF IInv
<1>2. ASSUME NEW a \in DOMAIN aliases' PROVE parseIPAddress(a) # h
  <2>1. CASE a \in DOMAIN aliases
    BY <2>1 DEF Empty
  <2>2. CASE a \notin DOMAIN aliases
    BY <1>2, <2>2, RunNewAlias DEF Empty, Binds
  <2> QED
    BY <2>1, <2>2
<1>3. ASSUME NEW u \in tasks', Binds(u)' PROVE parseIPAddress(u.data.alias) # h
  BY <1>3, RunBinds DEF Empty
<1> QED
  BY <1>2, <1>3 DEF Empty

\* The host that is freed with an alias is no client's: a polite client keeps the
\* aliases on its own host. Nor has anybody another alias there, or asks for one.
LEMMA RunHostsEmpty ==
  ASSUME IInv, PoliteInv, NEW t \in tasks, Run(t)
  PROVE  HostsEmpty'
<1> DEFINE Freeing(u) == u.at \in {"freePort", "freeHost"} \cup ExpiryPlaces
<1>1. \A u \in tasks' : u \in tasks \/ Continues(t, u)
  BY RunContinues DEF IInv
<1>2. \A u \in tasks' \ tasks : Continues(t, u) /\ Gains(t, u)
  BY <1>1, RunGains DEF IInv
<1>3. ASSUME NEW u \in tasks', u.at = "shutdown" \/ Freeing(u)
      PROVE  \A id : Connected(id)' <=> Connected(id)
  <2>1. PICK v \in tasks : v.at \in {"shutdown", "expire"} \/ Freeing(v)
    BY <1>1, <1>3 DEF Continues, Edges, ExpiryPlaces
  <2>2. t.at # "greet"
    BY <2>1, OneKind
    DEF PoliteInv, RequestPlaces, Places, KnockPlaces, ClosePlaces, LeavePlaces, ExpiryPlaces
  <2> QED
    BY <2>2, RunConnected DEF IInv
<1>4. ASSUME NEW u \in tasks', u \in tasks, NEW h, h = parseIPAddress(u.data.alias),
             u.at = "shutdown" \/ Freeing(u)
      PROVE  ~ Connected(h)' /\ (Freeing(u) => Empty(h)')
  <2>1. ~ Connected(h) /\ (Freeing(u) => Empty(h))
    BY <1>4 DEF PoliteInv, HostsEmpty
  <2> QED
    BY <1>3, <1>4, <2>1, StaysEmpty
<1>5. ASSUME NEW h,
             \A b \in DOMAIN aliases : parseIPAddress(b) = h => Retracts(t, b),
             \A v \in tasks : Binds(v) => parseIPAddress(v.data.alias) # h,
             t.at \in {"shutdown", "expire"}
      PROVE  Empty(h)'
  <2>1. ASSUME NEW b \in DOMAIN aliases' PROVE parseIPAddress(b) # h
    <3>1. CASE b \in DOMAIN aliases
      BY <1>5, <2>1, <3>1, RunChangesAliases DEF IInv
    <3>2. CASE b \notin DOMAIN aliases
      BY <1>5, <2>1, <3>2, RunNewAlias
    <3> QED
      BY <3>1, <3>2
  <2>2. ASSUME NEW v \in tasks', Binds(v)' PROVE parseIPAddress(v.data.alias) # h
    BY <1>5, <2>2, RunBinds
  <2> QED
    BY <2>1, <2>2 DEF Empty
<1>6. ASSUME NEW u \in tasks', u \notin tasks, NEW h, h = parseIPAddress(u.data.alias),
             u.at \in {"freeHost", "expirePort"}
      PROVE  ~ Connected(h) /\ Empty(h)'
  <2>1. t.at \in {"freePort", "expireHost"} /\ t.data = u.data
    BY <1>2, <1>6 DEF Continues, Edges
  <2>2. ~ Connected(h) /\ Empty(h)
    BY <1>6, <2>1 DEF PoliteInv, HostsEmpty, ExpiryPlaces
  <2> QED
    BY <2>2, StaysEmpty
<1>7. ASSUME NEW u \in tasks', u \notin tasks, NEW h, h = parseIPAddress(u.data.alias),
             u.at = "freePort"
      PROVE  ~ Connected(h) /\ Empty(h)'
  <2>1. /\ t.at = "shutdown" /\ t.data = u.data
        /\ u.data.alias \in DOMAIN aliases /\ aliases[u.data.alias].id = t.data.id
    BY <1>2, <1>7 DEF Continues, Edges, Gains, Retracts
  <2>2. ~ Connected(h)
    BY <1>7, <2>1 DEF PoliteInv, HostsEmpty
  <2>3. \A v \in tasks : v.at \notin LeavePlaces
    BY <2>1, OneKind
    DEF PoliteInv, RequestPlaces, Places, KnockPlaces, ClosePlaces, LeavePlaces, ExpiryPlaces
  <2>4. t.data.id # h
    <3>1. t.data.id = NoAddress \/ Connected(t.data.id)
      BY <2>1, <2>3 DEF IInv, OwnersKnown, Departing, Present, Connected
    <3>2. h # NoAddress
      BY <1>7, <2>1, HostOfAlias, AddressesAssumption
      DEF IInv, DataTyped, IPAddresses, NoAddress
    <3> QED
      BY <2>2, <3>1, <3>2
  <2>5. \A b \in DOMAIN aliases : parseIPAddress(b) = h => Retracts(t, b)
    BY <1>7, <2>1, <2>4 DEF PoliteInv, HostsApart, Retracts
  <2>6. \A v \in tasks : Binds(v) => parseIPAddress(v.data.alias) # h
    BY <1>7, <2>1, <2>4 DEF PoliteInv, HostsApart
  <2>7. Empty(h)'
    BY <1>5, <2>1, <2>5, <2>6
  <2> QED
    BY <2>2, <2>7
<1>8. ASSUME NEW u \in tasks', u \notin tasks, NEW h, h = parseIPAddress(u.data.alias),
             u.at = "expireHost"
      PROVE  ~ Connected(h) /\ Empty(h)'
  <2>1. /\ t.at = "expire"
        /\ u.data.alias \in DOMAIN aliases /\ aliases[u.data.alias].id = t.data.id
    BY <1>2, <1>8 DEF Continues, Edges, Gains, Retracts
  <2>2. ~ Connected(h)
    BY <1>8, <2>1 DEF PoliteInv, HostsOwned, IdsGone, LeavePlaces
  <2>3. \A b \in DOMAIN aliases : parseIPAddress(b) = h => Retracts(t, b)
    BY <1>8, <2>1 DEF PoliteInv, HostsApart, Retracts
  <2>4. \A v \in tasks : Binds(v) => parseIPAddress(v.data.alias) # h
    BY <2>1, OneKind DEF PoliteInv, ClosePlaces, LeavePlaces, ExpiryPlaces, Binds
  <2>5. Empty(h)'
    BY <1>5, <2>1, <2>3, <2>4
  <2> QED
    BY <2>2, <2>5
<1>9. ASSUME NEW u \in tasks', NEW h, h = parseIPAddress(u.data.alias),
             u.at = "shutdown" \/ Freeing(u)
      PROVE  ~ Connected(h)' /\ (Freeing(u) => Empty(h)')
  <2>1. CASE u \in tasks
    BY <1>4, <1>9, <2>1
  <2>2. CASE u \notin tasks
    <3>1. u.at # "shutdown"
      BY <1>2, <1>9, <2>2 DEF Continues, Edges
    <3>2. ~ Connected(h) /\ Empty(h)'
      BY <1>6, <1>7, <1>8, <1>9, <2>2, <3>1 DEF ExpiryPlaces
    <3> QED
      BY <1>3, <1>9, <3>2
  <2> QED
    BY <2>1, <2>2
<1> QED
  BY <1>9 DEF HostsEmpty

\* A port that a handler holds is freed with no host and with no other port: the
\* hosts that are freed are empty, and the host of a connection is its client's.
LEMMA RunPortsHeld ==
  ASSUME IInv, PoliteInv, NEW t \in tasks, Run(t)
  PROVE  PortsHeld'
<1>1. /\ t \notin tasks'
      /\ \A u \in tasks' : u \in tasks \/ Continues(t, u)
      /\ \A u, v \in tasks' \ tasks : u = v \/ t.at = "expire"
  BY RunContinues DEF IInv
<1>2. \A u \in tasks' \ tasks : Continues(t, u) /\ Gains(t, u)
  BY <1>1, RunGains DEF IInv
<1>3. ASSUME NEW u \in tasks, NEW p \in TCPAddresses, Holds(u, p)
      PROVE  /\ p \in ports /\ p \notin DOMAIN aliases
             /\ \A v \in tasks \ {u} : ~ Holds(v, p)
             /\ \A v \in tasks : v.at # "expire"
             /\ \/ Binds(u) /\ parseIPAddress(u.data.alias) = parseIPAddress(p)
                \/ Connected(parseIPAddress(p))
  <2>1. p \in ports /\ p \notin DOMAIN aliases /\ \A v \in tasks \ {u} : ~ Holds(v, p)
    BY <1>3 DEF PoliteInv, PortsHeld
  <2>2. \A v \in tasks : v.at # "expire"
    BY <1>3, RequestTurn
    DEF Holds, RequestPlaces, Places, KnockPlaces, ClosePlaces, LeavePlaces, ExpiryPlaces
  <2>3. \/ Binds(u) /\ parseIPAddress(u.data.alias) = parseIPAddress(p)
        \/ Connected(parseIPAddress(p))
    BY <1>3 DEF Holds, Binds, PoliteInv, ConnectsOwned, CreatedPlaces
  <2> QED
    BY <2>1, <2>2, <2>3
<1>4. ASSUME NEW u \in tasks', u \in tasks, NEW p \in TCPAddresses, Holds(u, p)
      PROVE  /\ p \in ports' /\ p \notin DOMAIN aliases'
             /\ \A v \in tasks' \ {u} : ~ Holds(v, p)
  <2>1. u # t /\ ~ Holds(t, p)
    BY <1>1, <1>3, <1>4
  <2>2. ASSUME p \notin ports' PROVE FALSE
    <3>1. FreesPort(t, p)
      BY <1>3, <1>4, <2>2, RunFrees
    <3>2. t.at \notin LeavePlaces
      BY <1>4, RequestTurn
      DEF Holds, RequestPlaces, Places, KnockPlaces, ClosePlaces, LeavePlaces, ExpiryPlaces
    <3>3. /\ t.at \in {"freePort", "freeHost"} \cup ExpiryPlaces
          /\ parseIPAddress(p) = parseIPAddress(t.data.alias)
      BY <2>1, <3>1, <3>2 DEF FreesPort, Holds, LeavePlaces, ExpiryPlaces
    <3>4. ~ Connected(parseIPAddress(p)) /\ Empty(parseIPAddress(p))
      BY <3>3 DEF PoliteInv, HostsEmpty
    <3> QED
      BY <1>3, <1>4, <3>4 DEF Empty
  <2>3. ASSUME p \in DOMAIN aliases' PROVE FALSE
    <3>1. Registers(t, p)
      BY <1>3, <1>4, <2>3, RunNewAlias
    <3> QED
      BY <2>1, <3>1 DEF Registers, Holds
  <2>4. ASSUME NEW v \in tasks' \ {u}, Holds(v, p) PROVE FALSE
    <3>1. v \notin tasks
      BY <1>3, <1>4, <2>4
    <3>2. CASE v.at \in {"register", "lookup"}
      BY <1>2, <1>3, <1>4, <2>4, <3>1, <3>2 DEF Gains, Holds
    <3>3. CASE v.at = "undo"
      BY <1>2, <2>1, <2>4, <3>1, <3>3 DEF Continues, Edges, Holds
    <3> QED
      BY <2>4, <3>2, <3>3 DEF Holds
  <2> QED
    BY <2>2, <2>3, <2>4
<1>5. ASSUME NEW u \in tasks', u \notin tasks, NEW p \in TCPAddresses, Holds(u, p)
      PROVE  /\ p \in ports' /\ p \notin DOMAIN aliases'
             /\ \A v \in tasks' \ {u} : ~ Holds(v, p)
  <2>1. t.at # "expire"
    BY <1>2, <1>5 DEF Continues, Edges, Holds
  <2>2. \A v \in tasks' \ {u} : v \in tasks \ {t}
    BY <1>1, <1>5, <2>1
  <2>3. CASE u.at \in {"register", "lookup"}
    <3>1. p \in ports' /\ p \notin ports
      BY <1>2, <1>5, <2>3 DEF Holds, Gains
    <3>2. \A v \in tasks' \ {u} : ~ Holds(v, p)
      BY <1>3, <2>2, <3>1
    <3>3. t.at \in {"claim", "connect"}
      BY <1>2, <1>5, <2>3 DEF Continues, Edges
    <3>4. \A v \in tasks : v.at # "expire"
      BY <3>3, RequestTurn
      DEF RequestPlaces, Places, KnockPlaces, ClosePlaces, LeavePlaces, ExpiryPlaces
    <3>5. p \notin DOMAIN aliases
      BY <3>1, <3>4 DEF PoliteInv, AliasesHoldPorts
    <3>6. aliases' = aliases
      BY <3>3, RunChangesAliases DEF IInv
    <3> QED
      BY <3>1, <3>2, <3>5, <3>6
  <2>4. CASE u.at = "undo"
    <3>1. /\ t.at = "lookup" /\ t.addr = p
          /\ ~ accepting(t.data.remoteAlias)
      BY <1>2, <1>5, <2>4 DEF Continues, Edges, Gains, Holds
    <3>2. Holds(t, p)
      BY <3>1 DEF Holds
    <3>3. p \in ports /\ p \notin DOMAIN aliases /\ \A v \in tasks \ {t} : ~ Holds(v, p)
      BY <1>3, <3>2
    <3>4. p \in ports'
      BY <3>1, <3>3, RunFrees DEF FreesPort
    <3>5. p \notin DOMAIN aliases'
      BY <3>1, <3>3, RunNewAlias DEF Registers
    <3> QED
      BY <2>2, <3>3, <3>4, <3>5
  <2> QED
    BY <1>5, <2>3, <2>4 DEF Holds
<1> QED
  BY <1>4, <1>5 DEF PortsHeld

\* No step takes the port of an alias away, save that of its owner that leaves.
LEMMA RunAliasesHoldPorts ==
  ASSUME IInv, PoliteInv, NEW t \in tasks, Run(t)
  PROVE  AliasesHoldPorts'
<1>1. tasks \ {t} \subseteq tasks'
  BY Successors DEF IInv
<1>2. ASSUME NEW a \in DOMAIN aliases', a \notin ports', a \in ports, a \in DOMAIN aliases
      PROVE  \E u \in tasks' : u.at = "expire" /\ u.data.id = aliases'[a].id
  <2>1. FreesPort(t, a)
    BY <1>2, RunFrees
  <2>2. CASE /\ t.at \in {"freePort", "freeHost"} \cup ExpiryPlaces
             /\ parseIPAddress(a) = parseIPAddress(t.data.alias)
    BY <1>2, <2>2 DEF PoliteInv, HostsEmpty, Empty
  <2>3. CASE t.at = "undo" /\ a = t.addr
    <3>1. Holds(t, a) /\ a \in TCPAddresses
      BY <1>2, <2>3 DEF Holds, IInv, DataTyped
    <3> QED
      BY <1>2, <3>1 DEF PoliteInv, PortsHeld
  <2>4. CASE t.at = "close" /\ parseIPAddress(a) = t.data.id
    <3>1. aliases[a].id = t.data.id
      BY <1>2, <2>4 DEF PoliteInv, HostsOwned, Departing, LeavePlaces
    <3>2. aliases'[a].id = t.data.id
      BY <1>2, <3>1, RunNewAlias
    <3>3. [t EXCEPT !.at = "expire"] \in tasks'
      BY <2>4, RunsAt DEF leave, Goto
    <3>4. /\ [t EXCEPT !.at = "expire"].at = "expire"
          /\ [t EXCEPT !.at = "expire"].data = t.data
      BY TaskMoves DEF IInv, TasksTyped, TaskOK, Places
    <3> QED
      BY <3>2, <3>3, <3>4
  <2> QED
    BY <2>1, <2>2, <2>3, <2>4 DEF FreesPort, ExpiryPlaces
<1>3. ASSUME NEW a \in DOMAIN aliases', a \notin ports, a \in DOMAIN aliases
      PROVE  \E u \in tasks' : u.at = "expire" /\ u.data.id = aliases'[a].id
  <2>1. PICK u \in tasks : u.at = "expire" /\ u.data.id = aliases[a].id
    BY <1>3 DEF PoliteInv, AliasesHoldPorts
  <2>2. u # t
    BY <1>3, <2>1, RunChangesAliases DEF IInv, Retracts
  <2> QED
    BY <1>1, <1>3, <2>1, <2>2, RunNewAlias
<1>4. ASSUME NEW a \in DOMAIN aliases', a \notin DOMAIN aliases
      PROVE  a \in ports'
  <2>1. Registers(t, a)
    BY <1>4, RunNewAlias
  <2>2. Holds(t, a) /\ a \in TCPAddresses
    BY <2>1
    DEF Registers, Holds, IInv, TasksTyped, TaskOK, AliasPlaces, CreatedPlaces
  <2>3. a \in ports
    BY <2>2 DEF PoliteInv, PortsHeld
  <2> QED
    BY <2>1, <2>3, RunFrees DEF FreesPort, Registers
<1> QED
  BY <1>2, <1>3, <1>4 DEF AliasesHoldPorts

\* A connection is on the host of the client that asked for it, which stays.
LEMMA RunConnectsOwned ==
  ASSUME IInv, PoliteInv, NEW t \in tasks, Run(t)
  PROVE  ConnectsOwned'
<1>1. \A u \in tasks' \ tasks : Continues(t, u) /\ Gains(t, u)
  BY RunContinues, RunGains DEF IInv
<1>2. \A id : Connected(id) => Connected(id)'
  BY RunConnected DEF IInv
<1>3. ASSUME NEW u \in tasks', u.at \in CreatedPlaces, NEW id, id = u.data.id
      PROVE  parseIPAddress(u.addr) = id /\ Connected(id)'
  <2>1. CASE u \in tasks
    BY <1>2, <1>3, <2>1 DEF PoliteInv, ConnectsOwned
  <2>2. CASE u \notin tasks /\ u.at = "lookup"
    <3>1. /\ t.at = "connect" /\ t.data = u.data
          /\ parseIPAddress(u.addr) = parseIPAddress(id) /\ parseIPAddress(id) \in members
      BY <1>1, <1>3, <2>2 DEF Continues, Edges, Gains
    <3>2. Present(id)
      BY <1>3, <3>1 DEF IInv, AskersPresent
    <3>3. id # NoAddress
      BY <3>1, AddressesAssumption
      DEF IInv, DataTyped, IPAddresses, NoAddress, parseIPAddress
    <3>4. Connected(id) /\ id \in IPAddresses
      BY <3>2, <3>3 DEF Present, Connected, IInv, DataTyped
    <3>5. parseIPAddress(id) = id
      BY <3>4 DEF IPAddresses, parseIPAddress
    <3> QED
      BY <1>2, <3>1, <3>4, <3>5
  <2>3. CASE u \notin tasks /\ u.at # "lookup"
    <3>1. t.at \in CreatedPlaces /\ t.data = u.data /\ t.addr = u.addr
      BY <1>1, <1>3, <2>3 DEF Continues, Edges, CreatedPlaces
    <3> QED
      BY <1>2, <1>3, <3>1 DEF PoliteInv, ConnectsOwned
  <2> QED
    BY <2>1, <2>2, <2>3
<1> QED
  BY <1>3 DEF ConnectsOwned

\* Nobody shuts down an alias that a connect of the same turn has looked up.
LEMMA RunConnectsTrue ==
  ASSUME IInv, PoliteInv, NEW t \in tasks, Run(t)
  PROVE  ConnectsTrue'
<1>1. \A u \in tasks' \ tasks : Continues(t, u) /\ Gains(t, u)
  BY RunContinues, RunGains DEF IInv
<1>2. \A a \in DOMAIN aliases' \cap DOMAIN aliases : aliases'[a].id = aliases[a].id
  BY RunNewAlias
<1>3. \A a \in DOMAIN aliases : a \in DOMAIN aliases' <=> ~ Retracts(t, a)
  BY RunChangesAliases DEF IInv
<1>4. ASSUME NEW u \in tasks', u \in tasks, u.at \in {"introduce", "accept"}
      PROVE  /\ u.addr \in DOMAIN aliases' /\ u.data.remoteAlias \in DOMAIN aliases'
             /\ u.at = "accept" =>
                  /\ u.owner \in DOMAIN clients' /\ clients'[u.owner] = u.server
                  /\ owns(u.owner, u.data.remoteAlias)'
  <2>1. /\ u.addr \in DOMAIN aliases /\ u.data.remoteAlias \in DOMAIN aliases
        /\ u.at = "accept" =>
             /\ u.owner \in DOMAIN clients /\ clients[u.owner] = u.server
             /\ owns(u.owner, u.data.remoteAlias)
    BY <1>4 DEF PoliteInv, ConnectsTrue
  <2>2. t.at # "expire" /\ clients' = clients
    BY <1>4, RequestTurn
    DEF RequestPlaces, Places, KnockPlaces, ClosePlaces, LeavePlaces, ExpiryPlaces
  <2>3. ~ Retracts(t, u.addr)
    <3>1. parseIPAddress(u.addr) = u.data.id /\ Connected(u.data.id)
      BY <1>4 DEF PoliteInv, ConnectsOwned, CreatedPlaces
    <3>2. t.at = "shutdown" => ~ Connected(parseIPAddress(t.data.alias))
      BY DEF PoliteInv, HostsEmpty
    <3> QED
      BY <2>2, <3>1, <3>2 DEF Retracts
  <2>4. ~ Retracts(t, u.data.remoteAlias)
    BY <1>4, <2>2 DEF Retracts, PoliteInv, ConnectsTrue, ConnectPlaces, CreatedPlaces
  <2> QED
    BY <1>2, <1>3, <2>1, <2>2, <2>3, <2>4 DEF owns
<1>5. ASSUME NEW u \in tasks', u \notin tasks, u.at \in {"introduce", "accept"}
      PROVE  /\ u.addr \in DOMAIN aliases' /\ u.data.remoteAlias \in DOMAIN aliases'
             /\ u.at = "accept" =>
                  /\ u.owner \in DOMAIN clients' /\ clients'[u.owner] = u.server
                  /\ owns(u.owner, u.data.remoteAlias)'
  <2>1. CASE u.at = "introduce"
    BY <1>1, <1>5, <2>1 DEF Gains
  <2>2. CASE u.at = "accept"
    <3>1. /\ t.at = "introduce" /\ t.data = u.data /\ t.addr = u.addr
          /\ u.owner \in DOMAIN clients /\ clients[u.owner] = u.server
          /\ owns(u.owner, u.data.remoteAlias)
      BY <1>1, <1>5, <2>2 DEF Continues, Edges, Gains
    <3>2. aliases' = aliases /\ clients' = clients
      BY <3>1, RunChangesAliases, RunConnected DEF IInv
    <3> QED
      BY <3>1, <3>2 DEF PoliteInv, ConnectsTrue, owns
  <2> QED
    BY <1>5, <2>1, <2>2
<1>6. ASSUME NEW u \in tasks', NEW v \in tasks', u.at \in ConnectPlaces, v.at = "shutdown"
      PROVE  v.data.alias # u.data.remoteAlias
  <2>1. v \in tasks
    BY <1>1, <1>6 DEF Continues, Edges
  <2>2. PICK w \in tasks : w.at \in ConnectPlaces /\ w.data = u.data
    BY <1>1, <1>6 DEF Continues, Edges, ConnectPlaces, CreatedPlaces
  <2> QED
    BY <1>6, <2>1, <2>2 DEF PoliteInv, ConnectsTrue
<1> QED
  BY <1>4, <1>5, <1>6 DEF ConnectsTrue

----
(***************************************************************************)
(* So do the turns of the event loop                                       *)
(***************************************************************************)
\* What polite clients send in one chunk.
LEMMA PoliteChunk ==
  ASSUME Polite, NEW s \in Sockets, Chunk(s)
  PROVE  /\ \A u \in tasks' : u.at = u.data.op /\ u.data \in MessagesFrom(s) \cup RelayedFrom(s)
         /\ \A u, v \in tasks' : u.at = "knock" => v.at = "knock"
         /\ \A u, v \in tasks' :
              /\ u # v /\ u.at = "bind" /\ v.at = "bind"
              /\ parseIPAddress(u.data.alias) = parseIPAddress(v.data.alias)
              => u.data.id = parseIPAddress(u.data.alias)
         /\ \A u, v \in tasks' : u.at = "shutdown" =>
              /\ v.at = "bind" => u.data.alias # v.data.alias
              /\ v.at = "connect" => u.data.alias # v.data.remoteAlias
<1>1. CASE \E n \in 1 .. MaxBatch : \E batch \in [1 .. n -> MessagesFrom(s)] :
             ~ hasty(batch) /\ Receive(s, batch)
  <2>0. PICK n \in 1 .. MaxBatch :
          \E batch \in [1 .. n -> MessagesFrom(s)] : ~ hasty(batch) /\ Receive(s, batch)
    BY <1>1
  <2>1. PICK batch \in [1 .. n -> MessagesFrom(s)] : ~ hasty(batch) /\ Receive(s, batch)
    BY <2>0
  <2> DEFINE copy(i) == Cardinality({j \in 1 .. i : batch[j] = batch[i]})
  <2>2. tasks' = {Begin(copy(i), s, batch[i].op, batch[i]) : i \in 1 .. n}
    BY <2>1 DEF Receive
  <2> HIDE DEF copy
  <2>3. ASSUME NEW u \in tasks'
        PROVE  \E i \in 1 .. n : /\ u = Begin(copy(i), s, batch[i].op, batch[i])
                                 /\ u.at = batch[i].op /\ u.data = batch[i]
    <3>1. PICK i \in 1 .. n : u = Begin(copy(i), s, batch[i].op, batch[i])
      BY <2>2
    <3> QED
      BY <3>1 DEF Begin
  <2>4. \A i, j \in 1 .. n :
          /\ batch[i].op = "knock" => batch[j].op = "knock"
          /\ batch[i].op = "shutdown" =>
               /\ batch[j].op = "bind" => batch[i].alias # batch[j].alias
               /\ batch[j].op = "connect" => batch[i].alias # batch[j].remoteAlias
          /\ ~ (i # j /\ batch[i].op = "bind" /\ batch[j].op = "bind"
                  /\ parseIPAddress(batch[i].alias) = parseIPAddress(batch[j].alias)
                  /\ parseIPAddress(batch[i].alias) # batch[i].id)
    BY <2>1 DEF hasty
  <2>5. \A i \in 1 .. n : batch[i] \in MessagesFrom(s)
    OBVIOUS
  <2>6. ASSUME NEW u \in tasks', NEW v \in tasks'
        PROVE  /\ u.at = u.data.op /\ u.data \in MessagesFrom(s)
               /\ u.at = "knock" => v.at = "knock"
               /\ (/\ u # v /\ u.at = "bind" /\ v.at = "bind"
                   /\ parseIPAddress(u.data.alias) = parseIPAddress(v.data.alias)
                   => u.data.id = parseIPAddress(u.data.alias))
               /\ u.at = "shutdown" =>
                    /\ v.at = "bind" => u.data.alias # v.data.alias
                    /\ v.at = "connect" => u.data.alias # v.data.remoteAlias
    <3>1. PICK i \in 1 .. n : /\ u = Begin(copy(i), s, batch[i].op, batch[i])
                              /\ u.at = batch[i].op /\ u.data = batch[i]
      BY <2>3
    <3>2. PICK j \in 1 .. n : /\ v = Begin(copy(j), s, batch[j].op, batch[j])
                              /\ v.at = batch[j].op /\ v.data = batch[j]
      BY <2>3
    <3>3. u # v => i # j
      BY <3>1, <3>2
    <3> QED
      BY <2>4, <2>5, <3>1, <3>2, <3>3
  <2> QED
    BY <2>6
<1>2. CASE \E m \in RelayedFrom(s) : Receive(s, <<m>>)
  <2>1. PICK m \in RelayedFrom(s) : Receive(s, <<m>>)
    BY <1>2
  <2>2. \A u \in tasks' : u.at = m.op /\ u.data = m
    BY <2>1 DEF Receive, Begin
  <2>3. m.op \in {"offer", "answer", "candidate"}
    BY DEF RelayedFrom
  <2> QED
    BY <2>2, <2>3
<1> QED
  BY <1>1, <1>2 DEF Chunk

\* What the messages of a polite client ask for.
LEMMA PoliteMessages ==
  ASSUME Polite, NEW s, NEW m \in MessagesFrom(s) \cup RelayedFrom(s)
  PROVE  /\ m.op \in {"knock", "bind", "accepting", "shutdown", "connect", "offer", "answer",
                      "candidate"}
         /\ m.op = "bind" =>
              /\ m.id \in goodbyes[s]
              /\ m.alias \in DOMAIN aliases \/ parseIPAddress(m.alias) \notin members \ {m.id}
         /\ m.op = "shutdown" =>
              \A r \in open : parseIPAddress(m.alias) \notin goodbyes[r]
  BY DEF MessagesFrom, RelayedFrom, Knocks, IdsOf, mayBind, mayShutdown

\* What a client may ask for alone, and together with something else.
MayAsk(s, u) ==
  /\ u.at \in {"knock", "bind", "accepting", "shutdown", "connect", "offer", "answer",
                "candidate"}
  /\ u.at = "bind" =>
       /\ u.data.id \in goodbyes[s]
       /\ \/ u.data.alias \in DOMAIN aliases
          \/ parseIPAddress(u.data.alias) \notin members \ {u.data.id}
  /\ u.at = "shutdown" => ~ Connected(parseIPAddress(u.data.alias))

MayAskTogether(u, v) ==
  /\ u.at = "knock" => v.at = "knock"
  /\ /\ u # v /\ u.at = "bind" /\ v.at = "bind"
     /\ parseIPAddress(u.data.alias) = parseIPAddress(v.data.alias)
     => u.data.id = parseIPAddress(u.data.alias)
  /\ u.at = "shutdown" =>
       /\ v.at = "bind" => u.data.alias # v.data.alias
       /\ v.at = "connect" => u.data.alias # v.data.remoteAlias

\* No handler starts that would take the host of another client.
LEMMA RequestsKeepPoliteInv ==
  ASSUME IInv, PoliteInv, NEW s \in open, tasks = {},
         UNCHANGED <<open, refused, goodbyes, clients, aliases, subnets, members, ports>>,
         \A u \in tasks' : MayAsk(s, u),
         \A u, v \in tasks' : MayAskTogether(u, v)
  PROVE  PoliteInv'
<1>1. tasks = {} /\ s \in open
  OBVIOUS
<1>2. UNCHANGED <<open, refused, goodbyes, clients, aliases, subnets, members, ports>>
  OBVIOUS
<1>3. \A u \in tasks' :
        /\ u.at \in {"knock", "bind", "accepting", "shutdown", "connect", "offer", "answer",
                     "candidate"}
        /\ u.at = "bind" =>
             /\ u.data.id \in goodbyes[s]
             /\ \/ u.data.alias \in DOMAIN aliases
                \/ parseIPAddress(u.data.alias) \notin members \ {u.data.id}
        /\ u.at = "shutdown" => ~ Connected(parseIPAddress(u.data.alias))
  BY DEF MayAsk
<1>4. /\ \A u, v \in tasks' : u.at = "knock" => v.at = "knock"
      /\ \A u, v \in tasks' :
           /\ u # v /\ u.at = "bind" /\ v.at = "bind"
           /\ parseIPAddress(u.data.alias) = parseIPAddress(v.data.alias)
           => u.data.id = parseIPAddress(u.data.alias)
      /\ \A u, v \in tasks' : u.at = "shutdown" =>
           /\ v.at = "bind" => u.data.alias # v.data.alias
           /\ v.at = "connect" => u.data.alias # v.data.remoteAlias
  BY DEF MayAskTogether
<1>5. \A id : Connected(id)' <=> Connected(id)
  BY <1>2 DEF Connected
<1>6. TurnsApart'
  BY <1>3, <1>4
  DEF TurnsApart, RequestPlaces, Places, KnockPlaces, ClosePlaces, LeavePlaces, ExpiryPlaces
<1>7. IdsHosted' /\ UniqueIds' /\ AliasesHoldPorts'
  BY <1>1, <1>2 DEF PoliteInv, IdsHosted, UniqueIds, AliasesHoldPorts
<1>8. IdsFresh' /\ IdsGone' /\ PortsHeld' /\ ConnectsOwned'
  BY <1>3
  DEF IdsFresh, IdsGone, LeavePlaces, PortsHeld, Holds, ConnectsOwned, CreatedPlaces
<1>9. \A u \in tasks' : ~ (u.at \in LeavePlaces)
  BY <1>3 DEF LeavePlaces
<1>10. \A a \in DOMAIN aliases : parseIPAddress(a) \in members
  BY <1>1 DEF PoliteInv, AliasesHoldPorts, IInv, PortsHosted
<1>11. ASSUME NEW u \in tasks', Binds(u)'
       PROVE  /\ u.at = "bind" /\ Connected(u.data.id)
              /\ parseIPAddress(u.data.alias) \notin members \ {u.data.id}
  BY <1>1, <1>2, <1>3, <1>11 DEF Binds, Connected
<1>12. HostsOwned'
  <2>1. ASSUME NEW a \in DOMAIN aliases, NEW h, h = parseIPAddress(a), Connected(h)'
        PROVE  aliases[a].id = h
    BY <1>5, <2>1 DEF PoliteInv, HostsOwned
  <2>2. ASSUME NEW u \in tasks', Binds(u)', NEW h, h = parseIPAddress(u.data.alias), Connected(h)'
        PROVE  u.data.id = h
    <3>1. h \in members
      BY <1>5, <2>2 DEF PoliteInv, IdsHosted, Connected
    <3> QED
      BY <1>11, <2>2, <3>1
  <2>3. \A id : ~ Departing(id)'
    BY <1>9 DEF Departing
  <2> QED
    BY <1>2, <2>1, <2>2, <2>3 DEF HostsOwned
<1>13. HostsApart'
  <2>1. \A a, b \in DOMAIN aliases :
          a # b /\ parseIPAddress(a) = parseIPAddress(b) => aliases[a].id = parseIPAddress(a)
    BY DEF PoliteInv, HostsApart
  <2>2. ASSUME NEW a \in DOMAIN aliases, NEW u \in tasks', Binds(u)',
               parseIPAddress(a) = parseIPAddress(u.data.alias)
        PROVE  aliases[a].id = parseIPAddress(a) /\ u.data.id = parseIPAddress(a)
    <3>1. u.data.id = parseIPAddress(a)
      BY <1>10, <1>11, <2>2
    <3> QED
      BY <1>11, <2>2, <3>1 DEF PoliteInv, HostsOwned
  <2>3. \A u, v \in tasks' :
          /\ u # v /\ Binds(u)' /\ Binds(v)'
          /\ parseIPAddress(u.data.alias) = parseIPAddress(v.data.alias)
          => u.data.id = parseIPAddress(u.data.alias)
    BY <1>4, <1>11
  <2> QED
    BY <1>2, <2>1, <2>2, <2>3 DEF HostsApart
<1>14. HostsEmpty'
  <2>1. ASSUME NEW u \in tasks', NEW h, h = parseIPAddress(u.data.alias), u.at = "shutdown"
        PROVE  ~ Connected(h)'
    BY <1>3, <1>5, <2>1
  <2>2. \A u \in tasks' : u.at \notin {"freePort", "freeHost"} \cup ExpiryPlaces
    BY <1>3 DEF ExpiryPlaces
  <2> QED
    BY <2>1, <2>2 DEF HostsEmpty
<1>15. ConnectsTrue' /\ RequestsApart'
  BY <1>3, <1>4 DEF ConnectsTrue, ConnectPlaces, CreatedPlaces, RequestsApart
<1> QED
  BY <1>6, <1>7, <1>8, <1>12, <1>13, <1>14, <1>15 DEF PoliteInv

\* What polite clients send in one chunk starts no such handler.
LEMMA ChunkKeepsPoliteInv ==
  ASSUME Polite, IInv, PoliteInv, NEW s \in Sockets, Chunk(s)
  PROVE  PoliteInv'
<1>1. tasks = {} /\ s \in open
  BY DEF Chunk, Receive
<1>2. UNCHANGED <<open, refused, goodbyes, clients, aliases, subnets, members, ports>>
  BY DEF Chunk, Receive, connected, addresses
<1>3. \A u \in tasks' : MayAsk(s, u)
  BY PoliteChunk, PoliteMessages DEF MayAsk, Connected
<1>4. \A u, v \in tasks' : MayAskTogether(u, v)
  BY PoliteChunk DEF MayAskTogether
<1> QED
  BY <1>1, <1>2, <1>3, <1>4, RequestsKeepPoliteInv

\* The ids of the sockets that close are gone: no other socket has them.
LEMMA CloseKeepsPoliteInv ==
  ASSUME IInv, PoliteInv, NEW S \in SUBSET open, Close(S)
  PROVE  PoliteInv'
<1>1. /\ tasks = {} /\ open' = open \ S
      /\ goodbyes' = [s \in Sockets |-> IF s \in S THEN {} ELSE goodbyes[s]]
      /\ UNCHANGED <<aliases, subnets, members, ports>>
  BY DEF Close, addresses
<1>2. ASSUME NEW u \in tasks'
      PROVE  u.at = "close" /\ \E s \in S : u.data.id \in goodbyes[s]
  BY DEF Close, Begin
<1>3. \A s \in Sockets : goodbyes'[s] = IF s \in S THEN {} ELSE goodbyes[s]
  BY <1>1
<1>4. open \subseteq Sockets
  BY DEF IInv, DataTyped
<1>5. \A id : Connected(id)' => Connected(id)
  BY <1>1, <1>3, <1>4 DEF Connected
<1>6. TurnsApart' /\ IdsFresh' /\ PortsHeld' /\ ConnectsOwned' /\ ConnectsTrue' /\ RequestsApart'
  BY <1>2
  DEF TurnsApart, ClosePlaces, LeavePlaces, IdsFresh, PortsHeld, Holds, ConnectsOwned,
      ConnectsTrue, ConnectPlaces, CreatedPlaces, RequestsApart
<1>7. IdsHosted' /\ UniqueIds'
  BY <1>1, <1>3, <1>4 DEF PoliteInv, IdsHosted, UniqueIds
<1>8. IdsGone'
  <2>1. ASSUME NEW u \in tasks', NEW id, id = u.data.id, Connected(id)' PROVE FALSE
    <3>1. PICK s \in S : id \in goodbyes[s]
      BY <1>2, <2>1
    <3>2. PICK r \in open \ S : id \in goodbyes[r]
      BY <1>1, <1>3, <1>4, <2>1 DEF Connected
    <3> QED
      BY <3>1, <3>2 DEF PoliteInv, UniqueIds
  <2> QED
    BY <2>1 DEF IdsGone
<1>9. \A u \in tasks' : ~ Binds(u)'
  BY <1>2 DEF Binds
<1>10. HostsOwned'
  <2>1. \A id : Departing(id)' => Connected(id)
    BY <1>2 DEF Departing, Connected
  <2>2. ASSUME NEW a \in DOMAIN aliases, NEW h, h = parseIPAddress(a),
               Connected(h)' \/ Departing(h)'
        PROVE  aliases[a].id = h
    BY <1>5, <2>1, <2>2 DEF PoliteInv, HostsOwned
  <2> QED
    BY <1>1, <1>9, <2>2 DEF HostsOwned
<1>11. HostsApart'
  BY <1>1, <1>9 DEF PoliteInv, HostsApart
<1>12. HostsEmpty'
  BY <1>2 DEF HostsEmpty, ExpiryPlaces
<1>13. AliasesHoldPorts'
  BY <1>1 DEF PoliteInv, AliasesHoldPorts
<1> QED
  BY <1>6, <1>7, <1>8, <1>10, <1>11, <1>12, <1>13 DEF PoliteInv

\* A socket that connects has no id.
LEMMA ConnectionKeepsPoliteInv ==
  ASSUME IInv, PoliteInv, NEW s \in Sockets, Connection(s)
  PROVE  PoliteInv'
<1>1. /\ tasks = {} /\ open' = open \cup {s} /\ goodbyes[s] = {}
      /\ UNCHANGED <<goodbyes, clients, aliases, subnets, members, ports, tasks>>
  BY DEF Connection, addresses, PoliteInv, IdsHosted
<1>2. \A id : Connected(id)' <=> Connected(id)
  BY <1>1 DEF Connected
<1>3. TurnsApart' /\ IdsFresh' /\ IdsGone' /\ HostsEmpty' /\ PortsHeld' /\ ConnectsOwned'
      /\ ConnectsTrue' /\ RequestsApart'
  BY <1>1
  DEF RequestsApart, TurnsApart, IdsFresh, IdsGone, HostsEmpty, PortsHeld, ConnectsOwned, ConnectsTrue
<1>4. IdsHosted' /\ UniqueIds' /\ AliasesHoldPorts'
  BY <1>1 DEF PoliteInv, IdsHosted, UniqueIds, AliasesHoldPorts
<1>5. HostsOwned'
  <2>1. ASSUME NEW a \in DOMAIN aliases, NEW h, h = parseIPAddress(a), Connected(h)'
        PROVE  aliases[a].id = h
    BY <1>2, <2>1 DEF PoliteInv, HostsOwned
  <2> QED
    BY <1>1, <2>1 DEF HostsOwned, Departing
<1>6. HostsApart'
  BY <1>1 DEF PoliteInv, HostsApart
<1> QED
  BY <1>3, <1>4, <1>5, <1>6 DEF PoliteInv

----
(***************************************************************************)
(* The theorems                                                            *)
(***************************************************************************)
\* Every step preserves the invariant of polite clients.
LEMMA RunKeepsPoliteInv ==
  ASSUME IInv, PoliteInv, NEW t \in tasks, Run(t)
  PROVE  PoliteInv'
<1>1. TurnsApart'
  BY RunTurnsApart DEF IInv, PoliteInv
<1>2. IdsHosted' /\ UniqueIds' /\ IdsFresh' /\ IdsGone'
  BY RunIdsHosted, RunUniqueIds, RunIdsFresh, RunIdsGone
<1>3. HostsOwned' /\ HostsApart' /\ HostsEmpty' /\ RequestsApart'
  BY RunHostsOwned, RunHostsApart, RunHostsEmpty, RunRequestsApart
<1>4. PortsHeld' /\ AliasesHoldPorts' /\ ConnectsOwned' /\ ConnectsTrue'
  BY RunPortsHeld, RunAliasesHoldPorts, RunConnectsOwned, RunConnectsTrue
<1> QED
  BY <1>1, <1>2, <1>3, <1>4 DEF PoliteInv

LEMMA SendingKeepsPoliteInv ==
  ASSUME PoliteInv,
         UNCHANGED <<open, goodbyes, clients, aliases, members, ports, tasks>>
  PROVE  PoliteInv'
<1>1. \A id : Connected(id)' <=> Connected(id)
  BY DEF Connected
<1>2. TurnsApart' /\ IdsHosted' /\ UniqueIds' /\ IdsFresh' /\ IdsGone'
  BY DEF PoliteInv, TurnsApart, IdsHosted, UniqueIds, IdsFresh, IdsGone, Connected
<1>3. HostsOwned' /\ HostsApart' /\ HostsEmpty' /\ RequestsApart'
  BY DEF PoliteInv, HostsOwned, HostsApart, HostsEmpty, RequestsApart, Connected, Departing,
     Empty, Binds
<1>4. PortsHeld' /\ AliasesHoldPorts' /\ ConnectsOwned' /\ ConnectsTrue'
  BY DEF PoliteInv, PortsHeld, AliasesHoldPorts, ConnectsOwned, ConnectsTrue, Connected, owns
<1> QED
  BY <1>2, <1>3, <1>4 DEF PoliteInv

LEMMA InitKeepsPoliteInv == Init => PoliteInv
  BY DEF Init, PoliteInv, TurnsApart, IdsHosted, UniqueIds, IdsFresh, IdsGone, HostsOwned,
     HostsApart, HostsEmpty, RequestsApart, PortsHeld, AliasesHoldPorts, ConnectsOwned,
     ConnectsTrue, Connected, Departing

LEMMA NextKeepsPoliteInv ==
  ASSUME Polite, IInv, PoliteInv, [Next]_vars
  PROVE  PoliteInv'
<1>1. CASE UNCHANGED vars
  BY <1>1, SendingKeepsPoliteInv DEF vars
<1>2. ASSUME NEW s \in Sockets, Connection(s) PROVE PoliteInv'
  BY <1>2, ConnectionKeepsPoliteInv
<1>3. ASSUME NEW s \in Sockets, Chunk(s) PROVE PoliteInv'
  BY <1>3, ChunkKeepsPoliteInv
<1>4. ASSUME NEW S \in SUBSET open, Close(S) PROVE PoliteInv'
  BY <1>4, CloseKeepsPoliteInv
<1>5. ASSUME NEW t \in tasks, Run(t) PROVE PoliteInv'
  BY <1>5, RunKeepsPoliteInv
<1> QED
  BY <1>1, <1>2, <1>3, <1>4, <1>5 DEF Next, Handlers

\* THEOREM PoliteInvariance: what the handlers keep true for polite clients.
THEOREM PoliteInvariance ==
  ASSUME Polite
  PROVE  Spec => []PoliteInv
<1>1. Init => PoliteInv
  BY InitKeepsPoliteInv
<1>2. IInv /\ PoliteInv /\ [Next]_vars => PoliteInv'
  BY NextKeepsPoliteInv
<1> QED
  BY <1>1, <1>2, Invariance, PTL DEF Spec

\* THEOREM IdsStayUnique: createIPAddress gives no client the id of another that
\* is connected, however knocks, binds, shutdowns and departures overlap, as long
\* as clients stay clear of each other's hosts.
THEOREM IdsStayUnique ==
  ASSUME Polite
  PROVE  Spec => []UniqueIds
<1>1. PoliteInv => UniqueIds
  BY DEF PoliteInv
<1> QED
  BY <1>1, PoliteInvariance, PTL

\* THEOREM AliasesKeepTheirPorts: the port of a registered alias is not given back
\* under it, by a shutdown or a departure that frees a host, or by a connect that
\* is refused.
THEOREM AliasesKeepTheirPorts ==
  ASSUME Polite
  PROVE  Spec => []AliasesHoldPorts
<1>1. PoliteInv => AliasesHoldPorts
  BY DEF PoliteInv
<1> QED
  BY <1>1, PoliteInvariance, PTL

\* THEOREM AliasesStayWithTheirClient: handleBind and handleConnect never register
\* an alias over one that is there.
THEOREM AliasesStayWithTheirClient ==
  ASSUME Polite
  PROVE  Spec => AliasKept
<1>1. IInv /\ PoliteInv /\ [Next]_vars =>
        [\A alias \in DOMAIN aliases \cap DOMAIN aliases' :
           aliases'[alias].id = aliases[alias].id]_vars
  <2> SUFFICES ASSUME IInv, PoliteInv, Next, NEW alias \in DOMAIN aliases \cap DOMAIN aliases'
               PROVE  aliases'[alias].id = aliases[alias].id
    OBVIOUS
  <2>1. CASE \E s \in Sockets : Connection(s) \/ Chunk(s)
    BY <2>1 DEF Connection, Chunk, Receive
  <2>2. CASE \E S \in SUBSET open \ {{}} : Close(S)
    BY <2>2 DEF Close
  <2>3. CASE \E t \in tasks : Run(t)
    BY <2>3, RunNewAlias
  <2> QED
    BY <2>1, <2>2, <2>3 DEF Next, Handlers
<1> QED
  BY <1>1, Invariance, PoliteInvariance, PTL DEF Spec, AliasKept

\* What the steps send, and to whom.
Tells(socket, m) == sent' = {[to |-> socket, message |-> m]}

TellsAll(m) == sent' = {[to |-> clients[i], message |-> m] : i \in DOMAIN clients}

\* The two acknowledgements, and the two things an Alias may say.
Granting(id) == Acknowledgement(id, FALSE)
Refusal == Acknowledgement(NoAddress, TRUE)
Registration(id, alias, clientConnectionId) == Alias(id, alias, TRUE, clientConnectionId)
Retraction(id, alias, clientConnectionId) == Alias(id, alias, FALSE, clientConnectionId)

LEMMA AcknowledgementFields ==
  /\ Refusal.op = "acknowledgement" /\ Refusal.id = NoAddress /\ Refusal.rejected
  /\ \A id : /\ Granting(id).op = "acknowledgement" /\ Granting(id).id = id
             /\ ~ Granting(id).rejected
<1>1. Refusal.op = "acknowledgement" /\ Refusal.id = NoAddress
  BY DEF Refusal, Acknowledgement
<1>2. Refusal.rejected
  BY Zenon DEF Refusal, Acknowledgement
<1>3. \A id : Granting(id).op = "acknowledgement" /\ Granting(id).id = id
  BY DEF Granting, Acknowledgement
<1>4. \A id : ~ Granting(id).rejected
  BY Zenon DEF Granting, Acknowledgement
<1> QED
  BY <1>1, <1>2, <1>3, <1>4

LEMMA AliasFields ==
  ASSUME NEW id, NEW alias, NEW conn
  PROVE  /\ LET m == Registration(id, alias, conn) IN
            /\ m.op = "alias" /\ m.id = id /\ m.alias = alias /\ m.set
            /\ m.clientConnectionId = conn /\ ~ m.isConnectionAlias
         /\ LET m == Retraction(id, alias, conn) IN
            /\ m.op = "alias" /\ m.id = id /\ m.alias = alias /\ ~ m.set
            /\ m.clientConnectionId = conn /\ ~ m.isConnectionAlias
         /\ LET m == ConnectionAlias(id, alias, conn) IN
            /\ m.op = "alias" /\ m.id = id /\ m.alias = alias /\ m.set
            /\ m.clientConnectionId = conn /\ m.isConnectionAlias
<1> DEFINE Kept(m) == /\ m.op = "alias" /\ m.id = id /\ m.alias = alias
                      /\ m.clientConnectionId = conn
<1>1. Kept(Registration(id, alias, conn)) /\ Kept(Retraction(id, alias, conn))
  BY DEF Registration, Retraction, Alias
<1>2. Kept(ConnectionAlias(id, alias, conn))
  BY DEF ConnectionAlias, Alias
<1>3. Registration(id, alias, conn).set /\ ~ Retraction(id, alias, conn).set
  BY Zenon DEF Registration, Retraction, Alias
<1>4. /\ ~ Registration(id, alias, conn).isConnectionAlias
      /\ ~ Retraction(id, alias, conn).isConnectionAlias
  BY Zenon DEF Registration, Retraction, Alias
<1>5. ConnectionAlias(id, alias, conn).set /\ ConnectionAlias(id, alias, conn).isConnectionAlias
  BY Zenon DEF ConnectionAlias, Alias
<1> QED
  BY <1>1, <1>2, <1>3, <1>4, <1>5

LEMMA ToAllTells ==
  ASSUME NEW m
  PROVE  ToAll(m) = {[to |-> clients[i], message |-> m] : i \in DOMAIN clients}
  BY DEF ToAll, To

LEMMA OthersSendNothing ==
  ASSUME NEW t \in tasks, Run(t),
         t.at \in {"knock", "claim", "accepting", "freePort", "freeHost", "connect", "undo",
                  "close", "expireHost", "expirePort"}
  PROVE  sent' = {}
<1>1. t.at \in {"claim", "accepting"} => claimTCPAddress(t) \/ handleAccepting(t)
  BY RunsAt
<1> QED
  BY <1>1, RunsAt DEF createIPAddress, claimTCPAddress, handleAccepting, removeTCPAddress,
     removeIPAddress, createTCPAddress, undo, leave, expireHost, expirePort, Send, Throw

LEMMA KnockSends ==
  ASSUME NEW t \in tasks, Run(t)
  PROVE  /\ t.at = "acknowledge" =>
              \/ t.addr = NoAddress /\ Tells(t.sock, Refusal) /\ tasks' = tasks \ {t}
              \/ t.addr # NoAddress /\ Tells(t.sock, Granting(t.addr)) /\ refused' = refused
         /\ t.at = "greet" =>
              sent' = {[to |-> clients[other], message |-> Greeting(other, t.addr)]
                         : other \in DOMAIN clients \ {t.addr}}
<1>1. CASE t.at = "acknowledge"
  BY <1>1, RunsAt DEF acknowledge, Send, To, Tells, End, Refusal, Granting
<1>2. CASE t.at = "greet"
  <2>1. \A m : \A s : To(s, m) = {[to |-> s, message |-> m]}
    BY DEF To
  <2> QED
    BY <1>2, <2>1, RunsAt DEF greet, Send
<1> QED
  BY <1>1, <1>2

LEMMA BindSends ==
  ASSUME NEW t \in tasks, Run(t)
  PROVE  /\ t.at = "bind" =>
              \/ sent' = {}
              \/ /\ t.data.alias \in DOMAIN aliases /\ t.data.id \in DOMAIN clients
                 /\ Tells(clients[t.data.id],
                          Retraction(t.data.id, t.data.alias, NoConnection))
         /\ t.at = "register" =>
              TellsAll(Registration(t.data.id, t.data.alias, NoConnection))
  BY RunsAt, ToAllTells DEF bind, register, Send, Throw, Get, To, Tells, TellsAll,
     Registration, Retraction

LEMMA ShutdownSends ==
  ASSUME NEW t \in tasks, Run(t)
  PROVE  /\ t.at = "shutdown" =>
              \/ sent' = {}
              \/ /\ ~ owns(t.data.id, t.data.alias) /\ t.data.id \in DOMAIN clients
                 /\ Tells(clients[t.data.id],
                          Registration(t.data.id, t.data.alias, NoConnection))
         /\ t.at = "retract" =>
              TellsAll(Retraction(t.data.id, t.data.alias, NoConnection))
         /\ t.at = "expire" => TellsAll(Goodbye(t.data.id))
  BY RunsAt, ToAllTells DEF shutdown, retract, expire, Send, Throw, Get, To, Tells, TellsAll,
     Registration, Retraction

LEMMA LookupSends ==
  ASSUME DataTyped, NEW t \in tasks, Run(t), t.at = "lookup"
  PROVE  LET data == t.data IN
         \/ sent' = {} /\ (~ accepting(data.remoteAlias) \/ data.id \notin DOMAIN clients)
         \/ /\ accepting(data.remoteAlias) /\ data.id \in DOMAIN clients
            /\ Tells(clients[data.id], ConnectionAlias(data.id, t.addr, data.clientConnectionId))
<1>1. \A i \in DOMAIN clients : clients[i] # NoSocket
  BY ServerAssumption DEF DataTyped
<1> QED
  BY <1>1, RunsAt DEF lookup, Get, Tells, To, Send, Throw

LEMMA RefuseSends ==
  ASSUME NEW t \in tasks, Run(t), t.at = "refuse"
  PROVE  \/ sent' = {} /\ t.client = NoSocket
         \/ Tells(t.client, Retraction(t.data.id, t.addr, t.data.clientConnectionId))
  BY RunsAt DEF refuse, Tells, To, Send, Throw, Retraction

LEMMA IntroduceSends ==
  ASSUME DataTyped, TasksTyped, NEW t \in tasks, Run(t), t.at = "introduce"
  PROVE  \/ sent' = {} /\ tasks' = tasks \ {t}
         \/ \E owner \in DOMAIN clients :
              /\ t.data.remoteAlias \in DOMAIN aliases
              /\ owner = aliases[t.data.remoteAlias].id
              /\ Tells(clients[owner], Registration(t.data.id, t.addr, NoConnection))
              /\ \A u \in tasks' : u \in tasks \/ (u.owner = owner /\ u.server = clients[owner])
<1>1. introduce(t)
  BY RunsAt
<1>2. CASE sent' = {}
  BY <1>1, <1>2 DEF introduce, End, Throw, Send, To
<1>3. CASE sent' # {}
  <2>1. PICK owner :
          /\ owner = IF t.data.remoteAlias \in DOMAIN aliases THEN aliases[t.data.remoteAlias].id
                                                              ELSE NoAddress
          /\ Get(owner) # NoSocket
          /\ Tells(Get(owner), Registration(t.data.id, t.addr, NoConnection))
          /\ tasks' = (tasks \ {t}) \cup
               {[t EXCEPT !.at = "accept", !.server = Get(owner), !.owner = owner]}
    BY <1>1, <1>3 DEF introduce, Throw, Send, To, Tells, Registration
  <2>2. owner \in DOMAIN clients /\ Get(owner) = clients[owner]
    BY <2>1 DEF Get
  <2>3. owner # NoAddress
    BY <2>2, AddressesAssumption DEF DataTyped, IPAddresses, NoAddress
  <2> DEFINE u == [t EXCEPT !.at = "accept", !.server = Get(owner), !.owner = owner]
  <2>4. u.server = Get(owner) /\ u.owner = owner
    BY DEF TasksTyped, TaskOK, Tasks
  <2> HIDE DEF u
  <2> QED
    BY <2>1, <2>2, <2>3, <2>4 DEF u
<1> QED
  BY <1>2, <1>3

LEMMA AcceptSends ==
  ASSUME NEW t \in tasks, Run(t)
  PROVE  /\ t.at = "accept" => Tells(t.server, Accept(t.data.remoteAlias, t.addr))
         /\ t.at = "confirm" =>
              Tells(t.client,
                    Registration(t.owner, t.data.remoteAlias, t.data.clientConnectionId))
  BY RunsAt DEF accept, confirm, Tells, To, Send, Registration

LEMMA RelaySends ==
  ASSUME NEW t \in tasks, Run(t), t.at \in {"offer", "answer", "candidate"}
  PROVE  sent' = {} \/ \E i \in DOMAIN clients : Tells(clients[i], t.data)
  BY RunsAt DEF relay, Get, Send, Throw, To, Tells

\* Every message, by the step that sends it.
Says(t, x) ==
  \/ /\ t.at = "acknowledge" /\ x.to = t.sock
     /\ x.message = IF t.addr = NoAddress THEN Refusal ELSE Granting(t.addr)
  \/ /\ t.at = "greet"
     /\ \E i \in DOMAIN clients : x.to = clients[i] /\ x.message = Greeting(i, t.addr)
  \/ /\ t.at = "bind" /\ t.data.alias \in DOMAIN aliases
     /\ t.data.id \in DOMAIN clients /\ x.to = clients[t.data.id]
     /\ x.message = Retraction(t.data.id, t.data.alias, NoConnection)
  \/ /\ t.at = "shutdown" /\ ~ owns(t.data.id, t.data.alias)
     /\ t.data.id \in DOMAIN clients /\ x.to = clients[t.data.id]
     /\ x.message = Registration(t.data.id, t.data.alias, NoConnection)
  \/ /\ t.at \in {"register", "retract", "expire"}
     /\ \E i \in DOMAIN clients : x.to = clients[i]
     /\ t.at = "register" => x.message = Registration(t.data.id, t.data.alias, NoConnection)
     /\ t.at = "retract" => x.message = Retraction(t.data.id, t.data.alias, NoConnection)
     /\ t.at = "expire" => x.message = Goodbye(t.data.id)
  \/ /\ t.at = "lookup" /\ accepting(t.data.remoteAlias)
     /\ t.data.id \in DOMAIN clients /\ x.to = clients[t.data.id]
     /\ x.message = ConnectionAlias(t.data.id, t.addr, t.data.clientConnectionId)
  \/ /\ t.at = "introduce" /\ t.data.remoteAlias \in DOMAIN aliases
     /\ aliases[t.data.remoteAlias].id \in DOMAIN clients
     /\ x.to = clients[aliases[t.data.remoteAlias].id]
     /\ x.message = Registration(t.data.id, t.addr, NoConnection)
  \/ /\ t.at = "accept" /\ x.to = t.server
     /\ x.message = Accept(t.data.remoteAlias, t.addr)
  \/ /\ t.at \in {"refuse", "confirm"} /\ x.to = t.client
     /\ t.at = "refuse" =>
          x.message = Retraction(t.data.id, t.addr, t.data.clientConnectionId)
     /\ t.at = "confirm" =>
          x.message = Registration(t.owner, t.data.remoteAlias, t.data.clientConnectionId)
  \/ /\ t.at \in {"offer", "answer", "candidate"}
     /\ \E i \in DOMAIN clients : x.to = clients[i]
     /\ x.message = t.data

LEMMA RunSays ==
  ASSUME DataTyped, TasksTyped, NEW t \in tasks, Run(t), NEW x \in sent'
  PROVE  Says(t, x)
<1>1. t.at \in Places
  BY DEF TasksTyped, TaskOK, Tasks
<1>2. CASE t.at \in {"acknowledge", "greet"}
  BY <1>2, KnockSends DEF Tells, Says
<1>3. CASE t.at \in {"bind", "register"}
  BY <1>3, BindSends DEF Tells, TellsAll, Says
<1>4. CASE t.at \in {"shutdown", "retract", "expire"}
  BY <1>4, ShutdownSends DEF Tells, TellsAll, Says
<1>5. CASE t.at = "lookup"
  BY <1>5, LookupSends DEF Tells, Says
<1>6. CASE t.at = "introduce"
  BY <1>6, IntroduceSends DEF Tells, Says
<1>7. CASE t.at = "refuse"
  BY <1>7, RefuseSends DEF Tells, Says
<1>8. CASE t.at \in {"accept", "confirm"}
  BY <1>8, AcceptSends DEF Tells, Says
<1>9. CASE t.at \in {"offer", "answer", "candidate"}
  BY <1>9, RelaySends DEF Tells, Says
<1>10. CASE t.at \in {"knock", "claim", "accepting", "freePort", "freeHost", "connect", "undo",
                     "close", "expireHost", "expirePort"}
  BY <1>10, OthersSendNothing
<1> QED
  BY <1>1, <1>2, <1>3, <1>4, <1>5, <1>6, <1>7, <1>8, <1>9, <1>10 DEF Places

\* Only one step of handleConnect sends an Accept.
LEMMA AcceptsAreSent ==
  ASSUME TasksTyped, DataTyped, NEW t \in tasks, Run(t), NEW m \in sent',
         m.message.op = "accept"
  PROVE  accept(t)
<1>1. t.data \in Data /\ t.data.op # "accept"
  BY DEF TasksTyped, TaskOK, Tasks, Data, Knocks, Requests, Connects, Relayed, Departures,
     Expiries
<1>2. \A i, j : Greeting(i, j).op # "accept" /\ Goodbye(i).op # "accept"
  BY DEF Greeting, Goodbye
<1>3. t.at = "accept"
  BY <1>1, <1>2, RunSays, AcknowledgementFields, AliasFields DEF Says
<1> QED
  BY <1>3, RunsAt

\* THEOREM AcceptsReachTheOwner: between the look at the remote alias and the
\* Accept, two awaits later, the alias neither goes nor changes hands, and the
\* alias of the connection stays.
THEOREM AcceptsReachTheOwner ==
  ASSUME Polite
  PROVE  Spec => []AcceptReachesOwner
<1>1. Init => AcceptReachesOwner
  BY DEF Init, AcceptReachesOwner
<1>2. IInv /\ PoliteInv /\ AcceptReachesOwner /\ [Next]_vars => AcceptReachesOwner'
  <2> SUFFICES ASSUME IInv, PoliteInv, AcceptReachesOwner, [Next]_vars PROVE AcceptReachesOwner'
    OBVIOUS
  <2>1. CASE UNCHANGED vars
    BY <2>1 DEF vars, AcceptReachesOwner, owns
  <2>2. CASE \E s \in Sockets : Connection(s) \/ Chunk(s)
    BY <2>2 DEF Connection, Chunk, Receive, Send, AcceptReachesOwner
  <2>3. CASE \E S \in SUBSET open \ {{}} : Close(S)
    BY <2>3 DEF Close, Send, AcceptReachesOwner
  <2>4. ASSUME NEW t \in tasks, Run(t), NEW m \in sent', m.message.op = "accept"
        PROVE  /\ m.message.clientAlias \in DOMAIN aliases'
               /\ \E id \in DOMAIN clients' :
                    clients'[id] = m.to /\ owns(id, m.message.boundAlias)'
    <3>1. accept(t)
      BY <2>4, AcceptsAreSent DEF IInv
    <3>2. m = [to |-> t.server, message |-> Accept(t.data.remoteAlias, t.addr)]
      BY <2>4, <3>1 DEF accept, Send, To
    <3>3. /\ m.to = t.server /\ m.message.boundAlias = t.data.remoteAlias
          /\ m.message.clientAlias = t.addr
      BY <3>2 DEF Accept
    <3>4. aliases' = aliases /\ clients' = clients /\ t.at = "accept"
      BY <3>1 DEF accept, At
    <3> QED
      BY <3>3, <3>4 DEF PoliteInv, ConnectsTrue, owns
  <2> QED
    BY <2>1, <2>2, <2>3, <2>4 DEF Next, Handlers, AcceptReachesOwner
<1> QED
  BY <1>1, <1>2, Invariance, PoliteInvariance, PTL DEF Spec

====
