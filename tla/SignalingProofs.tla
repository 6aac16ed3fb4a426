---- MODULE SignalingProofs ----
(***************************************************************************)
(* What signaling clients and the server keep true together, for any       *)
(* number of clients and of connections that are lost.                     *)
(***************************************************************************)
EXTENDS Signaling, TLAPS, FiniteSetTheorems, SequenceTheorems

\* The messages on the way.
Held(queue) == {queue[k] : k \in DOMAIN queue}

----
(***************************************************************************)
(* Queues                                                                  *)
(***************************************************************************)
LEMMA SeqFacts ==
  ASSUME NEW S, NEW q \in Seq(S)
  PROVE  /\ Len(q) \in Nat /\ DOMAIN q = 1 .. Len(q)
         /\ \A k \in DOMAIN q : q[k] \in S /\ q[k] \in Held(q)
         /\ \A m \in Held(q) : m \in S /\ \E k \in DOMAIN q : q[k] = m
         /\ q = <<>> <=> Held(q) = {}
  BY DEF Held

\* A message goes to the end of its queue, and leaves it at the head.
LEMMA AppendFacts ==
  ASSUME NEW S, NEW q \in Seq(S), NEW m \in S
  PROVE  /\ Append(q, m) \in Seq(S)
         /\ Len(Append(q, m)) = Len(q) + 1
         /\ DOMAIN Append(q, m) = DOMAIN q \cup {Len(q) + 1} /\ Len(q) + 1 \notin DOMAIN q
         /\ \A k \in DOMAIN q : Append(q, m)[k] = q[k] /\ k < Len(q) + 1
         /\ Append(q, m)[Len(q) + 1] = m
         /\ Held(Append(q, m)) = Held(q) \cup {m}
<1>1. /\ Append(q, m) \in Seq(S) /\ Len(Append(q, m)) = Len(q) + 1 /\ Len(q) \in Nat
      /\ \A k \in 1 .. Len(q) : Append(q, m)[k] = q[k]
      /\ Append(q, m)[Len(q) + 1] = m
      /\ DOMAIN q = 1 .. Len(q) /\ DOMAIN Append(q, m) = 1 .. (Len(q) + 1)
  BY AppendProperties, SeqFacts
<1>2. /\ DOMAIN Append(q, m) = DOMAIN q \cup {Len(q) + 1} /\ Len(q) + 1 \notin DOMAIN q
      /\ \A k \in DOMAIN q : Append(q, m)[k] = q[k] /\ k < Len(q) + 1
  BY <1>1
<1>3. Held(Append(q, m)) = Held(q) \cup {m}
  BY <1>1, <1>2 DEF Held
<1> QED
  BY <1>1, <1>2, <1>3

LEMMA TailFacts ==
  ASSUME NEW S, NEW q \in Seq(S), q # <<>>
  PROVE  /\ Head(q) \in S /\ Head(q) \in Held(q) /\ Head(q) = q[1] /\ 1 \in DOMAIN q
         /\ Tail(q) \in Seq(S) /\ Len(Tail(q)) = Len(q) - 1
         /\ \A k \in DOMAIN Tail(q) : k + 1 \in DOMAIN q /\ Tail(q)[k] = q[k + 1] /\ k + 1 # 1
         /\ \A k \in DOMAIN q : k # 1 => k - 1 \in DOMAIN Tail(q) /\ Tail(q)[k - 1] = q[k]
         /\ Held(q) = Held(Tail(q)) \cup {Head(q)}
<1>1. /\ Head(q) \in S /\ Tail(q) \in Seq(S) /\ Len(q) \in Nat \ {0}
      /\ DOMAIN q = 1 .. Len(q) /\ DOMAIN Tail(q) = 1 .. (Len(q) - 1)
      /\ Head(q) = q[1] /\ Len(Tail(q)) = Len(q) - 1
      /\ \A k \in 1 .. (Len(q) - 1) : Tail(q)[k] = q[k + 1]
  OBVIOUS
<1>2. \A k \in DOMAIN q : k # 1 => k - 1 \in DOMAIN Tail(q) /\ Tail(q)[k - 1] = q[k]
  BY <1>1
<1>3. \A k \in DOMAIN Tail(q) : k + 1 \in DOMAIN q /\ Tail(q)[k] = q[k + 1] /\ k + 1 # 1
  BY <1>1
<1>4. 1 \in DOMAIN q
  BY <1>1
<1>5. Held(q) = Held(Tail(q)) \cup {Head(q)}
  <2>1. ASSUME NEW m \in Held(q) PROVE m \in Held(Tail(q)) \cup {Head(q)}
    <3>1. PICK k \in DOMAIN q : q[k] = m
      BY DEF Held
    <3> QED
      BY <1>1, <1>2, <3>1 DEF Held
  <2>2. Held(Tail(q)) \subseteq Held(q)
    BY <1>3 DEF Held
  <2>3. Head(q) \in Held(q)
    BY <1>1, <1>4 DEF Held
  <2> QED
    BY <2>1, <2>2, <2>3
<1>6. Head(q) \in Held(q)
  BY <1>5
<1> QED
  BY <1>1, <1>2, <1>3, <1>4, <1>5, <1>6

----
(***************************************************************************)
(* The server, of which more is proved than Signaling needs to know.       *)
(***************************************************************************)
\* The server, with what is proved of it.
SP == INSTANCE PoliteClientsProofs WITH
  open <- accepted, Polite <- FALSE, MaxBatch <- 1, IdBound <- 1

LEMMA ServerAssumptions ==
  SP!AddressesAssumption /\ SP!OperationsAssumption /\ SP!ServerAssumption
  BY AddressesAssumption, OperationsAssumption, ClientAssumption, SignalingAssumption
  DEF SP!AddressesAssumption, SP!OperationsAssumption, SP!ServerAssumption, SP!TCPAddresses, TCPAddresses

LEMMA SameGaps == \A S : Server!FirstGap(S) = SP!FirstGap(S)
<1>1. \A S : Server!Cardinality(S) = SP!Cardinality(S)
  BY DEF Server!Cardinality, SP!Cardinality
<1>2. \A S : Server!Min(S) = SP!Min(S)
  BY DEF Server!Min, SP!Min
<1> QED
  BY <1>1, <1>2 DEF Server!FirstGap, SP!FirstGap, Server!Mismatches, SP!Mismatches,
   Server!Index, SP!Index

LEMMA SameHandlers == \A t : Server!Run(t) <=> SP!Run(t)
<1> TAKE t
<1>1. Server!createIPAddress(t) <=> SP!createIPAddress(t)
  BY SameGaps DEF Server!createIPAddress, SP!createIPAddress, Server!Suffixes, SP!Suffixes,
     Server!NoAddress, SP!NoAddress, Server!toIPAddress, SP!toIPAddress, Server!At, SP!At,
     Server!Send, SP!Send, Server!connected, SP!connected
<1>2. Server!acknowledge(t) <=> SP!acknowledge(t)
  BY DEF Server!acknowledge, SP!acknowledge, Server!At, SP!At, Server!NoAddress, SP!NoAddress,
     Server!Send, SP!Send, Server!To, SP!To, Server!Acknowledgement, SP!Acknowledgement,
     Server!End, SP!End, Server!Goto, SP!Goto, Server!addresses, SP!addresses
<1>3. Server!greet(t) <=> SP!greet(t)
  BY DEF Server!greet, SP!greet, Server!At, SP!At, Server!Send, SP!Send, Server!To, SP!To,
     Server!Greeting, SP!Greeting, Server!Put, SP!Put, Server!End, SP!End, Server!addresses,
     SP!addresses
<1>4. Server!bind(t) <=> SP!bind(t)
  BY DEF Server!bind, SP!bind, Server!Get, SP!Get, Server!At, SP!At, Server!Goto, SP!Goto,
     Server!Send, SP!Send, Server!To, SP!To, Server!Alias, SP!Alias, Server!End, SP!End,
     Server!Throw, SP!Throw, Server!connected, SP!connected, Server!addresses, SP!addresses
<1>5. Server!claimTCPAddress(t) <=> SP!claimTCPAddress(t)
  BY DEF Server!claimTCPAddress, SP!claimTCPAddress, Server!At, SP!At, Server!parseIPAddress,
     SP!parseIPAddress, Server!Goto, SP!Goto, Server!Send, SP!Send, Server!Throw, SP!Throw,
     Server!End, SP!End, Server!connected, SP!connected
<1>6. Server!register(t) <=> SP!register(t)
  BY DEF Server!register, SP!register, Server!At, SP!At, Server!Put, SP!Put, Server!accepting,
     SP!accepting, Server!Send, SP!Send, Server!ToAll, SP!ToAll, Server!To, SP!To,
     Server!Alias, SP!Alias, Server!End, SP!End, Server!connected, SP!connected,
     Server!addresses, SP!addresses
<1>7. Server!handleAccepting(t) <=> SP!handleAccepting(t)
  BY DEF Server!handleAccepting, SP!handleAccepting, Server!At, SP!At, Server!accepting,
     SP!accepting, Server!owns, SP!owns, Server!End, SP!End, Server!Send, SP!Send,
     Server!connected, SP!connected, Server!addresses, SP!addresses
<1>8. Server!shutdown(t) <=> SP!shutdown(t)
  BY DEF Server!shutdown, SP!shutdown, Server!At, SP!At, Server!owns, SP!owns, Server!Without,
     SP!Without, Server!Restrict, SP!Restrict, Server!Goto, SP!Goto, Server!freePort,
     SP!freePort, Server!Send, SP!Send, Server!Get, SP!Get, Server!To, SP!To, Server!Alias,
     SP!Alias, Server!End, SP!End, Server!Throw, SP!Throw, Server!connected, SP!connected,
     Server!addresses, SP!addresses
<1>9. Server!removeTCPAddress(t) <=> SP!removeTCPAddress(t)
  BY DEF Server!removeTCPAddress, SP!removeTCPAddress, Server!At, SP!At, Server!freePort,
     SP!freePort, Server!Goto, SP!Goto, Server!freeHost, SP!freeHost, Server!parseIPAddress,
     SP!parseIPAddress, Server!Send, SP!Send, Server!connected, SP!connected
<1>10. Server!removeIPAddress(t) <=> SP!removeIPAddress(t)
  BY DEF Server!removeIPAddress, SP!removeIPAddress, Server!At, SP!At, Server!freeHost,
     SP!freeHost, Server!parseIPAddress, SP!parseIPAddress, Server!Goto, SP!Goto, Server!Send,
     SP!Send, Server!connected, SP!connected
<1>11. Server!retract(t) <=> SP!retract(t)
  BY DEF Server!retract, SP!retract, Server!At, SP!At, Server!Send, SP!Send, Server!ToAll,
     SP!ToAll, Server!To, SP!To, Server!Alias, SP!Alias, Server!End, SP!End, Server!connected,
     SP!connected, Server!addresses, SP!addresses
<1>12. Server!createTCPAddress(t) <=> SP!createTCPAddress(t)
  BY SameGaps DEF Server!createTCPAddress, SP!createTCPAddress, Server!parseIPAddress, SP!parseIPAddress,
     Server!toTCPAddress, SP!toTCPAddress, Server!PortsOf, SP!PortsOf, Server!At, SP!At,
     Server!Send, SP!Send, Server!Throw, SP!Throw, Server!End, SP!End, Server!connected,
     SP!connected
<1>13. Server!lookup(t) <=> SP!lookup(t)
  BY DEF Server!lookup, SP!lookup, Server!Get, SP!Get, Server!ConnectionAlias, SP!ConnectionAlias,
     Server!Alias, SP!Alias, Server!At, SP!At, Server!accepting, SP!accepting, Server!Send,
     SP!Send, Server!Put, SP!Put, Server!To, SP!To, Server!Throw, SP!Throw, Server!End, SP!End,
     Server!connected, SP!connected, Server!addresses, SP!addresses
<1>14. Server!undo(t) <=> SP!undo(t)
  BY DEF Server!undo, SP!undo, Server!At, SP!At, Server!freePort, SP!freePort, Server!Goto,
     SP!Goto, Server!Send, SP!Send, Server!connected, SP!connected
<1>15. Server!refuse(t) <=> SP!refuse(t)
  BY DEF Server!refuse, SP!refuse, Server!At, SP!At, Server!Send, SP!Send, Server!To, SP!To,
     Server!Alias, SP!Alias, Server!End, SP!End, Server!Throw, SP!Throw, Server!connected,
     SP!connected, Server!addresses, SP!addresses
<1>16. Server!introduce(t) <=> SP!introduce(t)
  BY DEF Server!introduce, SP!introduce, Server!NoAddress, SP!NoAddress, Server!Get, SP!Get,
     Server!At, SP!At, Server!Send, SP!Send, Server!To, SP!To, Server!Alias, SP!Alias,
     Server!Throw, SP!Throw, Server!End, SP!End, Server!connected, SP!connected,
     Server!addresses, SP!addresses
<1>17. Server!accept(t) <=> SP!accept(t)
  BY DEF Server!accept, SP!accept, Server!At, SP!At, Server!Send, SP!Send, Server!To, SP!To,
     Server!Accept, SP!Accept, Server!Goto, SP!Goto, Server!connected, SP!connected,
     Server!addresses, SP!addresses
<1>18. Server!confirm(t) <=> SP!confirm(t)
  BY DEF Server!confirm, SP!confirm, Server!At, SP!At, Server!Send, SP!Send, Server!To, SP!To,
     Server!Alias, SP!Alias, Server!End, SP!End, Server!connected, SP!connected,
     Server!addresses, SP!addresses
<1>19. Server!relay(t) <=> SP!relay(t)
  BY DEF Server!relay, SP!relay, Server!At, SP!At, Server!Get, SP!Get, Server!Throw, SP!Throw,
     Server!End, SP!End, Server!Send, SP!Send, Server!To, SP!To, Server!connected,
     SP!connected, Server!addresses, SP!addresses
<1>20. Server!leave(t) <=> SP!leave(t)
  BY DEF Server!leave, SP!leave, Server!At, SP!At, Server!freeHost, SP!freeHost,
     Server!parseIPAddress, SP!parseIPAddress, Server!Goto, SP!Goto, Server!Send, SP!Send,
     Server!connected, SP!connected
<1>21. Server!expire(t) <=> SP!expire(t)
  BY DEF Server!expire, SP!expire, Server!At, SP!At, Server!Without, SP!Without, Server!Restrict,
     SP!Restrict, Server!Begin, SP!Begin, Server!NoAddress, SP!NoAddress, Server!Send, SP!Send,
     Server!ToAll, SP!ToAll, Server!To, SP!To, Server!Goodbye, SP!Goodbye, Server!connected,
     SP!connected, Server!addresses, SP!addresses
<1>22. Server!expireHost(t) <=> SP!expireHost(t)
  BY DEF Server!expireHost, SP!expireHost, Server!At, SP!At, Server!freeHost, SP!freeHost,
     Server!parseIPAddress, SP!parseIPAddress, Server!Goto, SP!Goto, Server!Send, SP!Send,
     Server!connected, SP!connected
<1>23. Server!expirePort(t) <=> SP!expirePort(t)
  BY DEF Server!expirePort, SP!expirePort, Server!At, SP!At, Server!freePort, SP!freePort,
     Server!Goto, SP!Goto, Server!Send, SP!Send, Server!connected, SP!connected
<1> QED
  BY <1>1, <1>2, <1>3, <1>4, <1>5, <1>6, <1>7, <1>8, <1>9, <1>10, <1>11, <1>12, <1>13, <1>14,
     <1>15, <1>16, <1>17, <1>18, <1>19, <1>20, <1>21, <1>22, <1>23
  DEF Server!Run, SP!Run, Server!handleKnock, SP!handleKnock, Server!handleBind, SP!handleBind,
     Server!handleShutdown, SP!handleShutdown, Server!handleConnect, SP!handleConnect,
     Server!goodbye, SP!goodbye

LEMMA SameData ==
  /\ SP!IPAddresses = IPAddresses /\ SP!TCPAddresses = TCPAddresses
  /\ SP!NoAddress = NoAddress /\ SP!Answers = Answers
  /\ \A a : SP!parseIPAddress(a) = parseIPAddress(a)
  /\ \A i, a : SP!owns(i, a) <=> Server!owns(i, a)
  BY DEF SP!IPAddresses, IPAddresses, SP!TCPAddresses, TCPAddresses, SP!NoAddress, NoAddress,
     SP!Answers, Answers, SP!parseIPAddress, parseIPAddress, SP!owns, Server!owns

LEMMA SameTurns ==
  /\ Server!Init <=> SP!Init
  /\ Server!Handlers <=> \E t \in tasks : SP!Run(t)
  /\ \A s : Server!Connection(s) <=> SP!Connection(s)
  /\ \A S : Server!Close(S) <=> SP!Close(S)
  /\ SP!TypeOK => Server!TypeOK
<1>1. Server!Init <=> SP!Init
  BY DEF Server!Init, SP!Init
<1>2. Server!Handlers <=> \E t \in tasks : SP!Run(t)
  BY SameHandlers DEF Server!Handlers
<1>3. \A s : Server!Connection(s) <=> SP!Connection(s)
  BY DEF Server!Connection, SP!Connection, Server!Send, SP!Send, Server!addresses, SP!addresses
<1>4. \A S : Server!Close(S) <=> SP!Close(S)
  BY DEF Server!Close, SP!Close, Server!Send, SP!Send, Server!addresses, SP!addresses,
     Server!Without, SP!Without, Server!Restrict, SP!Restrict, Server!Begin, SP!Begin,
     Server!NoAddress, SP!NoAddress
<1>5. SP!TypeOK => Server!TypeOK
  <2>1. /\ Server!IPAddresses = SP!IPAddresses /\ Server!TCPAddresses = SP!TCPAddresses
        /\ Server!Answers = SP!Answers
    BY DEF Server!IPAddresses, SP!IPAddresses, Server!TCPAddresses, SP!TCPAddresses,
       Server!Answers, SP!Answers, Server!NoAddress, SP!NoAddress
  <2>2. Server!MAliases = SP!MAliases
    BY <2>1 DEF Server!MAliases, SP!MAliases
  <2>3. Server!Data = SP!Data
    BY <2>1 DEF Server!Data, SP!Data, Server!Knocks, SP!Knocks, Server!Requests, SP!Requests,
       Server!Connects, SP!Connects, Server!Relayed, SP!Relayed,
       Server!Departures, SP!Departures, Server!Expiries, SP!Expiries
  <2>4. Server!Tasks = SP!Tasks
    BY <2>1, <2>3 DEF Server!Tasks, SP!Tasks, Server!Places, SP!Places
  <2> QED
    BY <2>1, <2>2, <2>4 DEF Server!TypeOK, SP!TypeOK
<1> QED
  BY <1>1, <1>2, <1>3, <1>4, <1>5

\* The server reads a message: a handler starts.
LEMMA Received ==
  ASSUME NEW s, Receive(s)
  PROVE  /\ tasks = {} /\ s \in accepted /\ toServer[s] # <<>>
         /\ LET m == Head(toServer[s]) IN tasks' = {SP!Begin(1, s, m.op, m)}
         /\ toServer' = [toServer EXCEPT ![s] = Tail(@)]
         /\ sent' = {}
         /\ UNCHANGED <<client, toClient, ended, made>>
         /\ UNCHANGED <<accepted, refused, goodbyes, clients, aliases, subnets, members, ports>>
<1> DEFINE m == Head(toServer[s])
           u(i) == Server!Begin(Server!Cardinality({j \in 1 .. i : <<m>>[j] = <<m>>[i]}),
                                s, <<m>>[i].op, <<m>>[i])
<1>1. DOMAIN <<m>> = {1} /\ <<m>>[1] = m
  OBVIOUS
<1>2. tasks' = {u(i) : i \in DOMAIN <<m>>}
  BY DEF Receive, Server!Receive
<1>3. {j \in 1 .. 1 : <<m>>[j] = <<m>>[1]} = {1}
  BY <1>1
<1>4. Server!Cardinality({1}) = 1
  <2>1. Cardinality({1}) = 1
    BY FS_Singleton
  <2>2. Server!Cardinality({1}) = Cardinality({1})
    BY DEF Server!Cardinality, Cardinality
  <2> QED
    BY <2>1, <2>2
<1>5. u(1) = SP!Begin(1, s, m.op, m)
  BY <1>1, <1>3, <1>4 DEF Server!Begin, SP!Begin, Server!NoAddress, SP!NoAddress
<1> HIDE DEF u
<1>6. tasks' = {SP!Begin(1, s, m.op, m)}
  BY <1>1, <1>2, <1>5
<1> QED
  BY <1>6 DEF Receive, Server!Receive, Server!Send, Server!connected, Server!addresses

----
(***************************************************************************)
(* The types                                                               *)
(***************************************************************************)
Messages ==
  [op : {"acknowledgement"}, id : Answers, rejected : BOOLEAN]
    \cup [op : {"greeting"}, offererId : Answers, answererId : Answers]
    \cup [op : {"goodbye"}, id : Answers]
    \cup [op : {"alias"}, id : Answers, alias : TCPAddresses, set : BOOLEAN,
          clientConnectionId : Connections \cup {NoConnection}, isConnectionAlias : BOOLEAN]
    \cup [op : {"accept"}, boundAlias : TCPAddresses, clientAlias : TCPAddresses]
    \cup SP!Data

ClientTyped ==
  /\ opens \in [Clients -> 0 .. MaxOpens]
  /\ state \in [Clients -> {"none", "connecting", "open", "closed"}]
  /\ \A c \in Clients : opens[c] = 0 <=> state[c] = "none"
  /\ id \in [Clients -> Answers \cup {NoId}]
  /\ isConnected \in [Clients -> BOOLEAN]
  /\ \A c \in Clients : isConnected[c] => state[c] # "none"
  /\ calls \in [Clients -> SUBSET Calls]
  /\ DOMAIN known = Clients
  /\ \A c \in Clients : /\ DOMAIN known[c] \subseteq TCPAddresses
                        /\ \A a \in DOMAIN known[c] : known[c][a] \in Answers

QueuesTyped ==
  /\ toServer \in [Sockets -> Seq(SP!Data)]
  /\ toClient \in [Sockets -> Seq(Messages)]

\* A connection that the server does not have carries nothing to it.
Deaf == \A s \in Sockets \ accepted : goodbyes[s] = {} /\ toServer[s] = <<>>

\* What is on the way to the server is signed with ids of its connection.
QueuesSigned == \A s \in accepted : \A m \in Held(toServer[s]) : SP!Signed(s, m)

ConnectsTyped ==
  \A t \in tasks : t.at \in SP!ConnectPlaces => t.data.clientConnectionId \in Connections

TypeInv ==
  /\ SP!IInv /\ ClientTyped /\ QueuesTyped /\ Deaf /\ QueuesSigned /\ ConnectsTyped

\* A client that has opened a connection has a socket.
LEMMA SocketOf ==
  ASSUME ClientTyped, NEW c \in Clients, state[c] # "none"
  PROVE  ws(c) \in Sockets /\ ws(c)[1] = c /\ ws(c)[2] = opens[c]
<1>1. opens[c] \in 1 .. MaxOpens
  BY ClientAssumption DEF ClientTyped
<1> QED
  BY <1>1 DEF ws, Sockets

\* The messages the server makes.
LEMMA MessageTypes ==
  /\ SP!Refusal \in Messages
  /\ \A i \in Answers : SP!Granting(i) \in Messages /\ SP!Goodbye(i) \in Messages
  /\ \A i, j \in Answers : SP!Greeting(i, j) \in Messages
  /\ \A i \in Answers, a \in TCPAddresses, n \in Connections \cup {NoConnection} :
       /\ SP!Registration(i, a, n) \in Messages
       /\ SP!Retraction(i, a, n) \in Messages
       /\ SP!ConnectionAlias(i, a, n) \in Messages
  /\ \A a, b \in TCPAddresses : SP!Accept(a, b) \in Messages
<1>1. SP!Refusal \in Messages /\ \A i \in Answers : SP!Granting(i) \in Messages
  BY SameData DEF SP!Refusal, SP!Granting, SP!Acknowledgement, Messages, Answers
<1>2. \A i \in Answers : SP!Goodbye(i) \in Messages
  BY DEF SP!Goodbye, Messages
<1>3. \A i, j \in Answers : SP!Greeting(i, j) \in Messages
  BY DEF SP!Greeting, Messages
<1>4. ASSUME NEW i \in Answers, NEW a \in TCPAddresses, NEW n \in Connections \cup {NoConnection}
      PROVE  /\ SP!Registration(i, a, n) \in Messages
             /\ SP!Retraction(i, a, n) \in Messages
             /\ SP!ConnectionAlias(i, a, n) \in Messages
  BY <1>4 DEF SP!Registration, SP!Retraction, SP!ConnectionAlias, SP!Alias, Messages
<1>5. \A a, b \in TCPAddresses : SP!Accept(a, b) \in Messages
  BY DEF SP!Accept, Messages
<1> QED
  BY <1>1, <1>2, <1>3, <1>4, <1>5

\* The messages that a step of the server sends.
LEMMA RunMessages ==
  ASSUME SP!IInv, ConnectsTyped, NEW t \in tasks, SP!Run(t), NEW x \in sent'
  PROVE  x.message \in Messages
<1>1. SP!TasksTyped /\ SP!DataTyped /\ SP!TaskOK(t) /\ t.data \in SP!Data
  BY DEF SP!IInv, SP!TasksTyped, SP!TaskOK, SP!Tasks
<1>2. /\ t.at \in SP!AliasPlaces => t.data.id \in Answers /\ t.data.alias \in TCPAddresses
      /\ t.at \in SP!ConnectPlaces => /\ t.data.id \in Answers
                                      /\ t.data.remoteAlias \in TCPAddresses
                                      /\ t.data.clientConnectionId \in Connections
      /\ t.at \in SP!CreatedPlaces => t.addr \in TCPAddresses
      /\ t.at \in SP!LeavePlaces => t.data.id \in Answers
      /\ t.at \in {"acknowledge", "greet"} => t.addr \in Answers
      /\ t.owner \in Answers
      /\ \A i \in DOMAIN clients : i \in Answers
  BY <1>1, SameData DEF SP!TaskOK, SP!Tasks, SP!DataTyped, SP!Answers, ConnectsTyped
<1>3. SP!Says(t, x)
  BY <1>1, SP!RunSays, ServerAssumptions
<1>4. CASE t.at \in {"acknowledge", "greet", "bind", "shutdown", "register", "retract", "expire"}
  BY <1>2, <1>3, <1>4, MessageTypes DEF SP!Says, SP!AliasPlaces, SP!LeavePlaces
<1>5. CASE t.at \in {"lookup", "introduce", "accept", "refuse", "confirm"}
  BY <1>2, <1>3, <1>5, MessageTypes DEF SP!Says, SP!ConnectPlaces, SP!CreatedPlaces
<1>6. CASE t.at \in {"offer", "answer", "candidate"}
  BY <1>1, <1>3, <1>6 DEF SP!Says, Messages
<1> QED
  BY <1>3, <1>4, <1>5, <1>6 DEF SP!Says

\* What the server sends goes to the end of a queue, when the client still listens.
LEMMA Delivered ==
  ASSUME deliver, NEW s \in Sockets
  PROVE  \/ /\ ~ current(s) \/ \A x \in sent' : x.to # s
            /\ toClient'[s] = toClient[s]
         \/ /\ current(s)
            /\ \E x \in sent' : x.to = s /\ toClient'[s] = Append(toClient[s], x.message)
<1> DEFINE messages == {m.message : m \in {x \in sent' : x.to = s}}
<1>1. toClient'[s] = IF messages # {} /\ current(s)
                       THEN Append(toClient[s], CHOOSE m \in messages : TRUE)
                       ELSE toClient[s]
  BY DEF deliver
<1>2. CASE messages = {}
  BY <1>1, <1>2
<1>3. CASE messages # {} /\ ~ current(s)
  BY <1>1, <1>3
<1>4. CASE messages # {} /\ current(s)
  <2>1. (CHOOSE m \in messages : TRUE) \in messages
    BY <1>4
  <2> QED
    BY <1>1, <1>4, <2>1
<1> QED
  BY <1>2, <1>3, <1>4

LEMMA DeliveredTyped ==
  ASSUME QueuesTyped, deliver, \A x \in sent' : x.message \in Messages
  PROVE  toClient' \in [Sockets -> Seq(Messages)]
<1>1. toClient' = [s \in Sockets |-> toClient'[s]]
  BY DEF deliver
<1>2. ASSUME NEW s \in Sockets PROVE toClient'[s] \in Seq(Messages)
  <2>1. toClient[s] \in Seq(Messages)
    BY DEF QueuesTyped
  <2>2. \/ toClient'[s] = toClient[s]
        \/ \E m \in Messages : toClient'[s] = Append(toClient[s], m)
    BY Delivered
  <2> QED
    BY <2>1, <2>2, AppendFacts
<1> QED
  BY <1>1, <1>2

\* Only a greeting gives an id to a socket, and the socket is connected.
LEMMA RunKeepsSockets ==
  ASSUME SP!IInv, NEW t \in tasks, SP!Run(t)
  PROVE  /\ accepted' = accepted
         /\ \A s \in Sockets : goodbyes[s] \subseteq goodbyes'[s]
         /\ \A s \in Sockets \ accepted : goodbyes'[s] = goodbyes[s]
         /\ refused \subseteq refused'
<1>1. SP!TasksTyped /\ SP!DataTyped /\ SP!AskersPresent
  BY DEF SP!IInv
<1>2. /\ accepted' = accepted
      /\ t.at # "greet" => goodbyes' = goodbyes
      /\ t.at = "greet" =>
           /\ t.sock \in accepted
           /\ \A s \in Sockets :
                goodbyes'[s] = IF s = t.sock THEN goodbyes[s] \cup {t.addr} ELSE goodbyes[s]
  BY <1>1, SP!RunConnected, ServerAssumptions
<1>3. refused \subseteq refused'
  BY SP!RunRefused, ServerAssumptions
<1> QED
  BY <1>2, <1>3


\* What is signed stays signed while nobody closes.
LEMMA StaySigned ==
  ASSUME NEW s, goodbyes[s] \subseteq goodbyes'[s], refused \subseteq refused'
  PROVE  \A m : SP!Signed(s, m) => SP!Signed(s, m)'
<1>1. SP!IdsOf(s) \subseteq SP!IdsOf(s)'
  BY DEF SP!IdsOf
<1> QED
  BY <1>1 DEF SP!Signed

\* A handler starts for a message that is signed.
LEMMA ReceiveKeepsServer ==
  ASSUME TypeInv, NEW s, Receive(s)
  PROVE  SP!IInv' /\ ConnectsTyped' /\ Head(toServer[s]) \in Held(toServer[s])
<1> DEFINE m == Head(toServer[s])
<1>1. /\ tasks = {} /\ s \in accepted /\ toServer[s] # <<>>
      /\ tasks' = {SP!Begin(1, s, m.op, m)}
      /\ UNCHANGED <<accepted, refused, goodbyes, clients, aliases, subnets, members, ports>>
  BY Received
<1>2. s \in Sockets /\ toServer[s] \in Seq(SP!Data)
  BY <1>1 DEF TypeInv, QueuesTyped, SP!IInv, SP!DataTyped
<1>3. m \in Held(toServer[s]) /\ m \in SP!Data
  BY <1>1, <1>2, TailFacts
<1>4. SP!Signed(s, m)
  BY <1>1, <1>3 DEF TypeInv, QueuesSigned
<1>5. SP!IInv'
  BY <1>1, <1>4, SP!RequestsKeepInv, ServerAssumptions DEF TypeInv
<1>6. SP!Begin(1, s, m.op, m).at = m.op /\ SP!Begin(1, s, m.op, m).data = m
  BY DEF SP!Begin
<1>7. ConnectsTyped'
  <2>1. m.op \in SP!ConnectPlaces => m.op = "connect"
    BY <1>4 DEF SP!Signed, SP!ConnectPlaces, SP!CreatedPlaces
  <2>2. m.op = "connect" => m.clientConnectionId \in Connections
    BY <1>3 DEF SP!Data, SP!Knocks, SP!Requests, SP!Connects, SP!Relayed, SP!Departures,
       SP!Expiries
  <2> QED
    BY <1>1, <1>6, <2>1, <2>2 DEF ConnectsTyped
<1> QED
  BY <1>3, <1>5, <1>7

LEMMA RunKeepsConnectsTyped ==
  ASSUME SP!IInv, ConnectsTyped, NEW t \in tasks, SP!Run(t)
  PROVE  ConnectsTyped'
<1>1. \A u \in tasks' : u \in tasks \/ SP!Continues(t, u)
  BY SP!RunContinues, ServerAssumptions DEF SP!IInv
<1>2. \A u : SP!Continues(t, u) /\ u.at \in SP!ConnectPlaces =>
              t.at \in SP!ConnectPlaces /\ u.data = t.data
  BY DEF SP!Continues, SP!Edges, SP!ConnectPlaces, SP!CreatedPlaces
<1> QED
  BY <1>1, <1>2 DEF ConnectsTyped

LEMMA RunKeepsTypes ==
  ASSUME TypeInv, Run
  PROVE  TypeInv'
<1>1. PICK t \in tasks : SP!Run(t)
  BY SameTurns DEF Run
<1>2. deliver /\ UNCHANGED <<opens, state, id, isConnected, calls, known, toServer>>
  BY DEF Run, client
<1>3. SP!IInv' /\ ConnectsTyped'
  BY <1>1, RunKeepsConnectsTyped, SP!RunKeepsInv, ServerAssumptions DEF TypeInv
<1>4. ClientTyped'
  BY <1>2 DEF TypeInv, ClientTyped
<1>5. QueuesTyped'
  BY <1>1, <1>2, RunMessages, DeliveredTyped DEF TypeInv, QueuesTyped
<1>6. Deaf'
  BY <1>1, <1>2, RunKeepsSockets DEF TypeInv, Deaf
<1>7. QueuesSigned'
  <2>1. accepted \subseteq Sockets
    BY DEF TypeInv, SP!IInv, SP!DataTyped
  <2> QED
    BY <1>1, <1>2, <2>1, RunKeepsSockets, StaySigned DEF TypeInv, QueuesSigned
<1> QED
  BY <1>3, <1>4, <1>5, <1>6, <1>7 DEF TypeInv

LEMMA ReceiveKeepsTypes ==
  ASSUME TypeInv, NEW s, Receive(s)
  PROVE  TypeInv'
<1>1. /\ s \in accepted /\ toServer[s] # <<>>
      /\ toServer' = [toServer EXCEPT ![s] = Tail(@)]
      /\ UNCHANGED <<opens, state, id, isConnected, calls, known, toClient>>
      /\ UNCHANGED <<accepted, refused, goodbyes, clients, aliases, subnets, members, ports>>
  BY Received DEF client
<1>2. s \in Sockets /\ toServer[s] \in Seq(SP!Data)
  BY <1>1 DEF TypeInv, QueuesTyped, SP!IInv, SP!DataTyped
<1>3. Tail(toServer[s]) \in Seq(SP!Data) /\ Held(Tail(toServer[s])) \subseteq Held(toServer[s])
  BY <1>1, <1>2, TailFacts
<1>4. ClientTyped' /\ QueuesTyped'
  BY <1>1, <1>3 DEF TypeInv, ClientTyped, QueuesTyped
<1>5. Deaf'
  BY <1>1 DEF TypeInv, Deaf, QueuesTyped
<1>6. QueuesSigned'
  <2>1. \A r, m : SP!Signed(r, m)' <=> SP!Signed(r, m)
    BY <1>1 DEF SP!Signed, SP!IdsOf
  <2>2. \A r \in Sockets : Held(toServer'[r]) \subseteq Held(toServer[r])
    BY <1>1, <1>3 DEF TypeInv, QueuesTyped
  <2>3. accepted \subseteq Sockets
    BY DEF TypeInv, SP!IInv, SP!DataTyped
  <2> QED
    BY <1>1, <2>1, <2>2, <2>3 DEF TypeInv, QueuesSigned
<1> QED
  BY <1>4, <1>5, <1>6, ReceiveKeepsServer DEF TypeInv

LEMMA CloseKeepsTypes ==
  ASSUME TypeInv, NEW S \in SUBSET accepted, Close(S)
  PROVE  TypeInv'
<1>1. /\ SP!Close(S)
      /\ toServer' = [s \in Sockets |-> IF s \in S THEN <<>> ELSE toServer[s]]
      /\ UNCHANGED <<opens, state, id, isConnected, calls, known, toClient>>
  BY SameTurns DEF Close, client
<1>2. /\ accepted' = accepted \ S /\ refused' = refused \ S
      /\ goodbyes' = [s \in Sockets |-> IF s \in S THEN {} ELSE goodbyes[s]]
      /\ \A t \in tasks' : t.at = "close"
  BY <1>1 DEF SP!Close, SP!Begin
<1>3. SP!IInv'
  BY <1>1, SP!CloseKeepsInv, ServerAssumptions DEF TypeInv
<1>4. ConnectsTyped'
  BY <1>2 DEF ConnectsTyped, SP!ConnectPlaces, SP!CreatedPlaces
<1>5. ClientTyped' /\ QueuesTyped'
  BY <1>1 DEF TypeInv, ClientTyped, QueuesTyped
<1>6. Deaf'
  BY <1>1, <1>2 DEF TypeInv, Deaf
<1>7. QueuesSigned'
  <2>1. accepted \subseteq Sockets
    BY DEF TypeInv, SP!IInv, SP!DataTyped
  <2>2. \A s \in accepted' : /\ s \in accepted /\ s \in Sockets /\ goodbyes'[s] = goodbyes[s]
                             /\ (s \in refused' <=> s \in refused) /\ toServer'[s] = toServer[s]
    BY <1>1, <1>2, <2>1
  <2>3. \A s \in accepted' : \A m : SP!Signed(s, m) => SP!Signed(s, m)'
    BY <2>2 DEF SP!Signed, SP!IdsOf
  <2> QED
    BY <2>2, <2>3 DEF TypeInv, QueuesSigned
<1> QED
  BY <1>3, <1>4, <1>5, <1>6, <1>7 DEF TypeInv

LEMMA ConnectionKeepsTypes ==
  ASSUME TypeInv, NEW c \in Clients, Connection(c)
  PROVE  TypeInv'
<1>1. /\ SP!Connection(ws(c)) /\ state[c] = "connecting"
      /\ UNCHANGED <<opens, state, id, isConnected, calls, known, toServer, toClient>>
  BY SameTurns DEF Connection, client
<1>2. ws(c) \in Sockets
  BY <1>1, SocketOf DEF TypeInv
<1>3. /\ accepted' = accepted \cup {ws(c)} /\ ws(c) \notin accepted
      /\ UNCHANGED <<refused, goodbyes, clients, aliases, subnets, members, ports, tasks>>
  BY <1>1 DEF SP!Connection, SP!addresses
<1>4. SP!IInv'
  BY <1>1, <1>2, SP!ConnectionKeepsInv, ServerAssumptions DEF TypeInv
<1>5. ConnectsTyped' /\ ClientTyped' /\ QueuesTyped' /\ Deaf'
  BY <1>1, <1>3 DEF TypeInv, ConnectsTyped, ClientTyped, QueuesTyped, Deaf
<1>6. QueuesSigned'
  <2>1. \A r, m : SP!Signed(r, m)' <=> SP!Signed(r, m)
    BY <1>3 DEF SP!Signed, SP!IdsOf
  <2>2. Held(toServer[ws(c)]) = {}
    BY <1>2, <1>3 DEF TypeInv, Deaf, Held
  <2> QED
    BY <1>1, <1>3, <2>1, <2>2 DEF TypeInv, QueuesSigned
<1> QED
  BY <1>4, <1>5, <1>6 DEF TypeInv

\* What happens on the side of the clients leaves the server as it is.
LEMMA BesideServer ==
  ASSUME TypeInv, NEW step, Beside(step)
  PROVE  /\ tasks = {} /\ sent' = {}
         /\ UNCHANGED <<accepted, refused, goodbyes, clients, aliases, subnets, members, ports,
                        tasks, ended>>
         /\ SP!IInv' /\ ConnectsTyped'
         /\ \A s, m : SP!Signed(s, m)' <=> SP!Signed(s, m)
<1>1. /\ tasks = {} /\ sent' = {}
      /\ UNCHANGED <<accepted, refused, goodbyes, clients, aliases, subnets, members, ports,
                     tasks, ended>>
  BY DEF Beside
<1>2. SP!IInv'
  BY <1>1, SP!SendingKeepsInv, ServerAssumptions DEF TypeInv
<1>3. \A s, m : SP!Signed(s, m)' <=> SP!Signed(s, m)
  BY <1>1 DEF SP!Signed, SP!IdsOf
<1> QED
  BY <1>1, <1>2, <1>3 DEF ConnectsTyped, TypeInv

LEMMA OpenKeepsTypes ==
  ASSUME TypeInv, NEW c \in Clients, Unasked(openClient(c))
  PROVE  TypeInv'
<1>1. /\ openClient(c) /\ SP!IInv' /\ ConnectsTyped'
      /\ UNCHANGED <<accepted, refused, goodbyes>>
      /\ \A s, m : SP!Signed(s, m)' <=> SP!Signed(s, m)
  BY BesideServer DEF Unasked, Beside
<1>2. /\ opens[c] < MaxOpens
      /\ opens' = [opens EXCEPT ![c] = @ + 1]
      /\ state' = [state EXCEPT ![c] = "connecting"]
      /\ UNCHANGED <<id, isConnected, calls, known, toServer, toClient>>
  BY <1>1 DEF openClient
<1>3. ClientTyped'
  BY <1>2, ClientAssumption DEF TypeInv, ClientTyped
<1> QED
  BY <1>1, <1>2, <1>3 DEF TypeInv, QueuesTyped, Deaf, QueuesSigned

\* A message of a client goes to the end of its queue.
LEMMA SendKeepsTypes ==
  ASSUME QueuesTyped, Deaf, QueuesSigned, NEW s \in accepted, s \in Sockets,
         NEW m, SP!Signed(s, m), m \in SP!Data,
         toServer' = [toServer EXCEPT ![s] = Append(@, m)],
         UNCHANGED <<accepted, refused, goodbyes, toClient>>
  PROVE  QueuesTyped' /\ Deaf' /\ QueuesSigned'
<1>1. toServer[s] \in Seq(SP!Data)
  BY DEF QueuesTyped
<1>2. Append(toServer[s], m) \in Seq(SP!Data) /\ Held(Append(toServer[s], m)) = Held(toServer[s]) \cup {m}
  BY <1>1, AppendFacts
<1>3. QueuesTyped'
  BY <1>2 DEF QueuesTyped
<1>4. Deaf'
  BY DEF Deaf, QueuesTyped
<1>5. \A r, x : SP!Signed(r, x)' <=> SP!Signed(r, x)
  BY DEF SP!Signed, SP!IdsOf
<1>6. ASSUME NEW r \in accepted, NEW x \in Held(toServer'[r]) PROVE SP!Signed(r, x)
  <2>1. CASE r = s
    BY <1>2, <1>6, <2>1 DEF QueuesSigned, QueuesTyped
  <2>2. CASE r # s
    <3>1. toServer'[r] = toServer[r]
      BY <2>2 DEF QueuesTyped
    <3> QED
      BY <1>6, <3>1 DEF QueuesSigned
  <2> QED
    BY <2>1, <2>2
<1> QED
  BY <1>3, <1>4, <1>5, <1>6 DEF QueuesSigned

LEMMA OpenedKeepsTypes ==
  ASSUME TypeInv, NEW c \in Clients, Unasked(Opened(c))
  PROVE  TypeInv'
<1> DEFINE m == Knock(subnetPrefix)
<1>1. /\ Opened(c) /\ SP!IInv' /\ ConnectsTyped'
      /\ UNCHANGED <<accepted, refused, goodbyes>>
  BY BesideServer DEF Unasked, Beside
<1>2. /\ ws(c) \in accepted /\ state[c] = "connecting"
      /\ state' = [state EXCEPT ![c] = "open"]
      /\ toServer' = [toServer EXCEPT ![ws(c)] = Append(@, m)]
      /\ UNCHANGED <<opens, id, isConnected, calls, known, toClient>>
  BY <1>1 DEF Opened, handleConnect
<1>3. ws(c) \in Sockets
  BY <1>2, SocketOf DEF TypeInv
<1>4. m \in SP!Data /\ SP!Signed(ws(c), m)
  BY SignalingAssumption DEF SP!Data, SP!Knocks, SP!Signed, SP!Places, Knock
<1>5. QueuesTyped' /\ Deaf' /\ QueuesSigned'
  BY <1>1, <1>2, <1>3, <1>4, SendKeepsTypes DEF TypeInv
<1>6. ClientTyped'
  BY <1>2 DEF TypeInv, ClientTyped
<1> QED
  BY <1>1, <1>5, <1>6 DEF TypeInv

LEMMA DisconnectedKeepsTypes ==
  ASSUME TypeInv, NEW c \in Clients, Unasked(Disconnected(c))
  PROVE  TypeInv'
<1>1. /\ Disconnected(c) /\ SP!IInv' /\ ConnectsTyped'
      /\ UNCHANGED <<accepted, refused, goodbyes>>
      /\ \A s, m : SP!Signed(s, m)' <=> SP!Signed(s, m)
  BY BesideServer DEF Unasked, Beside
<1>2. /\ state[c] \in {"connecting", "open"}
      /\ state' = [state EXCEPT ![c] = "closed"]
      /\ toClient' = [toClient EXCEPT ![ws(c)] = <<>>]
      /\ UNCHANGED <<opens, id, isConnected, calls, known, toServer>>
  BY <1>1 DEF Disconnected, handleDisconnect
<1>3. ClientTyped'
  BY <1>2 DEF TypeInv, ClientTyped
<1>4. QueuesTyped'
  <2>1. <<>> \in Seq(Messages)
    OBVIOUS
  <2> QED
    BY <1>2, <2>1 DEF TypeInv, QueuesTyped
<1> QED
  BY <1>1, <1>2, <1>3, <1>4 DEF TypeInv, Deaf, QueuesSigned

\* The connection of a client that calls has the id it signs with.
LEMMA CallFacts ==
  ASSUME TypeInv, NEW c \in Clients, running(c), mayCall(c)
  PROVE  /\ ws(c) \in Sockets /\ ws(c) \in accepted
         /\ id[c] \in goodbyes[ws(c)] /\ id[c] \in IPAddresses /\ id[c] \in Answers
         /\ id[c] \in SP!IdsOf(ws(c))
<1>1. id[c] \in goodbyes[ws(c)]
  BY DEF mayCall
<1>2. ws(c) \in Sockets
  BY SocketOf DEF running, TypeInv, ClientTyped
<1>3. ws(c) \in accepted
  BY <1>1, <1>2 DEF TypeInv, Deaf
<1>4. id[c] \in IPAddresses
  BY <1>1, <1>2, SameData DEF TypeInv, SP!IInv, SP!DataTyped
<1> QED
  BY <1>1, <1>2, <1>3, <1>4 DEF Answers, SP!IdsOf

\* What a program asks for, and the call that waits for it.
LEMMA ProgramCalls ==
  ASSUME NEW c \in Clients, Program(c)
  PROVE  \E m, call :
           /\ \/ \E alias \in BindAliases :
                   /\ mayBind(c, alias)
                   /\ m = Request("bind", id[c], alias) /\ call = Call("bind", c, alias)
              \/ \E alias \in BindAliases :
                   /\ bound(c, alias) /\ ~ closing(c, alias)
                   /\ m = Request("accepting", id[c], alias) /\ call = Call("accept", c, alias)
              \/ \E alias \in DOMAIN known[c] :
                   /\ mayShutdown(c, alias)
                   /\ m = Request("shutdown", id[c], alias) /\ call = Call("shutdown", c, alias)
              \/ \E alias \in BindAliases :
                   m = Connect(id[c], alias, c) /\ call = Call("connect", c, alias)
           /\ Wait(c, call) /\ Send(c, m)
           /\ UNCHANGED <<opens, state, id, isConnected, known, toClient>>
  BY DEF Program, bind, accept, shutdown, connect

LEMMA ProgramKeepsTypes ==
  ASSUME TypeInv, NEW c \in Clients, Beside(Program(c))
  PROVE  TypeInv'
<1>1. /\ Program(c) /\ SP!IInv' /\ ConnectsTyped'
      /\ UNCHANGED <<accepted, refused, goodbyes>>
      /\ \A s, m : SP!Signed(s, m)' <=> SP!Signed(s, m)
  BY BesideServer DEF Beside
<1>2. /\ ws(c) \in Sockets /\ ws(c) \in accepted
      /\ id[c] \in Answers /\ id[c] \in SP!IdsOf(ws(c))
  BY <1>1, CallFacts DEF Program
<1>3. PICK m, call :
           /\ \/ \E alias \in TCPAddresses : \E op \in {"bind", "accepting", "shutdown"} :
                   m = Request(op, id[c], alias)
              \/ \E alias \in TCPAddresses : m = Connect(id[c], alias, c)
           /\ \E alias \in TCPAddresses : \E op \in {"bind", "accept", "shutdown", "connect"} :
                call = Call(op, c, alias)
           /\ Wait(c, call) /\ Send(c, m)
           /\ UNCHANGED <<opens, state, id, isConnected, known, toClient>>
  <2>1. BindAliases \subseteq TCPAddresses /\ DOMAIN known[c] \subseteq TCPAddresses
    BY ClientAssumption DEF TypeInv, ClientTyped
  <2> QED
    BY <1>1, <2>1, ProgramCalls
<1>4. m \in SP!Data /\ SP!Signed(ws(c), m)
  <2>1. CASE \E alias \in TCPAddresses : \E op \in {"bind", "accepting", "shutdown"} :
                   m = Request(op, id[c], alias)
    <3>1. PICK alias \in TCPAddresses, op \in {"bind", "accepting", "shutdown"} :
            m = Request(op, id[c], alias)
      BY <2>1
    <3>2. m \in SP!Requests /\ m.op = op /\ m.id = id[c] /\ m.alias = alias
      BY <1>2, <3>1, SameData DEF Request, SP!Requests
    <3> QED
      BY <1>2, <3>2, SameData DEF SP!Data, SP!Signed, SP!Places
  <2>2. CASE \E alias \in TCPAddresses : m = Connect(id[c], alias, c)
    <3>1. PICK alias \in TCPAddresses : m = Connect(id[c], alias, c)
      BY <2>2
    <3>2. m \in SP!Connects /\ m.op = "connect" /\ m.id = id[c] /\ m.remoteAlias = alias
      BY <1>2, <3>1, SameData, ClientAssumption DEF Connect, SP!Connects
    <3> QED
      BY <1>2, <3>2, SameData DEF SP!Data, SP!Signed, SP!Places
  <2> QED
    BY <1>3, <2>1, <2>2
<1>5. QueuesTyped' /\ Deaf' /\ QueuesSigned'
  <2>1. CASE state[c] = "open"
    BY <1>1, <1>2, <1>3, <1>4, <2>1, SendKeepsTypes DEF TypeInv, Send
  <2>2. CASE state[c] # "open"
    BY <1>1, <1>3, <2>2 DEF TypeInv, Send, QueuesTyped, Deaf, QueuesSigned
  <2> QED
    BY <2>1, <2>2
<1>6. call \in Calls
  BY <1>2, <1>3 DEF Call, Calls
<1>7. ClientTyped'
  BY <1>3, <1>6 DEF TypeInv, ClientTyped, Wait
<1> QED
  BY <1>1, <1>5, <1>7 DEF TypeInv

\* The calls that a message reaches go on only when they are connects that have
\* had no alias yet.
LEMMA NotifyFacts ==
  ASSUME NEW c, NEW m, NEW call \in calls[c] \ settled(c, m), waitsFor(c, call, m)
  PROVE  /\ call.op = "connect" /\ call.count = 0
         /\ m.op = "alias" /\ m.set /\ m.clientConnectionId = c
  BY DEF settled, goesOn, waitsFor

LEMMA MessageFields ==
  ASSUME NEW m \in Messages
  PROVE  /\ m.op \in {"acknowledgement", "goodbye", "alias"} => m.id \in Answers
         /\ m.op = "alias" => /\ m.alias \in TCPAddresses /\ m.set \in BOOLEAN
                              /\ m.clientConnectionId \in Connections \cup {NoConnection}
                              /\ m.isConnectionAlias \in BOOLEAN
         /\ m.op = "accept" => m.boundAlias \in TCPAddresses /\ m.clientAlias \in TCPAddresses
<1>1. m \in SP!Data => m.op \notin {"acknowledgement", "goodbye", "alias", "accept"}
  BY DEF SP!Data, SP!Knocks, SP!Requests, SP!Connects, SP!Relayed, SP!Departures, SP!Expiries
<1> QED
  BY <1>1 DEF Messages

LEMMA Counting ==
  ASSUME NEW Ops, NEW Ids, NEW As, NEW Counts, NEW Bs,
         NEW call \in [op : Ops, id : Ids, alias : As, count : Counts, clientAlias : Bs],
         call.count + 1 \in Counts, NEW alias \in Bs
  PROVE  [call EXCEPT !.count = @ + 1, !.clientAlias = alias]
           \in [op : Ops, id : Ids, alias : As, count : Counts, clientAlias : Bs]
  OBVIOUS

LEMMA NotifyTyped ==
  ASSUME ClientTyped, NEW c \in Clients, NEW m \in Messages, notify(c, m)
  PROVE  calls' \in [Clients -> SUBSET Calls]
<1>1. calls[c] \subseteq Calls
  BY DEF ClientTyped
<1>2. ASSUME NEW call \in calls[c] \ settled(c, m), waitsFor(c, call, m)
      PROVE  counted(call, m) \in Calls
  <2>1. call \in Calls /\ call.count = 0 /\ m.alias \in TCPAddresses
    BY <1>1, <1>2, NotifyFacts, MessageFields
  <2>2. PICK alias \in TCPAddresses \cup {NoAlias} :
          counted(call, m) = [call EXCEPT !.count = @ + 1, !.clientAlias = alias]
    <3>1. call.clientAlias \in TCPAddresses \cup {NoAlias}
      BY <2>1 DEF Calls
    <3>2. CASE m.isConnectionAlias
      BY <2>1, <3>2 DEF counted
    <3>3. CASE ~ m.isConnectionAlias
      BY <3>1, <3>3 DEF counted
    <3> QED
      BY <3>2, <3>3
  <2>3. call.count + 1 \in 0 .. 1
    BY <2>1
  <2>4. [call EXCEPT !.count = @ + 1, !.clientAlias = alias] \in Calls
    BY <2>1, <2>3, Counting DEF Calls
  <2> QED
    BY <2>2, <2>4
<1>3. {IF waitsFor(c, call, m) THEN counted(call, m) ELSE call : call \in calls[c] \ settled(c, m)}
        \subseteq Calls
  BY <1>1, <1>2
<1> QED
  BY <1>3 DEF notify, ClientTyped

LEMMA TablesTyped ==
  ASSUME ClientTyped, NEW c \in Clients, NEW m \in Messages, m.op = "alias", handleAlias(c, m)
  PROVE  /\ DOMAIN known' = Clients
         /\ \A b \in Clients \ {c} : known'[b] = known[b]
         /\ DOMAIN known'[c] = IF m.set THEN DOMAIN known[c] \cup {m.alias}
                                        ELSE DOMAIN known[c] \ {m.alias}
         /\ \A a \in DOMAIN known'[c] :
              known'[c][a] = IF a = m.alias THEN m.id ELSE known[c][a]
  BY DEF handleAlias, ClientTyped, Restrict

LEMMA OperationKeepsTypes ==
  ASSUME TypeInv, NEW c \in Clients, Unasked(handleOperation(c))
  PROVE  TypeInv'
<1> DEFINE m == Head(toClient[ws(c)])
<1>1. /\ handleOperation(c) /\ SP!IInv' /\ ConnectsTyped'
      /\ UNCHANGED <<accepted, refused, goodbyes>>
      /\ \A s, x : SP!Signed(s, x)' <=> SP!Signed(s, x)
  BY BesideServer DEF Unasked, Beside
<1>2. /\ state[c] = "open" /\ toClient[ws(c)] # <<>>
      /\ toClient' = [toClient EXCEPT ![ws(c)] = Tail(@)]
      /\ UNCHANGED <<opens, state, toServer>>
  BY <1>1 DEF handleOperation
<1>3. ws(c) \in Sockets /\ toClient[ws(c)] \in Seq(Messages)
  BY <1>2, SocketOf DEF TypeInv, QueuesTyped
<1>4. m \in Messages /\ Tail(toClient[ws(c)]) \in Seq(Messages)
  BY <1>2, <1>3, TailFacts
<1>5. QueuesTyped'
  BY <1>2, <1>4 DEF TypeInv, QueuesTyped
<1>6. ClientTyped'
  <2>1. CASE /\ m.op = "acknowledgement"
             /\ id' = [id EXCEPT ![c] = m.id]
             /\ isConnected' = [isConnected EXCEPT ![c] = TRUE]
             /\ UNCHANGED <<calls, known>>
    BY <1>2, <1>4, <2>1, MessageFields DEF TypeInv, ClientTyped
  <2>2. CASE m.op = "alias" /\ notify(c, m) /\ handleAlias(c, m) /\ UNCHANGED <<id, isConnected>>
    <3>1. calls' \in [Clients -> SUBSET Calls]
      BY <1>4, <2>2, NotifyTyped DEF TypeInv
    <3>2. m.id \in Answers /\ m.alias \in TCPAddresses
      BY <1>4, <2>2, MessageFields
    <3>3. /\ DOMAIN known' = Clients
          /\ \A b \in Clients \ {c} : known'[b] = known[b]
          /\ DOMAIN known'[c] \subseteq DOMAIN known[c] \cup {m.alias}
          /\ \A a \in DOMAIN known'[c] :
               known'[c][a] = IF a = m.alias THEN m.id ELSE known[c][a]
      BY <1>4, <2>2, TablesTyped DEF TypeInv
    <3>4. \A b \in Clients : /\ DOMAIN known'[b] \subseteq TCPAddresses
                             /\ \A a \in DOMAIN known'[b] : known'[b][a] \in Answers
      <4>1. ASSUME NEW b \in Clients
            PROVE  /\ DOMAIN known[b] \subseteq TCPAddresses
                   /\ \A a \in DOMAIN known[b] : known[b][a] \in Answers
        BY DEF TypeInv, ClientTyped
      <4>2. /\ DOMAIN known'[c] \subseteq TCPAddresses
            /\ \A a \in DOMAIN known'[c] : known'[c][a] \in Answers
        BY <3>2, <3>3, <4>1
      <4> QED
        BY <3>3, <4>1, <4>2
    <3> QED
      BY <1>2, <2>2, <3>1, <3>3, <3>4 DEF TypeInv, ClientTyped
  <2>3. CASE m.op = "accept" /\ notify(c, m) /\ UNCHANGED <<id, isConnected, known>>
    BY <1>2, <1>4, <2>3, NotifyTyped DEF TypeInv, ClientTyped
  <2>4. CASE UNCHANGED <<id, isConnected, calls, known>>
    BY <1>2, <2>4 DEF TypeInv, ClientTyped
  <2> QED
    BY <1>1, <2>1, <2>2, <2>3, <2>4 DEF handleOperation
<1> QED
  BY <1>1, <1>2, <1>5, <1>6 DEF TypeInv, Deaf, QueuesSigned

\* Every step of the system is one of these.
LEMMA Steps ==
  ASSUME [Next]_vars
  PROVE  \/ Run
         \/ \E c \in Clients : \/ Connection(c) \/ Unasked(openClient(c)) \/ Unasked(Opened(c))
                               \/ Unasked(Disconnected(c)) \/ Unasked(handleOperation(c))
                               \/ Beside(Program(c))
         \/ \E s \in accepted : Receive(s)
         \/ \E S \in SUBSET accepted : Close(S)
         \/ UNCHANGED vars
<1>1. \A c : Unasked(ws(c) \in ended /\ Disconnected(c)) => Unasked(Disconnected(c))
  BY DEF Unasked, Beside
<1> QED
  BY <1>1 DEF Next, Progress

LEMMA InitKeepsTypes == Init => TypeInv
<1> SUFFICES ASSUME Init PROVE TypeInv
  OBVIOUS
<1>1. /\ SP!Init /\ SP!IInv
  BY SameTurns, SP!InitKeepsInv, ServerAssumptions DEF Init
<1>2. tasks = {} /\ accepted = {} /\ goodbyes = [s \in Sockets |-> {}]
  BY <1>1 DEF SP!Init
<1>3. ClientTyped
  BY ClientAssumption DEF Init, ClientInit, ClientTyped
<1>4. QueuesTyped /\ Deaf /\ QueuesSigned /\ ConnectsTyped
  BY <1>2 DEF Init, ClientInit, QueuesTyped, Deaf, QueuesSigned, ConnectsTyped
<1> QED
  BY <1>1, <1>3, <1>4 DEF TypeInv

LEMMA StutterKeepsTypes ==
  ASSUME TypeInv, UNCHANGED vars
  PROVE  TypeInv'
<1>1. /\ UNCHANGED <<opens, state, id, isConnected, calls, known, toServer, toClient>>
      /\ UNCHANGED <<accepted, refused, goodbyes, clients, aliases, subnets, members, ports, tasks>>
  BY DEF vars, client, server
<1>2. SP!IInv'
  BY <1>1, SP!SendingKeepsInv, ServerAssumptions DEF TypeInv
<1>3. \A s, m : SP!Signed(s, m)' <=> SP!Signed(s, m)
  BY <1>1 DEF SP!Signed, SP!IdsOf
<1> QED
  BY <1>1, <1>2, <1>3 DEF TypeInv, ClientTyped, QueuesTyped, Deaf, QueuesSigned, ConnectsTyped

LEMMA NextKeepsTypes == TypeInv /\ [Next]_vars => TypeInv'
<1> SUFFICES ASSUME TypeInv, [Next]_vars PROVE TypeInv'
  OBVIOUS
<1>1. SUFFICES ASSUME \/ Run
                      \/ \E c \in Clients : \/ Connection(c) \/ Unasked(openClient(c))
                                            \/ Unasked(Opened(c)) \/ Unasked(Disconnected(c))
                                            \/ Unasked(handleOperation(c))
                                            \/ Beside(Program(c))
                      \/ \E s \in accepted : Receive(s)
                      \/ \E S \in SUBSET accepted : Close(S)
                      \/ UNCHANGED vars
               PROVE  TypeInv'
  BY Steps
<1> QED
  BY <1>1, RunKeepsTypes, ConnectionKeepsTypes, OpenKeepsTypes, OpenedKeepsTypes,
     DisconnectedKeepsTypes, OperationKeepsTypes, ProgramKeepsTypes, ReceiveKeepsTypes,
     CloseKeepsTypes, StutterKeepsTypes

LEMMA TypesInvariance == Spec => []TypeInv
  BY InitKeepsTypes, NextKeepsTypes, PTL DEF Spec

\* THEOREM EverythingTyped: whatever clients and the server send each other, and
\* however connections are lost, every table and every message keeps to its type.
THEOREM EverythingTyped == Spec => []TypeOK
<1>1. TypeInv => TypeOK
  <2> SUFFICES ASSUME TypeInv PROVE TypeOK
    OBVIOUS
  <2>1. Server!TypeOK
    <3>1. SP!IInv => SP!TypeOK
      BY DEF SP!IInv, SP!TypeOK, SP!DataTyped, SP!TasksTyped, SP!TaskOK
    <3> QED
      BY <3>1, SameTurns DEF TypeInv
  <2>2. ClientTypeOK
    BY DEF TypeInv, ClientTyped, ClientTypeOK
  <2> QED
    BY <2>1, <2>2 DEF TypeOK
<1> QED
  BY <1>1, TypesInvariance, PTL

----
(***************************************************************************)
(* The id of a connection                                                  *)
(***************************************************************************)
\* The aliases that programs bind, each on a host of its own, and the server that
\* gives no client one of these hosts as its id.
BindHosts == {parseIPAddress(a) : a \in BindAliases}

HostsDistinct == \A a, b \in BindAliases : parseIPAddress(a) = parseIPAddress(b) => a = b

HostsReserved ==
  \A t \in tasks : t.at \in {"acknowledge", "greet"} => t.addr \notin BindHosts

\* A connection that the client has not opened carries nothing yet.
Unused(s) == s[2] > opens[s[1]] \/ (s = ws(s[1]) /\ state[s[1]] = "connecting")

UnusedSilent ==
  \A s \in Sockets : Unused(s) =>
    /\ s \notin refused /\ goodbyes[s] = {} /\ toServer[s] = <<>> /\ toClient[s] = <<>>
    /\ \A t \in tasks : t.sock # s
    /\ s[2] > opens[s[1]] => s \notin accepted \cup ended

Joined ==
  /\ accepted \cap ended = {}
  /\ \A c \in Clients : state[c] = "open" => ws(c) \in accepted \cup ended

\* What orderly programs ask for, and the steps that serve it.
Asked(s, m) ==
  \/ m = Knock(subnetPrefix)
  \/ /\ m.op \in {"bind", "accepting", "shutdown"}
     /\ m.id \in goodbyes[s] /\ m.alias \in BindAliases
  \/ /\ m.op = "connect"
     /\ m.id \in goodbyes[s] /\ m.remoteAlias \in BindAliases /\ m.clientConnectionId = s[1]

AskedKinds == \A s \in accepted : \A m \in Held(toServer[s]) : Asked(s, m)

Serves(place, op) ==
  \/ op = "knock" /\ place \in SP!KnockPlaces
  \/ op = "bind" /\ place \in {"bind", "claim", "register"}
  \/ op = "accepting" /\ place = "accepting"
  \/ op = "shutdown" /\ place \in {"shutdown", "freePort", "freeHost", "retract"}
  \/ op = "connect" /\ place \in SP!ConnectPlaces
  \/ op = "close" /\ place \in SP!LeavePlaces
  \/ op = "expire" /\ place \in SP!ExpiryPlaces \cup {"retract"}

\* A request is served alone, for a client that is there.
TaskKinds ==
  \A t \in tasks :
    /\ Serves(t.at, t.data.op)
    /\ t.data.op \in {"close", "expire"} => ~ SP!Connected(t.data.id)
    /\ t.data.op \notin {"close", "expire"} =>
         t.sock \in accepted /\ Asked(t.sock, t.data) /\ tasks = {t}
    /\ t.at \in {"undo", "refuse", "introduce", "accept", "confirm"} => t.client = t.sock

\* No id is a host of an alias that programs bind, and no other alias is there.
IdsReserved == \A s \in Sockets : goodbyes[s] \cap BindHosts = {}

AliasKinds ==
  \A a \in DOMAIN aliases : a \in BindAliases \/ parseIPAddress(a) \notin BindHosts

Registered == \A s \in Sockets : \A i \in goodbyes[s] : i \in DOMAIN clients /\ clients[i] = s

\* The id that a client has, or that is on the way to it.
Acks(s) == {m \in Held(toClient[s]) : m.op = "acknowledgement"}

Granted(c, i) ==
  /\ \A m \in Acks(ws(c)) : m.id = i
  /\ Acks(ws(c)) = {} => id[c] = i

\* The steps from a connection to the id of its client.
Asking(c) ==
  /\ toServer[ws(c)] = <<Knock(subnetPrefix)>>
  /\ goodbyes[ws(c)] = {} /\ ws(c) \notin refused /\ Acks(ws(c)) = {}
  /\ \A t \in tasks : t.sock # ws(c)

Knocking(c) ==
  /\ toServer[ws(c)] = <<>>
  /\ goodbyes[ws(c)] = {} /\ ws(c) \notin refused
  /\ \E t \in tasks :
       /\ t.sock = ws(c) /\ t.at \in SP!KnockPlaces
       /\ t.at # "greet" => Acks(ws(c)) = {}
       /\ t.at = "greet" => Granted(c, t.addr)

Denied(c) ==
  /\ toServer[ws(c)] = <<>>
  /\ goodbyes[ws(c)] = {} /\ ws(c) \in refused /\ Granted(c, NoAddress)
  /\ \A t \in tasks : t.sock # ws(c)

Admitted(c) ==
  /\ \A m \in Held(toServer[ws(c)]) : m.op # "knock"
  /\ ws(c) \notin refused
  /\ \E i \in goodbyes[ws(c)] : goodbyes[ws(c)] = {i} /\ Granted(c, i)
  /\ \A t \in tasks : t.sock = ws(c) => t.at \notin SP!KnockPlaces

Identified ==
  \A c \in Clients : state[c] = "open" /\ ws(c) \in accepted =>
    Asking(c) \/ Knocking(c) \/ Denied(c) \/ Admitted(c)

IdInv ==
  /\ TypeInv /\ SP!PoliteInv
  /\ UnusedSilent /\ Joined /\ AskedKinds /\ TaskKinds /\ AliasKinds /\ IdsReserved
  /\ Registered /\ Identified

\* A step of a handler, and what it leaves alone.
Runs(t) ==
  /\ t \in tasks /\ SP!Run(t) /\ deliver
  /\ UNCHANGED <<opens, state, id, isConnected, calls, known, toServer, ended>>

LEMMA RunRuns == Run => \E t : Runs(t)
<1> SUFFICES ASSUME Run PROVE \E t : Runs(t)
  OBVIOUS
<1>1. PICK t \in tasks : SP!Run(t)
  BY SameTurns DEF Run
<1>2. Runs(t)
  BY <1>1 DEF Run, Runs, client
<1> QED
  BY <1>2

\* The server sends to the socket it serves, and to those that have an id.
LEMMA RunRecipients ==
  ASSUME IdInv, NEW t, Runs(t), NEW x \in sent'
  PROVE  x.to \in Sockets /\ (x.to = t.sock \/ goodbyes[x.to] # {})
<1>1. /\ SP!IInv /\ SP!DataTyped /\ SP!TasksTyped /\ SP!ClientsConnected /\ t \in tasks
      /\ SP!Run(t) /\ t.sock \in Sockets
  BY DEF IdInv, TypeInv, SP!IInv, Runs, SP!TasksTyped, SP!TaskOK, SP!Tasks
<1>2. SP!Says(t, x)
  BY <1>1, SP!RunSays, ServerAssumptions
<1>3. \A i \in DOMAIN clients : clients[i] \in Sockets /\ goodbyes[clients[i]] # {}
  BY <1>1 DEF SP!ClientsConnected, SP!DataTyped
<1>4. t.at \in {"refuse", "confirm"} => t.client = t.sock
  BY <1>1 DEF IdInv, TaskKinds
<1>5. t.at = "accept" => t.owner \in DOMAIN clients /\ clients[t.owner] = t.server
  BY <1>1 DEF IdInv, SP!PoliteInv, SP!ConnectsTrue
<1> QED
  BY <1>1, <1>2, <1>3, <1>4, <1>5 DEF SP!Says

\* The tasks that a step leaves are older, or go on for the same socket.
LEMMA RunTasks ==
  ASSUME IdInv, NEW t, Runs(t)
  PROVE  /\ t \in tasks /\ t \notin tasks' /\ tasks \ {t} \subseteq tasks'
         /\ \A u \in tasks' : u \in tasks \/ (SP!Continues(t, u) /\ SP!Brings(t, u))
<1>1. SP!TasksTyped /\ SP!DataTyped /\ t \in tasks /\ SP!Run(t)
  BY DEF IdInv, TypeInv, SP!IInv, Runs
<1> QED
  BY <1>1, SP!RunContinues, SP!RunBrings, SP!Successors, ServerAssumptions

LEMMA RunSockets ==
  ASSUME IdInv, NEW t, Runs(t)
  PROVE  /\ accepted' = accepted
         /\ t.at # "greet" => goodbyes' = goodbyes /\ clients' = clients
         /\ t.at = "greet" =>
              /\ t.sock \in accepted /\ t.addr \in IPAddresses
              /\ DOMAIN clients' = DOMAIN clients \cup {t.addr}
              /\ \A i \in DOMAIN clients' :
                   clients'[i] = IF i = t.addr THEN t.sock ELSE clients[i]
         /\ \A s \in Sockets :
              goodbyes'[s] = IF t.at = "greet" /\ s = t.sock THEN goodbyes[s] \cup {t.addr}
                                                             ELSE goodbyes[s]
         /\ \/ refused' = refused
            \/ t.at = "acknowledge" /\ t.addr = NoAddress /\ refused' = refused \cup {t.sock}
<1>1. SP!TasksTyped /\ SP!DataTyped /\ SP!AskersPresent /\ t \in tasks /\ SP!Run(t)
  BY DEF IdInv, TypeInv, SP!IInv, Runs
<1>2. /\ accepted' = accepted
      /\ t.at # "greet" => goodbyes' = goodbyes /\ clients' = clients
      /\ t.at = "greet" =>
           /\ t.sock \in accepted /\ t.addr \in IPAddresses
           /\ \A s \in Sockets :
                goodbyes'[s] = IF s = t.sock THEN goodbyes[s] \cup {t.addr} ELSE goodbyes[s]
  BY <1>1, SP!RunConnected, SameData, ServerAssumptions
<1>3. t.at = "greet" =>
         /\ DOMAIN clients' = DOMAIN clients \cup {t.addr}
         /\ \A i \in DOMAIN clients' : clients'[i] = IF i = t.addr THEN t.sock ELSE clients[i]
  BY <1>1, SP!KnockGoesOn, ServerAssumptions
<1>4. \/ refused' = refused
      \/ t.at = "acknowledge" /\ t.addr = NoAddress /\ refused' = refused \cup {t.sock}
  BY <1>1, SP!RunRefused, SameData, ServerAssumptions
<1> QED
  BY <1>2, <1>3, <1>4

LEMMA RunUnusedSilent ==
  ASSUME IdInv, NEW t, Runs(t)
  PROVE  UnusedSilent'
<1> SUFFICES ASSUME NEW s \in Sockets, Unused(s)'
             PROVE  /\ s \notin refused' /\ goodbyes'[s] = {} /\ toServer'[s] = <<>>
                    /\ toClient'[s] = <<>> /\ \A u \in tasks' : u.sock # s
                    /\ s[2] > opens'[s[1]] => s \notin accepted' \cup ended'
  BY DEF UnusedSilent
<1>1. Unused(s)
  BY DEF Unused, ws, Runs
<1>2. /\ s \notin refused /\ goodbyes[s] = {} /\ toServer[s] = <<>> /\ toClient[s] = <<>>
      /\ \A u \in tasks : u.sock # s
      /\ s[2] > opens[s[1]] => s \notin accepted \cup ended
  BY <1>1 DEF IdInv, UnusedSilent
<1>3. t.sock # s /\ \A u \in tasks' : u.sock # s
  BY <1>2, RunTasks DEF SP!Brings
<1>4. toClient'[s] = toClient[s]
  BY <1>2, <1>3, Delivered, RunRecipients DEF Runs
<1>5. s \notin refused'
  <2>1. refused' = refused \/ refused' = refused \cup {t.sock}
    BY RunSockets
  <2> QED
    BY <1>2, <1>3, <2>1
<1>7. goodbyes'[s] = {}
  <2>1. goodbyes'[s] = IF t.at = "greet" /\ s = t.sock THEN goodbyes[s] \cup {t.addr}
                                                       ELSE goodbyes[s]
    BY RunSockets
  <2> QED
    BY <1>2, <1>3, <2>1
<1>8. accepted' = accepted
  BY RunSockets
<1>6. toServer' = toServer /\ opens' = opens /\ ended' = ended
  BY DEF Runs
<1> QED
  BY <1>2, <1>3, <1>4, <1>5, <1>6, <1>7, <1>8

LEMMA RunTaskKinds ==
  ASSUME IdInv, NEW t, Runs(t)
  PROVE  TaskKinds'
<1>1. /\ t \in tasks /\ t \notin tasks' /\ tasks \ {t} \subseteq tasks'
      /\ \A u \in tasks' : u \in tasks \/ (SP!Continues(t, u) /\ SP!Brings(t, u))
  BY RunTasks
<1>2. /\ Serves(t.at, t.data.op)
      /\ t.data.op \in {"close", "expire"} => ~ SP!Connected(t.data.id)
      /\ t.data.op \notin {"close", "expire"} =>
           t.sock \in accepted /\ Asked(t.sock, t.data) /\ tasks = {t}
      /\ t.at \in {"undo", "refuse", "introduce", "accept", "confirm"} => t.client = t.sock
  BY <1>1 DEF IdInv, TaskKinds
<1>3. CASE t.data.op \notin {"close", "expire"}
  <2>1. ASSUME NEW u \in tasks'
        PROVE  /\ Serves(u.at, u.data.op) /\ u.data = t.data /\ u.sock = t.sock
               /\ u.at \in {"undo", "refuse", "introduce", "accept", "confirm"} => u.client = u.sock
    <3>1. SP!Continues(t, u) /\ SP!Brings(t, u)
      BY <1>1, <1>2, <1>3
    <3>2. t.at \notin SP!LeavePlaces
      BY <1>2, <1>3 DEF Serves, SP!LeavePlaces, SP!KnockPlaces, SP!ConnectPlaces, SP!CreatedPlaces
    <3>3. u.data = t.data /\ u.sock = t.sock
      BY <3>1, <3>2 DEF SP!Continues, SP!Brings, SP!LeavePlaces
    <3>4. Serves(u.at, u.data.op)
      BY <1>2, <1>3, <3>1, <3>3
      DEF Serves, SP!Continues, SP!Edges, SP!KnockPlaces, SP!ConnectPlaces, SP!CreatedPlaces,
          SP!LeavePlaces, SP!ExpiryPlaces
    <3>5. t.at = "lookup" => SP!Get(t.data.id) = t.sock
      <4>1. t.at = "lookup" => t.data.op = "connect"
        BY <1>2 DEF Serves, SP!KnockPlaces, SP!LeavePlaces, SP!ExpiryPlaces
      <4>2. t.at = "lookup" => t.data.id \in goodbyes[t.sock] /\ t.sock \in Sockets
        BY <1>2, <1>3, <4>1 DEF Asked, Knock, IdInv, TypeInv, SP!IInv, SP!DataTyped
      <4> QED
        BY <4>2 DEF SP!Get, IdInv, Registered
    <3>6. u.at \in {"undo", "refuse", "introduce", "accept", "confirm"} =>
            t.at \in {"lookup", "undo", "introduce", "accept"}
      BY <3>1 DEF SP!Continues, SP!Edges
    <3> QED
      BY <1>2, <3>1, <3>3, <3>4, <3>5, <3>6 DEF SP!Brings
  <2>2. Asked(t.sock, t.data)'
    <3>1. goodbyes[t.sock] \subseteq goodbyes'[t.sock]
      BY <1>2, <1>3, RunSockets DEF IdInv, TypeInv, SP!IInv, SP!DataTyped
    <3> QED
      BY <1>2, <1>3, <3>1 DEF Asked
  <2>3. \A u, v \in tasks' : u = v
    <3>1. t.at # "expire"
      BY <1>2, <1>3 DEF Serves, SP!KnockPlaces, SP!ConnectPlaces, SP!CreatedPlaces
    <3> QED
      BY <1>1, <1>2, <1>3, <3>1, SP!RunContinues, ServerAssumptions
      DEF Runs, IdInv, TypeInv, SP!IInv
  <2>4. \A u \in tasks' : tasks' = {u}
    BY <2>3
  <2>5. t.sock \in accepted'
    BY <1>2, <1>3, RunSockets
  <2> QED
    BY <1>3, <2>1, <2>2, <2>4, <2>5 DEF TaskKinds
<1>4. CASE t.data.op \in {"close", "expire"}
  <2>1. t.at \notin {"greet", "lookup", "undo", "introduce", "accept"}
    BY <1>2, <1>4 DEF Serves, SP!LeavePlaces, SP!ExpiryPlaces
  <2>2. \A i : SP!Connected(i)' <=> SP!Connected(i)
    BY <2>1, RunSockets DEF SP!Connected
  <2>3. ASSUME NEW u \in tasks'
        PROVE  /\ Serves(u.at, u.data.op)
               /\ u.data.op \in {"close", "expire"} /\ ~ SP!Connected(u.data.id)
               /\ u.at \in {"undo", "refuse", "introduce", "accept", "confirm"} => u.client = u.sock
    <3>1. CASE u \in tasks
      BY <1>1, <1>4, <3>1 DEF IdInv, TaskKinds
    <3>2. CASE SP!Continues(t, u) /\ SP!Brings(t, u)
      <4>1. CASE t.at = "expire"
        <5>1. u.data.op = "expire" /\ u.data.id = t.data.id /\ u.at = "expireHost"
          BY <3>2, <4>1 DEF SP!Continues, SP!Brings, SP!Edges
        <5> QED
          BY <1>2, <1>4, <5>1 DEF Serves, SP!ExpiryPlaces
      <4>2. CASE t.at # "expire"
        <5>1. u.data = t.data
          BY <3>2, <4>2 DEF SP!Continues
        <5>2. Serves(u.at, u.data.op)
          BY <1>2, <1>4, <3>2, <4>2, <5>1
          DEF Serves, SP!Continues, SP!Edges, SP!LeavePlaces, SP!ExpiryPlaces
        <5>3. u.at \notin {"undo", "refuse", "introduce", "accept", "confirm"}
          BY <1>4, <5>1, <5>2 DEF Serves, SP!LeavePlaces, SP!ExpiryPlaces
        <5> QED
          BY <1>2, <1>4, <5>1, <5>2, <5>3
      <4> QED
        BY <4>1, <4>2
    <3> QED
      BY <1>1, <3>1, <3>2
  <2> QED
    BY <2>2, <2>3 DEF TaskKinds
<1> QED
  BY <1>3, <1>4

LEMMA RunAskedKinds ==
  ASSUME IdInv, NEW t, Runs(t)
  PROVE  AskedKinds'
<1>1. accepted \subseteq Sockets
  BY DEF IdInv, TypeInv, SP!IInv, SP!DataTyped
<1>2. \A s \in Sockets : goodbyes[s] \subseteq goodbyes'[s]
  BY RunKeepsSockets DEF IdInv, TypeInv, Runs
<1>3. accepted' = accepted /\ toServer' = toServer
  BY RunSockets DEF Runs
<1>4. \A s \in accepted : \A m : Asked(s, m) => Asked(s, m)'
  BY <1>1, <1>2 DEF Asked
<1> QED
  BY <1>3, <1>4 DEF IdInv, AskedKinds

\* The aliases that are registered are those that programs bind, and those on the
\* hosts of clients.
LEMMA RunAliasKinds ==
  ASSUME IdInv, NEW t, Runs(t)
  PROVE  AliasKinds'
<1> SUFFICES ASSUME NEW a \in DOMAIN aliases'
             PROVE  a \in BindAliases \/ parseIPAddress(a) \notin BindHosts
  BY DEF AliasKinds
<1>1. CASE a \in DOMAIN aliases
  BY <1>1 DEF IdInv, AliasKinds
<1>2. CASE a \notin DOMAIN aliases
  <2>1. \/ t.at = "register" /\ a = t.data.alias
        \/ /\ t.at = "lookup" /\ parseIPAddress(a) = t.data.id
           /\ SP!Connected(t.data.id)
    BY <1>2, SP!RunNewAlias, SameData, ServerAssumptions DEF IdInv, TypeInv, Runs
  <2>2. CASE t.at = "register" /\ a = t.data.alias
    <3>1. Serves(t.at, t.data.op) /\ (t.data.op \notin {"close", "expire"} => Asked(t.sock, t.data))
      BY DEF IdInv, TaskKinds, Runs
    <3>2. t.data.op = "bind"
      BY <2>2, <3>1
      DEF Serves, SP!KnockPlaces, SP!ConnectPlaces, SP!CreatedPlaces, SP!LeavePlaces,
          SP!ExpiryPlaces
    <3>3. t.data # Knock(subnetPrefix)
      BY <3>2 DEF Knock
    <3> QED
      BY <2>2, <3>1, <3>2, <3>3 DEF Asked
  <2>3. CASE t.at = "lookup" /\ parseIPAddress(a) = t.data.id /\ SP!Connected(t.data.id)
    <3>1. accepted \subseteq Sockets
      BY DEF IdInv, TypeInv, SP!IInv, SP!DataTyped
    <3> QED
      BY <2>3, <3>1 DEF SP!Connected, IdInv, IdsReserved
  <2> QED
    BY <2>1, <2>2, <2>3
<1> QED
  BY <1>1, <1>2

LEMMA RunIdsReserved ==
  ASSUME IdInv, HostsReserved, NEW t, Runs(t)
  PROVE  IdsReserved'
<1>1. t \in tasks
  BY DEF Runs
<1>2. ASSUME NEW s \in Sockets PROVE goodbyes'[s] \cap BindHosts = {}
  <2>1. goodbyes[s] \cap BindHosts = {}
    BY DEF IdInv, IdsReserved
  <2>2. goodbyes'[s] = IF t.at = "greet" /\ s = t.sock THEN goodbyes[s] \cup {t.addr}
                                                       ELSE goodbyes[s]
    BY RunSockets
  <2>3. t.at = "greet" => t.addr \notin BindHosts
    BY <1>1 DEF HostsReserved
  <2> QED
    BY <2>1, <2>2, <2>3
<1> QED
  BY <1>2 DEF IdsReserved

\* An id goes to one socket only.
LEMMA RunRegistered ==
  ASSUME IdInv, NEW t, Runs(t)
  PROVE  Registered'
<1> SUFFICES ASSUME NEW s \in Sockets, NEW i \in goodbyes'[s]
             PROVE  i \in DOMAIN clients' /\ clients'[i] = s
  BY DEF Registered
<1>1. goodbyes'[s] = IF t.at = "greet" /\ s = t.sock THEN goodbyes[s] \cup {t.addr}
                                                     ELSE goodbyes[s]
  BY RunSockets
<1>2. t.at = "greet" =>
        /\ DOMAIN clients' = DOMAIN clients \cup {t.addr}
        /\ \A j \in DOMAIN clients' : clients'[j] = IF j = t.addr THEN t.sock ELSE clients[j]
  BY RunSockets
<1>3. CASE i \in goodbyes[s]
  <2>1. i \in DOMAIN clients /\ clients[i] = s
    BY <1>3 DEF IdInv, Registered
  <2>2. CASE t.at = "greet"
    <3>1. s \in accepted
      BY <1>3 DEF IdInv, TypeInv, Deaf
    <3>2. t.addr # i
      <4>1. t \in tasks /\ t.addr \in IPAddresses
        BY <2>2, RunSockets DEF Runs
      <4>2. t.addr # NoAddress
        BY <4>1, AddressesAssumption DEF IPAddresses, NoAddress
      <4>3. ~ SP!Connected(t.addr)
        BY <2>2, <4>1, <4>2, SameData DEF IdInv, SP!PoliteInv, SP!IdsFresh
      <4> QED
        BY <1>3, <3>1, <4>3 DEF SP!Connected
    <3> QED
      BY <1>2, <2>1, <2>2, <3>2
  <2>3. CASE t.at # "greet"
    <3>1. clients' = clients
      BY <2>3, RunSockets
    <3> QED
      BY <2>1, <3>1
  <2> QED
    BY <2>2, <2>3
<1>4. CASE i \notin goodbyes[s]
  BY <1>1, <1>2, <1>4
<1> QED
  BY <1>3, <1>4

\* Only an acknowledgement tells a client its id.
LEMMA RunAcks ==
  ASSUME IdInv, NEW t, Runs(t), NEW s \in Sockets, t.at # "acknowledge" \/ t.sock # s
  PROVE  Acks(s)' = Acks(s)
<1>1. /\ SP!IInv /\ SP!DataTyped /\ SP!TasksTyped /\ ConnectsTyped /\ t \in tasks
      /\ SP!Run(t) /\ deliver
  BY DEF IdInv, TypeInv, SP!IInv, Runs
<1>2. toClient[s] \in Seq(Messages)
  BY DEF IdInv, TypeInv, QueuesTyped
<1>3. CASE toClient'[s] = toClient[s]
  BY <1>3 DEF Acks
<1>4. ASSUME NEW x \in sent', x.to = s, toClient'[s] = Append(toClient[s], x.message)
      PROVE  Acks(s)' = Acks(s)
  <2>1. x.message \in Messages
    BY <1>1, RunMessages
  <2>2. SP!Says(t, x)
    BY <1>1, SP!RunSays, ServerAssumptions
  <2>3. x.message.op # "acknowledgement"
    <3>1. t.at \notin {"offer", "answer", "candidate"}
      BY <1>1 DEF IdInv, TaskKinds, Serves, SP!KnockPlaces, SP!ConnectPlaces,
         SP!CreatedPlaces, SP!LeavePlaces, SP!ExpiryPlaces
    <3>2. /\ \A i, j : SP!Greeting(i, j).op # "acknowledgement"
          /\ \A i : SP!Goodbye(i).op # "acknowledgement"
          /\ \A a, b : SP!Accept(a, b).op # "acknowledgement"
      BY DEF SP!Greeting, SP!Goodbye, SP!Accept
    <3>3. \A i, a, n : /\ SP!Registration(i, a, n).op # "acknowledgement"
                       /\ SP!Retraction(i, a, n).op # "acknowledgement"
                       /\ SP!ConnectionAlias(i, a, n).op # "acknowledgement"
      BY SP!AliasFields, ServerAssumptions
    <3> QED
      BY <1>4, <2>2, <3>1, <3>2, <3>3 DEF SP!Says
  <2>4. Held(toClient'[s]) = Held(toClient[s]) \cup {x.message}
    BY <1>2, <1>4, <2>1, AppendFacts
  <2> QED
    BY <2>3, <2>4 DEF Acks
<1> QED
  BY <1>1, <1>3, <1>4, Delivered

\* A handler of a knock is the only one that is under way.
LEMMA KnockAlone ==
  ASSUME IdInv, NEW t \in tasks, NEW u \in tasks, u.at \in SP!KnockPlaces
  PROVE  t = u
<1>1. Serves(u.at, u.data.op) /\ (u.data.op \notin {"close", "expire"} => tasks = {u})
  BY DEF IdInv, TaskKinds
<1> QED
  BY <1>1
  DEF Serves, SP!KnockPlaces, SP!ConnectPlaces, SP!CreatedPlaces, SP!LeavePlaces, SP!ExpiryPlaces

\* The acknowledgement reaches the client, when that is still connected.
LEMMA RunAcknowledges ==
  ASSUME IdInv, NEW t, Runs(t), t.at = "acknowledge", t.sock \in Sockets, current(t.sock)
  PROVE  IF t.addr = NoAddress
           THEN /\ Acks(t.sock)' = Acks(t.sock) \cup {SP!Refusal}
                /\ tasks' = tasks \ {t} /\ refused' = refused \cup {t.sock}
           ELSE /\ Acks(t.sock)' = Acks(t.sock) \cup {SP!Granting(t.addr)}
                /\ \E u \in tasks' : u.at = "greet" /\ u.sock = t.sock /\ u.addr = t.addr
                /\ refused' = refused
<1> DEFINE m == IF t.addr = NoAddress THEN SP!Refusal ELSE SP!Granting(t.addr)
<1>1. t \in tasks /\ SP!Run(t) /\ deliver /\ SP!TasksTyped /\ SP!TaskOK(t)
  BY DEF IdInv, TypeInv, SP!IInv, Runs, SP!TasksTyped
<1>2. \/ t.addr = NoAddress /\ SP!Tells(t.sock, SP!Refusal) /\ tasks' = tasks \ {t}
      \/ t.addr # NoAddress /\ SP!Tells(t.sock, SP!Granting(t.addr)) /\ refused' = refused
  BY <1>1, SP!KnockSends, SameData, ServerAssumptions
<1>3. sent' = {[to |-> t.sock, message |-> m]}
  BY <1>2 DEF SP!Tells
<1>4. m \in Messages /\ m.op = "acknowledgement"
  BY <1>1, MessageTypes, SP!AcknowledgementFields, SameData, ServerAssumptions DEF SP!TaskOK
<1> HIDE DEF m
<1>5. [to |-> t.sock, message |-> m].to = t.sock /\ [to |-> t.sock, message |-> m].message = m
  OBVIOUS
<1>6. toClient'[t.sock] = Append(toClient[t.sock], m)
  BY <1>1, <1>3, <1>5, Delivered
<1>7. Acks(t.sock)' = Acks(t.sock) \cup {m}
  <2>1. toClient[t.sock] \in Seq(Messages)
    BY DEF IdInv, TypeInv, QueuesTyped
  <2>2. Held(toClient'[t.sock]) = Held(toClient[t.sock]) \cup {m}
    BY <1>4, <1>6, <2>1, AppendFacts
  <2> QED
    BY <1>4, <2>2 DEF Acks
<1>8. /\ t.addr # NoAddress => \E u \in tasks' : u.at = "greet" /\ u.sock = t.sock /\ u.addr = t.addr
      /\ t.addr = NoAddress => refused' = refused \cup {t.sock}
  BY <1>1, SP!KnockGoesOn, SameData, ServerAssumptions
<1> QED
  BY <1>2, <1>7, <1>8 DEF m

\* A connection on which nothing of a knock happens stays as it is.
LEMMA RunElsewhere ==
  ASSUME IdInv, NEW t, Runs(t), NEW c \in Clients, ws(c) \in Sockets,
         t.sock = ws(c) => t.at \notin SP!KnockPlaces
  PROVE  /\ goodbyes'[ws(c)] = goodbyes[ws(c)] /\ Acks(ws(c))' = Acks(ws(c))
         /\ toServer'[ws(c)] = toServer[ws(c)]
         /\ ws(c) \in refused' <=> ws(c) \in refused
         /\ id'[c] = id[c] /\ ws(c)' = ws(c)
         /\ \A u \in tasks' : u.sock = ws(c) =>
              u.at \notin SP!KnockPlaces /\ \E v \in tasks : v.sock = ws(c)
<1>1. /\ opens' = opens /\ id' = id /\ toServer' = toServer /\ t \in tasks
  BY DEF Runs
<1>2. goodbyes'[ws(c)] = IF t.at = "greet" /\ ws(c) = t.sock THEN goodbyes[ws(c)] \cup {t.addr}
                                                             ELSE goodbyes[ws(c)]
  BY RunSockets
<1>3. \/ refused' = refused
      \/ t.at = "acknowledge" /\ refused' = refused \cup {t.sock}
  BY RunSockets
<1>4. Acks(ws(c))' = Acks(ws(c))
  <2>1. t.at # "acknowledge" \/ t.sock # ws(c)
    BY DEF SP!KnockPlaces
  <2>2. \A s \in Sockets : s = ws(c) => Acks(s)' = Acks(s)
    BY <2>1, RunAcks
  <2>3. ws(c)' = ws(c)
    BY <1>1 DEF ws
  <2> QED
    BY <2>2, <2>3
<1>5. ASSUME NEW u \in tasks', u.sock = ws(c)
      PROVE  u.at \notin SP!KnockPlaces /\ \E v \in tasks : v.sock = ws(c)
  <2>1. u \in tasks \/ (SP!Continues(t, u) /\ SP!Brings(t, u))
    BY RunTasks
  <2>2. CASE u \in tasks
    <3>1. u.at \in SP!KnockPlaces => t = u
      BY <1>1, <2>2, KnockAlone
    <3> QED
      BY <1>5, <2>2, <3>1
  <2>3. CASE SP!Continues(t, u) /\ SP!Brings(t, u)
    <3>1. t.sock = ws(c)
      BY <1>5, <2>3 DEF SP!Brings
    <3> QED
      BY <1>1, <2>3, <3>1 DEF SP!Continues, SP!Edges, SP!KnockPlaces
  <2> QED
    BY <2>1, <2>2, <2>3
<1>6. ws(c)' = ws(c)
  BY <1>1 DEF ws
<1>7. ws(c) \in refused' <=> ws(c) \in refused
  BY <1>3 DEF SP!KnockPlaces
<1>8. goodbyes'[ws(c)] = goodbyes[ws(c)]
  BY <1>2 DEF SP!KnockPlaces
<1> QED
  BY <1>1, <1>4, <1>5, <1>6, <1>7, <1>8

LEMMA RunIdentified ==
  ASSUME IdInv, NEW t, Runs(t)
  PROVE  Identified'
<1> SUFFICES ASSUME NEW c \in Clients, state'[c] = "open", ws(c)' \in accepted'
             PROVE  (Asking(c) \/ Knocking(c) \/ Denied(c) \/ Admitted(c))'
  BY DEF Identified
<1>1. /\ opens' = opens /\ id' = id /\ toServer' = toServer /\ t \in tasks /\ ws(c)' = ws(c)
      /\ state' = state /\ accepted' = accepted
  BY RunSockets DEF Runs, ws
<1>2. ws(c) \in Sockets /\ ws(c)[1] = c
  BY <1>1, SocketOf DEF IdInv, TypeInv
<1>3. current(ws(c))
  BY <1>1, <1>2 DEF current
<1>4. Asking(c) \/ Knocking(c) \/ Denied(c) \/ Admitted(c)
  BY <1>1 DEF IdInv, Identified
<1>5. CASE Asking(c)
  <2>1. t.sock # ws(c)
    BY <1>1, <1>5 DEF Asking
  <2>2. \A u \in tasks' : u.sock # ws(c)
    BY <1>2, <1>5, <2>1, RunElsewhere DEF Asking
  <2>3. /\ goodbyes'[ws(c)] = goodbyes[ws(c)] /\ Acks(ws(c))' = Acks(ws(c))
        /\ ws(c) \in refused' <=> ws(c) \in refused
    BY <1>2, <2>1, RunElsewhere
  <2>4. Asking(c)'
    BY <1>1, <1>5, <2>2, <2>3 DEF Asking
  <2> QED
    BY <2>4
<1>6. CASE Denied(c)
  <2>1. t.sock # ws(c)
    BY <1>1, <1>6 DEF Denied
  <2>2. \A u \in tasks' : u.sock # ws(c)
    BY <1>2, <1>6, <2>1, RunElsewhere DEF Denied
  <2>3. /\ goodbyes'[ws(c)] = goodbyes[ws(c)] /\ Acks(ws(c))' = Acks(ws(c))
        /\ ws(c) \in refused' <=> ws(c) \in refused
    BY <1>2, <2>1, RunElsewhere
  <2>4. Granted(c, NoAddress)'
    BY <1>1, <1>6, <2>3 DEF Denied, Granted
  <2>5. Denied(c)'
    BY <1>1, <1>6, <2>2, <2>3, <2>4 DEF Denied
  <2> QED
    BY <2>5
<1>7. CASE Admitted(c)
  <2>1. t.sock = ws(c) => t.at \notin SP!KnockPlaces
    BY <1>1, <1>7 DEF Admitted
  <2>2. /\ goodbyes'[ws(c)] = goodbyes[ws(c)] /\ Acks(ws(c))' = Acks(ws(c))
        /\ ws(c) \in refused' <=> ws(c) \in refused
        /\ \A u \in tasks' : u.sock = ws(c) => u.at \notin SP!KnockPlaces
    BY <1>2, <2>1, RunElsewhere
  <2>3. \A i : Granted(c, i) => Granted(c, i)'
    BY <1>1, <2>2 DEF Granted
  <2>4. Admitted(c)'
    BY <1>1, <1>7, <2>2, <2>3 DEF Admitted
  <2> QED
    BY <2>4
<1>8. CASE Knocking(c)
  <2>1. /\ t.sock = ws(c) /\ t.at \in SP!KnockPlaces
        /\ t.at # "greet" => Acks(ws(c)) = {}
        /\ t.at = "greet" => Granted(c, t.addr)
    BY <1>1, <1>8, KnockAlone DEF Knocking
  <2>2. /\ toServer'[ws(c)] = <<>> /\ goodbyes[ws(c)] = {} /\ ws(c) \notin refused
    BY <1>1, <1>8 DEF Knocking
  <2>3. tasks = {t} /\ tasks' \cap tasks = {}
    <3>1. \A u \in tasks : u = t
      BY <1>1, <2>1, KnockAlone
    <3> QED
      BY <1>1, <3>1, RunTasks
  <2>4. \A u \in tasks' : SP!Continues(t, u) /\ u.sock = ws(c)
    BY <2>1, <2>3, RunTasks DEF SP!Brings
  <2>5. t \in tasks /\ SP!Run(t) /\ SP!TasksTyped
    BY DEF Runs, IdInv, TypeInv, SP!IInv
  <2>6. CASE t.at = "knock"
    <3>1. \E u \in tasks' : u.at = "acknowledge" /\ u.sock = ws(c)
      <4>1. t.at = "knock" => \E u \in tasks' : u.at = "acknowledge" /\ u.sock = t.sock
        BY <2>5, SP!KnockGoesOn, ServerAssumptions
      <4> QED
        BY <2>1, <2>6, <4>1
    <3>2. Acks(ws(c))' = {}
      <4>1. \A s \in Sockets : s = ws(c) => Acks(s)' = Acks(s)
        BY <2>6, RunAcks
      <4> QED
        BY <1>1, <1>2, <2>1, <2>6, <4>1
    <3>3. goodbyes'[ws(c)] = {} /\ ws(c) \notin refused'
      <4>1. goodbyes' = goodbyes /\ refused' = refused
        BY <2>6, RunSockets
      <4> QED
        BY <2>2, <4>1
    <3>4. Knocking(c)'
      BY <1>1, <2>2, <3>1, <3>2, <3>3 DEF Knocking, SP!KnockPlaces
    <3> QED
      BY <3>4
  <2>7. CASE t.at = "acknowledge"
    <3>1. goodbyes'[ws(c)] = {}
      <4>1. goodbyes' = goodbyes
        BY <2>7, RunSockets
      <4> QED
        BY <2>2, <4>1
    <3>2. Acks(ws(c)) = {}
      BY <2>1, <2>7
    <3>3. CASE t.addr = NoAddress
      <4>1. /\ Acks(t.sock)' = Acks(t.sock) \cup {SP!Refusal}
            /\ tasks' = tasks \ {t} /\ refused' = refused \cup {t.sock}
        BY <1>2, <1>3, <2>1, <2>7, <3>3, RunAcknowledges
      <4>2. Acks(ws(c))' = {SP!Refusal}
        BY <1>1, <2>1, <3>2, <4>1
      <4>3. Granted(c, NoAddress)'
        BY <4>2, SP!AcknowledgementFields, SameData, ServerAssumptions DEF Granted
      <4>4. tasks' = {} /\ ws(c) \in refused'
        BY <2>1, <2>3, <4>1
      <4>5. Denied(c)'
        BY <1>1, <2>2, <3>1, <4>3, <4>4 DEF Denied
      <4> QED
        BY <4>5
    <3>4. CASE t.addr # NoAddress
      <4>1. /\ Acks(t.sock)' = Acks(t.sock) \cup {SP!Granting(t.addr)}
            /\ \E u \in tasks' : u.at = "greet" /\ u.sock = t.sock /\ u.addr = t.addr
            /\ refused' = refused
        BY <1>2, <1>3, <2>1, <2>7, <3>4, RunAcknowledges
      <4>2. Acks(ws(c))' = {SP!Granting(t.addr)}
        BY <1>1, <2>1, <3>2, <4>1
      <4>3. Granted(c, t.addr)'
        BY <4>2, SP!AcknowledgementFields, ServerAssumptions DEF Granted
      <4>4. PICK u \in tasks' : u.at = "greet" /\ u.sock = ws(c) /\ u.addr = t.addr
        BY <2>1, <4>1
      <4>5. Granted(c, u.addr)'
        BY <4>3, <4>4 DEF Granted
      <4>6. Knocking(c)'
        BY <1>1, <2>2, <3>1, <4>1, <4>4, <4>5 DEF Knocking, SP!KnockPlaces
      <4> QED
        BY <4>6
    <3> QED
      BY <3>3, <3>4
  <2>8. CASE t.at = "greet"
    <3>1. tasks' = {}
      BY <2>4, <2>8 DEF SP!Continues, SP!Edges
    <3>2. goodbyes'[ws(c)] = {t.addr}
      <4>1. goodbyes'[ws(c)] = IF t.at = "greet" /\ ws(c) = t.sock
                                 THEN goodbyes[ws(c)] \cup {t.addr} ELSE goodbyes[ws(c)]
        BY <1>2, RunSockets
      <4> QED
        BY <2>1, <2>2, <2>8, <4>1
    <3>3. ws(c) \notin refused'
      <4>1. refused' = refused
        BY <2>8, RunSockets
      <4> QED
        BY <2>2, <4>1
    <3>4. Acks(ws(c))' = Acks(ws(c))
      <4>1. \A s \in Sockets : s = ws(c) => Acks(s)' = Acks(s)
        BY <2>8, RunAcks
      <4> QED
        BY <1>1, <1>2, <4>1
    <3>5. Granted(c, t.addr)'
      BY <1>1, <2>1, <2>8, <3>4 DEF Granted
    <3>6. Held(toServer'[ws(c)]) = {}
      BY <2>2 DEF Held
    <3>7. Admitted(c)'
      BY <1>1, <3>1, <3>2, <3>3, <3>5, <3>6 DEF Admitted
    <3> QED
      BY <3>7
  <2> QED
    BY <2>1, <2>6, <2>7, <2>8 DEF SP!KnockPlaces
<1> QED
  BY <1>4, <1>5, <1>6, <1>7, <1>8

LEMMA RunKeepsIds ==
  ASSUME IdInv, HostsReserved, Run
  PROVE  IdInv'
<1>1. PICK t : Runs(t)
  BY RunRuns
<1>2. TypeInv'
  BY RunKeepsTypes DEF IdInv
<1>3. SP!PoliteInv'
  BY <1>1, SP!RunKeepsPoliteInv, ServerAssumptions DEF IdInv, TypeInv, Runs
<1>4. Joined'
  BY <1>1, RunSockets DEF IdInv, Joined, Runs, ws
<1>5. UnusedSilent' /\ AskedKinds' /\ TaskKinds' /\ AliasKinds' /\ IdsReserved' /\ Registered'
  BY <1>1, RunUnusedSilent, RunAskedKinds, RunTaskKinds, RunAliasKinds, RunIdsReserved,
     RunRegistered
<1>6. Identified'
  BY <1>1, RunIdentified
<1> QED
  BY <1>2, <1>3, <1>4, <1>5, <1>6 DEF IdInv

\* What an orderly program asks for takes no host of another client.
LEMMA AskedPolitely ==
  ASSUME IdInv, HostsDistinct, tasks = {}, NEW s \in accepted, NEW m, Asked(s, m)
  PROVE  /\ m.op \in {"knock", "bind", "accepting", "shutdown", "connect"}
         /\ m.op = "bind" =>
              /\ m.id \in goodbyes[s]
              /\ m.alias \in DOMAIN aliases \/ parseIPAddress(m.alias) \notin members
         /\ m.op = "shutdown" => ~ SP!Connected(parseIPAddress(m.alias))
<1>1. m.op \in {"knock", "bind", "accepting", "shutdown", "connect"}
  BY DEF Asked, Knock
<1>2. /\ m.op = "bind" => m.id \in goodbyes[s]
      /\ m.op \in {"bind", "shutdown"} => m.alias \in BindAliases
  BY DEF Asked, Knock
<1>3. accepted \subseteq Sockets /\ SP!HostsAccounted
  BY DEF IdInv, TypeInv, SP!IInv, SP!DataTyped
<1>4. \A h \in BindHosts : ~ SP!Connected(h)
  BY <1>3 DEF SP!Connected, IdInv, IdsReserved
<1>5. \A a \in BindAliases : parseIPAddress(a) \in BindHosts
  BY DEF BindHosts
<1>6. ASSUME NEW a \in BindAliases, parseIPAddress(a) \in members PROVE a \in DOMAIN aliases
  <2>1. PICK b \in DOMAIN aliases : SP!parseIPAddress(b) = parseIPAddress(a)
    <3>1. ~ \E r \in accepted : parseIPAddress(a) \in goodbyes[r]
      BY <1>4, <1>5, <1>6 DEF SP!Connected
    <3> QED
      BY <1>3, <1>6, <3>1 DEF SP!HostsAccounted
  <2>2. parseIPAddress(b) = parseIPAddress(a)
    BY <2>1, SameData
  <2>3. b \in BindAliases
    BY <1>5, <1>6, <2>2 DEF IdInv, AliasKinds
  <2> QED
    BY <1>6, <2>2, <2>3 DEF HostsDistinct
<1> QED
  BY <1>1, <1>2, <1>4, <1>5, <1>6

LEMMA ReceiveKeepsIds ==
  ASSUME IdInv, HostsDistinct, NEW s, Receive(s)
  PROVE  IdInv'
<1> DEFINE m == Head(toServer[s])
           u == SP!Begin(1, s, m.op, m)
<1>1. /\ tasks = {} /\ s \in accepted /\ toServer[s] # <<>>
      /\ tasks' = {u}
      /\ toServer' = [toServer EXCEPT ![s] = Tail(@)]
      /\ UNCHANGED <<opens, state, id, isConnected, calls, known, toClient, ended>>
      /\ UNCHANGED <<accepted, refused, goodbyes, clients, aliases, subnets, members, ports>>
  BY Received DEF client
<1>2. s \in Sockets /\ toServer[s] \in Seq(SP!Data)
  BY <1>1 DEF IdInv, TypeInv, QueuesTyped, SP!IInv, SP!DataTyped
<1>3. /\ m \in Held(toServer[s]) /\ Held(Tail(toServer[s])) \subseteq Held(toServer[s])
      /\ toServer'[s] = Tail(toServer[s])
      /\ \A r \in Sockets \ {s} : toServer'[r] = toServer[r]
  BY <1>1, <1>2, TailFacts DEF IdInv, TypeInv, QueuesTyped
<1>4. Asked(s, m) /\ SP!Signed(s, m)
  BY <1>1, <1>3 DEF IdInv, AskedKinds, TypeInv, QueuesSigned
<1>5. u.sock = s /\ u.at = m.op /\ u.data = m
  BY DEF SP!Begin
<1>6. /\ m.op \in {"knock", "bind", "accepting", "shutdown", "connect"}
      /\ m.op = "bind" =>
           /\ m.id \in goodbyes[s]
           /\ m.alias \in DOMAIN aliases \/ parseIPAddress(m.alias) \notin members
      /\ m.op = "shutdown" => ~ SP!Connected(parseIPAddress(m.alias))
  BY <1>1, <1>4, AskedPolitely
<1> HIDE DEF m, u
<1>7. SP!PoliteInv'
  <2>1. SP!MayAsk(s, u) /\ SP!MayAskTogether(u, u)
    BY <1>5, <1>6, SameData DEF SP!MayAsk, SP!MayAskTogether
  <2>2. /\ \A v \in tasks' : SP!MayAsk(s, v)
        /\ \A v, w \in tasks' : SP!MayAskTogether(v, w)
    BY <1>1, <2>1
  <2> QED
    BY <1>1, <2>2, SP!RequestsKeepPoliteInv, ServerAssumptions DEF IdInv, TypeInv
<1>8. \A r, x : Asked(r, x) <=> Asked(r, x)'
  BY <1>1 DEF Asked
<1>9. UnusedSilent'
  <2>1. ASSUME NEW r \in Sockets, Unused(r)' PROVE r # s /\ Unused(r)
    <3>1. Unused(r)
      BY <1>1, <2>1 DEF Unused, ws
    <3>2. toServer[r] = <<>>
      BY <3>1 DEF IdInv, UnusedSilent
    <3> QED
      BY <1>1, <3>1, <3>2
  <2> QED
    BY <1>1, <1>3, <1>5, <2>1 DEF IdInv, UnusedSilent
<1>10. Joined' /\ AliasKinds' /\ IdsReserved' /\ Registered'
  BY <1>1 DEF IdInv, Joined, ws, AliasKinds, IdsReserved, Registered
<1>11. AskedKinds'
  <2>1. \A r \in accepted : Held(toServer'[r]) \subseteq Held(toServer[r])
    BY <1>1, <1>3 DEF IdInv, TypeInv, SP!IInv, SP!DataTyped
  <2> QED
    BY <1>1, <1>8, <2>1 DEF IdInv, AskedKinds
<1>12. TaskKinds'
  <2>1. Serves(m.op, m.op)
    BY <1>6 DEF Serves, SP!KnockPlaces, SP!ConnectPlaces
  <2>2. ASSUME NEW t \in tasks'
        PROVE  /\ Serves(t.at, t.data.op) /\ t.data.op \notin {"close", "expire"}
               /\ t.sock \in accepted' /\ Asked(t.sock, t.data)' /\ tasks' = {t}
               /\ t.at \notin {"undo", "refuse", "introduce", "accept", "confirm"}
    <3>1. t.sock = s /\ t.at = m.op /\ t.data = m /\ tasks' = {t}
      BY <1>1, <1>5
    <3>2. Asked(t.sock, t.data)
      BY <1>4, <3>1
    <3> QED
      BY <1>1, <1>6, <1>8, <2>1, <3>1, <3>2
  <2> QED
    BY <2>2 DEF TaskKinds
<1>13. Identified'
  <2> SUFFICES ASSUME NEW c \in Clients, state'[c] = "open", ws(c)' \in accepted'
               PROVE  (Asking(c) \/ Knocking(c) \/ Denied(c) \/ Admitted(c))'
    BY DEF Identified
  <2>1. ws(c)' = ws(c) /\ Acks(ws(c))' = Acks(ws(c))
    BY <1>1 DEF ws, Acks
  <2>2. (Asking(c) \/ Denied(c) \/ Admitted(c)) /\ ws(c) \in Sockets
    BY <1>1, <2>1, SocketOf DEF IdInv, Identified, Knocking, TypeInv
  <2>3. \A i : Granted(c, i)' <=> Granted(c, i)
    BY <1>1, <2>1 DEF Granted
  <2>4. CASE ws(c) # s
    <3>1. toServer'[ws(c)] = toServer[ws(c)] /\ \A t \in tasks' : t.sock # ws(c)
      BY <1>1, <1>3, <1>5, <2>2, <2>4
    <3> QED
      BY <1>1, <2>1, <2>2, <2>3, <3>1 DEF Asking, Denied, Admitted
  <2>5. CASE ws(c) = s /\ Asking(c)
    <3>1. toServer[s] = <<Knock(subnetPrefix)>>
      BY <2>5 DEF Asking
    <3>2. m = Knock(subnetPrefix) /\ Tail(toServer[s]) = <<>>
      BY <3>1 DEF m
    <3>3. u.at = "knock"
      BY <1>5, <3>2 DEF Knock
    <3>4. Knocking(c)'
      BY <1>1, <1>3, <1>5, <2>1, <2>5, <3>2, <3>3 DEF Asking, Knocking, SP!KnockPlaces
    <3> QED
      BY <3>4
  <2>6. CASE ws(c) = s /\ Admitted(c)
    <3>1. m.op # "knock" /\ \A x \in Held(toServer'[s]) : x.op # "knock"
      BY <1>3, <2>6 DEF Admitted
    <3>2. u.at \notin SP!KnockPlaces
      BY <1>5, <1>6, <3>1 DEF SP!KnockPlaces
    <3>3. Admitted(c)'
      BY <1>1, <2>1, <2>3, <2>6, <3>1, <3>2 DEF Admitted
    <3> QED
      BY <3>3
  <2>7. ~ (ws(c) = s /\ Denied(c))
    BY <1>1 DEF Denied
  <2> QED
    BY <2>2, <2>4, <2>5, <2>6, <2>7
<1>14. TypeInv'
  BY ReceiveKeepsTypes DEF IdInv
<1> QED
  BY <1>7, <1>9, <1>10, <1>11, <1>12, <1>13, <1>14 DEF IdInv

LEMMA CloseKeepsIds ==
  ASSUME IdInv, NEW S \in SUBSET accepted, Close(S)
  PROVE  IdInv'
<1>1. /\ SP!Close(S)
      /\ toServer' = [s \in Sockets |-> IF s \in S THEN <<>> ELSE toServer[s]]
      /\ ended' = ended \cup S
      /\ UNCHANGED <<opens, state, id, isConnected, calls, known, toClient>>
  BY SameTurns DEF Close, client
<1>2. /\ tasks = {} /\ accepted' = accepted \ S /\ refused' = refused \ S
      /\ goodbyes' = [s \in Sockets |-> IF s \in S THEN {} ELSE goodbyes[s]]
      /\ aliases' = aliases
  BY <1>1 DEF SP!Close
<1>3. ASSUME NEW u \in tasks'
      PROVE  u.at = "close" /\ u.data.op = "close" /\ u.sock \in S /\ goodbyes[u.sock] # {}
  BY <1>1 DEF SP!Close, SP!Begin
<1>4. /\ DOMAIN clients' = DOMAIN clients \ UNION {goodbyes[s] : s \in S}
      /\ \A i \in DOMAIN clients' : clients'[i] = clients[i]
  BY <1>1 DEF SP!Close, SP!Without, SP!Restrict
<1>5. TypeInv'
  BY CloseKeepsTypes DEF IdInv
<1>6. SP!PoliteInv'
  BY <1>1, SP!CloseKeepsPoliteInv, ServerAssumptions DEF IdInv, TypeInv
<1>7. accepted \subseteq Sockets
  BY DEF IdInv, TypeInv, SP!IInv, SP!DataTyped
<1>8. \A s \in Sockets \ S : goodbyes'[s] = goodbyes[s] /\ toServer'[s] = toServer[s]
  BY <1>1, <1>2
<1>9. UnusedSilent'
  <2> SUFFICES ASSUME NEW s \in Sockets, Unused(s)'
               PROVE  /\ s \notin refused' /\ goodbyes'[s] = {} /\ toServer'[s] = <<>>
                      /\ toClient'[s] = <<>> /\ \A t \in tasks' : t.sock # s
                      /\ s[2] > opens'[s[1]] => s \notin accepted' \cup ended'
    BY DEF UnusedSilent
  <2>1. Unused(s)
    BY <1>1 DEF Unused, ws
  <2>2. /\ s \notin refused /\ goodbyes[s] = {} /\ toServer[s] = <<>> /\ toClient[s] = <<>>
        /\ s[2] > opens[s[1]] => s \notin accepted \cup ended
    BY <2>1 DEF IdInv, UnusedSilent
  <2> QED
    BY <1>1, <1>2, <1>3, <2>2
<1>10. Joined' /\ AliasKinds'
  BY <1>1, <1>2 DEF IdInv, Joined, ws, AliasKinds
<1>11. AskedKinds'
  <2>1. \A s \in accepted' : s \in accepted /\ goodbyes'[s] = goodbyes[s] /\ toServer'[s] = toServer[s]
    BY <1>2, <1>7, <1>8
  <2> QED
    BY <2>1 DEF IdInv, AskedKinds, Asked
<1>12. TaskKinds'
  <2>1. \A u \in tasks' : ~ SP!Connected(u.data.id)'
    BY <1>3, <1>6 DEF SP!PoliteInv, SP!IdsGone, SP!LeavePlaces
  <2> QED
    BY <1>3, <2>1 DEF TaskKinds, Serves, SP!LeavePlaces
<1>13. IdsReserved'
  BY <1>2, <1>8 DEF IdInv, IdsReserved
<1>14. Registered'
  <2>1. ASSUME NEW s \in Sockets, NEW i \in goodbyes'[s]
        PROVE  i \in DOMAIN clients' /\ clients'[i] = s
    <3>1. s \notin S /\ i \in goodbyes[s]
      BY <1>2, <2>1
    <3>2. i \in DOMAIN clients /\ clients[i] = s
      BY <3>1 DEF IdInv, Registered
    <3>3. \A r \in S : i \notin goodbyes[r]
      BY <1>7, <3>1, <3>2 DEF IdInv, Registered
    <3> QED
      BY <1>4, <3>2, <3>3
  <2> QED
    BY <2>1 DEF Registered
<1>15. Identified'
  <2> SUFFICES ASSUME NEW c \in Clients, state'[c] = "open", ws(c)' \in accepted'
               PROVE  (Asking(c) \/ Knocking(c) \/ Denied(c) \/ Admitted(c))'
    BY DEF Identified
  <2>1. ws(c)' = ws(c) /\ Acks(ws(c))' = Acks(ws(c)) /\ ws(c) \in accepted \ S
    BY <1>1, <1>2 DEF ws, Acks
  <2>2. Asking(c) \/ Denied(c) \/ Admitted(c)
    BY <1>1, <1>2, <2>1 DEF IdInv, Identified, Knocking
  <2>3. \A i : Granted(c, i)' <=> Granted(c, i)
    BY <1>1, <2>1 DEF Granted
  <2>4. /\ goodbyes'[ws(c)] = goodbyes[ws(c)] /\ toServer'[ws(c)] = toServer[ws(c)]
        /\ \A t \in tasks' : t.sock # ws(c)
    BY <1>3, <1>7, <1>8, <2>1
  <2> QED
    BY <1>2, <2>1, <2>2, <2>3, <2>4 DEF Asking, Denied, Admitted
<1> QED
  BY <1>5, <1>6, <1>9, <1>10, <1>11, <1>12, <1>13, <1>14, <1>15 DEF IdInv

LEMMA ConnectionKeepsIds ==
  ASSUME IdInv, NEW c \in Clients, Connection(c)
  PROVE  IdInv'
<1>1. /\ SP!Connection(ws(c)) /\ state[c] = "connecting" /\ ws(c) \notin ended
      /\ UNCHANGED <<opens, state, id, isConnected, calls, known, toServer, toClient, ended>>
  BY SameTurns DEF Connection, client
<1>2. ws(c) \in Sockets /\ ws(c)[1] = c /\ ws(c)[2] = opens[c] /\ opens[c] \in Nat
  BY <1>1, SocketOf DEF IdInv, TypeInv, ClientTyped
<1>3. /\ tasks = {} /\ accepted' = accepted \cup {ws(c)} /\ ws(c) \notin accepted
      /\ UNCHANGED <<refused, goodbyes, clients, aliases, subnets, members, ports, tasks>>
  BY <1>1 DEF SP!Connection, SP!addresses
<1>4. TypeInv'
  BY ConnectionKeepsTypes DEF IdInv
<1>5. SP!PoliteInv'
  BY <1>1, <1>2, SP!ConnectionKeepsPoliteInv, ServerAssumptions DEF IdInv, TypeInv
<1>6. UnusedSilent'
  <2>1. \A s : Unused(s)' <=> Unused(s)
    BY <1>1 DEF Unused, ws
  <2>2. ~ (ws(c)[2] > opens[ws(c)[1]])
    BY <1>2
  <2> QED
    BY <1>1, <1>3, <2>1, <2>2 DEF IdInv, UnusedSilent
<1>7. Joined' /\ AliasKinds' /\ IdsReserved' /\ Registered' /\ TaskKinds'
  BY <1>1, <1>3 DEF IdInv, Joined, ws, AliasKinds, IdsReserved, Registered, TaskKinds
<1>8. AskedKinds'
  <2>1. Held(toServer[ws(c)]) = {}
    BY <1>2, <1>3 DEF IdInv, TypeInv, Deaf, Held
  <2> QED
    BY <1>1, <1>3, <2>1 DEF IdInv, AskedKinds, Asked
<1>9. Identified'
  <2> SUFFICES ASSUME NEW b \in Clients, state'[b] = "open", ws(b)' \in accepted'
               PROVE  (Asking(b) \/ Knocking(b) \/ Denied(b) \/ Admitted(b))'
    BY DEF Identified
  <2>1. ws(b)' = ws(b) /\ Acks(ws(b))' = Acks(ws(b)) /\ state[b] = "open"
    BY <1>1 DEF ws, Acks
  <2>2. ws(b)[1] = b
    BY <2>1, SocketOf DEF IdInv, TypeInv
  <2>3. ws(b) \in accepted
    BY <1>1, <1>2, <1>3, <2>1, <2>2
  <2>4. Asking(b) \/ Denied(b) \/ Admitted(b)
    BY <1>3, <2>1, <2>3 DEF IdInv, Identified, Knocking
  <2>5. \A i : Granted(b, i)' <=> Granted(b, i)
    BY <1>1, <2>1 DEF Granted
  <2> QED
    BY <1>1, <1>3, <2>1, <2>4, <2>5 DEF Asking, Denied, Admitted
<1> QED
  BY <1>4, <1>5, <1>6, <1>7, <1>8, <1>9 DEF IdInv

\* What happens on the side of the clients.
LEMMA BesideIds ==
  ASSUME IdInv, NEW step, Beside(step)
  PROVE  /\ tasks = {} /\ UNCHANGED <<accepted, refused, goodbyes, clients, aliases, tasks, ended>>
         /\ SP!PoliteInv' /\ TaskKinds' /\ AliasKinds' /\ IdsReserved' /\ Registered'
         /\ \A s, m : Asked(s, m)' <=> Asked(s, m)
<1>1. /\ tasks = {}
      /\ UNCHANGED <<accepted, refused, goodbyes, clients, aliases, subnets, members, ports,
                     tasks, ended>>
  BY DEF Beside
<1>2. SP!PoliteInv'
  BY <1>1, SP!SendingKeepsPoliteInv, ServerAssumptions DEF IdInv, TypeInv
<1>3. TaskKinds' /\ AliasKinds' /\ IdsReserved' /\ Registered'
  BY <1>1 DEF IdInv, TaskKinds, AliasKinds, IdsReserved, Registered
<1> QED
  BY <1>1, <1>2, <1>3 DEF Asked

\* A client on whose connection nothing happens.
LEMMA ElsewhereKeepsIds ==
  ASSUME IdInv, NEW step, Beside(step), NEW b \in Clients, ws(b)' \in accepted',
         opens'[b] = opens[b], state[b] = "open", id'[b] = id[b],
         \A s \in Sockets : s = ws(b) => toServer'[s] = toServer[s] /\ toClient'[s] = toClient[s]
  PROVE  (Asking(b) \/ Knocking(b) \/ Denied(b) \/ Admitted(b))'
<1>1. tasks = {} /\ UNCHANGED <<accepted, refused, goodbyes, tasks>>
  BY DEF Beside
<1>2. ws(b) \in Sockets /\ ws(b)' = ws(b)
  BY SocketOf DEF IdInv, TypeInv, ws
<1>3. toServer'[ws(b)] = toServer[ws(b)] /\ toClient'[ws(b)] = toClient[ws(b)]
  BY <1>2
<1>4. Acks(ws(b))' = Acks(ws(b))
  BY <1>2, <1>3 DEF Acks
<1>5. Asking(b) \/ Denied(b) \/ Admitted(b)
  BY <1>1, <1>2 DEF IdInv, Identified, Knocking
<1>6. \A i : Granted(b, i)' <=> Granted(b, i)
  BY <1>2, <1>4 DEF Granted
<1> QED
  BY <1>1, <1>2, <1>3, <1>4, <1>5, <1>6 DEF Asking, Denied, Admitted

LEMMA OpenKeepsIds ==
  ASSUME IdInv, NEW c \in Clients, Unasked(openClient(c))
  PROVE  IdInv'
<1>1. Beside(openClient(c)) /\ openClient(c)
  BY DEF Unasked, Beside
<1>2. /\ state[c] \in {"none", "closed"}
      /\ opens' = [opens EXCEPT ![c] = @ + 1]
      /\ state' = [state EXCEPT ![c] = "connecting"]
      /\ UNCHANGED <<id, isConnected, calls, known, toServer, toClient>>
  BY <1>1 DEF openClient
<1>3. /\ UNCHANGED <<accepted, refused, goodbyes, tasks, ended>>
      /\ SP!PoliteInv' /\ TaskKinds' /\ AliasKinds' /\ IdsReserved' /\ Registered'
      /\ \A s, m : Asked(s, m)' <=> Asked(s, m)
  BY <1>1, BesideIds
<1>4. TypeInv'
  BY OpenKeepsTypes DEF IdInv
<1>5. \A b \in Clients : opens[b] \in Nat /\ opens'[b] = IF b = c THEN opens[b] + 1 ELSE opens[b]
  BY <1>2 DEF IdInv, TypeInv, ClientTyped
<1>6. \A b \in Clients \ {c} : state'[b] = state[b] /\ ws(b)' = ws(b)
  BY <1>2, <1>5 DEF IdInv, TypeInv, ClientTyped, ws
<1>7. state'[c] = "connecting"
  BY <1>2 DEF IdInv, TypeInv, ClientTyped
<1>8. UnusedSilent'
  <2>1. ASSUME NEW s \in Sockets, Unused(s)'
        PROVE  Unused(s) /\ (s[2] > opens'[s[1]] => s[2] > opens[s[1]])
    <3>1. s[1] \in Clients /\ s[2] \in Nat
      BY ClientAssumption DEF Sockets
    <3>2. CASE s[1] = c
      <4>1. s[2] > opens'[c] \/ s[2] = opens'[c]
        <5>1. s = ws(c)' => s[2] = opens'[c]
          BY DEF ws
        <5> QED
          BY <2>1, <3>2, <5>1 DEF Unused
      <4>2. s[2] > opens[c]
        BY <1>5, <3>1, <4>1
      <4> QED
        BY <3>2, <4>2 DEF Unused
    <3>3. CASE s[1] # c
      BY <1>5, <1>6, <2>1, <3>1, <3>3 DEF Unused
    <3> QED
      BY <3>2, <3>3
  <2> QED
    BY <1>2, <1>3, <2>1 DEF IdInv, UnusedSilent
<1>9. Joined'
  BY <1>3, <1>6, <1>7 DEF IdInv, Joined
<1>10. AskedKinds'
  BY <1>2, <1>3 DEF IdInv, AskedKinds
<1>11. Identified'
  <2>1. ASSUME NEW b \in Clients, state'[b] = "open", ws(b)' \in accepted'
        PROVE  (Asking(b) \/ Knocking(b) \/ Denied(b) \/ Admitted(b))'
    <3>1. b # c
      BY <1>7, <2>1
    <3> QED
      BY <1>1, <1>2, <1>5, <1>6, <2>1, <3>1, ElsewhereKeepsIds
  <2> QED
    BY <2>1 DEF Identified
<1> QED
  BY <1>3, <1>4, <1>8, <1>9, <1>10, <1>11 DEF IdInv

LEMMA OpenedKeepsIds ==
  ASSUME IdInv, NEW c \in Clients, Unasked(Opened(c))
  PROVE  IdInv'
<1> DEFINE m == Knock(subnetPrefix)
<1>1. Beside(Opened(c)) /\ Opened(c)
  BY DEF Unasked, Beside
<1>2. /\ ws(c) \in accepted /\ state[c] = "connecting"
      /\ state' = [state EXCEPT ![c] = "open"]
      /\ toServer' = [toServer EXCEPT ![ws(c)] = Append(@, m)]
      /\ UNCHANGED <<opens, id, isConnected, calls, known, toClient>>
  BY <1>1 DEF Opened, handleConnect
<1>3. /\ tasks = {} /\ UNCHANGED <<accepted, refused, goodbyes, tasks, ended>>
      /\ SP!PoliteInv' /\ TaskKinds' /\ AliasKinds' /\ IdsReserved' /\ Registered'
      /\ \A s, x : Asked(s, x)' <=> Asked(s, x)
  BY <1>1, BesideIds
<1>4. TypeInv'
  BY OpenedKeepsTypes DEF IdInv
<1>5. /\ ws(c) \in Sockets /\ ws(c)[1] = c /\ ws(c)[2] = opens[c] /\ opens[c] \in Nat
      /\ \A b \in Clients : ws(b)' = ws(b)
  BY <1>2, SocketOf DEF IdInv, TypeInv, ClientTyped, ws
<1>6. Unused(ws(c))
  BY <1>2, <1>5 DEF Unused
<1>7. ws(c) \notin refused /\ goodbyes[ws(c)] = {} /\ toServer[ws(c)] = <<>> /\ toClient[ws(c)] = <<>>
  BY <1>5, <1>6 DEF IdInv, UnusedSilent
<1>8. /\ toServer'[ws(c)] = <<m>>
      /\ \A s \in Sockets \ {ws(c)} : toServer'[s] = toServer[s]
  BY <1>2, <1>5, <1>7 DEF IdInv, TypeInv, QueuesTyped
<1>9. \A b \in Clients : state'[b] = IF b = c THEN "open" ELSE state[b]
  BY <1>2 DEF IdInv, TypeInv, ClientTyped
<1>10. UnusedSilent'
  <2>1. ASSUME NEW s \in Sockets, Unused(s)' PROVE s # ws(c) /\ Unused(s)
    <3>1. s[1] \in Clients
      BY DEF Sockets
    <3>2. s # ws(c)
      <4>1. ~ Unused(ws(c))'
        BY <1>2, <1>5, <1>9 DEF Unused
      <4>2. s = ws(c) => (Unused(s)' <=> Unused(ws(c))')
        BY <1>5 DEF Unused
      <4> QED
        BY <2>1, <4>1, <4>2
    <3> QED
      BY <1>2, <1>5, <1>9, <2>1, <3>1, <3>2 DEF Unused
  <2> QED
    BY <1>2, <1>3, <1>8, <2>1 DEF IdInv, UnusedSilent
<1>11. Joined'
  BY <1>2, <1>3, <1>5, <1>9 DEF IdInv, Joined
<1>12. AskedKinds'
  <2>1. accepted \subseteq Sockets
    BY DEF IdInv, TypeInv, SP!IInv, SP!DataTyped
  <2>2. Held(toServer'[ws(c)]) = {m}
    BY <1>8 DEF Held
  <2>3. \A s : Asked(s, m)
    BY DEF Asked
  <2> HIDE DEF m
  <2>4. ASSUME NEW s \in accepted', NEW x \in Held(toServer'[s]) PROVE Asked(s, x)
    <3>1. CASE s = ws(c)
      BY <2>2, <2>3, <2>4, <3>1
    <3>2. CASE s # ws(c)
      BY <1>3, <1>8, <2>1, <2>4, <3>2 DEF IdInv, AskedKinds
    <3> QED
      BY <3>1, <3>2
  <2> QED
    BY <1>3, <2>4 DEF AskedKinds
<1>13. Identified'
  <2>1. ASSUME NEW b \in Clients, state'[b] = "open", ws(b)' \in accepted'
        PROVE  (Asking(b) \/ Knocking(b) \/ Denied(b) \/ Admitted(b))'
    <3>1. CASE b = c
      <4>1. Acks(ws(c))' = {}
        BY <1>2, <1>5, <1>7 DEF Acks, Held
      <4>2. Asking(c)'
        BY <1>3, <1>5, <1>7, <1>8, <4>1 DEF Asking
      <4> QED
        BY <3>1, <4>2
    <3>2. CASE b # c
      <4>1. state[b] = "open"
        BY <1>9, <2>1, <3>2
      <4>2. ws(b) # ws(c)
        BY <1>5, <3>2, <4>1, SocketOf DEF IdInv, TypeInv
      <4> QED
        BY <1>1, <1>2, <1>8, <2>1, <4>1, <4>2, ElsewhereKeepsIds
    <3> QED
      BY <3>1, <3>2
  <2> QED
    BY <2>1 DEF Identified
<1> QED
  BY <1>3, <1>4, <1>10, <1>11, <1>12, <1>13 DEF IdInv

LEMMA DisconnectedKeepsIds ==
  ASSUME IdInv, NEW c \in Clients, Unasked(Disconnected(c))
  PROVE  IdInv'
<1>1. Beside(Disconnected(c)) /\ Disconnected(c)
  BY DEF Unasked, Beside
<1>2. /\ state[c] \in {"connecting", "open"}
      /\ state' = [state EXCEPT ![c] = "closed"]
      /\ toClient' = [toClient EXCEPT ![ws(c)] = <<>>]
      /\ UNCHANGED <<opens, id, isConnected, calls, known, toServer>>
  BY <1>1 DEF Disconnected, handleDisconnect
<1>3. /\ UNCHANGED <<accepted, refused, goodbyes, tasks, ended>>
      /\ SP!PoliteInv' /\ TaskKinds' /\ AliasKinds' /\ IdsReserved' /\ Registered'
      /\ \A s, x : Asked(s, x)' <=> Asked(s, x)
  BY <1>1, BesideIds
<1>4. TypeInv'
  BY DisconnectedKeepsTypes DEF IdInv
<1>5. ws(c) \in Sockets /\ ws(c)[1] = c /\ \A b \in Clients : ws(b)' = ws(b)
  BY <1>2, SocketOf DEF IdInv, TypeInv, ws
<1>6. \A b \in Clients : state'[b] = IF b = c THEN "closed" ELSE state[b]
  BY <1>2 DEF IdInv, TypeInv, ClientTyped
<1>7. \A s \in Sockets : toClient'[s] = IF s = ws(c) THEN <<>> ELSE toClient[s]
  BY <1>2, <1>5 DEF IdInv, TypeInv, QueuesTyped
<1>8. UnusedSilent'
  <2>1. ASSUME NEW s \in Sockets, Unused(s)' PROVE Unused(s)
    <3>1. s[1] \in Clients
      BY DEF Sockets
    <3> QED
      BY <1>2, <1>5, <1>6, <2>1, <3>1 DEF Unused
  <2> QED
    BY <1>2, <1>3, <1>7, <2>1 DEF IdInv, UnusedSilent
<1>9. Joined'
  BY <1>3, <1>5, <1>6 DEF IdInv, Joined
<1>10. AskedKinds'
  BY <1>2, <1>3 DEF IdInv, AskedKinds
<1>11. Identified'
  <2>1. ASSUME NEW b \in Clients, state'[b] = "open", ws(b)' \in accepted'
        PROVE  (Asking(b) \/ Knocking(b) \/ Denied(b) \/ Admitted(b))'
    <3>1. b # c /\ state[b] = "open"
      BY <1>6, <2>1
    <3>2. ws(b) # ws(c)
      BY <1>5, <3>1, SocketOf DEF IdInv, TypeInv
    <3> QED
      BY <1>1, <1>2, <1>7, <2>1, <3>1, <3>2, ElsewhereKeepsIds
  <2> QED
    BY <2>1 DEF Identified
<1> QED
  BY <1>3, <1>4, <1>8, <1>9, <1>10, <1>11 DEF IdInv

LEMMA OperationKeepsIds ==
  ASSUME IdInv, NEW c \in Clients, Unasked(handleOperation(c))
  PROVE  IdInv'
<1> DEFINE m == Head(toClient[ws(c)])
<1>1. Beside(handleOperation(c)) /\ handleOperation(c)
  BY DEF Unasked, Beside
<1>2. /\ state[c] = "open" /\ toClient[ws(c)] # <<>>
      /\ toClient' = [toClient EXCEPT ![ws(c)] = Tail(@)]
      /\ UNCHANGED <<opens, state, toServer>>
      /\ id' = IF m.op = "acknowledgement" THEN [id EXCEPT ![c] = m.id] ELSE id
  BY <1>1 DEF handleOperation
<1>3. /\ tasks = {} /\ UNCHANGED <<accepted, refused, goodbyes, tasks, ended>>
      /\ SP!PoliteInv' /\ TaskKinds' /\ AliasKinds' /\ IdsReserved' /\ Registered'
      /\ \A s, x : Asked(s, x)' <=> Asked(s, x)
  BY <1>1, BesideIds
<1>4. TypeInv'
  BY OperationKeepsTypes DEF IdInv
<1>5. ws(c) \in Sockets /\ ws(c)[1] = c /\ \A b \in Clients : ws(b)' = ws(b)
  BY <1>2, SocketOf DEF IdInv, TypeInv, ws
<1>6. /\ toClient'[ws(c)] = Tail(toClient[ws(c)])
      /\ \A s \in Sockets \ {ws(c)} : toClient'[s] = toClient[s]
      /\ toClient[ws(c)] \in Seq(Messages)
  BY <1>2, <1>5 DEF IdInv, TypeInv, QueuesTyped
<1>7. /\ m \in Held(toClient[ws(c)])
      /\ Held(toClient[ws(c)]) = Held(toClient'[ws(c)]) \cup {m}
  BY <1>2, <1>6, TailFacts
<1>8. \A b \in Clients \ {c} : id'[b] = id[b]
  BY <1>2 DEF IdInv, TypeInv, ClientTyped
<1>9. id'[c] = IF m.op = "acknowledgement" THEN m.id ELSE id[c]
  BY <1>2 DEF IdInv, TypeInv, ClientTyped
<1> HIDE DEF m
<1>10. UnusedSilent'
  <2>1. \A s : Unused(s)' <=> Unused(s)
    BY <1>2 DEF Unused, ws
  <2>2. \A s \in Sockets : Unused(s) => s # ws(c)
    BY <1>2 DEF IdInv, UnusedSilent
  <2> QED
    BY <1>2, <1>3, <1>6, <2>1, <2>2 DEF IdInv, UnusedSilent
<1>11. Joined' /\ AskedKinds'
  BY <1>2, <1>3, <1>5 DEF IdInv, Joined, AskedKinds
<1>12. Identified'
  <2>1. ASSUME NEW b \in Clients, state'[b] = "open", ws(b)' \in accepted'
        PROVE  (Asking(b) \/ Knocking(b) \/ Denied(b) \/ Admitted(b))'
    <3>1. CASE b # c
      <4>1. ws(b) # ws(c)
        BY <1>2, <1>5, <2>1, <3>1, SocketOf DEF IdInv, TypeInv
      <4> QED
        BY <1>1, <1>2, <1>6, <1>8, <2>1, <3>1, <4>1, ElsewhereKeepsIds
    <3>2. CASE b = c
      <4>1. Asking(c) \/ Denied(c) \/ Admitted(c)
        BY <1>2, <1>3, <1>5, <2>1, <3>2 DEF IdInv, Identified, Knocking
      <4>2. /\ Acks(ws(c))' = {x \in Held(toClient'[ws(c)]) : x.op = "acknowledgement"}
            /\ Acks(ws(c)) = {x \in Held(toClient[ws(c)]) : x.op = "acknowledgement"}
        BY <1>5 DEF Acks
      <4>3. /\ Acks(ws(c))' \subseteq Acks(ws(c))
            /\ m.op = "acknowledgement" => m \in Acks(ws(c))
            /\ m.op # "acknowledgement" => Acks(ws(c))' = Acks(ws(c))
        BY <1>7, <4>2
      <4>4. ASSUME NEW i, Granted(c, i) PROVE Granted(c, i)'
        <5>1. \A x \in Acks(ws(c))' : x.id = i
          BY <4>3, <4>4 DEF Granted
        <5>2. Acks(ws(c))' = {} => id'[c] = i
          BY <1>9, <4>3, <4>4 DEF Granted
        <5> QED
          BY <5>1, <5>2 DEF Granted
      <4> QED
        BY <1>2, <1>3, <1>5, <3>2, <4>1, <4>3, <4>4 DEF Asking, Denied, Admitted
    <3> QED
      BY <3>1, <3>2
  <2> QED
    BY <2>1 DEF Identified
<1> QED
  BY <1>3, <1>4, <1>10, <1>11, <1>12 DEF IdInv

LEMMA ProgramKeepsIds ==
  ASSUME IdInv, "tidy" \notin Habits, NEW c \in Clients, Beside(Program(c))
  PROVE  IdInv'
<1>1. Program(c)
  BY DEF Beside
<1>2. /\ ws(c) \in Sockets /\ ws(c) \in accepted
      /\ id[c] \in goodbyes[ws(c)]
  BY <1>1, CallFacts DEF Program, IdInv
<1>3. PICK m, call : /\ Asked(ws(c), m) /\ m.op # "knock"
                     /\ Send(c, m)
                     /\ UNCHANGED <<opens, state, id, isConnected, known, toClient>>
  <2>1. PICK m, call :
           /\ \/ \E alias \in BindAliases :
                   \/ m = Request("bind", id[c], alias)
                   \/ m = Request("accepting", id[c], alias)
                   \/ m = Request("shutdown", id[c], alias)
                   \/ m = Connect(id[c], alias, c)
           /\ Send(c, m)
           /\ UNCHANGED <<opens, state, id, isConnected, known, toClient>>
    BY <1>1, ProgramCalls DEF mayShutdown
  <2>2. ws(c)[1] = c
    BY DEF ws
  <2>3. Asked(ws(c), m) /\ m.op # "knock"
    BY <1>2, <2>1, <2>2 DEF Request, Connect, Asked
  <2> QED
    BY <2>1, <2>3
<1>4. /\ UNCHANGED <<accepted, refused, goodbyes, tasks, ended>>
      /\ SP!PoliteInv' /\ TaskKinds' /\ AliasKinds' /\ IdsReserved' /\ Registered'
      /\ \A s, x : Asked(s, x)' <=> Asked(s, x)
  BY BesideIds
<1>5. TypeInv'
  BY ProgramKeepsTypes DEF IdInv
<1>6. \A s \in Sockets \ {ws(c)} : toServer'[s] = toServer[s]
  BY <1>2, <1>3 DEF Send, IdInv, TypeInv, QueuesTyped
<1>7. \A x \in Held(toServer'[ws(c)]) : x \in Held(toServer[ws(c)]) \/ x = m
  <2>1. CASE toServer' = toServer
    BY <2>1
  <2>2. CASE toServer' = [toServer EXCEPT ![ws(c)] = Append(@, m)]
    <3>1. toServer'[ws(c)] = Append(toServer[ws(c)], m) /\ toServer[ws(c)] \in Seq(SP!Data)
      BY <1>2, <2>2 DEF IdInv, TypeInv, QueuesTyped
    <3>2. toServer[ws(c)] \in Seq(SP!Data \cup {m})
      BY <3>1
    <3> QED
      BY <3>1, <3>2, AppendFacts
  <2> QED
    BY <1>3, <2>1, <2>2 DEF Send
<1>8. UnusedSilent'
  <2>1. \A s : Unused(s)' <=> Unused(s)
    BY <1>3 DEF Unused, ws
  <2>2. \A s \in Sockets : Unused(s) => s # ws(c)
    BY <1>2 DEF IdInv, UnusedSilent
  <2> QED
    BY <1>3, <1>4, <1>6, <2>1, <2>2 DEF IdInv, UnusedSilent
<1>9. Joined'
  BY <1>3, <1>4 DEF IdInv, Joined, ws
<1>10. AskedKinds'
  <2>1. accepted \subseteq Sockets
    BY DEF IdInv, TypeInv, SP!IInv, SP!DataTyped
  <2>2. ASSUME NEW s \in accepted', NEW x \in Held(toServer'[s]) PROVE Asked(s, x)
    <3>1. CASE s = ws(c)
      BY <1>2, <1>3, <1>7, <2>2, <3>1 DEF IdInv, AskedKinds
    <3>2. CASE s # ws(c)
      BY <1>4, <1>6, <2>1, <2>2, <3>2 DEF IdInv, AskedKinds
    <3> QED
      BY <3>1, <3>2
  <2> QED
    BY <1>4, <2>2 DEF AskedKinds
<1>11. Identified'
  <2>1. ASSUME NEW b \in Clients, state'[b] = "open", ws(b)' \in accepted'
        PROVE  (Asking(b) \/ Knocking(b) \/ Denied(b) \/ Admitted(b))'
    <3>1. state[b] = "open" /\ opens' = opens /\ id' = id /\ toClient' = toClient
      BY <1>3, <2>1
    <3>2. CASE b = c
      <4>1. ws(c)' = ws(c) /\ Acks(ws(c))' = Acks(ws(c))
        BY <3>1 DEF ws, Acks
      <4>2. Admitted(c)
        BY <1>2, <1>4, <2>1, <3>1, <3>2, <4>1 DEF IdInv, Identified, Asking, Knocking, Denied
      <4>3. \A i : Granted(c, i)' <=> Granted(c, i)
        BY <3>1, <4>1 DEF Granted
      <4>4. Admitted(c)'
        BY <1>3, <1>4, <1>7, <4>1, <4>2, <4>3 DEF Admitted
      <4> QED
        BY <3>2, <4>4
    <3>3. CASE b # c
      <4>1. ws(b) # ws(c)
        BY <3>3 DEF ws
      <4> QED
        BY <1>6, <2>1, <3>1, <4>1, ElsewhereKeepsIds
    <3> QED
      BY <3>2, <3>3
  <2> QED
    BY <2>1 DEF Identified
<1> QED
  BY <1>4, <1>5, <1>8, <1>9, <1>10, <1>11 DEF IdInv

LEMMA StutterKeepsIds ==
  ASSUME IdInv, UNCHANGED vars
  PROVE  IdInv'
<1>1. /\ UNCHANGED <<opens, state, id, isConnected, calls, known, toServer, toClient>>
      /\ UNCHANGED <<accepted, refused, goodbyes, clients, aliases, subnets, members, ports, tasks, ended>>
  BY DEF vars, client, server
<1>2. TypeInv'
  BY StutterKeepsTypes DEF IdInv
<1>3. SP!PoliteInv'
  BY <1>1, SP!SendingKeepsPoliteInv, ServerAssumptions DEF IdInv, TypeInv
<1>4. \A c : ws(c)' = ws(c) /\ Acks(ws(c))' = Acks(ws(c))
  BY <1>1 DEF ws, Acks
<1>5. UnusedSilent' /\ Joined'
  BY <1>1, <1>4 DEF IdInv, UnusedSilent, Unused, Joined
<1>6. AskedKinds' /\ TaskKinds'
  <2>1. \A s, m : Asked(s, m)' <=> Asked(s, m)
    BY <1>1 DEF Asked
  <2>2. \A i : SP!Connected(i)' <=> SP!Connected(i)
    BY <1>1 DEF SP!Connected
  <2>3. AskedKinds'
    BY <1>1, <2>1 DEF IdInv, AskedKinds
  <2>4. TaskKinds'
    BY <1>1, <2>1, <2>2 DEF IdInv, TaskKinds
  <2> QED
    BY <2>3, <2>4
<1>7. AliasKinds' /\ IdsReserved' /\ Registered'
  BY <1>1 DEF IdInv, AliasKinds, IdsReserved, Registered
<1>8. \A c, i : Granted(c, i)' <=> Granted(c, i)
  BY <1>1, <1>4 DEF Granted
<1>9. Identified'
  <2>1. \A c : (Asking(c)' <=> Asking(c)) /\ (Knocking(c)' <=> Knocking(c))
    BY <1>1, <1>4, <1>8 DEF Asking, Knocking
  <2>2. \A c : (Denied(c)' <=> Denied(c)) /\ (Admitted(c)' <=> Admitted(c))
    BY <1>1, <1>4, <1>8 DEF Denied, Admitted
  <2> QED
    BY <1>1, <1>4, <2>1, <2>2 DEF IdInv, Identified
<1> QED
  BY <1>2, <1>3, <1>5, <1>6, <1>7, <1>9 DEF IdInv

LEMMA InitKeepsIds == Init => IdInv
<1> SUFFICES ASSUME Init PROVE IdInv
  OBVIOUS
<1>1. TypeInv
  BY InitKeepsTypes
<1>2. SP!Init
  BY SameTurns DEF Init
<1>3. SP!PoliteInv
  BY <1>2, SP!InitKeepsPoliteInv, ServerAssumptions
<1>4. /\ tasks = {} /\ accepted = {} /\ refused = {} /\ DOMAIN aliases = {}
      /\ goodbyes = [s \in Sockets |-> {}]
  BY <1>2 DEF SP!Init
<1>5. /\ ended = {} /\ state = [c \in Clients |-> "none"]
      /\ toServer = [s \in Sockets |-> <<>>] /\ toClient = [s \in Sockets |-> <<>>]
  BY DEF Init, ClientInit
<1> QED
  BY <1>1, <1>3, <1>4, <1>5 DEF IdInv, UnusedSilent, Joined, AskedKinds, TaskKinds, AliasKinds,
     IdsReserved, Registered, Identified

LEMMA NextKeepsIds ==
  ASSUME "tidy" \notin Habits, HostsDistinct
  PROVE  IdInv /\ HostsReserved /\ [Next]_vars => IdInv'
<1> SUFFICES ASSUME IdInv, HostsReserved, [Next]_vars PROVE IdInv'
  OBVIOUS
<1>1. SUFFICES ASSUME \/ Run
                      \/ \E c \in Clients : \/ Connection(c) \/ Unasked(openClient(c))
                                            \/ Unasked(Opened(c)) \/ Unasked(Disconnected(c))
                                            \/ Unasked(handleOperation(c))
                                            \/ Beside(Program(c))
                      \/ \E s \in accepted : Receive(s)
                      \/ \E S \in SUBSET accepted : Close(S)
                      \/ UNCHANGED vars
               PROVE  IdInv'
  BY Steps
<1> QED
  BY <1>1, RunKeepsIds, ConnectionKeepsIds, OpenKeepsIds, OpenedKeepsIds, DisconnectedKeepsIds,
     OperationKeepsIds, ProgramKeepsIds, ReceiveKeepsIds, CloseKeepsIds, StutterKeepsIds

\* THEOREM IdsOfConnections: however knocks, departures and reconnects overlap,
\* the id a client signs with is the one the server has registered for its present
\* connection. It holds while each alias that programs bind is on a host of its own
\* that createIPAddress gives to no client, and while programs do not shut down the
\* aliases they connected from: those shutdowns free the host of the client itself.
THEOREM IdsOfConnections ==
  ASSUME "tidy" \notin Habits, HostsDistinct
  PROVE  Spec /\ []HostsReserved => []IdOfConnection
<1>1. IdInv => IdOfConnection
  <2> SUFFICES ASSUME IdInv, NEW c \in Clients, settledDown(c)
               PROVE  \/ ws(c) \in refused /\ id[c] = NoAddress
                      \/ id[c] \in DOMAIN clients /\ clients[id[c]] = ws(c)
    BY DEF IdOfConnection
  <2>1. /\ tasks = {} /\ state[c] = "open" /\ ws(c) \notin ended
        /\ toServer[ws(c)] = <<>> /\ toClient[ws(c)] = <<>>
    BY DEF settledDown
  <2>2. ws(c) \in Sockets /\ ws(c) \in accepted
    BY <2>1, SocketOf DEF IdInv, TypeInv, Joined
  <2>3. Acks(ws(c)) = {}
    BY <2>1 DEF Acks, Held
  <2>4. Asking(c) \/ Knocking(c) \/ Denied(c) \/ Admitted(c)
    BY <2>1, <2>2 DEF IdInv, Identified
  <2>5. ~ Asking(c) /\ ~ Knocking(c)
    BY <2>1 DEF Asking, Knocking
  <2>6. Denied(c) => ws(c) \in refused /\ id[c] = NoAddress
    BY <2>3 DEF Denied, Granted
  <2>7. Admitted(c) => id[c] \in goodbyes[ws(c)]
    BY <2>3 DEF Admitted, Granted
  <2> QED
    BY <2>2, <2>4, <2>5, <2>6, <2>7 DEF IdInv, Registered
<1>2. Init => IdInv
  BY InitKeepsIds
<1>3. IdInv /\ HostsReserved /\ [Next]_vars => IdInv'
  BY NextKeepsIds
<1> QED
  BY <1>1, <1>2, <1>3, PTL DEF Spec

----
(***************************************************************************)
(* What clients know of aliases                                            *)
(***************************************************************************)
\* A client whose connection is open at both ends, and one whose first connection is.
Live(c) == state[c] = "open" /\ ws(c) \in accepted

Steady(c) == opens[c] = 1 /\ state[c] = "open" /\ ws(c) \in accepted

\* What it is told of an alias: first by its table (0), then by the messages on the way.
About(m, a) == m.op = "alias" /\ m.alias = a

Reports(c, a) ==
  {0} \cup {k \in DOMAIN toClient[ws(c)] : About(toClient[ws(c)][k], a)}

Names(m, j) == m.set /\ m.id = j

Reported(c, a, k, j) ==
  IF k = 0 THEN a \in DOMAIN known[c] /\ known[c][a] = j
           ELSE Names(toClient[ws(c)][k], j)

\* What the last of these says.
Lately(c, a, j) ==
  \E k \in Reports(c, a) : Reported(c, a, k, j) /\ \A l \in Reports(c, a) : l <= k

\* Whose an alias is, and whose it was until it was removed.
Owner(j, a) == a \in DOMAIN aliases /\ aliases[a].id = j

Leaves(t, j, a) ==
  /\ t.at \in {"freePort", "freeHost", "expireHost", "expirePort", "retract"}
  /\ t.data.alias = a /\ t.data.id = j

Leaving(j, a) == \E t \in tasks : Leaves(t, j, a)

\* What a client is told last is so, or about to be retracted; and it is told what it has.
ToldTrue(c) == \A a \in TCPAddresses, j \in Answers : Lately(c, a, j) => Owner(j, a) \/ Leaving(j, a)

OwnTold(c) == \A a \in TCPAddresses, j \in goodbyes[ws(c)] : Owner(j, a) => Lately(c, a, j)

\* The requests of a client about an alias, in the three places where they are
\* before they end a call: on the way, with the server, and answered.
Asks(m, a) == m.op \in {"bind", "shutdown"} /\ m.alias = a

Requested(c, a) == {k \in DOMAIN toServer[ws(c)] : Asks(toServer[ws(c)][k], a)}

Served(c, a) == {t \in tasks : t.sock = ws(c) /\ Asks(t.data, a)}

AnswerTo(c, m, a) == About(m, a) /\ m.clientConnectionId = NoConnection /\ m.id \in goodbyes[ws(c)]

Answered(c, a) == {k \in DOMAIN toClient[ws(c)] : AnswerTo(c, toClient[ws(c)][k], a)}

OneAtATime(c, a) ==
  /\ \A k, l \in Requested(c, a) : k = l
  /\ \A k, l \in Answered(c, a) : k = l
  /\ Requested(c, a) = {} \/ Served(c, a) = {}
  /\ Requested(c, a) = {} \/ Answered(c, a) = {}
  /\ Served(c, a) = {} \/ Answered(c, a) = {}

\* Each has its call, which a shutdown ends with a retraction.
Waits(c, op, a) == \E call \in calls[c] : call.op = op /\ call.alias = a

Awaited(c, a) ==
  /\ \A k \in Requested(c, a) : Waits(c, toServer[ws(c)][k].op, a)
  /\ \A t \in Served(c, a) : Waits(c, t.data.op, a)
  /\ \A k \in Answered(c, a) :
       /\ Waits(c, "bind", a) \/ Waits(c, "shutdown", a)
       /\ Waits(c, "shutdown", a) => ~ toClient[ws(c)][k].set
  /\ ~ (Waits(c, "bind", a) /\ Waits(c, "shutdown", a))

Signs(c) ==
  \A call \in calls[c] : call.op \in {"bind", "shutdown"} =>
    call.id \in goodbyes[ws(c)] /\ call.alias \in BindAliases

\* A client binds what it has not, and shuts down what it has.
Owned(c, a) == \E j \in goodbyes[ws(c)] : Owner(j, a)

InOrder(c, a) ==
  /\ \A k \in Requested(c, a) : toServer[ws(c)][k].op = "shutdown" <=> Owned(c, a)
  /\ \A t \in Served(c, a) : /\ t.data.op = "bind" => ~ Owned(c, a)
                             /\ t.at = "shutdown" => Owned(c, a)

\* Between answers, whether an alias is its own does not change for a client.
OwnReported(c, a, k) == \E j \in goodbyes[ws(c)] : Reported(c, a, k, j)

Consistent(c, a) ==
  \A k, l \in Reports(c, a) : k < l /\ (\A n \in Answered(c, a) : ~ (k < n /\ n <= l)) =>
    (OwnReported(c, a, k) <=> OwnReported(c, a, l))

Informed(c) ==
  /\ ToldTrue(c) /\ OwnTold(c) /\ Signs(c)
  /\ \A a \in BindAliases : OneAtATime(c, a) /\ Awaited(c, a) /\ InOrder(c, a) /\ Consistent(c, a)

\* Before it has an id a client knows nothing and asks nothing.
Fresh(c) ==
  \/ opens[c] = 0
  \/ opens[c] = 1 /\ state[c] = "connecting"
  \/ Steady(c) /\ goodbyes[ws(c)] = {}

Blank(c) ==
  /\ DOMAIN known[c] = {} /\ calls[c] = {}
  /\ opens[c] = 1 => \A m \in Held(toClient[ws(c)]) : m.op # "alias"

\* An alias that is being retracted is registered for nobody, and the two ends of a
\* connection are told of aliases that are there.
Removed == \A a \in DOMAIN aliases : \A j \in Answers : ~ Leaving(j, a)

ConnectsServed ==
  \A t \in tasks :
    /\ t.at = "confirm" => Owner(t.owner, t.data.remoteAlias)
    /\ t.at = "refuse" => t.addr \notin DOMAIN aliases

\* A client that was refused has no alias.
OwnersNamed == \A a \in DOMAIN aliases : aliases[a].id \in IPAddresses

KnowInv ==
  /\ IdInv /\ Removed /\ ConnectsServed /\ OwnersNamed
  /\ \A c \in Clients : (Fresh(c) => Blank(c)) /\ (Steady(c) => Informed(c))

LEMMA AnswerFields ==
  ASSUME NEW m \in Messages, m.op = "alias"
  PROVE  m.id \in Answers /\ m.alias \in TCPAddresses /\ m.set \in BOOLEAN
  BY MessageFields

\* A client that hears nothing has the same reports.
LEMMA NothingHeard ==
  ASSUME NEW c, NEW a, ws(c)' = ws(c), toClient'[ws(c)] = toClient[ws(c)], known'[c] = known[c]
  PROVE  /\ Reports(c, a)' = Reports(c, a)
         /\ \A k, j : Reported(c, a, k, j)' <=> Reported(c, a, k, j)
         /\ \A j : Lately(c, a, j)' <=> Lately(c, a, j)
<1>1. /\ Reports(c, a)' = Reports(c, a)
      /\ \A k, j : Reported(c, a, k, j)' <=> Reported(c, a, k, j)
  BY DEF Reports, Reported
<1> QED
  BY <1>1 DEF Lately

\* A message to it is the last report of the alias it is about.
LEMMA SomethingHeard ==
  ASSUME NEW c, NEW a, ws(c)' = ws(c), known'[c] = known[c],
         toClient[ws(c)] \in Seq(Messages), NEW m \in Messages,
         toClient'[ws(c)] = Append(toClient[ws(c)], m),
         NEW n, n = Len(toClient[ws(c)]) + 1
  PROVE  /\ \A k \in Reports(c, a) : \A j : Reported(c, a, k, j)' <=> Reported(c, a, k, j)
         /\ \A k \in Reports(c, a) : k < n
         /\ n # 0
         /\ ~ About(m, a) => /\ Reports(c, a)' = Reports(c, a)
                             /\ \A j : Lately(c, a, j)' <=> Lately(c, a, j)
         /\ About(m, a) => /\ Reports(c, a)' = Reports(c, a) \cup {n}
                           /\ \A j : Reported(c, a, n, j)' <=> Names(m, j)
                           /\ \A j : Lately(c, a, j)' <=> Names(m, j)
<1> DEFINE q == toClient[ws(c)]
<1>1. /\ DOMAIN Append(q, m) = DOMAIN q \cup {n} /\ n \notin DOMAIN q
      /\ \A k \in DOMAIN q : Append(q, m)[k] = q[k] /\ k < n
      /\ Append(q, m)[n] = m
      /\ Len(q) \in Nat /\ DOMAIN q = 1 .. Len(q)
  BY AppendFacts, SeqFacts
<1>2. toClient'[ws(c)'] = Append(q, m)
  OBVIOUS
<1>3. /\ Reports(c, a) = {0} \cup {k \in DOMAIN q : About(q[k], a)}
      /\ Reports(c, a)' = {0} \cup {k \in DOMAIN Append(q, m) : About(Append(q, m)[k], a)}
  BY <1>2 DEF Reports
<1>4. \A k \in Reports(c, a) : k < n /\ k \in Nat
  BY <1>1, <1>3
<1>5. n \in Nat \ {0}
  BY <1>1
<1>6. ASSUME NEW k \in Reports(c, a), NEW j
      PROVE  Reported(c, a, k, j)' <=> Reported(c, a, k, j)
  <2>1. CASE k = 0
    BY <2>1 DEF Reported
  <2>2. CASE k # 0
    <3>1. k \in DOMAIN q /\ Append(q, m)[k] = q[k]
      BY <1>1, <1>3, <2>2
    <3> QED
      BY <1>2, <2>2, <3>1 DEF Reported
  <2> QED
    BY <2>1, <2>2
<1>7. ASSUME ~ About(m, a)
      PROVE  Reports(c, a)' = Reports(c, a) /\ \A j : Lately(c, a, j)' <=> Lately(c, a, j)
  <2>1. Reports(c, a)' = Reports(c, a)
    BY <1>1, <1>3, <1>7
  <2> QED
    BY <1>6, <2>1 DEF Lately
<1>8. ASSUME About(m, a)
      PROVE  /\ Reports(c, a)' = Reports(c, a) \cup {n}
             /\ \A j : Reported(c, a, n, j)' <=> Names(m, j)
             /\ \A j : Lately(c, a, j)' <=> Names(m, j)
  <2>1. Reports(c, a)' = Reports(c, a) \cup {n}
    BY <1>1, <1>3, <1>8
  <2>2. \A j : Reported(c, a, n, j)' <=> Names(m, j)
    BY <1>1, <1>2, <1>5 DEF Reported
  <2>3. ASSUME NEW j PROVE Lately(c, a, j)' <=> Reported(c, a, n, j)'
    <3>1. ASSUME NEW k \in Reports(c, a)', \A l \in Reports(c, a)' : l <= k PROVE k = n
      <4>1. n <= k
        BY <2>1, <3>1
      <4>2. k \in Reports(c, a) => FALSE
        BY <1>4, <1>5, <4>1
      <4> QED
        BY <2>1, <4>2
    <3>2. n \in Reports(c, a)' /\ \A l \in Reports(c, a)' : l <= n
      BY <1>4, <1>5, <2>1
    <3>3. Lately(c, a, j)' => Reported(c, a, n, j)'
      <4> SUFFICES ASSUME NEW k \in Reports(c, a)', Reported(c, a, k, j)',
                          \A l \in Reports(c, a)' : l <= k
                   PROVE  Reported(c, a, n, j)'
        BY DEF Lately
      <4>1. k = n
        BY <3>1
      <4> QED
        BY <4>1
    <3>4. Reported(c, a, n, j)' => Lately(c, a, j)'
      BY <3>2 DEF Lately
    <3> QED
      BY <3>3, <3>4
  <2> QED
    BY <2>1, <2>2, <2>3
<1> QED
  BY <1>4, <1>5, <1>6, <1>7, <1>8

\* What a client handles becomes its table: the reports move up.
Before(k, heard) == IF k = 0 THEN IF heard THEN 1 ELSE 0 ELSE k + 1

LEMMA MovesUp ==
  ASSUME NEW c, NEW a, ws(c)' = ws(c),
         toClient[ws(c)] \in Seq(Messages), toClient[ws(c)] # <<>>,
         toClient'[ws(c)] = Tail(toClient[ws(c)]),
         LET m == Head(toClient[ws(c)]) IN
         /\ ~ About(m, a) => /\ a \in DOMAIN known'[c] <=> a \in DOMAIN known[c]
                             /\ a \in DOMAIN known[c] => known'[c][a] = known[c][a]
         /\ About(m, a) => /\ a \in DOMAIN known'[c] <=> m.set
                           /\ m.set => known'[c][a] = m.id
  PROVE  LET before(k) == Before(k, About(Head(toClient[ws(c)]), a)) IN
         /\ \A k \in Reports(c, a)' :
              /\ k \in Nat /\ before(k) \in Nat /\ before(k) \in Reports(c, a)
              /\ \A j : Reported(c, a, k, j)' <=> Reported(c, a, before(k), j)
         /\ \A k, l \in Reports(c, a)' : k < l <=> before(k) < before(l)
         /\ \A j : Lately(c, a, j)' <=> Lately(c, a, j)
<1> DEFINE q == toClient[ws(c)]
           m == Head(q)
           before(k) == Before(k, About(m, a))
<1>1. /\ m = q[1] /\ 1 \in DOMAIN q
      /\ \A k \in DOMAIN Tail(q) : k + 1 \in DOMAIN q /\ Tail(q)[k] = q[k + 1] /\ k + 1 # 1
      /\ \A k \in DOMAIN q : k # 1 => k - 1 \in DOMAIN Tail(q) /\ Tail(q)[k - 1] = q[k]
      /\ DOMAIN q \subseteq Nat \ {0} /\ DOMAIN Tail(q) \subseteq Nat \ {0}
  <2>1. Tail(q) \in Seq(Messages)
    BY TailFacts
  <2> QED
    BY <2>1, TailFacts, SeqFacts
<1>2. toClient'[ws(c)'] = Tail(q)
  OBVIOUS
<1>3. /\ Reports(c, a) = {0} \cup {k \in DOMAIN q : About(q[k], a)}
      /\ Reports(c, a)' = {0} \cup {k \in DOMAIN Tail(q) : About(Tail(q)[k], a)}
  BY <1>2 DEF Reports
<1>4. ASSUME NEW k \in Reports(c, a)'
      PROVE  k \in Nat /\ before(k) \in Nat /\ before(k) \in Reports(c, a)
  <2>1. CASE k = 0
    BY <1>1, <1>3, <2>1 DEF Before
  <2>2. CASE k # 0
    BY <1>1, <1>3, <1>4, <2>2 DEF Before
  <2> QED
    BY <2>1, <2>2
<1>5. ASSUME NEW k \in Reports(c, a)', NEW j
      PROVE  Reported(c, a, k, j)' <=> Reported(c, a, before(k), j)
  <2>1. CASE k = 0 /\ ~ About(m, a)
    BY <2>1 DEF Reported, Before
  <2>2. CASE k = 0 /\ About(m, a)
    BY <1>1, <2>2 DEF Reported, Names, Before
  <2>3. CASE k # 0
    <3>1. k \in DOMAIN Tail(q) /\ Tail(q)[k] = q[k + 1] /\ before(k) = k + 1 /\ k + 1 # 0
      BY <1>1, <1>3, <2>3 DEF Before
    <3> QED
      BY <1>2, <2>3, <3>1 DEF Reported
  <2> QED
    BY <2>1, <2>2, <2>3
<1>6. ASSUME NEW k \in Reports(c, a)', NEW l \in Reports(c, a)'
      PROVE  k < l <=> before(k) < before(l)
  <2>1. k \in Nat /\ l \in Nat
    BY <1>4
  <2> QED
    BY <2>1 DEF Before
<1>7. ASSUME NEW j PROVE Lately(c, a, j)' <=> Lately(c, a, j)
  <2>1. ASSUME NEW k \in Reports(c, a)', \A l \in Reports(c, a)' : l <= k,
               NEW l \in Reports(c, a)
        PROVE  l <= before(k)
    <3>1. CASE l = 0
      BY <1>4, <3>1
    <3>2. CASE l = 1
      <4>1. About(m, a)
        BY <1>1, <1>3, <3>2
      <4> QED
        BY <1>4, <3>2, <4>1 DEF Before
    <3>3. CASE l \notin {0, 1}
      <4>1. l - 1 \in Reports(c, a)' /\ l - 1 # 0 /\ l \in Nat
        BY <1>1, <1>3, <3>3
      <4>2. l - 1 <= k
        BY <2>1, <4>1
      <4> QED
        BY <1>4, <4>1, <4>2 DEF Before
    <3> QED
      BY <3>1, <3>2, <3>3
  <2>2. ASSUME NEW k \in Reports(c, a), \A l \in Reports(c, a) : l <= k
        PROVE  \E i \in Reports(c, a)' : before(i) = k /\ \A l \in Reports(c, a)' : l <= i
    <3>1. k \in Nat
      BY <1>1, <1>3
    <3>2. PICK i \in Reports(c, a)' : before(i) = k
      <4>1. CASE k = 0
        <5>1. ~ About(m, a)
          BY <1>1, <1>3, <2>2, <4>1
        <5> QED
          BY <1>3, <4>1, <5>1 DEF Before
      <4>2. CASE k = 1
        <5>1. About(m, a)
          BY <1>1, <1>3, <4>2
        <5> QED
          BY <1>3, <4>2, <5>1 DEF Before
      <4>3. CASE k \notin {0, 1}
        <5>1. k - 1 \in Reports(c, a)' /\ k - 1 # 0
          BY <1>1, <1>3, <3>1, <4>3
        <5>2. before(k - 1) = k
          BY <3>1, <5>1 DEF Before
        <5> QED
          BY <5>1, <5>2
      <4> QED
        BY <4>1, <4>2, <4>3
    <3>3. ASSUME NEW l \in Reports(c, a)' PROVE l <= i
      <4>1. before(l) <= before(i) /\ i \in Nat /\ l \in Nat
        BY <1>4, <2>2, <3>2
      <4> QED
        BY <4>1 DEF Before
    <3> QED
      BY <3>2, <3>3
  <2>3. Lately(c, a, j)' => Lately(c, a, j)
    <3> SUFFICES ASSUME NEW k \in Reports(c, a)', Reported(c, a, k, j)',
                        \A l \in Reports(c, a)' : l <= k
                 PROVE  Lately(c, a, j)
      BY DEF Lately
    <3>1. before(k) \in Reports(c, a) /\ Reported(c, a, before(k), j)
      BY <1>4, <1>5
    <3>2. \A l \in Reports(c, a) : l <= before(k)
      BY <2>1
    <3> QED
      BY <3>1, <3>2 DEF Lately
  <2>4. Lately(c, a, j) => Lately(c, a, j)'
    <3> SUFFICES ASSUME NEW k \in Reports(c, a), Reported(c, a, k, j),
                        \A l \in Reports(c, a) : l <= k
                 PROVE  Lately(c, a, j)'
      BY DEF Lately
    <3>1. PICK i \in Reports(c, a)' : before(i) = k /\ \A l \in Reports(c, a)' : l <= i
      BY <2>2
    <3>2. Reported(c, a, i, j)'
      BY <1>5, <3>1
    <3> QED
      BY <3>1, <3>2 DEF Lately
  <2> QED
    BY <2>3, <2>4
<1> QED
  BY <1>4, <1>5, <1>6, <1>7

LEMMA GreatestNatural ==
  ASSUME NEW T \in SUBSET Nat, T # {}, NEW n \in Nat, \A x \in T : x <= n
  PROVE  \E x \in T : \A y \in T : y <= x
<1> DEFINE U == {n - x : x \in T}
<1>1. U \in SUBSET Nat /\ U # {}
  <2>1. \A x \in T : n - x \in Nat
    OBVIOUS
  <2> QED
    BY <2>1
<1>2. PICK u \in U : \A v \in U : u <= v
  BY <1>1, SP!LeastNatural, ServerAssumptions
<1>3. PICK x \in T : u = n - x
  BY <1>2
<1>4. ASSUME NEW y \in T PROVE y <= x
  <2>1. n - y \in U
    OBVIOUS
  <2>2. n - x <= n - y
    BY <1>2, <1>3, <2>1
  <2>3. x \in Nat /\ y \in Nat
    OBVIOUS
  <2> QED
    BY <2>2, <2>3
<1> QED
  BY <1>4

----
LEMMA LiveFacts ==
  ASSUME IdInv, NEW c \in Clients, Live(c)
  PROVE  /\ ws(c) \in Sockets /\ ws(c) \in accepted /\ current(ws(c))
         /\ toClient[ws(c)] \in Seq(Messages) /\ toServer[ws(c)] \in Seq(SP!Data)
         /\ goodbyes[ws(c)] \subseteq IPAddresses /\ goodbyes[ws(c)] \subseteq Answers
         /\ \A i, j \in goodbyes[ws(c)] : i = j
         /\ \A m \in Held(toServer[ws(c)]) : Asked(ws(c), m)
<1>1. ws(c) \in accepted /\ state[c] = "open"
  BY DEF Live
<1>2. ws(c) \in Sockets /\ ws(c)[1] = c
  BY <1>1, SocketOf DEF IdInv, TypeInv
<1>3. toClient[ws(c)] \in Seq(Messages) /\ toServer[ws(c)] \in Seq(SP!Data)
  BY <1>2 DEF IdInv, TypeInv, QueuesTyped
<1>4. goodbyes[ws(c)] \subseteq IPAddresses
  BY <1>2, SameData DEF IdInv, TypeInv, SP!IInv, SP!DataTyped
<1>5. \A i, j \in goodbyes[ws(c)] : i = j
  <2>1. Asking(c) \/ Knocking(c) \/ Denied(c) \/ Admitted(c)
    BY <1>1 DEF IdInv, Identified
  <2>2. goodbyes[ws(c)] = {} \/ \E i : goodbyes[ws(c)] = {i}
    BY <2>1 DEF Asking, Knocking, Denied, Admitted
  <2> QED
    BY <2>2
<1>6. \A m \in Held(toServer[ws(c)]) : Asked(ws(c), m)
  BY <1>1 DEF IdInv, AskedKinds
<1>7. current(ws(c))
  BY <1>1, <1>2 DEF current
<1>8. goodbyes[ws(c)] \subseteq Answers
  BY <1>4 DEF Answers
<1> QED
  BY <1>1, <1>2, <1>3, <1>4, <1>5, <1>6, <1>7, <1>8

LEMMA SteadyFacts ==
  ASSUME IdInv, NEW c \in Clients, Steady(c)
  PROVE  /\ ws(c) \in Sockets /\ ws(c) \in accepted /\ current(ws(c))
         /\ toClient[ws(c)] \in Seq(Messages) /\ toServer[ws(c)] \in Seq(SP!Data)
         /\ goodbyes[ws(c)] \subseteq IPAddresses /\ goodbyes[ws(c)] \subseteq Answers
         /\ \A i, j \in goodbyes[ws(c)] : i = j
         /\ \A m \in Held(toServer[ws(c)]) : Asked(ws(c), m)
<1>1. Live(c)
  BY DEF Steady, Live
<1> QED
  BY <1>1, LiveFacts

\* An id is that of one socket.
LEMMA IdsApart ==
  ASSUME IdInv, NEW r \in Sockets, NEW s \in Sockets, NEW i \in goodbyes[r], i \in goodbyes[s]
  PROVE  r = s
  BY DEF IdInv, Registered

\* What is served at each place, and for whom.
LEMMA PlaceOps ==
  ASSUME IdInv, NEW t \in tasks
  PROVE  /\ t.at \in SP!KnockPlaces <=> t.data.op = "knock"
         /\ t.at \in {"bind", "claim", "register"} <=> t.data.op = "bind"
         /\ t.at = "accepting" <=> t.data.op = "accepting"
         /\ t.at \in {"shutdown", "freePort", "freeHost"} => t.data.op = "shutdown"
         /\ t.at = "retract" => t.data.op \in {"shutdown", "expire"}
         /\ t.at \in SP!ConnectPlaces <=> t.data.op = "connect"
         /\ t.at \in SP!LeavePlaces <=> t.data.op = "close"
         /\ t.at \in SP!ExpiryPlaces => t.data.op = "expire"
         /\ t.data.op = "shutdown" => t.at \in {"shutdown", "freePort", "freeHost", "retract"}
         /\ t.data.op = "expire" => t.at \in SP!ExpiryPlaces \cup {"retract"}
<1>1. Serves(t.at, t.data.op)
  BY DEF IdInv, TaskKinds
<1> QED
  BY <1>1
  DEF Serves, SP!KnockPlaces, SP!ConnectPlaces, SP!CreatedPlaces, SP!LeavePlaces, SP!ExpiryPlaces

LEMMA TaskFor ==
  ASSUME IdInv, NEW t \in tasks
  PROVE  /\ t.sock \in Sockets
         /\ t.data.op \notin {"close", "expire"} => t.sock \in accepted /\ tasks = {t}
         /\ t.data.op \in {"bind", "accepting", "shutdown"} =>
              t.data.id \in goodbyes[t.sock] /\ t.data.alias \in BindAliases
         /\ t.data.op = "connect" =>
              /\ t.data.id \in goodbyes[t.sock] /\ t.data.remoteAlias \in BindAliases
              /\ t.data.clientConnectionId \in Connections
         /\ t.data.op \in {"close", "expire"} =>
              \A s \in accepted : t.data.id \notin goodbyes[s]
<1>1. t.sock \in Sockets
  BY DEF IdInv, TypeInv, SP!IInv, SP!TasksTyped, SP!TaskOK, SP!Tasks
<1>2. /\ t.data.op \in {"close", "expire"} => ~ SP!Connected(t.data.id)
      /\ t.data.op \notin {"close", "expire"} =>
           t.sock \in accepted /\ Asked(t.sock, t.data) /\ tasks = {t}
  BY DEF IdInv, TaskKinds
<1>3. t.data = Knock(subnetPrefix) => t.data.op = "knock"
  BY DEF Knock
<1>4. t.data.op = "connect" => t.data.clientConnectionId \in Connections
  BY PlaceOps DEF IdInv, TypeInv, ConnectsTyped
<1> QED
  BY <1>1, <1>2, <1>3, <1>4 DEF Asked, SP!Connected

\* A request about an alias under the id of a client is served for this client.
LEMMA ServedFor ==
  ASSUME IdInv, NEW c \in Clients, Steady(c), NEW t \in tasks,
         t.data.op \in {"bind", "shutdown"}, t.data.id \in goodbyes[ws(c)]
  PROVE  t \in Served(c, t.data.alias)
<1>1. t.sock = ws(c)
  BY SteadyFacts, TaskFor, IdsApart
<1> QED
  BY <1>1 DEF Served, Asks

LEMMA LeavingOwn ==
  ASSUME IdInv, NEW c \in Clients, Steady(c), NEW a, NEW j \in goodbyes[ws(c)],
         NEW t \in tasks, Leaves(t, j, a)
  PROVE  t \in Served(c, a) /\ t.data.op = "shutdown" /\ tasks = {t}
<1>1. t.data.op \in {"shutdown", "expire"}
  BY PlaceOps DEF Leaves, SP!ExpiryPlaces
<1>2. t.data.op = "shutdown"
  BY <1>1, SteadyFacts, TaskFor DEF Leaves
<1> QED
  BY <1>2, TaskFor, ServedFor DEF Leaves

\* The aliases of connections are not those that programs bind.
LEMMA CreatedApart ==
  ASSUME IdInv, NEW t \in tasks, t.at \in SP!CreatedPlaces
  PROVE  t.addr \notin BindAliases
<1>1. SP!parseIPAddress(t.addr) = t.data.id /\ t.data.op = "connect"
  BY PlaceOps DEF IdInv, SP!PoliteInv, SP!ConnectsOwned, SP!ConnectPlaces
<1>2. t.data.id \in goodbyes[t.sock] /\ t.sock \in Sockets
  BY <1>1, TaskFor
<1> QED
  BY <1>1, <1>2, SameData DEF IdInv, IdsReserved, BindHosts

----
\* What a step of the server tells about an alias, and to whom.
LEMMA RunTells ==
  ASSUME IdInv, NEW t, Runs(t), NEW x \in sent', x.message.op = "alias"
  PROVE  LET m == x.message IN
         /\ t.at \in {"bind", "shutdown", "register", "retract", "lookup", "introduce",
                      "refuse", "confirm"}
         /\ t.at \in {"bind", "shutdown", "register", "retract"} =>
              /\ m.id = t.data.id /\ m.alias = t.data.alias
              /\ m.clientConnectionId = NoConnection
              /\ m.set <=> t.at \in {"shutdown", "register"}
         /\ t.at \in {"lookup", "introduce", "refuse"} =>
              /\ m.id = t.data.id /\ m.alias = t.addr /\ (m.set <=> t.at # "refuse")
         /\ t.at = "confirm" => m.id = t.owner /\ m.alias = t.data.remoteAlias /\ m.set
         /\ t.at \in {"lookup", "refuse", "confirm"} =>
              m.clientConnectionId = t.data.clientConnectionId
         /\ t.at = "bind" => t.data.alias \in DOMAIN aliases
         /\ t.at = "shutdown" => ~ SP!owns(t.data.id, t.data.alias)
         /\ t.at = "lookup" => SP!accepting(t.data.remoteAlias)
         /\ t.at \notin {"register", "retract", "introduce"} => x.to = t.sock
         /\ goodbyes[x.to] # {}
<1> DEFINE m == x.message
<1>1. /\ SP!IInv /\ SP!DataTyped /\ SP!TasksTyped /\ SP!ClientsConnected
      /\ t \in tasks /\ SP!Run(t)
  BY DEF IdInv, TypeInv, SP!IInv, Runs
<1>2. SP!Says(t, x)
  BY <1>1, SP!RunSays, ServerAssumptions
<1>3. t.at \notin {"offer", "answer", "candidate"}
  BY <1>1 DEF IdInv, TaskKinds, Serves, SP!KnockPlaces, SP!ConnectPlaces,
     SP!CreatedPlaces, SP!LeavePlaces, SP!ExpiryPlaces
<1>4. t.at \notin {"acknowledge", "greet", "expire", "accept"}
  <2>1. /\ \A i, j : SP!Greeting(i, j).op # "alias"
        /\ \A i : SP!Goodbye(i).op # "alias"
        /\ \A a, b : SP!Accept(a, b).op # "alias"
        /\ SP!Refusal.op # "alias" /\ \A i : SP!Granting(i).op # "alias"
    BY SP!AcknowledgementFields, ServerAssumptions DEF SP!Greeting, SP!Goodbye, SP!Accept
  <2> QED
    BY <1>2, <2>1 DEF SP!Says
<1>5. \/ /\ t.at \in {"bind", "retract"}
         /\ m = SP!Retraction(t.data.id, t.data.alias, NoConnection)
      \/ /\ t.at \in {"shutdown", "register"}
         /\ m = SP!Registration(t.data.id, t.data.alias, NoConnection)
      \/ /\ t.at = "lookup"
         /\ m = SP!ConnectionAlias(t.data.id, t.addr, t.data.clientConnectionId)
      \/ /\ t.at = "introduce" /\ m = SP!Registration(t.data.id, t.addr, NoConnection)
      \/ /\ t.at = "refuse"
         /\ m = SP!Retraction(t.data.id, t.addr, t.data.clientConnectionId)
      \/ /\ t.at = "confirm"
         /\ m = SP!Registration(t.owner, t.data.remoteAlias, t.data.clientConnectionId)
  BY <1>2, <1>3, <1>4 DEF SP!Says
<1>6. /\ t.at = "bind" => t.data.alias \in DOMAIN aliases
      /\ t.at = "shutdown" => ~ SP!owns(t.data.id, t.data.alias)
      /\ t.at = "lookup" => SP!accepting(t.data.remoteAlias)
      /\ t.at \in {"refuse", "confirm"} => x.to = t.client
      /\ t.at \notin {"refuse", "confirm"} => \E i \in DOMAIN clients : x.to = clients[i]
      /\ t.at \in {"bind", "shutdown", "lookup"} => x.to = clients[t.data.id]
  BY <1>2, <1>3, <1>4 DEF SP!Says
<1>13. t.at \notin {"register", "retract", "introduce"} => x.to = t.sock
  <2>1. t.at \in {"bind", "shutdown", "lookup"} => clients[t.data.id] = t.sock
    BY <1>1, PlaceOps, TaskFor
    DEF SP!ConnectPlaces, SP!CreatedPlaces, IdInv, Registered
  <2>2. t.at \in {"refuse", "confirm"} => t.client = t.sock
    BY <1>1 DEF IdInv, TaskKinds
  <2> QED
    BY <1>5, <1>6, <2>1, <2>2
<1>7. goodbyes[x.to] # {}
  <2>1. \A i \in DOMAIN clients : goodbyes[clients[i]] # {}
    BY <1>1 DEF SP!ClientsConnected
  <2>2. t.at \in {"refuse", "confirm"} => t.client = t.sock /\ goodbyes[t.sock] # {}
    BY <1>1, PlaceOps, TaskFor DEF SP!ConnectPlaces, SP!CreatedPlaces, IdInv, TaskKinds
  <2> QED
    BY <1>6, <2>1, <2>2
<1>8. /\ \A i, a, n : LET y == SP!Registration(i, a, n) IN
           y.id = i /\ y.alias = a /\ y.set /\ y.clientConnectionId = n
      /\ \A i, a, n : LET y == SP!Retraction(i, a, n) IN
           y.id = i /\ y.alias = a /\ ~ y.set /\ y.clientConnectionId = n
      /\ \A i, a, n : LET y == SP!ConnectionAlias(i, a, n) IN
           y.id = i /\ y.alias = a /\ y.set /\ y.clientConnectionId = n
  BY SP!AliasFields, ServerAssumptions
<1>9. CASE t.at \in {"bind", "retract"}
  BY <1>5, <1>6, <1>7, <1>8, <1>9, <1>13
<1>10. CASE t.at \in {"shutdown", "register"}
  BY <1>5, <1>6, <1>7, <1>8, <1>10, <1>13
<1>11. CASE t.at \in {"lookup", "introduce"}
  BY <1>5, <1>6, <1>7, <1>8, <1>11, <1>13
<1>12. CASE t.at \in {"refuse", "confirm"}
  BY <1>5, <1>6, <1>7, <1>8, <1>12, <1>13
<1> QED
  BY <1>5, <1>9, <1>10, <1>11, <1>12

\* A client that has an id hears what the server tells everybody, and what it tells
\* this client.
LEMMA RunReaches ==
  ASSUME IdInv, NEW t, Runs(t), NEW c \in Clients, Live(c), NEW i \in goodbyes[ws(c)],
         \/ t.at \in {"register", "retract"}
         \/ t.at = "lookup" /\ SP!accepting(t.data.remoteAlias) /\ t.data.id = i
  PROVE  \E x \in sent' : /\ x.to = ws(c) /\ x.message.op = "alias"
                          /\ toClient'[ws(c)] = Append(toClient[ws(c)], x.message)
<1>1. /\ SP!DataTyped /\ SP!TasksTyped /\ t \in tasks /\ SP!Run(t) /\ deliver
  BY DEF IdInv, TypeInv, SP!IInv, Runs
<1>2. ws(c) \in Sockets /\ current(ws(c)) /\ i \in DOMAIN clients /\ clients[i] = ws(c)
  BY LiveFacts DEF IdInv, Registered
<1>3. \E m : [to |-> ws(c), message |-> m] \in sent'
  <2>1. CASE t.at \in {"register", "retract"}
    <3>1. \E m : SP!TellsAll(m)
      BY <1>1, <2>1, SP!BindSends, SP!ShutdownSends, ServerAssumptions
    <3> QED
      BY <1>2, <3>1 DEF SP!TellsAll
  <2>2. CASE t.at = "lookup" /\ SP!accepting(t.data.remoteAlias) /\ t.data.id = i
    <3>1. \E m : SP!Tells(clients[i], m)
      BY <1>1, <1>2, <2>2, SP!LookupSends, ServerAssumptions
    <3> QED
      BY <1>2, <3>1 DEF SP!Tells
  <2> QED
    BY <2>1, <2>2
<1>4. \E x \in sent' : x.to = ws(c)
  BY <1>3
<1>5. PICK x \in sent' : x.to = ws(c) /\ toClient'[ws(c)] = Append(toClient[ws(c)], x.message)
  BY <1>1, <1>2, <1>4, Delivered
<1>6. SP!Says(t, x)
  BY <1>1, SP!RunSays, ServerAssumptions
<1>7. x.message.op = "alias"
  BY <1>6, SP!AliasFields, ServerAssumptions DEF SP!Says
<1> QED
  BY <1>5, <1>7

\* A step that answers a request about an alias ends its handler.
LEMMA RunAnswers ==
  ASSUME IdInv, NEW t, Runs(t), NEW x \in sent', x.message.op = "alias", tasks = {t},
         t.at \in {"bind", "register", "retract"}
  PROVE  tasks' = {}
<1>1. /\ SP!TasksTyped /\ t \in tasks /\ SP!Run(t)
  BY DEF IdInv, TypeInv, SP!IInv, Runs
<1>2. CASE t.at = "bind"
  <2>1. t.data.alias \in DOMAIN aliases
    BY <1>2, RunTells
  <2> QED
    BY <1>1, <1>2, <2>1, SP!RunsAt, ServerAssumptions DEF SP!bind, SP!End, SP!Throw
<1>3. CASE t.at \in {"register", "retract"}
  BY <1>1, <1>3, SP!RunsAt, ServerAssumptions DEF SP!register, SP!retract, SP!End
<1> QED
  BY <1>2, <1>3

\* An alias that is removed is announced by a handler that goes on.
LEMMA RunRetracts ==
  ASSUME IdInv, NEW t, Runs(t)
  PROVE  /\ \A a \in DOMAIN aliases : SP!Retracts(t, a) => Leaving(t.data.id, a)'
         /\ \A u \in tasks' \ tasks : u.at \in {"freePort", "expireHost"} =>
              u.data.alias \notin DOMAIN aliases'
<1>1. /\ SP!TasksTyped /\ SP!DataTyped /\ t \in tasks /\ SP!Run(t)
  BY DEF IdInv, TypeInv, SP!IInv, Runs
<1>2. CASE t.at = "shutdown"
  <2> DEFINE v == [t EXCEPT !.at = "freePort"]
  <2>1. v.at = "freePort" /\ v.data = t.data
    BY <1>1 DEF SP!TasksTyped, SP!TaskOK, SP!Tasks
  <2> HIDE DEF v
  <2>2. \/ /\ SP!owns(t.data.id, t.data.alias)
           /\ aliases' = SP!Without(aliases, {t.data.alias})
           /\ tasks' = (tasks \ {t}) \cup {v}
        \/ /\ ~ SP!owns(t.data.id, t.data.alias) /\ tasks' = tasks \ {t}
    BY <1>1, <1>2, SP!RunsAt, ServerAssumptions DEF SP!shutdown, SP!Goto, SP!End, SP!Throw, v
  <2>3. t.data.alias \notin DOMAIN SP!Without(aliases, {t.data.alias})
    BY DEF SP!Without, SP!Restrict
  <2>4. ASSUME NEW a \in DOMAIN aliases, SP!Retracts(t, a) PROVE Leaving(t.data.id, a)'
    <3>1. a = t.data.alias /\ SP!owns(t.data.id, t.data.alias)
      BY <1>2, <2>4 DEF SP!Retracts, SP!owns
    <3> QED
      BY <2>1, <2>2, <3>1 DEF Leaving, Leaves
  <2>5. ASSUME NEW u \in tasks' \ tasks PROVE u.data.alias \notin DOMAIN aliases'
    BY <2>1, <2>2, <2>3, <2>5
  <2> QED
    BY <2>4, <2>5
<1>3. CASE t.at = "expire"
  <2> DEFINE gone == {a \in DOMAIN aliases : aliases[a].id = t.data.id}
             v(a) == SP!Begin(0, t.sock, "expireHost",
                              [op |-> "expire", id |-> t.data.id, alias |-> a])
  <2>1. \A a : v(a).at = "expireHost" /\ v(a).data.alias = a /\ v(a).data.id = t.data.id
    BY DEF SP!Begin
  <2> HIDE DEF v
  <2>2. /\ aliases' = SP!Without(aliases, gone)
        /\ tasks' = (tasks \ {t}) \cup {v(a) : a \in gone}
    BY <1>1, <1>3, SP!RunsAt, ServerAssumptions DEF SP!expire, v
  <2>3. \A a \in gone : a \notin DOMAIN SP!Without(aliases, gone)
    BY DEF SP!Without, SP!Restrict
  <2>4. ASSUME NEW a \in DOMAIN aliases, SP!Retracts(t, a) PROVE Leaving(t.data.id, a)'
    <3>1. a \in gone
      BY <2>4 DEF SP!Retracts
    <3>2. v(a) \in tasks'
      BY <2>2, <3>1
    <3> QED
      BY <2>1, <3>2 DEF Leaving, Leaves
  <2>5. ASSUME NEW u \in tasks' \ tasks PROVE u.data.alias \notin DOMAIN aliases'
    BY <2>1, <2>2, <2>3, <2>5
  <2> QED
    BY <2>4, <2>5
<1>4. CASE t.at \notin {"shutdown", "expire"}
  <2>1. \A u \in tasks' : u \in tasks \/ SP!Continues(t, u)
    BY RunTasks
  <2> QED
    BY <1>4, <2>1 DEF SP!Retracts, SP!Continues, SP!Edges
<1> QED
  BY <1>2, <1>3, <1>4

\* The handler that announces it goes on until it does.
LEMMA RunStillLeaves ==
  ASSUME IdInv, NEW t, Runs(t), NEW j, NEW a, Leaves(t, j, a), t.at # "retract"
  PROVE  Leaving(j, a)'
<1>1. /\ SP!TasksTyped /\ t \in tasks /\ SP!Run(t) /\ t \in SP!Tasks
  BY DEF IdInv, TypeInv, SP!IInv, Runs, SP!TasksTyped, SP!TaskOK
<1> DEFINE v(place) == [t EXCEPT !.at = place]
<1>2. \A place \in SP!Places : v(place).at = place /\ v(place).data = t.data
  BY <1>1 DEF SP!Tasks
<1> HIDE DEF v
<1>3. \E place \in {"freeHost", "expirePort", "retract"} : v(place) \in tasks'
  BY <1>1, SP!RunsAt, ServerAssumptions
  DEF Leaves, SP!removeTCPAddress, SP!removeIPAddress, SP!expireHost, SP!expirePort, SP!Goto, v
<1>4. PICK place \in {"freeHost", "expirePort", "retract"} : v(place) \in tasks'
  BY <1>3
<1>5. place \in SP!Places
  BY <1>4 DEF SP!Places
<1> QED
  BY <1>2, <1>4, <1>5 DEF Leaving, Leaves

----
\* What a step does to the owners of aliases.
LEMMA RunOwners ==
  ASSUME IdInv, NEW t, Runs(t)
  PROVE  /\ \A a : SP!Registers(t, a) => Owner(t.data.id, a)' /\ a \notin DOMAIN aliases
         /\ \A a, j : Owner(j, a)' =>
              Owner(j, a) \/ (SP!Registers(t, a) /\ j = t.data.id)
         /\ \A a, j : Owner(j, a) =>
              Owner(j, a)' \/ (SP!Retracts(t, a) /\ j = t.data.id)
         /\ t.at \notin {"register", "accepting", "shutdown", "lookup", "expire"} =>
              aliases' = aliases
<1>1. /\ SP!IInv /\ SP!PoliteInv /\ SP!DataTyped /\ t \in tasks /\ SP!Run(t)
  BY DEF IdInv, TypeInv, SP!IInv, Runs
<1>2. /\ \A a \in DOMAIN aliases' \cap DOMAIN aliases :
           aliases'[a].id = aliases[a].id /\ ~ SP!Registers(t, a)
      /\ \A a \in DOMAIN aliases' \ DOMAIN aliases :
           SP!Registers(t, a) /\ aliases'[a].id = t.data.id
  BY <1>1, SP!RunNewAlias, ServerAssumptions
<1>3. /\ t.at \notin {"register", "accepting", "shutdown", "lookup", "expire"} =>
           aliases' = aliases
      /\ \A a \in DOMAIN aliases : a \in DOMAIN aliases' <=> ~ SP!Retracts(t, a)
      /\ \A a : SP!Registers(t, a) => a \in DOMAIN aliases'
  BY <1>1, SP!RunChangesAliases, ServerAssumptions
<1>4. \A a : SP!Registers(t, a) => Owner(t.data.id, a)' /\ a \notin DOMAIN aliases
  BY <1>2, <1>3 DEF Owner
<1>5. \A a, j : Owner(j, a)' => Owner(j, a) \/ (SP!Registers(t, a) /\ j = t.data.id)
  BY <1>2 DEF Owner
<1>6. \A a, j : Owner(j, a) => Owner(j, a)' \/ (SP!Retracts(t, a) /\ j = t.data.id)
  BY <1>2, <1>3 DEF Owner, SP!Retracts
<1> QED
  BY <1>3, <1>4, <1>5, <1>6

\* An orderly client shuts down what it has.
LEMMA ShutdownsGranted ==
  ASSUME KnowInv, NEW c \in Clients, Steady(c), NEW t \in tasks, t.at = "shutdown", t.sock = ws(c)
  PROVE  SP!owns(t.data.id, t.data.alias)
<1>1. /\ t.data.op = "shutdown" /\ t.data.id \in goodbyes[ws(c)]
      /\ t.data.alias \in BindAliases
  BY PlaceOps, TaskFor DEF KnowInv
<1>2. t \in Served(c, t.data.alias)
  BY <1>1 DEF Served, Asks
<1>3. InOrder(c, t.data.alias)
  BY <1>1 DEF KnowInv, Informed
<1>4. PICK j \in goodbyes[ws(c)] : Owner(j, t.data.alias)
  BY <1>2, <1>3 DEF InOrder, Owned
<1>5. j = t.data.id
  BY <1>1, SteadyFacts DEF KnowInv
<1> QED
  BY <1>4, <1>5 DEF Owner, SP!owns

\* What the server tells a client of an alias is so.
LEMMA RunNewsTrue ==
  ASSUME KnowInv, NEW t, Runs(t), NEW c \in Clients, Steady(c),
         NEW x \in sent', x.to = ws(c), x.message.op = "alias"
  PROVE  LET m == x.message IN
         /\ t.at # "shutdown"
         /\ m.set => Owner(m.id, m.alias)'
         /\ ~ m.set => \A j \in goodbyes[ws(c)] : ~ Owner(j, m.alias)'
<1> DEFINE m == x.message
<1>1. IdInv /\ t \in tasks
  BY DEF KnowInv, Runs
<1>2. t.at # "shutdown"
  <2>1. t.at = "shutdown" => t.sock = ws(c) /\ ~ SP!owns(t.data.id, t.data.alias)
    BY <1>1, RunTells
  <2> QED
    BY <1>1, <2>1, ShutdownsGranted
<1>3. CASE t.at = "bind"
  <2>1. m.alias = t.data.alias /\ ~ m.set /\ t.sock = ws(c)
    BY <1>1, <1>3, RunTells
  <2>2. t.data.op = "bind" /\ t.data.alias \in BindAliases
    BY <1>1, <1>3, PlaceOps, TaskFor
  <2>3. ~ Owned(c, t.data.alias)
    <3>1. t \in Served(c, t.data.alias)
      BY <1>1, <2>1, <2>2 DEF Served, Asks
    <3>2. InOrder(c, t.data.alias)
      BY <2>2 DEF KnowInv, Informed
    <3> QED
      BY <2>2, <3>1, <3>2 DEF InOrder
  <2>4. aliases' = aliases
    BY <1>1, <1>3, RunOwners
  <2> QED
    BY <1>2, <2>1, <2>3, <2>4 DEF Owned, Owner
<1>4. CASE t.at \in {"register", "lookup"}
  <2>1. /\ m.id = t.data.id /\ m.set
        /\ m.alias = IF t.at = "register" THEN t.data.alias ELSE t.addr
        /\ t.at = "lookup" => SP!accepting(t.data.remoteAlias)
    BY <1>1, <1>4, RunTells
  <2>2. SP!Registers(t, m.alias)
    BY <1>4, <2>1 DEF SP!Registers
  <2> QED
    BY <1>1, <1>2, <2>1, <2>2, RunOwners
<1>5. CASE t.at = "retract"
  <2>1. m.alias = t.data.alias /\ ~ m.set
    BY <1>1, <1>5, RunTells
  <2>2. t.data.id \in Answers
    BY <1>1, <1>5, SameData DEF IdInv, TypeInv, SP!IInv, SP!TasksTyped, SP!TaskOK, SP!AliasPlaces
  <2>3. t.data.alias \notin DOMAIN aliases
    BY <1>1, <1>5, <2>2 DEF KnowInv, Removed, Leaving, Leaves
  <2>4. aliases' = aliases
    BY <1>1, <1>5, RunOwners
  <2> QED
    BY <1>2, <2>1, <2>3, <2>4 DEF Owner
<1>6. CASE t.at = "introduce"
  <2>1. m.id = t.data.id /\ m.alias = t.addr /\ m.set
    BY <1>1, <1>6, RunTells
  <2>2. /\ t.addr \in DOMAIN aliases /\ SP!parseIPAddress(t.addr) = t.data.id
        /\ SP!Connected(t.data.id)
    BY <1>1, <1>6 DEF IdInv, SP!PoliteInv, SP!ConnectsTrue, SP!ConnectsOwned, SP!CreatedPlaces
  <2>3. aliases[t.addr].id = t.data.id
    BY <1>1, <2>2 DEF IdInv, SP!PoliteInv, SP!HostsOwned
  <2>4. aliases' = aliases
    BY <1>1, <1>6, RunOwners
  <2> QED
    BY <1>2, <2>1, <2>2, <2>3, <2>4 DEF Owner
<1>7. CASE t.at = "refuse"
  <2>1. m.alias = t.addr /\ ~ m.set
    BY <1>1, <1>7, RunTells
  <2>2. t.addr \notin DOMAIN aliases
    BY <1>1, <1>7 DEF KnowInv, ConnectsServed
  <2>3. aliases' = aliases
    BY <1>1, <1>7, RunOwners
  <2> QED
    BY <1>2, <2>1, <2>2, <2>3 DEF Owner
<1>8. CASE t.at = "confirm"
  <2>1. m.id = t.owner /\ m.alias = t.data.remoteAlias /\ m.set
    BY <1>1, <1>8, RunTells
  <2>2. Owner(t.owner, t.data.remoteAlias)
    BY <1>1, <1>8 DEF KnowInv, ConnectsServed
  <2>3. aliases' = aliases
    BY <1>1, <1>8, RunOwners
  <2> QED
    BY <1>2, <2>1, <2>2, <2>3 DEF Owner
<1> QED
  BY <1>1, <1>2, <1>3, <1>4, <1>5, <1>6, <1>7, <1>8, RunTells

\* An answer to a request about an alias ends its handler; other news of an alias
\* that programs bind come while none of its requests is served.
LEMMA RunNewsKind ==
  ASSUME KnowInv, NEW t, Runs(t), NEW c \in Clients, Steady(c),
         NEW x \in sent', x.to = ws(c), NEW a \in BindAliases, About(x.message, a)
  PROVE  IF AnswerTo(c, x.message, a)
           THEN /\ t \in Served(c, a) /\ tasks' = {}
                /\ t.data.op = "shutdown" => ~ x.message.set
           ELSE /\ Served(c, a) = {}
                /\ \A j \in goodbyes[ws(c)] : ~ Leaving(j, a)
<1> DEFINE m == x.message
<1>1. IdInv /\ t \in tasks /\ m.op = "alias" /\ m.alias = a
  BY DEF KnowInv, Runs, About
<1>2. t.at # "shutdown"
  BY <1>1, RunNewsTrue
<1>3. CASE AnswerTo(c, m, a)
  <2>1. m.clientConnectionId = NoConnection /\ m.id \in goodbyes[ws(c)]
    BY <1>3 DEF AnswerTo
  <2>2. t.at \notin {"lookup", "refuse", "confirm"}
    <3>1. ASSUME t.at \in {"lookup", "refuse", "confirm"} PROVE FALSE
      <4>1. t.data.op = "connect"
        BY <1>1, <3>1, PlaceOps DEF SP!ConnectPlaces, SP!CreatedPlaces
      <4>2. t.data.clientConnectionId \in Connections
        BY <1>1, <4>1, TaskFor
      <4>3. m.clientConnectionId = t.data.clientConnectionId
        BY <1>1, <3>1, RunTells
      <4> QED
        BY <2>1, <4>2, <4>3, OperationsAssumption
    <3> QED
      BY <3>1
  <2>3. t.at # "introduce"
    <3>1. t.at = "introduce" => m.alias = t.addr /\ t.addr \notin BindAliases
      BY <1>1, RunTells, CreatedApart DEF SP!CreatedPlaces
    <3> QED
      BY <1>1, <3>1
  <2>4. t.at \in {"bind", "register", "retract"}
    BY <1>1, <1>2, <2>2, <2>3, RunTells
  <2>5. m.id = t.data.id /\ m.alias = t.data.alias /\ (m.set <=> t.at = "register")
    BY <1>1, <2>4, RunTells
  <2>6. t.data.op \in {"bind", "shutdown"}
    <3>1. t.data.op \in {"bind", "shutdown", "expire"}
      BY <1>1, <2>4, PlaceOps
    <3>2. t.data.op # "expire"
      BY <1>1, <2>1, <2>5, SteadyFacts, TaskFor
    <3> QED
      BY <3>1, <3>2
  <2>7. t \in Served(c, a) /\ tasks = {t}
    BY <1>1, <2>1, <2>5, <2>6, ServedFor, TaskFor
  <2>8. tasks' = {}
    BY <1>1, <2>4, <2>7, RunAnswers
  <2>9. t.data.op = "shutdown" => ~ m.set
    BY <1>1, <2>4, <2>5, PlaceOps
  <2> QED
    BY <1>3, <2>7, <2>8, <2>9
<1>4. CASE ~ AnswerTo(c, m, a)
  <2>1. ASSUME NEW u \in Served(c, a) PROVE FALSE
    <3>1. u \in tasks /\ u.data.op \in {"bind", "shutdown"} /\ u.data.alias = a /\ u.sock = ws(c)
      BY <2>1 DEF Served, Asks
    <3>2. t = u /\ t.data.id \in goodbyes[ws(c)]
      BY <1>1, <3>1, TaskFor
    <3>3. t.at \in {"bind", "claim", "register", "shutdown", "freePort", "freeHost", "retract"}
      BY <1>1, <3>1, <3>2, PlaceOps
    <3>4. m.id = t.data.id /\ m.clientConnectionId = NoConnection
      BY <1>1, <3>3, RunTells
    <3> QED
      BY <1>1, <1>4, <3>2, <3>4 DEF AnswerTo, About
  <2>2. ASSUME NEW j \in goodbyes[ws(c)], Leaving(j, a) PROVE FALSE
    BY <1>1, <2>1, <2>2, LeavingOwn DEF Leaving
  <2> QED
    BY <1>4, <2>1, <2>2
<1> QED
  BY <1>3, <1>4

\* Without a request of its own a client neither gets an alias nor loses one.
LEMMA RunOwnedStays ==
  ASSUME KnowInv, NEW t, Runs(t), NEW c \in Clients, Steady(c),
         goodbyes'[ws(c)] = goodbyes[ws(c)], NEW a \in BindAliases, Served(c, a) = {}
  PROVE  Owned(c, a)' <=> Owned(c, a)
<1>1. IdInv /\ t \in tasks /\ ws(c)' = ws(c)
  BY DEF KnowInv, Runs, ws
<1>2. ASSUME NEW j \in goodbyes[ws(c)], Owner(j, a) PROVE Owner(j, a)'
  <2>1. SUFFICES ASSUME SP!Retracts(t, a), j = t.data.id PROVE FALSE
    BY <1>1, <1>2, RunOwners
  <2>2. t.at # "expire"
    BY <1>1, <1>2, <2>1, PlaceOps, TaskFor, SteadyFacts DEF SP!LeavePlaces
  <2>3. t.at = "shutdown" /\ a = t.data.alias
    BY <2>1, <2>2 DEF SP!Retracts
  <2> QED
    BY <1>1, <1>2, <2>1, <2>3, PlaceOps, ServedFor
<1>3. ASSUME NEW j \in goodbyes[ws(c)], Owner(j, a)' PROVE Owner(j, a)
  <2>1. SUFFICES ASSUME SP!Registers(t, a), j = t.data.id PROVE FALSE
    BY <1>1, <1>3, RunOwners
  <2>2. t.at # "lookup"
    BY <1>1, <2>1, CreatedApart DEF SP!Registers, SP!CreatedPlaces
  <2>3. t.at = "register" /\ a = t.data.alias
    BY <2>1, <2>2 DEF SP!Registers
  <2> QED
    BY <1>1, <1>3, <2>1, <2>3, PlaceOps, ServedFor
<1>4. Owned(c, a)' <=> \E j \in goodbyes[ws(c)] : Owner(j, a)'
  BY <1>1 DEF Owned
<1> QED
  BY <1>2, <1>3, <1>4 DEF Owned

----
\* In a step of the server a client hears of an alias, or not.
Silent(c, a) ==
  /\ Reports(c, a)' = Reports(c, a) /\ Answered(c, a)' = Answered(c, a)
  /\ \A k \in Reports(c, a) : \A j : Reported(c, a, k, j)' <=> Reported(c, a, k, j)
  /\ \A j : Lately(c, a, j)' <=> Lately(c, a, j)
  /\ \A k \in Answered(c, a) : toClient'[ws(c)][k] = toClient[ws(c)][k]
  /\ \A m \in Messages : About(m, a) => toClient'[ws(c)] # Append(toClient[ws(c)], m)

Hears(c, a, m, n) ==
  /\ n \in Nat /\ About(m, a)
  /\ Reports(c, a)' = Reports(c, a) \cup {n} /\ \A k \in Reports(c, a) : k < n
  /\ AnswerTo(c, m, a) => Answered(c, a)' = Answered(c, a) \cup {n}
  /\ ~ AnswerTo(c, m, a) => Answered(c, a)' = Answered(c, a)
  /\ \A k \in Reports(c, a) : \A j : Reported(c, a, k, j)' <=> Reported(c, a, k, j)
  /\ \A j : Reported(c, a, n, j)' <=> Names(m, j)
  /\ \A j : Lately(c, a, j)' <=> Names(m, j)
  /\ \A k \in Answered(c, a) : k # n /\ toClient'[ws(c)][k] = toClient[ws(c)][k]
  /\ toClient'[ws(c)][n] = m

LEMMA RunHears ==
  ASSUME KnowInv, NEW t, Runs(t), NEW c \in Clients, Steady(c),
         goodbyes'[ws(c)] = goodbyes[ws(c)], NEW a
  PROVE  \/ Silent(c, a)
         \/ \E x \in sent' : \E n : x.to = ws(c) /\ Hears(c, a, x.message, n)
<1> DEFINE q == toClient[ws(c)]
<1>1. /\ ws(c)' = ws(c) /\ known' = known /\ deliver /\ IdInv /\ t \in tasks /\ SP!Run(t)
  BY DEF KnowInv, Runs, ws
<1>2. ws(c) \in Sockets /\ q \in Seq(Messages)
  BY <1>1, SteadyFacts
<1>3. \A m \in Messages : About(m, a) /\ toClient'[ws(c)] = Append(q, m) =>
        Reports(c, a)' # Reports(c, a)
  <2> SUFFICES ASSUME NEW m \in Messages, About(m, a), toClient'[ws(c)] = Append(q, m)
               PROVE  Reports(c, a)' # Reports(c, a)
    OBVIOUS
  <2>1. PICK n : n = Len(q) + 1
    OBVIOUS
  <2>2. Reports(c, a)' = Reports(c, a) \cup {n} /\ \A k \in Reports(c, a) : k < n
    BY <1>1, <1>2, <2>1, SomethingHeard
  <2>3. n \in Nat
    BY <1>2, <2>1, SeqFacts
  <2>4. n \notin Reports(c, a)
    BY <2>2, <2>3
  <2> QED
    BY <2>2, <2>4
<1>4. CASE toClient'[ws(c)] = q
  <2>1. /\ Reports(c, a)' = Reports(c, a)
        /\ \A k, j : Reported(c, a, k, j)' <=> Reported(c, a, k, j)
        /\ \A j : Lately(c, a, j)' <=> Lately(c, a, j)
    BY <1>1, <1>4, NothingHeard
  <2>2. Answered(c, a)' = Answered(c, a)
    BY <1>1, <1>4 DEF Answered, AnswerTo
  <2> QED
    BY <1>3, <1>4, <2>1, <2>2 DEF Silent
<1>5. ASSUME NEW m \in Messages, toClient'[ws(c)] = Append(q, m)
      PROVE  Silent(c, a) \/ \E n : Hears(c, a, m, n)
  <2>1. PICK n : n = Len(q) + 1
    OBVIOUS
  <2>2. n \in Nat
    BY <1>2, <2>1, SeqFacts
  <2>3. /\ \A k \in Reports(c, a) : \A j : Reported(c, a, k, j)' <=> Reported(c, a, k, j)
        /\ \A k \in Reports(c, a) : k < n
    BY <1>1, <1>2, <1>5, <2>1, SomethingHeard
  <2>4. /\ DOMAIN Append(q, m) = DOMAIN q \cup {n} /\ n \notin DOMAIN q
        /\ \A k \in DOMAIN q : Append(q, m)[k] = q[k]
        /\ Append(q, m)[n] = m
    BY <1>2, <2>1, AppendFacts
  <2>5. /\ Answered(c, a) = {k \in DOMAIN q : AnswerTo(c, q[k], a)}
        /\ Answered(c, a)' = {k \in DOMAIN Append(q, m) : AnswerTo(c, Append(q, m)[k], a)}
    <3>1. \A y : AnswerTo(c, y, a)' <=> AnswerTo(c, y, a)
      BY <1>1 DEF AnswerTo
    <3> QED
      BY <1>1, <1>5, <3>1 DEF Answered
  <2>6. /\ AnswerTo(c, m, a) => Answered(c, a)' = Answered(c, a) \cup {n}
        /\ ~ AnswerTo(c, m, a) => Answered(c, a)' = Answered(c, a)
        /\ toClient'[ws(c)][n] = m
        /\ \A k \in Answered(c, a) : k # n /\ toClient'[ws(c)][k] = q[k]
    <3> HIDE DEF q
    <3> QED
      BY <1>5, <2>4, <2>5
  <2>7. CASE About(m, a)
    <3>1. Reports(c, a)' = Reports(c, a) \cup {n}
      BY <1>1, <1>2, <1>5, <2>1, <2>7, SomethingHeard
    <3>2. ASSUME NEW j
          PROVE  /\ Reported(c, a, n, j)' <=> Names(m, j)
                 /\ Lately(c, a, j)' <=> Names(m, j)
      BY <1>1, <1>2, <1>5, <2>1, <2>7, SomethingHeard
    <3> QED
      BY <2>2, <2>3, <2>6, <2>7, <3>1, <3>2 DEF Hears
  <2>8. CASE ~ About(m, a)
    <3>1. /\ Reports(c, a)' = Reports(c, a)
          /\ \A j : Lately(c, a, j)' <=> Lately(c, a, j)
      BY <1>1, <1>2, <1>5, <2>1, <2>8, SomethingHeard
    <3>2. ~ AnswerTo(c, m, a)
      BY <2>8 DEF AnswerTo
    <3> QED
      BY <1>3, <2>3, <2>6, <2>8, <3>1, <3>2 DEF Silent
  <2> QED
    BY <2>7, <2>8
<1>6. \A x \in sent' : x.message \in Messages
  BY <1>1, RunMessages DEF IdInv, TypeInv
<1> QED
  BY <1>1, <1>2, <1>4, <1>5, <1>6, Delivered

\* What a client is told last stays so, or is retracted, and it is told what it has.
LEMMA RunToldTrue ==
  ASSUME KnowInv, NEW t, Runs(t), NEW c \in Clients, Steady(c),
         goodbyes'[ws(c)] = goodbyes[ws(c)], goodbyes[ws(c)] # {}
  PROVE  ToldTrue(c)'
<1>1. IdInv /\ t \in tasks /\ ws(c)' = ws(c)
  BY DEF KnowInv, Runs, ws
<1>2. SUFFICES ASSUME NEW a \in TCPAddresses, NEW j \in Answers, Lately(c, a, j)'
               PROVE  Owner(j, a)' \/ Leaving(j, a)'
  BY DEF ToldTrue
<1>3. CASE Silent(c, a)
  <2>1. Owner(j, a) \/ Leaving(j, a)
    BY <1>2, <1>3 DEF Silent, KnowInv, Informed, ToldTrue
  <2>2. CASE Owner(j, a)
    <3>1. Owner(j, a)' \/ (SP!Retracts(t, a) /\ j = t.data.id)
      BY <1>1, <2>2, RunOwners
    <3> QED
      BY <1>1, <2>2, <3>1, RunRetracts DEF Owner
  <2>3. CASE Leaving(j, a)
    <3>1. PICK u \in tasks : Leaves(u, j, a)
      BY <2>3 DEF Leaving
    <3>2. CASE u # t
      <4>1. u \in tasks'
        BY <1>1, <3>2, RunTasks
      <4> QED
        BY <3>1, <4>1 DEF Leaving, Leaves
    <3>3. CASE u = t /\ t.at # "retract"
      BY <1>1, <3>1, <3>3, RunStillLeaves
    <3>4. CASE u = t /\ t.at = "retract"
      <4>1. PICK x \in sent' : /\ x.to = ws(c) /\ x.message.op = "alias"
                               /\ toClient'[ws(c)] = Append(toClient[ws(c)], x.message)
        BY <1>1, <3>4, RunReaches DEF Steady, Live
      <4>2. About(x.message, a)
        BY <1>1, <3>1, <3>4, <4>1, RunTells DEF About, Leaves
      <4>3. x.message \in Messages
        BY <1>1, RunMessages DEF IdInv, TypeInv, Runs
      <4> QED
        BY <1>3, <4>1, <4>2, <4>3 DEF Silent
    <3> QED
      BY <3>2, <3>3, <3>4
  <2> QED
    BY <2>1, <2>2, <2>3
<1>4. ASSUME NEW x \in sent', NEW n, x.to = ws(c), Hears(c, a, x.message, n)
      PROVE  Owner(j, a)'
  <2>1. x.message.op = "alias" /\ x.message.alias = a /\ x.message.set /\ x.message.id = j
    BY <1>2, <1>4 DEF Hears, About, Names
  <2> QED
    BY <1>4, <2>1, RunNewsTrue
<1> QED
  BY <1>3, <1>4, RunHears

LEMMA RunOwnTold ==
  ASSUME KnowInv, NEW t, Runs(t), NEW c \in Clients, Steady(c),
         goodbyes'[ws(c)] = goodbyes[ws(c)]
  PROVE  OwnTold(c)'
<1>1. IdInv /\ t \in tasks /\ ws(c)' = ws(c)
  BY DEF KnowInv, Runs, ws
<1>2. SUFFICES ASSUME NEW a \in TCPAddresses, NEW j \in goodbyes[ws(c)], Owner(j, a)'
               PROVE  Lately(c, a, j)'
  BY <1>1 DEF OwnTold
<1>3. CASE Silent(c, a)
  <2>1. SUFFICES ASSUME ~ Owner(j, a) PROVE FALSE
    BY <1>3 DEF Silent, KnowInv, Informed, OwnTold
  <2>2. SP!Registers(t, a) /\ j = t.data.id
    BY <1>1, <1>2, <2>1, RunOwners
  <2>3. PICK x \in sent' : /\ x.to = ws(c) /\ x.message.op = "alias"
                           /\ toClient'[ws(c)] = Append(toClient[ws(c)], x.message)
    BY <1>1, <2>2, RunReaches DEF SP!Registers, Steady, Live
  <2>4. About(x.message, a)
    BY <1>1, <2>2, <2>3, RunTells DEF About, SP!Registers
  <2>5. x.message \in Messages
    BY <1>1, RunMessages DEF IdInv, TypeInv, Runs
  <2> QED
    BY <1>3, <2>3, <2>4, <2>5 DEF Silent
<1>4. ASSUME NEW x \in sent', NEW n, x.to = ws(c), Hears(c, a, x.message, n)
      PROVE  Lately(c, a, j)'
  <2>1. x.message.op = "alias" /\ x.message.alias = a
    BY <1>4 DEF Hears, About, Names
  <2>2. x.message.set /\ Owner(x.message.id, a)'
    BY <1>2, <1>4, <2>1, RunNewsTrue
  <2>3. x.message.id = j
    BY <1>2, <2>2 DEF Owner
  <2> QED
    BY <1>4, <2>2, <2>3 DEF Hears, Names
<1> QED
  BY <1>3, <1>4, RunHears

LEMMA AnswersReported ==
  ASSUME NEW c, NEW a
  PROVE  Answered(c, a) \subseteq Reports(c, a)
  BY DEF Answered, Reports, AnswerTo

LEMMA ReportsBounded ==
  ASSUME NEW c, NEW a, toClient[ws(c)] \in Seq(Messages)
  PROVE  /\ Reports(c, a) \subseteq Nat /\ 0 \in Reports(c, a)
         /\ Len(toClient[ws(c)]) \in Nat
         /\ \A k \in Reports(c, a) : k <= Len(toClient[ws(c)])
<1> DEFINE q == toClient[ws(c)]
<1>1. Len(q) \in Nat /\ DOMAIN q = 1 .. Len(q)
  BY SeqFacts
<1> QED
  BY <1>1 DEF Reports

\* What a client will have heard when no answer is on the way any more is so.
LEMMA LastTrue ==
  ASSUME IdInv, NEW c \in Clients, Steady(c), ToldTrue(c), OwnTold(c),
         NEW a \in BindAliases, Consistent(c, a),
         \A j \in goodbyes[ws(c)] : ~ Leaving(j, a),
         NEW k \in Reports(c, a), \A n \in Answered(c, a) : ~ (k < n)
  PROVE  OwnReported(c, a, k) <=> Owned(c, a)
<1>1. toClient[ws(c)] \in Seq(Messages) /\ goodbyes[ws(c)] \subseteq Answers
  BY SteadyFacts
<1>2. /\ Reports(c, a) \in SUBSET Nat /\ Reports(c, a) # {}
      /\ Len(toClient[ws(c)]) \in Nat
      /\ \A x \in Reports(c, a) : x <= Len(toClient[ws(c)])
  BY <1>1, ReportsBounded
<1>3. PICK l \in Reports(c, a) : \A y \in Reports(c, a) : y <= l
  BY <1>2, GreatestNatural
<1>4. a \in TCPAddresses
  BY ClientAssumption
<1>5. OwnReported(c, a, k) <=> OwnReported(c, a, l)
  <2>1. CASE k = l
    BY <2>1
  <2>2. CASE k # l
    <3>1. k < l
      BY <1>2, <1>3, <2>2
    <3> QED
      BY <3>1 DEF Consistent
  <2> QED
    BY <2>1, <2>2
<1>6. ASSUME NEW j PROVE Lately(c, a, j) <=> Reported(c, a, l, j)
  <2>1. ASSUME NEW y \in Reports(c, a), \A x \in Reports(c, a) : x <= y PROVE y = l
    <3>1. l <= y /\ y <= l /\ l \in Nat /\ y \in Nat
      BY <1>2, <1>3, <2>1
    <3> QED
      BY <3>1
  <2> QED
    BY <1>3, <2>1 DEF Lately
<1>7. OwnReported(c, a, l) <=> Owned(c, a)
  <2>1. ASSUME NEW j \in goodbyes[ws(c)] PROVE Reported(c, a, l, j) <=> Owner(j, a)
    <3>1. Reported(c, a, l, j) => Owner(j, a)
      BY <1>1, <1>4, <1>6 DEF ToldTrue
    <3>2. Owner(j, a) => Reported(c, a, l, j)
      BY <1>4, <1>6 DEF OwnTold
    <3> QED
      BY <3>1, <3>2
  <2> QED
    BY <2>1 DEF OwnReported, Owned
<1> QED
  BY <1>5, <1>7

\* A request that is served further was served before.
LEMMA RunServed ==
  ASSUME IdInv, NEW t, Runs(t), NEW c \in Clients, NEW a, NEW u \in Served(c, a)'
  PROVE  /\ t \in Served(c, a) /\ u.data = t.data /\ u.at # "shutdown"
         /\ u.data.op = "bind" => aliases' = aliases
<1>1. ws(c)' = ws(c)
  BY DEF Runs, ws
<1>2. u \in tasks' /\ u.sock = ws(c) /\ Asks(u.data, a)
  BY <1>1 DEF Served
<1>3. u.data.op \in {"bind", "shutdown"}
  BY <1>2 DEF Asks
<1>4. t \in tasks /\ t \notin tasks' /\ (u \in tasks \/ (SP!Continues(t, u) /\ SP!Brings(t, u)))
  BY <1>2, RunTasks
<1>5. u \notin tasks
  <2>1. u \in tasks => tasks = {u}
    BY <1>3, TaskFor
  <2> QED
    BY <1>2, <1>4, <2>1
<1>6. <<t.at, u.at>> \in SP!Edges /\ u.sock = t.sock
  BY <1>4, <1>5 DEF SP!Continues, SP!Brings
<1>7. t.at # "expire"
  <2>1. t.at = "expire" => u.at = "expireHost"
    BY <1>6 DEF SP!Edges
  <2>2. Serves(u.at, u.data.op)
    BY <1>2, RunTaskKinds DEF TaskKinds
  <2> QED
    BY <1>3, <2>1, <2>2
    DEF Serves, SP!KnockPlaces, SP!ConnectPlaces, SP!CreatedPlaces, SP!LeavePlaces
<1>8. u.data = t.data
  BY <1>4, <1>5, <1>7 DEF SP!Continues
<1>9. u.at # "shutdown" /\ t.at # "register"
  BY <1>6 DEF SP!Edges
<1>10. u.data.op = "bind" => aliases' = aliases
  <2>1. u.data.op = "bind" => t.at \in {"bind", "claim"}
    BY <1>4, <1>8, <1>9, PlaceOps
  <2> QED
    BY <2>1, RunOwners
<1> QED
  BY <1>2, <1>4, <1>6, <1>8, <1>9, <1>10 DEF Served

LEMMA RunConsistent ==
  ASSUME KnowInv, NEW t, Runs(t), NEW c \in Clients, Steady(c),
         goodbyes'[ws(c)] = goodbyes[ws(c)], NEW a \in BindAliases
  PROVE  Consistent(c, a)'
<1>1. /\ IdInv /\ ws(c)' = ws(c) /\ ToldTrue(c) /\ OwnTold(c) /\ Consistent(c, a)
      /\ toClient[ws(c)] \in Seq(Messages)
  BY SteadyFacts DEF KnowInv, Runs, ws, Informed
<1>2. Reports(c, a) \subseteq Nat /\ Answered(c, a) \subseteq Reports(c, a)
  BY <1>1, ReportsBounded, AnswersReported
<1>3. ASSUME NEW k \in Reports(c, a), \A j : Reported(c, a, k, j)' <=> Reported(c, a, k, j)
      PROVE  OwnReported(c, a, k)' <=> OwnReported(c, a, k)
  BY <1>1, <1>3 DEF OwnReported
<1>4. CASE Silent(c, a)
  <2>1. \A k \in Reports(c, a) : OwnReported(c, a, k)' <=> OwnReported(c, a, k)
    BY <1>3, <1>4 DEF Silent
  <2> QED
    BY <1>1, <1>4, <2>1 DEF Silent, Consistent
<1>5. ASSUME NEW x \in sent', NEW n, x.to = ws(c), Hears(c, a, x.message, n)
      PROVE  Consistent(c, a)'
  <2>1. PICK m : m = x.message
    OBVIOUS
  <2>2. /\ n \in Nat /\ About(m, a) /\ m.op = "alias" /\ m.alias = a
        /\ Reports(c, a)' = Reports(c, a) \cup {n} /\ \A k \in Reports(c, a) : k < n
        /\ AnswerTo(c, m, a) => Answered(c, a)' = Answered(c, a) \cup {n}
        /\ ~ AnswerTo(c, m, a) => Answered(c, a)' = Answered(c, a)
        /\ \A j : Reported(c, a, n, j)' <=> Names(m, j)
    BY <1>5, <2>1 DEF Hears, About
  <2>3. \A k \in Reports(c, a) : OwnReported(c, a, k)' <=> OwnReported(c, a, k)
    BY <1>3, <1>5 DEF Hears
  <2> SUFFICES ASSUME NEW k \in Reports(c, a)', NEW l \in Reports(c, a)', k < l,
                      \A y \in Answered(c, a)' : ~ (k < y /\ y <= l)
               PROVE  OwnReported(c, a, k)' <=> OwnReported(c, a, l)'
    BY DEF Consistent
  <2>4. k \in Nat /\ l \in Nat /\ k \in Reports(c, a)
    BY <1>2, <2>2
  <2>5. CASE l \in Reports(c, a)
    <3>1. \A y \in Answered(c, a) : ~ (k < y /\ y <= l)
      BY <2>2
    <3>2. OwnReported(c, a, k) <=> OwnReported(c, a, l)
      BY <1>1, <2>4, <2>5, <3>1 DEF Consistent
    <3> QED
      BY <2>3, <2>4, <2>5, <3>2
  <2>6. CASE l = n
    <3>1. ~ AnswerTo(c, m, a)
      BY <2>2, <2>4, <2>6
    <3>2. Served(c, a) = {} /\ \A j \in goodbyes[ws(c)] : ~ Leaving(j, a)
      BY <1>5, <2>1, <2>2, <3>1, RunNewsKind
    <3>3. \A y \in Answered(c, a) : ~ (k < y)
      BY <1>2, <2>2, <2>6, <3>1
    <3>4. OwnReported(c, a, k) <=> Owned(c, a)
      BY <1>1, <2>4, <3>2, <3>3, LastTrue
    <3>5. Owned(c, a)' <=> Owned(c, a)
      BY <3>2, RunOwnedStays
    <3>6. /\ m.set => Owner(m.id, a)'
          /\ ~ m.set => \A j \in goodbyes[ws(c)] : ~ Owner(j, a)'
      BY <1>5, <2>1, <2>2, RunNewsTrue
    <3>7. OwnReported(c, a, n)' <=> \E j \in goodbyes[ws(c)] : Names(m, j)
      BY <1>1, <2>2 DEF OwnReported
    <3>8. Owned(c, a)' <=> \E j \in goodbyes[ws(c)] : Owner(j, a)'
      BY <1>1 DEF Owned
    <3>9. \A j : Owner(j, a)' /\ Owner(m.id, a)' => m.id = j
      BY DEF Owner
    <3>10. OwnReported(c, a, n)' <=> Owned(c, a)'
      BY <3>6, <3>7, <3>8, <3>9 DEF Names
    <3> QED
      BY <2>3, <2>4, <2>6, <3>4, <3>5, <3>10
  <2> QED
    BY <2>2, <2>5, <2>6
<1> QED
  BY <1>4, <1>5, RunHears

\* The requests of a client, and its calls, in a step of the server.
LEMMA RunRequests ==
  ASSUME KnowInv, NEW t, Runs(t), NEW c \in Clients, Steady(c),
         goodbyes'[ws(c)] = goodbyes[ws(c)], NEW a \in BindAliases
  PROVE  OneAtATime(c, a)' /\ Awaited(c, a)' /\ InOrder(c, a)'
<1>1. /\ IdInv /\ ws(c)' = ws(c) /\ t \in tasks
      /\ OneAtATime(c, a) /\ Awaited(c, a) /\ InOrder(c, a)
  BY DEF KnowInv, Runs, ws, Informed
<1>2. /\ Requested(c, a)' = Requested(c, a)
      /\ toServer'[ws(c)] = toServer[ws(c)]
      /\ \A op : Waits(c, op, a)' <=> Waits(c, op, a)
  BY <1>1 DEF Runs, Requested, Waits
<1>3. \A u \in Served(c, a)' : /\ t \in Served(c, a) /\ u.data = t.data /\ u.at # "shutdown"
                               /\ u.data.op = "bind" => aliases' = aliases
  BY <1>1, RunServed
<1>4. InOrder(c, a)'
  <2>1. ASSUME NEW k \in Requested(c, a)'
        PROVE  toServer'[ws(c)'][k].op = "shutdown" <=> Owned(c, a)'
    <3>1. k \in Requested(c, a) /\ Served(c, a) = {}
      BY <1>1, <1>2, <2>1 DEF OneAtATime
    <3>2. Owned(c, a)' <=> Owned(c, a)
      BY <3>1, RunOwnedStays
    <3> QED
      BY <1>1, <1>2, <3>1, <3>2 DEF InOrder
  <2>2. ASSUME NEW u \in Served(c, a)'
        PROVE  (u.data.op = "bind" => ~ Owned(c, a)') /\ u.at # "shutdown"
    <3>1. u.data.op = "bind" => ~ Owned(c, a) /\ aliases' = aliases
      BY <1>1, <1>3, <2>2 DEF InOrder
    <3>2. aliases' = aliases => (Owned(c, a)' <=> Owned(c, a))
      BY <1>1 DEF Owned, Owner
    <3> QED
      BY <1>3, <2>2, <3>1, <3>2
  <2> QED
    BY <2>1, <2>2 DEF InOrder
<1>5. CASE Silent(c, a)
  <2>1. /\ Answered(c, a)' = Answered(c, a)
        /\ \A k \in Answered(c, a) : toClient'[ws(c)][k] = toClient[ws(c)][k]
    BY <1>5 DEF Silent
  <2>2. OneAtATime(c, a)'
    BY <1>1, <1>2, <1>3, <2>1 DEF OneAtATime
  <2>3. Awaited(c, a)'
    BY <1>1, <1>2, <1>3, <2>1 DEF Awaited
  <2> QED
    BY <1>4, <2>2, <2>3
<1>6. ASSUME NEW x \in sent', NEW n, x.to = ws(c), Hears(c, a, x.message, n)
      PROVE  OneAtATime(c, a)' /\ Awaited(c, a)'
  <2>1. PICK m : m = x.message
    OBVIOUS
  <2>2. /\ About(m, a)
        /\ AnswerTo(c, m, a) => Answered(c, a)' = Answered(c, a) \cup {n}
        /\ ~ AnswerTo(c, m, a) => Answered(c, a)' = Answered(c, a)
        /\ \A k \in Answered(c, a) : toClient'[ws(c)][k] = toClient[ws(c)][k]
        /\ toClient'[ws(c)][n] = m
    BY <1>6, <2>1 DEF Hears
  <2>3. CASE AnswerTo(c, m, a)
    <3>1. /\ t \in Served(c, a) /\ tasks' = {}
          /\ t.data.op = "shutdown" => ~ m.set
      BY <1>6, <2>1, <2>2, <2>3, RunNewsKind
    <3>2. Requested(c, a) = {} /\ Answered(c, a) = {}
      BY <1>1, <3>1 DEF OneAtATime
    <3>3. Served(c, a)' = {} /\ Requested(c, a)' = {} /\ Answered(c, a)' = {n}
      BY <1>2, <2>2, <2>3, <3>1, <3>2 DEF Served
    <3>4. /\ t.data.op \in {"bind", "shutdown"} /\ Waits(c, t.data.op, a)
          /\ ~ (Waits(c, "bind", a) /\ Waits(c, "shutdown", a))
      BY <1>1, <3>1 DEF Awaited, Served, Asks
    <3>5. OneAtATime(c, a)'
      BY <3>3 DEF OneAtATime
    <3>6. Awaited(c, a)'
      BY <1>1, <1>2, <2>2, <3>1, <3>3, <3>4 DEF Awaited
    <3> QED
      BY <3>5, <3>6
  <2>4. CASE ~ AnswerTo(c, m, a)
    <3>1. Answered(c, a)' = Answered(c, a)
      BY <2>2, <2>4
    <3>2. OneAtATime(c, a)'
      BY <1>1, <1>2, <1>3, <3>1 DEF OneAtATime
    <3>3. Awaited(c, a)'
      BY <1>1, <1>2, <1>3, <2>2, <3>1 DEF Awaited
    <3> QED
      BY <3>2, <3>3
  <2> QED
    BY <2>3, <2>4
<1> QED
  BY <1>4, <1>5, <1>6, RunHears

----
\* Nothing has been asked under an id that a client does not have, and nothing goes
\* to it.
LEMMA NothingAsked ==
  ASSUME IdInv, NEW c \in Clients, Steady(c), goodbyes[ws(c)] = {}, NEW a
  PROVE  Requested(c, a) = {} /\ Served(c, a) = {}
<1>1. \A m : Asked(ws(c), m) => ~ Asks(m, a)
  BY DEF Asked, Asks, Knock
<1>2. Requested(c, a) = {}
  <2>1. \A k \in DOMAIN toServer[ws(c)] : Asked(ws(c), toServer[ws(c)][k])
    BY SteadyFacts DEF Held
  <2> QED
    BY <1>1, <2>1 DEF Requested
<1>3. \A t \in Served(c, a) : FALSE
  <2> SUFFICES ASSUME NEW t \in Served(c, a) PROVE FALSE
    OBVIOUS
  <2>1. t \in tasks /\ t.sock = ws(c) /\ Asks(t.data, a)
    BY DEF Served
  <2>2. t.data.op \in {"bind", "shutdown"}
    BY <2>1 DEF Asks
  <2> QED
    BY <2>1, <2>2, TaskFor
<1> QED
  BY <1>2, <1>3

LEMMA FreshSilent ==
  ASSUME IdInv, NEW c \in Clients, Fresh(c), opens[c] = 1
  PROVE  ws(c) \in Sockets /\ goodbyes[ws(c)] = {}
<1>1. ws(c) \in Sockets /\ ws(c)[1] = c
  <2>1. state[c] # "none"
    BY DEF IdInv, TypeInv, ClientTyped
  <2> QED
    BY <2>1, SocketOf DEF IdInv, TypeInv
<1>2. CASE state[c] = "connecting"
  <2>1. Unused(ws(c))
    BY <1>1, <1>2 DEF Unused
  <2> QED
    BY <1>1, <2>1 DEF IdInv, UnusedSilent
<1>3. CASE state[c] # "connecting"
  BY <1>1, <1>3 DEF Fresh
<1> QED
  BY <1>2, <1>3

\* A client that knows nothing has nothing and asks for nothing.
LEMMA BlankInformed ==
  ASSUME NEW c \in Clients, opens'[c] = 1, Blank(c)',
         \A a, j : j \in goodbyes'[ws(c)'] => ~ Owner(j, a)',
         \A a \in BindAliases : Requested(c, a)' = {} /\ Served(c, a)' = {}
  PROVE  Informed(c)'
<1>1. /\ DOMAIN known'[c] = {} /\ calls'[c] = {}
      /\ \A k \in DOMAIN toClient'[ws(c)'] : toClient'[ws(c)'][k].op # "alias"
  BY DEF Blank, Held
<1>2. ASSUME NEW a PROVE Reports(c, a)' = {0} /\ Answered(c, a)' = {}
  BY <1>1 DEF Reports, Answered, AnswerTo, About
<1>3. ASSUME NEW a, NEW j PROVE ~ Lately(c, a, j)' /\ ~ Reported(c, a, 0, j)'
  BY <1>1, <1>2 DEF Lately, Reported
<1>4. ToldTrue(c)'
  BY <1>3 DEF ToldTrue
<1>5. OwnTold(c)'
  BY DEF OwnTold
<1>6. Signs(c)'
  BY <1>1 DEF Signs
<1>7. ASSUME NEW a \in BindAliases
      PROVE  OneAtATime(c, a)' /\ Awaited(c, a)' /\ InOrder(c, a)' /\ Consistent(c, a)'
  <2>1. OneAtATime(c, a)'
    BY <1>2 DEF OneAtATime
  <2>2. Awaited(c, a)'
    BY <1>1, <1>2 DEF Awaited, Waits
  <2>3. InOrder(c, a)'
    BY DEF InOrder
  <2>4. Consistent(c, a)'
    BY <1>2 DEF Consistent
  <2> QED
    BY <2>1, <2>2, <2>3, <2>4
<1> QED
  BY <1>4, <1>5, <1>6, <1>7 DEF Informed

\* A client that has no id yet goes on knowing nothing.
LEMMA RunBlank ==
  ASSUME KnowInv, NEW t, Runs(t), NEW c \in Clients, Fresh(c)
  PROVE  Blank(c)'
<1>1. /\ IdInv /\ Blank(c) /\ ws(c)' = ws(c) /\ deliver
      /\ UNCHANGED <<opens, calls, known>>
  BY DEF KnowInv, Runs, ws
<1>2. ASSUME opens[c] = 1, NEW y \in Held(toClient'[ws(c)]) PROVE y.op # "alias"
  <2>1. ws(c) \in Sockets /\ goodbyes[ws(c)] = {}
    BY <1>1, <1>2, FreshSilent
  <2>2. \A m \in Held(toClient[ws(c)]) : m.op # "alias"
    BY <1>1, <1>2 DEF Blank
  <2>3. CASE toClient'[ws(c)] = toClient[ws(c)]
    BY <1>2, <2>2, <2>3
  <2>4. ASSUME NEW x \in sent', x.to = ws(c), toClient'[ws(c)] = Append(toClient[ws(c)], x.message)
        PROVE  y.op # "alias"
    <3>1. x.message.op # "alias"
      BY <1>1, <2>1, <2>4, RunTells
    <3>2. x.message \in Messages
      BY <1>1, RunMessages DEF IdInv, TypeInv, Runs
    <3>3. toClient[ws(c)] \in Seq(Messages)
      BY <1>1, <2>1 DEF IdInv, TypeInv, QueuesTyped
    <3>4. Held(toClient'[ws(c)]) = Held(toClient[ws(c)]) \cup {x.message}
      BY <2>4, <3>2, <3>3, AppendFacts
    <3> QED
      BY <1>2, <2>2, <3>1, <3>4
  <2> QED
    BY <1>1, <2>1, <2>3, <2>4, Delivered
<1> QED
  BY <1>1, <1>2 DEF Blank

\* What clients know stays in order in a step of the server.
LEMMA RunInforms ==
  ASSUME KnowInv, NEW t, Runs(t), NEW c \in Clients, Steady(c)
  PROVE  Informed(c)'
<1>1. /\ IdInv /\ t \in tasks /\ ws(c)' = ws(c) /\ ws(c) \in Sockets
      /\ UNCHANGED <<opens, state, calls, known, toServer>>
      /\ opens'[c] = 1 /\ ws(c) \in accepted /\ state[c] = "open"
  BY SteadyFacts DEF KnowInv, Runs, ws, Steady
<1>2. CASE goodbyes'[ws(c)] = goodbyes[ws(c)] /\ goodbyes[ws(c)] # {}
  <2>1. ToldTrue(c)' /\ OwnTold(c)'
    BY <1>2, RunToldTrue, RunOwnTold
  <2>2. Signs(c)'
    <3>1. Signs(c)
      BY DEF KnowInv, Informed
    <3> QED
      BY <1>1, <1>2, <3>1 DEF Signs
  <2>3. \A a \in BindAliases :
          OneAtATime(c, a)' /\ Awaited(c, a)' /\ InOrder(c, a)' /\ Consistent(c, a)'
    BY <1>2, RunRequests, RunConsistent
  <2> QED
    BY <2>1, <2>2, <2>3 DEF Informed
<1>3. CASE goodbyes[ws(c)] = {}
  <2>1. Blank(c)'
    BY <1>3, RunBlank DEF Fresh
  <2>2. ASSUME NEW a \in BindAliases PROVE Requested(c, a)' = {} /\ Served(c, a)' = {}
    <3>1. Requested(c, a) = {} /\ Served(c, a) = {}
      BY <1>1, <1>3, NothingAsked
    <3>2. \A u \in Served(c, a)' : FALSE
      BY <1>1, <3>1, RunServed
    <3> QED
      BY <1>1, <3>1, <3>2 DEF Requested
  <2>3. ASSUME NEW a, NEW j \in goodbyes'[ws(c)] PROVE ~ Owner(j, a)'
    <3>1. t.at = "greet" /\ j = t.addr /\ t.addr \in IPAddresses
      <4>1. j \in IF t.at = "greet" /\ ws(c) = t.sock THEN goodbyes[ws(c)] \cup {t.addr}
                                                      ELSE goodbyes[ws(c)]
        BY <1>1, <2>3, RunSockets
      <4>2. t.at = "greet" => t.addr \in IPAddresses
        BY <1>1, RunSockets
      <4> QED
        BY <1>3, <4>1, <4>2
    <3>2. t.addr # NoAddress
      BY <3>1, AddressesAssumption DEF IPAddresses, NoAddress
    <3>3. ~ SP!Connected(t.addr)
      BY <1>1, <3>1, <3>2, SameData DEF IdInv, SP!PoliteInv, SP!IdsFresh
    <3>4. \A u \in tasks : u.at \notin SP!LeavePlaces
      BY <1>1, <3>1, KnockAlone DEF SP!KnockPlaces, SP!LeavePlaces
    <3>5. ~ Owner(t.addr, a)
      BY <1>1, <3>2, <3>3, <3>4, SameData
      DEF Owner, IdInv, TypeInv, SP!IInv, SP!OwnersKnown, SP!Present, SP!Departing, SP!Connected
    <3>6. aliases' = aliases
      BY <1>1, <3>1, RunOwners
    <3> QED
      BY <3>1, <3>5, <3>6 DEF Owner
  <2> QED
    BY <1>1, <2>1, <2>2, <2>3, BlankInformed
<1>4. goodbyes'[ws(c)] # goodbyes[ws(c)] => goodbyes[ws(c)] = {}
  <2>1. SUFFICES ASSUME t.at = "greet", t.sock = ws(c) PROVE goodbyes[ws(c)] = {}
    BY <1>1, RunSockets
  <2>2. ~ Admitted(c)
    BY <1>1, <2>1 DEF Admitted, SP!KnockPlaces
  <2> QED
    BY <1>1, <2>2 DEF IdInv, Identified, Asking, Knocking, Denied
<1> QED
  BY <1>2, <1>3, <1>4

----
\* What a step of the server registers is not being retracted.
LEMMA RunRemoved ==
  ASSUME KnowInv, NEW t, Runs(t)
  PROVE  Removed'
<1>1. IdInv /\ t \in tasks
  BY DEF KnowInv, Runs
<1> SUFFICES ASSUME NEW a \in DOMAIN aliases', NEW j \in Answers,
                    NEW u \in tasks', Leaves(u, j, a)
             PROVE  FALSE
  BY DEF Removed, Leaving, Leaves
<1>2. \A v \in tasks : Leaves(v, j, a) => a \notin DOMAIN aliases
  BY DEF KnowInv, Removed, Leaving
<1>3. CASE u \in tasks
  <2>1. a \notin DOMAIN aliases
    BY <1>2, <1>3
  <2>2. SP!Registers(t, a)
    BY <1>1, <2>1, RunOwners DEF Owner
  <2>3. t.at \in {"register", "lookup"}
    BY <2>2 DEF SP!Registers
  <2>4. t.data.op \in {"bind", "connect"}
    BY <1>1, <2>3, PlaceOps DEF SP!ConnectPlaces, SP!CreatedPlaces
  <2>5. tasks = {t}
    BY <1>1, <2>4, TaskFor
  <2> QED
    BY <1>3, <2>3, <2>5 DEF Leaves
<1>4. CASE u \notin tasks
  <2>1. SP!Continues(t, u)
    BY <1>1, <1>4, RunTasks
  <2>2. u.at \notin {"freePort", "expireHost"}
    BY <1>1, <1>4, RunRetracts DEF Leaves
  <2>3. t.at \in {"freePort", "freeHost", "expireHost", "expirePort"}
    BY <2>1, <2>2 DEF Leaves, SP!Continues, SP!Edges
  <2>4. u.data = t.data /\ aliases' = aliases
    BY <1>1, <2>1, <2>3, RunOwners DEF SP!Continues
  <2>5. Leaves(t, j, a)
    BY <2>3, <2>4 DEF Leaves
  <2> QED
    BY <1>1, <1>2, <2>4, <2>5
<1> QED
  BY <1>3, <1>4

\* The remote alias of a connect stays until the client is told of it, and the port
\* that a refused connect took is registered for nobody.
LEMMA RunConnectsServed ==
  ASSUME KnowInv, NEW t, Runs(t)
  PROVE  ConnectsServed'
<1>1. IdInv /\ t \in tasks
  BY DEF KnowInv, Runs
<1> SUFFICES ASSUME NEW u \in tasks', u.at \in {"confirm", "refuse"}
             PROVE  /\ u.at = "confirm" => Owner(u.owner, u.data.remoteAlias)'
                    /\ u.at = "refuse" => u.addr \notin DOMAIN aliases'
  BY DEF ConnectsServed, Owner
<1>2. u \notin tasks
  <2>1. SUFFICES ASSUME u \in tasks PROVE FALSE
    OBVIOUS
  <2>2. u.data.op = "connect"
    BY <1>1, <2>1, PlaceOps DEF SP!ConnectPlaces, SP!CreatedPlaces
  <2>3. tasks = {u}
    BY <1>1, <2>1, <2>2, TaskFor
  <2> QED
    BY <1>1, <2>3, RunTasks
<1>3. SP!Continues(t, u) /\ SP!Brings(t, u)
  BY <1>1, <1>2, RunTasks
<1>4. CASE u.at = "confirm"
  <2>1. t.at = "accept" /\ u.data = t.data /\ u.owner = t.owner
    BY <1>3, <1>4 DEF SP!Continues, SP!Brings, SP!Edges
  <2>2. SP!owns(t.owner, t.data.remoteAlias)
    BY <1>1, <2>1 DEF IdInv, SP!PoliteInv, SP!ConnectsTrue
  <2>3. aliases' = aliases
    BY <1>1, <2>1, RunOwners
  <2> QED
    BY <1>4, <2>1, <2>2, <2>3 DEF Owner, SP!owns
<1>5. CASE u.at = "refuse"
  <2>1. t.at = "undo" /\ u.addr = t.addr
    BY <1>3, <1>5 DEF SP!Continues, SP!Brings, SP!Edges
  <2>2. aliases' = aliases
    BY <1>1, <2>1, RunOwners
  <2>3. t.addr \notin DOMAIN aliases
    <3>1. SP!Holds(t, t.addr)
      BY <2>1 DEF SP!Holds
    <3>2. SUFFICES ASSUME t.addr \in DOMAIN aliases PROVE FALSE
      OBVIOUS
    <3>3. t.addr \in SP!TCPAddresses
      BY <3>2 DEF IdInv, TypeInv, SP!IInv, SP!DataTyped, KnowInv
    <3> QED
      BY <1>1, <3>1, <3>2, <3>3 DEF IdInv, SP!PoliteInv, SP!PortsHeld
  <2> QED
    BY <1>5, <2>1, <2>2, <2>3
<1> QED
  BY <1>4, <1>5

LEMMA RunOwnersNamed ==
  ASSUME KnowInv, NEW t, Runs(t)
  PROVE  OwnersNamed'
<1>1. IdInv /\ t \in tasks /\ OwnersNamed
  BY DEF KnowInv, Runs
<1> SUFFICES ASSUME NEW a \in DOMAIN aliases', NEW i, i = aliases'[a].id PROVE i \in IPAddresses
  BY DEF OwnersNamed
<1>2. Owner(i, a)'
  BY DEF Owner
<1>3. Owner(i, a) => i \in IPAddresses
  BY <1>1 DEF Owner, OwnersNamed
<1>4. SP!Registers(t, a) /\ i = t.data.id => i \in IPAddresses
  <2>1. SUFFICES ASSUME SP!Registers(t, a), i = t.data.id PROVE i \in IPAddresses
    OBVIOUS
  <2>2. t.at \in {"register", "lookup"}
    BY <2>1 DEF SP!Registers
  <2>3. t.data.op \in {"bind", "connect"}
    BY <1>1, <2>2, PlaceOps DEF SP!ConnectPlaces, SP!CreatedPlaces
  <2>4. i \in goodbyes[t.sock] /\ t.sock \in Sockets
    BY <1>1, <2>1, <2>3, TaskFor
  <2> QED
    BY <1>1, <2>4, SameData DEF IdInv, TypeInv, SP!IInv, SP!DataTyped
<1> QED
  BY <1>1, <1>2, <1>3, <1>4, RunOwners

LEMMA RunKeepsKnow ==
  ASSUME KnowInv, HostsReserved, Run
  PROVE  KnowInv'
<1>1. PICK t : Runs(t)
  BY RunRuns
<1>2. IdInv /\ \A c : ws(c)' = ws(c)
  BY <1>1 DEF KnowInv, Runs, ws
<1>3. IdInv'
  BY <1>2, RunKeepsIds
<1>4. Removed' /\ ConnectsServed' /\ OwnersNamed'
  BY <1>1, RunRemoved, RunConnectsServed, RunOwnersNamed
<1>5. ASSUME NEW c \in Clients, Fresh(c)' PROVE Fresh(c)
  <2>1. accepted' = accepted /\ UNCHANGED <<opens, state>>
    BY <1>1, <1>2, RunSockets DEF Runs
  <2>2. Steady(c) => ws(c) \in Sockets
    BY <1>2, SteadyFacts
  <2>3. ws(c) \in Sockets => goodbyes[ws(c)] \subseteq goodbyes'[ws(c)]
    <3>1. SP!IInv /\ t \in tasks /\ SP!Run(t)
      BY <1>1, <1>2 DEF Runs, IdInv, TypeInv
    <3> QED
      BY <3>1, RunKeepsSockets
  <2> QED
    BY <1>2, <1>5, <2>1, <2>2, <2>3 DEF Fresh, Steady
<1>6. ASSUME NEW c \in Clients, Steady(c)' PROVE Steady(c)
  BY <1>1, <1>2, <1>6, RunSockets DEF Steady, Runs
<1> QED
  BY <1>1, <1>3, <1>4, <1>5, <1>6, RunBlank, RunInforms DEF KnowInv

----
\* What a client was told stays so while nothing happens to aliases, and it is told
\* nothing.
LEMMA TablesStay ==
  ASSUME NEW c, ws(c)' = ws(c), goodbyes'[ws(c)] = goodbyes[ws(c)], aliases' = aliases,
         toClient'[ws(c)] = toClient[ws(c)], known'[c] = known[c],
         \A j, a : Leaving(j, a)' <=> Leaving(j, a)
  PROVE  /\ ToldTrue(c) => ToldTrue(c)'
         /\ OwnTold(c) => OwnTold(c)'
         /\ \A a : /\ Answered(c, a)' = Answered(c, a)
                   /\ Owned(c, a)' <=> Owned(c, a)
                   /\ Consistent(c, a) => Consistent(c, a)'
<1>1. \A a, j : Lately(c, a, j)' <=> Lately(c, a, j)
  BY NothingHeard
<1>2. \A a, j : Owner(j, a)' <=> Owner(j, a)
  BY DEF Owner
<1>3. ASSUME NEW a PROVE Answered(c, a)' = Answered(c, a)
  BY DEF Answered, AnswerTo
<1>4. ASSUME NEW a PROVE Owned(c, a)' <=> Owned(c, a)
  BY <1>2 DEF Owned
<1>5. ASSUME NEW a, Consistent(c, a) PROVE Consistent(c, a)'
  <2>1. /\ Reports(c, a)' = Reports(c, a)
        /\ \A k, j : Reported(c, a, k, j)' <=> Reported(c, a, k, j)
    BY NothingHeard
  <2>2. \A k : OwnReported(c, a, k)' <=> OwnReported(c, a, k)
    BY <2>1 DEF OwnReported
  <2> QED
    BY <1>3, <1>5, <2>1, <2>2 DEF Consistent
<1>6. ToldTrue(c) => ToldTrue(c)'
  BY <1>1, <1>2 DEF ToldTrue
<1>7. OwnTold(c) => OwnTold(c)'
  BY <1>1, <1>2 DEF OwnTold
<1> QED
  BY <1>3, <1>4, <1>5, <1>6, <1>7

\* A client to which nothing happens.
Untouched(b) ==
  /\ opens'[b] = opens[b] /\ state'[b] = state[b] /\ calls'[b] = calls[b] /\ known'[b] = known[b]
  /\ ws(b) \in Sockets => toClient'[ws(b)] = toClient[ws(b)]
  /\ Steady(b)' =>
       /\ Steady(b)
       /\ goodbyes'[ws(b)] = goodbyes[ws(b)] /\ toServer'[ws(b)] = toServer[ws(b)]

Knows(b) == (Fresh(b) => Blank(b)) /\ (Steady(b) => Informed(b))

LEMMA UntouchedKnows ==
  ASSUME KnowInv, NEW b \in Clients, Untouched(b), aliases' = aliases,
         \A j, a : Leaving(j, a)' <=> Leaving(j, a),
         \A a : Served(b, a)' = Served(b, a)
  PROVE  Knows(b)'
<1>1. IdInv /\ ws(b)' = ws(b) /\ Knows(b)
  BY DEF KnowInv, Untouched, ws, Knows
<1>2. ASSUME Fresh(b)' PROVE Blank(b)'
  <2>1. Fresh(b)
    BY <1>1, <1>2 DEF Fresh, Untouched
  <2>2. opens[b] = 1 => ws(b) \in Sockets
    BY <1>1, <2>1, FreshSilent
  <2> QED
    BY <1>1, <2>1, <2>2 DEF Blank, Untouched, Knows
<1>3. ASSUME Steady(b)' PROVE Informed(b)'
  <2>1. /\ Informed(b) /\ ws(b) \in Sockets
        /\ goodbyes'[ws(b)] = goodbyes[ws(b)] /\ toServer'[ws(b)] = toServer[ws(b)]
        /\ toClient'[ws(b)] = toClient[ws(b)] /\ known'[b] = known[b] /\ calls'[b] = calls[b]
    BY <1>1, <1>3, SteadyFacts DEF Untouched, Knows
  <2>2. /\ ToldTrue(b)' /\ OwnTold(b)'
        /\ \A a : /\ Answered(b, a)' = Answered(b, a)
                  /\ Owned(b, a)' <=> Owned(b, a)
                  /\ Consistent(b, a) => Consistent(b, a)'
    BY <1>1, <2>1, TablesStay DEF Informed
  <2>3. Signs(b)'
    BY <1>1, <2>1 DEF Informed, Signs
  <2>4. \A a : Requested(b, a)' = Requested(b, a)
    BY <1>1, <2>1 DEF Requested
  <2>5. \A op, a : Waits(b, op, a)' <=> Waits(b, op, a)
    BY <2>1 DEF Waits
  <2>6. ASSUME NEW a \in BindAliases
        PROVE  OneAtATime(b, a)' /\ Awaited(b, a)' /\ InOrder(b, a)' /\ Consistent(b, a)'
    <3>1. OneAtATime(b, a) /\ Awaited(b, a) /\ InOrder(b, a) /\ Consistent(b, a)
      BY <2>1 DEF Informed
    <3>2. OneAtATime(b, a)'
      BY <2>2, <2>4, <3>1 DEF OneAtATime
    <3>3. Awaited(b, a)'
      BY <1>1, <2>1, <2>2, <2>4, <2>5, <3>1 DEF Awaited
    <3>4. InOrder(b, a)'
      BY <1>1, <2>1, <2>2, <2>4, <3>1 DEF InOrder
    <3> QED
      BY <2>2, <3>1, <3>2, <3>3, <3>4
  <2> QED
    BY <2>2, <2>3, <2>6 DEF Informed
<1> QED
  BY <1>2, <1>3 DEF Knows

LEMMA QuietServer ==
  ASSUME KnowInv, aliases' = aliases, \A j, a : Leaving(j, a)' <=> Leaving(j, a),
         \A u \in tasks' : u \in tasks \/ u.at \notin {"confirm", "refuse"}
  PROVE  Removed' /\ ConnectsServed' /\ OwnersNamed'
<1>1. Removed'
  BY DEF KnowInv, Removed
<1>2. ConnectsServed'
  BY DEF KnowInv, ConnectsServed, Owner
<1>3. OwnersNamed'
  BY DEF KnowInv, OwnersNamed
<1> QED
  BY <1>1, <1>2, <1>3

LEMMA CloseKeepsKnow ==
  ASSUME KnowInv, NEW S \in SUBSET accepted, Close(S)
  PROVE  KnowInv'
<1>1. /\ SP!Close(S) /\ IdInv
      /\ toServer' = [s \in Sockets |-> IF s \in S THEN <<>> ELSE toServer[s]]
      /\ UNCHANGED <<opens, state, id, isConnected, calls, known, toClient>>
  BY SameTurns DEF Close, client, KnowInv
<1>2. /\ tasks = {} /\ accepted' = accepted \ S /\ aliases' = aliases
      /\ goodbyes' = [s \in Sockets |-> IF s \in S THEN {} ELSE goodbyes[s]]
  BY <1>1 DEF SP!Close
<1>3. \A u \in tasks' : u.at = "close" /\ u.data.op = "close"
  BY <1>1 DEF SP!Close, SP!Begin
<1>4. /\ \A j, a : Leaving(j, a)' <=> Leaving(j, a)
      /\ \A b, a : Served(b, a)' = Served(b, a)
  BY <1>2, <1>3 DEF Leaving, Leaves, Served, Asks
<1>5. ASSUME NEW b \in Clients PROVE Untouched(b)
  <2>1. ws(b)' = ws(b)
    BY <1>1 DEF ws
  <2>2. ASSUME Steady(b)'
        PROVE  /\ Steady(b)
               /\ goodbyes'[ws(b)] = goodbyes[ws(b)] /\ toServer'[ws(b)] = toServer[ws(b)]
    <3>1. Steady(b) /\ ws(b) \notin S
      BY <1>1, <1>2, <2>1, <2>2 DEF Steady
    <3>2. ws(b) \in Sockets
      BY <1>1, <3>1, SteadyFacts
    <3> QED
      BY <1>1, <1>2, <3>1, <3>2
  <2> QED
    BY <1>1, <2>2 DEF Untouched
<1>6. \A b \in Clients : Knows(b)'
  BY <1>2, <1>4, <1>5, UntouchedKnows
<1>7. Removed' /\ ConnectsServed' /\ OwnersNamed'
  BY <1>2, <1>3, <1>4, QuietServer
<1>8. IdInv'
  BY <1>1, CloseKeepsIds
<1> QED
  BY <1>6, <1>7, <1>8 DEF KnowInv, Knows

LEMMA ConnectionKeepsKnow ==
  ASSUME KnowInv, NEW c \in Clients, Connection(c)
  PROVE  KnowInv'
<1>1. /\ SP!Connection(ws(c)) /\ state[c] = "connecting" /\ IdInv
      /\ UNCHANGED <<opens, state, id, isConnected, calls, known, toServer, toClient, ended>>
  BY SameTurns DEF Connection, client, KnowInv
<1>2. /\ accepted' = accepted \cup {ws(c)}
      /\ UNCHANGED <<goodbyes, aliases, tasks>>
  BY <1>1 DEF SP!Connection, SP!addresses
<1>3. \A b : ws(b)' = ws(b)
  BY <1>1 DEF ws
<1>4. /\ \A j, a : Leaving(j, a)' <=> Leaving(j, a)
      /\ \A b, a : Served(b, a)' = Served(b, a)
  BY <1>2, <1>3 DEF Leaving, Leaves, Served
<1>5. ASSUME NEW b \in Clients PROVE Untouched(b)
  <2>1. Steady(b)' => Steady(b)
    <3>1. SUFFICES ASSUME Steady(b)' PROVE Steady(b)
      OBVIOUS
    <3>2. state[b] = "open" /\ opens[b] = 1
      BY <1>1, <3>1 DEF Steady
    <3>3. ws(b) # ws(c)
      BY <1>1, <3>2 DEF ws
    <3> QED
      BY <1>2, <1>3, <3>1, <3>2, <3>3 DEF Steady
  <2> QED
    BY <1>1, <1>2, <2>1 DEF Untouched
<1>6. \A b \in Clients : Knows(b)'
  BY <1>2, <1>4, <1>5, UntouchedKnows
<1>7. Removed' /\ ConnectsServed' /\ OwnersNamed'
  BY <1>2, <1>4, QuietServer
<1>8. IdInv'
  BY <1>1, ConnectionKeepsIds
<1> QED
  BY <1>6, <1>7, <1>8 DEF KnowInv, Knows

LEMMA StutterKeepsKnow ==
  ASSUME KnowInv, UNCHANGED vars
  PROVE  KnowInv'
<1>1. /\ UNCHANGED <<opens, state, id, isConnected, calls, known, toServer, toClient>>
      /\ UNCHANGED <<accepted, refused, goodbyes, clients, aliases, tasks, ended>>
      /\ IdInv
  BY DEF vars, client, server, KnowInv
<1>2. \A b : ws(b)' = ws(b)
  BY <1>1 DEF ws
<1>3. /\ \A j, a : Leaving(j, a)' <=> Leaving(j, a)
      /\ \A b, a : Served(b, a)' = Served(b, a)
  BY <1>1, <1>2 DEF Leaving, Leaves, Served
<1>4. \A b \in Clients : Untouched(b)
  BY <1>1, <1>2 DEF Untouched, Steady
<1>5. \A b \in Clients : Knows(b)'
  BY <1>1, <1>3, <1>4, UntouchedKnows
<1>6. Removed' /\ ConnectsServed' /\ OwnersNamed'
  BY <1>1, <1>3, QuietServer
<1>7. IdInv'
  BY <1>1, StutterKeepsIds
<1> QED
  BY <1>5, <1>6, <1>7 DEF KnowInv, Knows

----
LEMMA BesideQuiet ==
  ASSUME KnowInv, NEW step, Beside(step)
  PROVE  /\ tasks = {} /\ UNCHANGED <<accepted, refused, goodbyes, aliases, tasks>>
         /\ \A j, a : ~ Leaving(j, a) /\ ~ Leaving(j, a)'
         /\ \A b, a : Served(b, a) = {} /\ Served(b, a)' = {}
         /\ Removed' /\ ConnectsServed' /\ OwnersNamed'
<1>1. tasks = {} /\ UNCHANGED <<accepted, refused, goodbyes, aliases, tasks>>
  BY DEF Beside
<1>2. /\ \A j, a : ~ Leaving(j, a) /\ ~ Leaving(j, a)'
      /\ \A b, a : Served(b, a) = {} /\ Served(b, a)' = {}
  BY <1>1 DEF Leaving, Served
<1>3. Removed' /\ ConnectsServed' /\ OwnersNamed'
  BY <1>1, <1>2, QuietServer
<1> QED
  BY <1>1, <1>2, <1>3

LEMMA BesideOthers ==
  ASSUME KnowInv, NEW step, Beside(step), NEW b \in Clients,
         opens'[b] = opens[b], state'[b] = state[b], calls'[b] = calls[b], known'[b] = known[b],
         ws(b) \in Sockets => toServer'[ws(b)] = toServer[ws(b)] /\ toClient'[ws(b)] = toClient[ws(b)]
  PROVE  Knows(b)'
<1>1. /\ IdInv /\ ws(b)' = ws(b) /\ UNCHANGED <<accepted, goodbyes, aliases>>
      /\ \A j, a : Leaving(j, a)' <=> Leaving(j, a)
      /\ \A a : Served(b, a)' = Served(b, a)
  BY BesideQuiet DEF KnowInv, ws
<1>2. Steady(b)' => Steady(b)
  BY <1>1 DEF Steady
<1>3. Steady(b) => ws(b) \in Sockets
  BY <1>1, SteadyFacts
<1>4. Untouched(b)
  BY <1>1, <1>2, <1>3 DEF Untouched
<1> QED
  BY <1>1, <1>4, UntouchedKnows

LEMMA OpenKeepsKnow ==
  ASSUME KnowInv, NEW c \in Clients, Unasked(openClient(c))
  PROVE  KnowInv'
<1>1. Beside(openClient(c)) /\ openClient(c) /\ IdInv
  BY DEF Unasked, Beside, KnowInv
<1>2. /\ state[c] \in {"none", "closed"}
      /\ opens' = [opens EXCEPT ![c] = @ + 1]
      /\ state' = [state EXCEPT ![c] = "connecting"]
      /\ UNCHANGED <<id, isConnected, calls, known, toServer, toClient>>
  BY <1>1 DEF openClient
<1>3. IdInv' /\ Removed' /\ ConnectsServed' /\ OwnersNamed'
  BY <1>1, OpenKeepsIds, BesideQuiet
<1>4. /\ \A b \in Clients : opens[b] \in Nat /\ opens'[b] = IF b = c THEN opens[b] + 1 ELSE opens[b]
      /\ \A b \in Clients : state'[b] = IF b = c THEN "connecting" ELSE state[b]
  BY <1>1, <1>2 DEF IdInv, TypeInv, ClientTyped
<1>5. ASSUME NEW b \in Clients, b # c PROVE Knows(b)'
  BY <1>1, <1>2, <1>4, <1>5, BesideOthers
<1>6. Knows(c)'
  <2>1. ~ Steady(c)'
    BY <1>4 DEF Steady
  <2>2. ASSUME Fresh(c)' PROVE Blank(c)'
    <3>1. opens'[c] = 1 /\ opens[c] = 0
      BY <1>4, <2>1, <2>2 DEF Fresh
    <3>2. Blank(c)
      BY <3>1 DEF KnowInv, Fresh
    <3>3. toClient'[ws(c)'] = <<>>
      <4>1. ws(c)' \in Sockets /\ ws(c)' = <<c, 1>>
        BY <3>1, ClientAssumption DEF ws, Sockets
      <4>2. Unused(<<c, 1>>) /\ <<c, 1>> \in Sockets
        BY <3>1, <4>1 DEF Unused
      <4>3. toClient[<<c, 1>>] = <<>>
        BY <1>1, <4>2 DEF IdInv, UnusedSilent
      <4> QED
        BY <1>2, <4>1, <4>3
    <3> QED
      BY <1>2, <3>2, <3>3 DEF Blank, Held
  <2> QED
    BY <2>1, <2>2 DEF Knows
<1> QED
  BY <1>3, <1>5, <1>6 DEF KnowInv, Knows

LEMMA OpenedKeepsKnow ==
  ASSUME KnowInv, NEW c \in Clients, Unasked(Opened(c))
  PROVE  KnowInv'
<1> DEFINE m == Knock(subnetPrefix)
<1>1. Beside(Opened(c)) /\ Opened(c) /\ IdInv
  BY DEF Unasked, Beside, KnowInv
<1>2. /\ ws(c) \in accepted /\ state[c] = "connecting"
      /\ state' = [state EXCEPT ![c] = "open"]
      /\ toServer' = [toServer EXCEPT ![ws(c)] = Append(@, m)]
      /\ UNCHANGED <<opens, id, isConnected, calls, known, toClient>>
  BY <1>1 DEF Opened, handleConnect
<1>3. IdInv' /\ Removed' /\ ConnectsServed' /\ OwnersNamed'
  BY <1>1, OpenedKeepsIds, BesideQuiet
<1>4. ws(c) \in Sockets /\ \A b \in Clients : ws(b)' = ws(b)
  BY <1>1, <1>2, SocketOf DEF IdInv, TypeInv, ws
<1>5. \A b \in Clients : state'[b] = IF b = c THEN "open" ELSE state[b]
  BY <1>1, <1>2 DEF IdInv, TypeInv, ClientTyped
<1>6. \A s \in Sockets \ {ws(c)} : toServer'[s] = toServer[s]
  BY <1>2
<1>7. ASSUME NEW b \in Clients, b # c PROVE Knows(b)'
  <2>1. ws(b) # ws(c)
    BY <1>7 DEF ws
  <2> QED
    BY <1>1, <1>2, <1>5, <1>6, <1>7, <2>1, BesideOthers
<1>8. Knows(c)'
  <2>1. SUFFICES ASSUME opens[c] = 1 PROVE Knows(c)'
    BY <1>2, <1>5 DEF Knows, Fresh, Steady, Blank, KnowInv
  <2>2. Fresh(c) /\ Blank(c)
    BY <1>2, <2>1 DEF KnowInv, Fresh
  <2>3. Blank(c)'
    BY <1>2, <1>4, <2>2 DEF Blank
  <2>4. goodbyes[ws(c)] = {} /\ goodbyes' = goodbyes
    BY <1>1, <2>1, <2>2, FreshSilent, BesideQuiet
  <2>5. \A k \in DOMAIN toServer'[ws(c)] : toServer'[ws(c)][k].op = "knock"
    <3>1. Unused(ws(c))
      BY <1>2 DEF Unused, ws
    <3>2. toServer[ws(c)] = <<>>
      BY <1>1, <1>4, <3>1 DEF IdInv, UnusedSilent
    <3>3. toServer'[ws(c)] = <<m>>
      BY <1>1, <1>2, <1>4, <3>2 DEF IdInv, TypeInv, QueuesTyped
    <3>4. m.op = "knock"
      BY DEF Knock
    <3> HIDE DEF m
    <3> QED
      BY <3>3, <3>4
  <2>6. \A a : Requested(c, a)' = {} /\ Served(c, a)' = {}
    BY <1>1, <1>4, <2>5, BesideQuiet DEF Requested, Asks
  <2>7. Informed(c)'
    BY <1>2, <1>4, <2>1, <2>3, <2>4, <2>6, BlankInformed
  <2> QED
    BY <2>3, <2>7 DEF Knows
<1> QED
  BY <1>3, <1>7, <1>8 DEF KnowInv, Knows

LEMMA DisconnectedKeepsKnow ==
  ASSUME KnowInv, NEW c \in Clients, Unasked(Disconnected(c))
  PROVE  KnowInv'
<1>1. Beside(Disconnected(c)) /\ Disconnected(c) /\ IdInv
  BY DEF Unasked, Beside, KnowInv
<1>2. /\ state[c] \in {"connecting", "open"}
      /\ state' = [state EXCEPT ![c] = "closed"]
      /\ toClient' = [toClient EXCEPT ![ws(c)] = <<>>]
      /\ UNCHANGED <<opens, id, isConnected, calls, known, toServer>>
  BY <1>1 DEF Disconnected, handleDisconnect
<1>3. IdInv' /\ Removed' /\ ConnectsServed' /\ OwnersNamed'
  BY <1>1, DisconnectedKeepsIds, BesideQuiet
<1>4. \A b \in Clients : state'[b] = IF b = c THEN "closed" ELSE state[b]
  BY <1>1, <1>2 DEF IdInv, TypeInv, ClientTyped
<1>5. ASSUME NEW b \in Clients, b # c PROVE Knows(b)'
  <2>1. ws(b) # ws(c)
    BY <1>5 DEF ws
  <2>2. ws(b) \in Sockets => toServer'[ws(b)] = toServer[ws(b)] /\ toClient'[ws(b)] = toClient[ws(b)]
    BY <1>1, <1>2, <2>1 DEF IdInv, TypeInv, QueuesTyped
  <2>3. /\ opens'[b] = opens[b] /\ state'[b] = state[b]
        /\ calls'[b] = calls[b] /\ known'[b] = known[b]
    BY <1>2, <1>4, <1>5
  <2> QED
    BY <1>1, <2>2, <2>3, BesideOthers
<1>6. Knows(c)'
  <2>1. opens[c] # 0
    BY <1>1, <1>2 DEF IdInv, TypeInv, ClientTyped
  <2> QED
    BY <1>2, <1>4, <2>1 DEF Knows, Fresh, Steady
<1> QED
  BY <1>3, <1>5, <1>6 DEF KnowInv, Knows

----
\* A request of a client is served.
LEMMA ReceiveInforms ==
  ASSUME KnowInv, NEW s, Receive(s), NEW c \in Clients, Steady(c), ws(c) = s,
         NEW u, NEW m, m = Head(toServer[s]), u.sock = s, u.at = m.op, u.data = m, tasks' = {u},
         NEW a \in BindAliases
  PROVE  OneAtATime(c, a)' /\ Awaited(c, a)' /\ InOrder(c, a)' /\ Consistent(c, a)'
<1> DEFINE q == toServer[s]
<1>1. /\ IdInv /\ tasks = {} /\ q # <<>>
      /\ toServer' = [toServer EXCEPT ![s] = Tail(q)]
      /\ UNCHANGED <<opens, state, id, isConnected, calls, known, toClient, ended>>
      /\ UNCHANGED <<accepted, refused, goodbyes, clients, aliases, subnets, members, ports>>
  BY Received DEF client, KnowInv
<1>2. /\ s \in Sockets /\ q \in Seq(SP!Data) /\ ws(c)' = s
      /\ OneAtATime(c, a) /\ Awaited(c, a) /\ InOrder(c, a) /\ Consistent(c, a)
  BY <1>1, SteadyFacts DEF KnowInv, Informed, ws
<1>3. toServer'[s] = Tail(q)
  BY <1>1, <1>2 DEF IdInv, TypeInv, QueuesTyped
<1>4. /\ m = q[1] /\ 1 \in DOMAIN q
      /\ \A k \in DOMAIN Tail(q) : k + 1 \in DOMAIN q /\ Tail(q)[k] = q[k + 1] /\ k + 1 # 1
      /\ DOMAIN Tail(q) \subseteq Nat
  <2>1. Tail(q) \in Seq(SP!Data)
    BY <1>1, <1>2, TailFacts
  <2> QED
    BY <1>1, <1>2, <2>1, TailFacts, SeqFacts
<1>5. /\ Requested(c, a) = {k \in DOMAIN q : Asks(q[k], a)}
      /\ Requested(c, a)' = {k \in DOMAIN Tail(q) : Asks(Tail(q)[k], a)}
      /\ \A k \in Requested(c, a)' : k + 1 \in Requested(c, a) /\ k + 1 # 1 /\ k \in Nat
      /\ \A k \in Requested(c, a)' : toServer'[ws(c)'][k] = q[k + 1]
      /\ Asks(m, a) => 1 \in Requested(c, a)
  <2>1. /\ Requested(c, a) = {k \in DOMAIN q : Asks(q[k], a)}
        /\ Requested(c, a)' = {k \in DOMAIN Tail(q) : Asks(Tail(q)[k], a)}
    BY <1>2, <1>3 DEF Requested
  <2> HIDE DEF q
  <2> QED
    BY <1>2, <1>3, <1>4, <2>1
<1>6. Served(c, a)' = IF Asks(m, a) THEN {u} ELSE {}
  BY <1>2 DEF Served
<1>7. /\ \A j, b : Leaving(j, b)' <=> Leaving(j, b)
  <2>1. m.op \in {"knock", "bind", "accepting", "shutdown", "connect"}
    <3>1. m \in Held(q)
      BY <1>1, <1>2, TailFacts
    <3>2. Asked(s, m)
      BY <1>1, <3>1, SteadyFacts
    <3> QED
      BY <3>2 DEF Asked, Knock
  <2> QED
    BY <1>1, <2>1 DEF Leaving, Leaves
<1>8. /\ Answered(c, a)' = Answered(c, a)
      /\ Owned(c, a)' <=> Owned(c, a)
      /\ Consistent(c, a)'
  BY <1>1, <1>2, <1>7, TablesStay
<1>9. \A op : Waits(c, op, a)' <=> Waits(c, op, a)
  BY <1>1 DEF Waits
<1> HIDE DEF q
<1>10. CASE Asks(m, a)
  <2>1. /\ Requested(c, a)' = {} /\ Answered(c, a)' = {} /\ Served(c, a)' = {u}
        /\ m.op \in {"bind", "shutdown"} /\ 1 \in Requested(c, a)
    BY <1>2, <1>5, <1>6, <1>8, <1>10 DEF OneAtATime, Asks
  <2>2. OneAtATime(c, a)'
    BY <2>1 DEF OneAtATime
  <2>3. /\ Waits(c, m.op, a) /\ ~ (Waits(c, "bind", a) /\ Waits(c, "shutdown", a))
        /\ m.op = "shutdown" <=> Owned(c, a)
    BY <1>2, <1>4, <2>1 DEF Awaited, InOrder, q
  <2>4. Awaited(c, a)'
    BY <1>9, <2>1, <2>3 DEF Awaited
  <2>5. InOrder(c, a)'
    BY <1>8, <2>1, <2>3 DEF InOrder
  <2> QED
    BY <1>8, <2>2, <2>4, <2>5
<1>11. CASE ~ Asks(m, a)
  <2>1. Served(c, a)' = {} /\ (Requested(c, a)' # {} => Requested(c, a) # {})
    BY <1>5, <1>6, <1>11
  <2>2. \A k, l \in Requested(c, a)' : k = l
    <3> SUFFICES ASSUME NEW k \in Requested(c, a)', NEW l \in Requested(c, a)' PROVE k = l
      OBVIOUS
    <3>1. k + 1 = l + 1 /\ k \in Nat /\ l \in Nat
      BY <1>2, <1>5 DEF OneAtATime
    <3> QED
      BY <3>1
  <2>3. OneAtATime(c, a)'
    BY <1>2, <1>8, <2>1, <2>2 DEF OneAtATime
  <2>4. /\ \A k \in Requested(c, a) : Waits(c, q[k].op, a)
        /\ \A k \in Requested(c, a) : q[k].op = "shutdown" <=> Owned(c, a)
    BY <1>2 DEF Awaited, InOrder, q
  <2>5. Awaited(c, a)'
    <3>1. \A k \in Requested(c, a)' : toServer'[ws(c)'][k] = q[k + 1] /\ Waits(c, q[k + 1].op, a)
      BY <1>5, <2>4
    <3>2. \A k \in Answered(c, a)' : toClient'[ws(c)'][k] = toClient[ws(c)][k]
      BY <1>1, <1>2
    <3> QED
      BY <1>2, <1>8, <1>9, <2>1, <3>1, <3>2 DEF Awaited
  <2>6. InOrder(c, a)'
    <3>1. \A k \in Requested(c, a)' : toServer'[ws(c)'][k].op = "shutdown" <=> Owned(c, a)'
      BY <1>5, <1>8, <2>4
    <3> QED
      BY <2>1, <3>1 DEF InOrder
  <2> QED
    BY <1>8, <2>3, <2>5, <2>6
<1> QED
  BY <1>10, <1>11

LEMMA ReceiveKeepsKnow ==
  ASSUME KnowInv, HostsDistinct, NEW s, Receive(s)
  PROVE  KnowInv'
<1> DEFINE m == Head(toServer[s])
           u == SP!Begin(1, s, m.op, m)
<1>1. /\ IdInv /\ tasks = {} /\ tasks' = {u} /\ s \in accepted /\ toServer[s] # <<>>
      /\ toServer' = [toServer EXCEPT ![s] = Tail(@)]
      /\ UNCHANGED <<opens, state, id, isConnected, calls, known, toClient, ended>>
      /\ UNCHANGED <<accepted, refused, goodbyes, clients, aliases, subnets, members, ports>>
  BY Received DEF client, KnowInv
<1>2. IdInv'
  BY <1>1, ReceiveKeepsIds
<1>3. u.sock = s /\ u.at = m.op /\ u.data = m
  BY DEF SP!Begin
<1> HIDE DEF u
<1>4. s \in Sockets /\ \A r \in Sockets \ {s} : toServer'[r] = toServer[r]
  BY <1>1 DEF IdInv, TypeInv, SP!IInv, SP!DataTyped, QueuesTyped
<1>5. m.op \in {"knock", "bind", "accepting", "shutdown", "connect"}
  <2>1. toServer[s] \in Seq(SP!Data)
    BY <1>1, <1>4 DEF IdInv, TypeInv, QueuesTyped
  <2>2. m \in Held(toServer[s])
    BY <1>1, <2>1, TailFacts
  <2>3. Asked(s, m)
    BY <1>1, <2>2 DEF IdInv, AskedKinds
  <2> QED
    BY <2>3 DEF Asked, Knock
<1>6. \A j, a : Leaving(j, a)' <=> Leaving(j, a)
  BY <1>1, <1>3, <1>5 DEF Leaving, Leaves
<1>7. Removed' /\ ConnectsServed' /\ OwnersNamed'
  <2>1. \A v \in tasks' : v.at \notin {"confirm", "refuse"}
    BY <1>1, <1>3, <1>5
  <2> QED
    BY <1>1, <1>6, <2>1, QuietServer
<1>8. \A b : ws(b)' = ws(b)
  BY <1>1 DEF ws
<1>9. ASSUME NEW b \in Clients, ws(b) # s \/ ~ Steady(b) PROVE Knows(b)'
  <2>1. Steady(b)' => Steady(b) /\ ws(b) \in Sockets
    BY <1>1, <1>8, SteadyFacts DEF Steady
  <2>2. Untouched(b)
    BY <1>1, <1>4, <1>9, <2>1 DEF Untouched
  <2>3. ws(b) # s => \A a : Served(b, a)' = Served(b, a)
    BY <1>1, <1>3, <1>8 DEF Served
  <2>4. CASE ws(b) # s
    BY <1>1, <1>6, <2>2, <2>3, <2>4, UntouchedKnows
  <2>5. CASE ~ Steady(b)
    <3>1. ~ Steady(b)'
      BY <2>1, <2>5
    <3>2. Fresh(b)' => Fresh(b)
      BY <1>1, <3>1 DEF Fresh
    <3> QED
      BY <1>1, <1>8, <3>1, <3>2 DEF Knows, KnowInv, Blank
  <2> QED
    BY <1>9, <2>4, <2>5
<1>10. ASSUME NEW c \in Clients, ws(c) = s, Steady(c) PROVE Knows(c)'
  <2>1. Informed(c) /\ ws(c)' = ws(c)
    BY <1>8, <1>10 DEF KnowInv
  <2>2. ToldTrue(c)' /\ OwnTold(c)'
    BY <1>1, <1>6, <2>1, TablesStay DEF Informed
  <2>3. Signs(c)'
    BY <1>1, <2>1 DEF Informed, Signs
  <2>4. \A a \in BindAliases :
          OneAtATime(c, a)' /\ Awaited(c, a)' /\ InOrder(c, a)' /\ Consistent(c, a)'
    BY <1>1, <1>3, <1>10, ReceiveInforms
  <2>5. Informed(c)'
    BY <2>2, <2>3, <2>4 DEF Informed
  <2>6. Fresh(c)' => Blank(c)'
    <3>1. Fresh(c)' => Fresh(c)
      BY <1>1, <2>1 DEF Fresh, Steady
    <3> QED
      BY <1>1, <2>1, <3>1 DEF KnowInv, Blank
  <2> QED
    BY <2>5, <2>6 DEF Knows
<1>11. \A c \in Clients : Knows(c)'
  BY <1>9, <1>10
<1> QED
  BY <1>2, <1>7, <1>11 DEF KnowInv, Knows

----
\* A message ends the binds and the shutdowns that wait for it, and leaves the others.
LEMMA NotifyKeeps ==
  ASSUME ClientTyped, NEW c \in Clients, NEW m, notify(c, m),
         NEW call, call.op \in {"bind", "shutdown"}
  PROVE  call \in calls'[c] <=> call \in calls[c] /\ ~ waitsFor(c, call, m)
<1>1. /\ calls[c] \subseteq Calls
      /\ calls'[c] = {IF waitsFor(c, x, m) THEN counted(x, m) ELSE x : x \in calls[c] \ settled(c, m)}
  BY DEF ClientTyped, notify
<1>2. ASSUME NEW x \in calls[c] \ settled(c, m), waitsFor(c, x, m)
      PROVE  counted(x, m).op = "connect"
  <2>1. x.op = "connect" /\ x \in Calls
    BY <1>1, <1>2, NotifyFacts
  <2> QED
    BY <2>1 DEF counted, Calls
<1>3. call \in settled(c, m) <=> call \in calls[c] /\ waitsFor(c, call, m)
  BY DEF settled, goesOn
<1>4. ASSUME call \in calls'[c] PROVE call \in calls[c] /\ ~ waitsFor(c, call, m)
  <2>1. PICK x \in calls[c] \ settled(c, m) :
          call = IF waitsFor(c, x, m) THEN counted(x, m) ELSE x
    BY <1>1, <1>4
  <2>2. ~ waitsFor(c, x, m)
    BY <1>2, <2>1
  <2> QED
    BY <2>1, <2>2
<1>5. ASSUME call \in calls[c], ~ waitsFor(c, call, m) PROVE call \in calls'[c]
  <2>1. call \in calls[c] \ settled(c, m)
    BY <1>3, <1>5
  <2>2. call = IF waitsFor(c, call, m) THEN counted(call, m) ELSE call
    BY <1>5
  <2> QED
    BY <1>1, <2>1, <2>2
<1> QED
  BY <1>4, <1>5

\* What the client does with a message to its calls and to its table.
EndsBy(c, m) ==
  \A call : call.op \in {"bind", "shutdown"} =>
    (call \in calls'[c] <=>
       call \in calls[c] /\ ~ (m.op \in {"alias", "accept"} /\ waitsFor(c, call, m)))

Notes(c, m) ==
  /\ m.op # "alias" => known'[c] = known[c]
  /\ m.op = "alias" =>
       /\ DOMAIN known'[c] = IF m.set THEN DOMAIN known[c] \cup {m.alias}
                                      ELSE DOMAIN known[c] \ {m.alias}
       /\ \A a \in DOMAIN known'[c] :
            known'[c][a] = IF a = m.alias THEN m.id ELSE known[c][a]

LEMMA OperationFacts ==
  ASSUME IdInv, NEW c \in Clients, Unasked(handleOperation(c)), NEW m, m = Head(toClient[ws(c)])
  PROVE  /\ state[c] = "open" /\ toClient[ws(c)] # <<>> /\ toClient[ws(c)] \in Seq(Messages)
         /\ ws(c) \in Sockets /\ m \in Messages
         /\ toClient'[ws(c)] = Tail(toClient[ws(c)])
         /\ UNCHANGED <<opens, state, toServer>>
         /\ \A b \in Clients \ {c} : calls'[b] = calls[b] /\ known'[b] = known[b]
         /\ \A s \in Sockets \ {ws(c)} : toClient'[s] = toClient[s]
         /\ EndsBy(c, m) /\ Notes(c, m)
         /\ calls[c] = {} => calls'[c] = {}
<1>1. /\ state[c] = "open" /\ toClient[ws(c)] # <<>>
      /\ toClient' = [toClient EXCEPT ![ws(c)] = Tail(@)]
      /\ UNCHANGED <<opens, state, toServer>>
      /\ \/ m.op = "alias" /\ notify(c, m) /\ handleAlias(c, m)
         \/ m.op = "accept" /\ notify(c, m) /\ known' = known
         \/ m.op \notin {"alias", "accept"} /\ calls' = calls /\ known' = known
  BY DEF Unasked, Beside, handleOperation
<1>2. /\ ws(c) \in Sockets /\ ClientTyped /\ QueuesTyped /\ toClient[ws(c)] \in Seq(Messages)
  BY <1>1, SocketOf DEF IdInv, TypeInv, QueuesTyped
<1>3. m \in Messages /\ toClient'[ws(c)] = Tail(toClient[ws(c)])
  BY <1>1, <1>2, TailFacts DEF QueuesTyped
<1>4. \A s \in Sockets \ {ws(c)} : toClient'[s] = toClient[s]
  BY <1>1, <1>2 DEF QueuesTyped
<1>5. ASSUME notify(c, m)
      PROVE  /\ \A b \in Clients \ {c} : calls'[b] = calls[b]
             /\ calls[c] = {} => calls'[c] = {}
             /\ \A call : call.op \in {"bind", "shutdown"} =>
                  (call \in calls'[c] <=> call \in calls[c] /\ ~ waitsFor(c, call, m))
  <2>1. \A b \in Clients \ {c} : calls'[b] = calls[b]
    BY <1>2, <1>5 DEF notify, ClientTyped
  <2>2. calls[c] = {} => calls'[c] = {}
    BY <1>2, <1>5 DEF notify, ClientTyped
  <2> QED
    BY <1>2, <1>5, <2>1, <2>2, NotifyKeeps
<1>6. /\ \A b \in Clients \ {c} : calls'[b] = calls[b]
      /\ calls[c] = {} => calls'[c] = {}
      /\ \A call : call.op \in {"bind", "shutdown"} =>
           (call \in calls'[c] <=>
              call \in calls[c] /\ ~ (m.op \in {"alias", "accept"} /\ waitsFor(c, call, m)))
  BY <1>1, <1>5
<1>7. /\ \A b \in Clients \ {c} : known'[b] = known[b]
      /\ m.op # "alias" => known'[c] = known[c]
      /\ m.op = "alias" =>
           /\ DOMAIN known'[c] = IF m.set THEN DOMAIN known[c] \cup {m.alias}
                                          ELSE DOMAIN known[c] \ {m.alias}
           /\ \A a \in DOMAIN known'[c] :
                known'[c][a] = IF a = m.alias THEN m.id ELSE known[c][a]
  BY <1>1, <1>2, <1>3, TablesTyped
<1>8. EndsBy(c, m)
  BY <1>6 DEF EndsBy
<1>9. Notes(c, m)
  BY <1>7 DEF Notes
<1> QED
  BY <1>1, <1>2, <1>3, <1>4, <1>6, <1>7, <1>8, <1>9

LEMMA OperationInforms ==
  ASSUME KnowInv, NEW c \in Clients, Unasked(handleOperation(c)), Steady(c)
  PROVE  Informed(c)'
<1> DEFINE q == toClient[ws(c)]
<1>1. PICK m : m = Head(q)
  OBVIOUS
<1>2. /\ IdInv /\ Informed(c) /\ Beside(handleOperation(c))
  BY DEF KnowInv, Unasked, Beside
<1>3. /\ q # <<>> /\ q \in Seq(Messages) /\ ws(c) \in Sockets /\ m \in Messages
      /\ toClient'[ws(c)] = Tail(q)
      /\ UNCHANGED <<opens, state, toServer>>
      /\ EndsBy(c, m) /\ Notes(c, m)
  BY <1>1, <1>2, OperationFacts
<1>4. /\ UNCHANGED <<goodbyes, aliases>> /\ ws(c)' = ws(c)
      /\ \A j, a : ~ Leaving(j, a) /\ ~ Leaving(j, a)'
      /\ \A a : Served(c, a) = {} /\ Served(c, a)' = {}
  BY <1>2, <1>3, BesideQuiet DEF ws
<1>5. ASSUME NEW a
      PROVE  /\ \A k \in Reports(c, a)' :
                  /\ k \in Nat /\ Before(k, About(m, a)) \in Nat
                  /\ Before(k, About(m, a)) \in Reports(c, a)
                  /\ \A j : Reported(c, a, k, j)' <=> Reported(c, a, Before(k, About(m, a)), j)
             /\ \A k, l \in Reports(c, a)' :
                  k < l <=> Before(k, About(m, a)) < Before(l, About(m, a))
             /\ \A j : Lately(c, a, j)' <=> Lately(c, a, j)
  <2>1. /\ ~ About(m, a) => /\ a \in DOMAIN known'[c] <=> a \in DOMAIN known[c]
                            /\ a \in DOMAIN known[c] => known'[c][a] = known[c][a]
        /\ About(m, a) => /\ a \in DOMAIN known'[c] <=> m.set
                          /\ m.set => known'[c][a] = m.id
    BY <1>3 DEF Notes, About
  <2> QED
    BY <1>1, <1>3, <1>4, <2>1, MovesUp
<1>6. \A a, j : Owner(j, a)' <=> Owner(j, a)
  BY <1>4 DEF Owner
<1>7. ToldTrue(c)' /\ OwnTold(c)'
  <2>1. ToldTrue(c)'
    BY <1>2, <1>4, <1>5, <1>6 DEF Informed, ToldTrue
  <2>2. OwnTold(c)'
    BY <1>2, <1>4, <1>5, <1>6 DEF Informed, OwnTold
  <2> QED
    BY <2>1, <2>2
<1>8. Signs(c)'
  BY <1>2, <1>3, <1>4 DEF Informed, Signs, EndsBy
<1>9. /\ m = q[1] /\ 1 \in DOMAIN q
      /\ \A k \in DOMAIN Tail(q) : k + 1 \in DOMAIN q /\ Tail(q)[k] = q[k + 1] /\ k + 1 # 1
      /\ \A k \in DOMAIN q : k # 1 => k - 1 \in DOMAIN Tail(q) /\ Tail(q)[k - 1] = q[k]
      /\ DOMAIN q \subseteq Nat \ {0} /\ DOMAIN Tail(q) \subseteq Nat \ {0}
  <2>1. Tail(q) \in Seq(Messages)
    BY <1>3, TailFacts
  <2> QED
    BY <1>1, <1>3, <2>1, TailFacts, SeqFacts
<1>10. ASSUME NEW a \in BindAliases
       PROVE  OneAtATime(c, a)' /\ Awaited(c, a)' /\ InOrder(c, a)' /\ Consistent(c, a)'
  <2>1. OneAtATime(c, a) /\ Awaited(c, a) /\ InOrder(c, a) /\ Consistent(c, a)
    BY <1>2 DEF Informed
  <2>2. \A y : AnswerTo(c, y, a)' <=> AnswerTo(c, y, a)
    BY <1>4 DEF AnswerTo
  <2>3. /\ Answered(c, a) = {k \in DOMAIN q : AnswerTo(c, q[k], a)}
        /\ Answered(c, a)' = {k \in DOMAIN Tail(q) : AnswerTo(c, Tail(q)[k], a)}
    BY <1>3, <1>4, <2>2 DEF Answered
  <2>4. /\ \A k \in Answered(c, a)' : /\ k + 1 \in Answered(c, a) /\ k \in Nat \ {0}
                                      /\ toClient'[ws(c)'][k] = q[k + 1]
        /\ \A k \in Answered(c, a) : k # 1 => k \in Nat /\ k - 1 \in Answered(c, a)'
        /\ 1 \in Answered(c, a) <=> AnswerTo(c, m, a)
    <3>1. toClient'[ws(c)'] = Tail(q)
      BY <1>3, <1>4
    <3> HIDE DEF q
    <3> QED
      BY <1>9, <2>3, <3>1
  <2>5. Requested(c, a)' = Requested(c, a) /\ (Owned(c, a)' <=> Owned(c, a))
    <3>1. Requested(c, a)' = Requested(c, a)
      BY <1>3, <1>4 DEF Requested
    <3>2. Owned(c, a)' <=> Owned(c, a)
      BY <1>4, <1>6 DEF Owned
    <3> QED
      BY <3>1, <3>2
  <2>6. InOrder(c, a)'
    BY <1>3, <1>4, <2>1, <2>5 DEF InOrder
  <2>7. \A op \in {"bind", "shutdown"} : Waits(c, op, a)' => Waits(c, op, a)
    BY <1>3 DEF Waits, EndsBy
  <2>8. \A k \in Reports(c, a)' :
          OwnReported(c, a, k)' <=> OwnReported(c, a, Before(k, About(m, a)))
    BY <1>4, <1>5 DEF OwnReported
  <2> DEFINE before(k) == Before(k, About(m, a))
  <2>9. \A k \in Reports(c, a)' : /\ k \in Nat /\ before(k) \in Nat
                                  /\ before(k) \in Reports(c, a)
                                  /\ OwnReported(c, a, k)' <=> OwnReported(c, a, before(k))
    BY <1>5, <2>8
  <2>10. \A k, l \in Reports(c, a)' : k < l => before(k) < before(l)
    BY <1>5
  <2>11. CASE AnswerTo(c, m, a)
    <3>1. Answered(c, a)' = {} /\ Requested(c, a) = {}
      <4>1. ASSUME NEW k \in Answered(c, a)' PROVE FALSE
        BY <2>1, <2>4, <2>11, <4>1 DEF OneAtATime
      <4> QED
        BY <2>1, <2>4, <2>11, <4>1 DEF OneAtATime
    <3>2. OneAtATime(c, a)'
      BY <1>4, <2>5, <3>1 DEF OneAtATime
    <3>3. Awaited(c, a)'
      BY <1>4, <2>1, <2>5, <2>7, <3>1 DEF Awaited
    <3>4. Consistent(c, a)'
      <4> SUFFICES ASSUME NEW k \in Reports(c, a)', NEW l \in Reports(c, a)', k < l
                   PROVE  OwnReported(c, a, k)' <=> OwnReported(c, a, l)'
        BY DEF Consistent
      <4>1. before(k) < before(l) /\ before(k) >= 1
        BY <2>9, <2>10, <2>11 DEF Before, AnswerTo
      <4>2. ASSUME NEW n \in Answered(c, a) PROVE ~ (before(k) < n)
        <5>1. n = 1
          BY <2>1, <2>4, <2>11 DEF OneAtATime
        <5> QED
          BY <2>9, <4>1, <5>1
      <4>3. OwnReported(c, a, before(k)) <=> OwnReported(c, a, before(l))
        BY <2>1, <2>9, <4>1, <4>2 DEF Consistent
      <4> QED
        BY <2>9, <4>3
    <3> QED
      BY <2>6, <3>2, <3>3, <3>4
  <2>12. CASE ~ AnswerTo(c, m, a)
    <3>1. 1 \notin Answered(c, a)
      BY <2>4, <2>12
    <3>2. \A op \in {"bind", "shutdown"} : Waits(c, op, a)' <=> Waits(c, op, a)
      <4>1. ASSUME NEW call \in calls[c], call.op \in {"bind", "shutdown"}, call.alias = a
            PROVE  call \in calls'[c]
        <5>1. call.id \in goodbyes[ws(c)]
          BY <1>2, <4>1 DEF Informed, Signs
        <5>2. ~ waitsFor(c, call, m)
          BY <2>12, <4>1, <5>1 DEF waitsFor, AnswerTo, About
        <5> QED
          BY <1>3, <4>1, <5>2 DEF EndsBy
      <4> QED
        BY <2>7, <4>1 DEF Waits
    <3>3. \A k, l \in Answered(c, a)' : k = l
      <4> SUFFICES ASSUME NEW k \in Answered(c, a)', NEW l \in Answered(c, a)' PROVE k = l
        OBVIOUS
      <4>1. k + 1 = l + 1 /\ k \in Nat /\ l \in Nat
        BY <2>1, <2>4 DEF OneAtATime
      <4> QED
        BY <4>1
    <3>4. OneAtATime(c, a)'
      BY <1>4, <2>1, <2>4, <2>5, <3>3 DEF OneAtATime
    <3>5. Awaited(c, a)'
      <4>1. \A k \in Requested(c, a)' : toServer'[ws(c)'][k] = toServer[ws(c)][k]
        BY <1>3, <1>4
      <4>2. \A k \in Requested(c, a) : toServer[ws(c)][k].op \in {"bind", "shutdown"}
        BY DEF Requested, Asks
      <4>3. \A k \in Requested(c, a) : Waits(c, toServer[ws(c)][k].op, a)
        BY <2>1 DEF Awaited
      <4>4. \A k \in Answered(c, a)' :
              /\ Waits(c, "bind", a)' \/ Waits(c, "shutdown", a)'
              /\ Waits(c, "shutdown", a)' => ~ toClient'[ws(c)'][k].set
        BY <2>1, <2>4, <3>2 DEF Awaited
      <4> QED
        BY <1>3, <1>4, <2>1, <2>5, <3>2, <4>1, <4>2, <4>3, <4>4 DEF Awaited
    <3>6. Consistent(c, a)'
      <4> SUFFICES ASSUME NEW k \in Reports(c, a)', NEW l \in Reports(c, a)', k < l,
                          \A n \in Answered(c, a)' : ~ (k < n /\ n <= l)
                   PROVE  OwnReported(c, a, k)' <=> OwnReported(c, a, l)'
        BY DEF Consistent
      <4>1. k \in Nat /\ l \in Nat /\ before(l) = l + 1 /\ (before(k) = k + 1 \/ k = 0)
        BY <2>9 DEF Before
      <4>2. ASSUME NEW n \in Answered(c, a), before(k) < n, n <= before(l) PROVE FALSE
        <5>1. n - 1 \in Answered(c, a)' /\ n \in Nat /\ n - 1 # 0
          BY <2>4, <3>1
        <5>2. k < n - 1 /\ n - 1 <= l
          BY <2>4, <4>1, <4>2, <5>1
        <5> QED
          BY <5>1, <5>2
      <4>3. OwnReported(c, a, before(k)) <=> OwnReported(c, a, before(l))
        BY <2>1, <2>9, <2>10, <4>2 DEF Consistent
      <4> QED
        BY <2>9, <4>3
    <3> QED
      BY <2>6, <3>4, <3>5, <3>6
  <2> QED
    BY <2>11, <2>12
<1> QED
  BY <1>7, <1>8, <1>10 DEF Informed

LEMMA OperationKeepsKnow ==
  ASSUME KnowInv, NEW c \in Clients, Unasked(handleOperation(c))
  PROVE  KnowInv'
<1>1. PICK m : m = Head(toClient[ws(c)])
  OBVIOUS
<1>2. IdInv /\ Beside(handleOperation(c))
  BY DEF KnowInv, Unasked, Beside
<1>3. /\ state[c] = "open" /\ toClient[ws(c)] # <<>> /\ toClient[ws(c)] \in Seq(Messages)
      /\ ws(c) \in Sockets /\ toClient'[ws(c)] = Tail(toClient[ws(c)])
      /\ UNCHANGED <<opens, state, toServer>>
      /\ \A b \in Clients \ {c} : calls'[b] = calls[b] /\ known'[b] = known[b]
      /\ \A s \in Sockets \ {ws(c)} : toClient'[s] = toClient[s]
      /\ calls[c] = {} => calls'[c] = {}
      /\ Notes(c, m)
  BY <1>1, <1>2, OperationFacts
<1>4. /\ IdInv' /\ Removed' /\ ConnectsServed' /\ OwnersNamed'
      /\ UNCHANGED <<accepted, goodbyes>> /\ ws(c)' = ws(c)
  BY <1>2, <1>3, OperationKeepsIds, BesideQuiet DEF ws
<1>5. ASSUME NEW b \in Clients, b # c PROVE Knows(b)'
  <2>1. ws(b) # ws(c)
    BY <1>5 DEF ws
  <2>2. ws(b) \in Sockets => toServer'[ws(b)] = toServer[ws(b)] /\ toClient'[ws(b)] = toClient[ws(b)]
    BY <1>3, <2>1
  <2> QED
    BY <1>2, <1>3, <1>5, <2>2, BesideOthers
<1>6. Knows(c)'
  <2>1. /\ Fresh(c)' => Fresh(c)
        /\ Steady(c)' => Steady(c)
    BY <1>3, <1>4 DEF Fresh, Steady
  <2>2. ASSUME Fresh(c) PROVE Blank(c)'
    <3>1. Blank(c) /\ opens[c] = 1
      <4>1. opens[c] # 0
        BY <1>2, <1>3 DEF IdInv, TypeInv, ClientTyped
      <4> QED
        BY <2>2, <4>1 DEF KnowInv, Fresh, Steady
    <3>2. m.op # "alias" /\ Held(toClient'[ws(c)]) \subseteq Held(toClient[ws(c)])
      BY <1>1, <1>3, <3>1, TailFacts DEF Blank
    <3>3. known'[c] = known[c] /\ calls'[c] = {}
      BY <1>3, <3>1, <3>2 DEF Notes, Blank
    <3> QED
      BY <1>4, <3>1, <3>2, <3>3 DEF Blank
  <2> QED
    BY <2>1, <2>2, OperationInforms DEF Knows
<1> QED
  BY <1>4, <1>5, <1>6 DEF KnowInv, Knows

----
\* An orderly program asks for one thing at a time of an alias: to bind what it has
\* not, or to shut down what it has.
LEMMA ProgramAsks ==
  ASSUME Habits = {}, NEW c \in Clients, Beside(Program(c))
  PROVE  \E m, call :
           /\ \/ /\ call.op \in {"bind", "shutdown"} /\ m.op = call.op
                 /\ call.alias \in BindAliases /\ m.alias = call.alias
                 /\ call.id = id[c] /\ ~ closing(c, call.alias)
                 /\ call.op = "shutdown" <=> bound(c, call.alias)
              \/ call.op \notin {"bind", "shutdown"} /\ m.op \notin {"bind", "shutdown"}
           /\ Wait(c, call) /\ Send(c, m)
           /\ UNCHANGED <<opens, state, id, isConnected, known, toClient>>
<1>1. Program(c)
  BY DEF Beside
<1>2. PICK m, call :
           /\ \/ \E alias \in BindAliases :
                   /\ mayBind(c, alias)
                   /\ m = Request("bind", id[c], alias) /\ call = Call("bind", c, alias)
              \/ \E alias \in BindAliases :
                   /\ bound(c, alias) /\ ~ closing(c, alias)
                   /\ m = Request("accepting", id[c], alias) /\ call = Call("accept", c, alias)
              \/ \E alias \in DOMAIN known[c] :
                   /\ mayShutdown(c, alias)
                   /\ m = Request("shutdown", id[c], alias) /\ call = Call("shutdown", c, alias)
              \/ \E alias \in BindAliases :
                   m = Connect(id[c], alias, c) /\ call = Call("connect", c, alias)
           /\ Wait(c, call) /\ Send(c, m)
           /\ UNCHANGED <<opens, state, id, isConnected, known, toClient>>
  BY <1>1, ProgramCalls
<1>3. ASSUME NEW op, NEW alias
      PROVE  /\ Request(op, id[c], alias).op = op /\ Request(op, id[c], alias).alias = alias
             /\ Connect(id[c], alias, c).op = "connect"
             /\ Call(op, c, alias).op = op /\ Call(op, c, alias).alias = alias
             /\ Call(op, c, alias).id = id[c]
  BY DEF Request, Connect, Call
<1>4. /\ \A alias : mayBind(c, alias) => ~ closing(c, alias) /\ ~ bound(c, alias)
      /\ \A alias : mayShutdown(c, alias) =>
           ~ closing(c, alias) /\ bound(c, alias) /\ alias \in BindAliases
  BY DEF mayBind, mayShutdown
<1>5. \/ /\ call.op \in {"bind", "shutdown"} /\ m.op = call.op
         /\ call.alias \in BindAliases /\ m.alias = call.alias
         /\ call.id = id[c] /\ ~ closing(c, call.alias)
         /\ call.op = "shutdown" <=> bound(c, call.alias)
      \/ call.op \notin {"bind", "shutdown"} /\ m.op \notin {"bind", "shutdown"}
  BY <1>2, <1>3, <1>4
<1> QED
  BY <1>2, <1>5

LEMMA ProgramInforms ==
  ASSUME KnowInv, NEW c \in Clients, Steady(c), id[c] \in goodbyes[ws(c)],
         UNCHANGED <<opens, state, id, known, toClient, goodbyes, aliases>>,
         \A j, a : ~ Leaving(j, a) /\ ~ Leaving(j, a)',
         \A a : Served(c, a) = {} /\ Served(c, a)' = {},
         NEW m, NEW call,
         \/ /\ call.op \in {"bind", "shutdown"} /\ m.op = call.op
            /\ call.alias \in BindAliases /\ m.alias = call.alias
            /\ call.id = id[c] /\ ~ closing(c, call.alias)
            /\ call.op = "shutdown" <=> bound(c, call.alias)
         \/ call.op \notin {"bind", "shutdown"} /\ m.op \notin {"bind", "shutdown"},
         calls'[c] = calls[c] \cup {call},
         toServer'[ws(c)] = Append(toServer[ws(c)], m)
  PROVE  Informed(c)'
<1> DEFINE q == toServer[ws(c)]
<1>1. /\ IdInv /\ Informed(c) /\ ws(c)' = ws(c)
      /\ toClient[ws(c)] \in Seq(Messages)
      /\ \A i, j \in goodbyes[ws(c)] : i = j
  BY SteadyFacts DEF KnowInv, ws
<1>2. PICK n : n = Len(q) + 1
  OBVIOUS
<1>3. /\ DOMAIN Append(q, m) = DOMAIN q \cup {n} /\ n \notin DOMAIN q
      /\ \A k \in DOMAIN q : Append(q, m)[k] = q[k]
      /\ Append(q, m)[n] = m
  <2>1. q \in Seq(SP!Data \cup {m})
    BY <1>1, SteadyFacts
  <2> QED
    BY <1>2, <2>1, AppendFacts
<1>4. ToldTrue(c)' /\ OwnTold(c)'
  BY <1>1, TablesStay DEF Informed
<1>5. Signs(c)'
  BY <1>1 DEF Informed, Signs
<1>6. ASSUME NEW a \in BindAliases
      PROVE  OneAtATime(c, a)' /\ Awaited(c, a)' /\ InOrder(c, a)' /\ Consistent(c, a)'
  <2>1. OneAtATime(c, a) /\ Awaited(c, a) /\ InOrder(c, a) /\ Consistent(c, a)
    BY <1>1 DEF Informed
  <2>2. /\ Answered(c, a)' = Answered(c, a) /\ (Owned(c, a)' <=> Owned(c, a))
        /\ Consistent(c, a)'
    BY <1>1, <2>1, TablesStay
  <2>3. /\ Requested(c, a) = {k \in DOMAIN q : Asks(q[k], a)}
        /\ Requested(c, a)' = {k \in DOMAIN Append(q, m) : Asks(Append(q, m)[k], a)}
    BY <1>1 DEF Requested
  <2>4. \A op : Waits(c, op, a)' <=> Waits(c, op, a) \/ (call.op = op /\ call.alias = a)
    BY DEF Waits
  <2>5. toServer'[ws(c)'] = Append(q, m)
    BY <1>1
  <2>6. CASE Asks(m, a)
    <3>1. /\ call.op \in {"bind", "shutdown"} /\ m.op = call.op /\ call.alias = a
          /\ ~ closing(c, a) /\ (m.op = "shutdown" <=> bound(c, a))
      BY <2>6 DEF Asks
    <3>2. \A op : ~ Waits(c, op, a)
      BY <3>1 DEF Waits, closing
    <3>3. Requested(c, a) = {} /\ Answered(c, a) = {}
      BY <2>1, <3>2 DEF Awaited
    <3>4. Requested(c, a)' = {n}
      BY <1>3, <2>3, <2>6, <3>3
    <3>5. OneAtATime(c, a)'
      BY <2>2, <3>3, <3>4 DEF OneAtATime
    <3>6. \A op : Waits(c, op, a)' <=> m.op = op
      BY <2>4, <3>1, <3>2
    <3>7. Awaited(c, a)'
      <4>1. \A k \in Requested(c, a)' : toServer'[ws(c)'][k] = m
        BY <1>3, <2>5, <3>4
      <4>2. \A k \in Requested(c, a)' : Waits(c, m.op, a)'
        <5>1. PICK op : op = m.op
          OBVIOUS
        <5>2. Waits(c, op, a)'
          BY <3>6, <5>1
        <5>3. \E x \in calls'[c] : x.op = op /\ x.alias = a
          BY <5>2 DEF Waits
        <5> QED
          BY <5>1, <5>3 DEF Waits
      <4>3. \A k \in Requested(c, a)' : \E x \in calls'[c] : x.op = toServer'[ws(c)'][k].op /\ x.alias = a
        BY <3>1, <4>1
      <4>4. ~ (Waits(c, "bind", a)' /\ Waits(c, "shutdown", a)')
        BY <3>6
      <4>5. Answered(c, a)' = {} /\ Served(c, a)' = {}
        BY <2>2, <3>3
      <4>6. \A k \in Requested(c, a)' : Waits(c, toServer[ws(c)][k].op, a)'
        BY <4>3 DEF Waits
      <4> QED
        BY <4>4, <4>5, <4>6 DEF Awaited
    <3>8. bound(c, a) <=> Owned(c, a)
      <4>1. 0 \in Reports(c, a)
        BY <1>1, ReportsBounded
      <4>2. OwnReported(c, a, 0) <=> Owned(c, a)
        BY <1>1, <2>1, <3>3, <4>1, LastTrue DEF Informed
      <4>3. bound(c, a) <=> OwnReported(c, a, 0)
        BY <1>1 DEF bound, OwnReported, Reported
      <4> QED
        BY <4>2, <4>3
    <3>9. InOrder(c, a)'
      BY <1>3, <2>2, <2>5, <3>1, <3>4, <3>8 DEF InOrder
    <3> QED
      BY <2>2, <3>5, <3>7, <3>9
  <2>7. CASE ~ Asks(m, a)
    <3>1. /\ Requested(c, a)' = Requested(c, a)
          /\ \A k \in Requested(c, a) : k \in DOMAIN q /\ Append(q, m)[k] = q[k]
      BY <1>3, <2>3, <2>7
    <3>2. \A op \in {"bind", "shutdown"} : Waits(c, op, a)' <=> Waits(c, op, a)
      BY <2>4, <2>7 DEF Asks
    <3>3. OneAtATime(c, a)'
      BY <2>1, <2>2, <3>1 DEF OneAtATime
    <3>4. Awaited(c, a)'
      <4>1. \A k \in Requested(c, a)' : toServer'[ws(c)'][k] = q[k]
        BY <2>5, <3>1
      <4>2. \A k \in Requested(c, a) : q[k].op \in {"bind", "shutdown"}
        BY DEF Requested, Asks
      <4>3. \A k \in Requested(c, a) : Waits(c, q[k].op, a)
        BY <2>1 DEF Awaited
      <4>4. \A k \in Requested(c, a)' : \E x \in calls'[c] : x.op = toServer'[ws(c)'][k].op /\ x.alias = a
        BY <3>1, <4>1, <4>3 DEF Waits
      <4>5. \A k \in Answered(c, a)' :
              /\ Waits(c, "bind", a)' \/ Waits(c, "shutdown", a)'
              /\ Waits(c, "shutdown", a)' => ~ toClient'[ws(c)'][k].set
        BY <1>1, <2>1, <2>2, <3>2 DEF Awaited
      <4>6. ~ (Waits(c, "bind", a)' /\ Waits(c, "shutdown", a)')
        BY <2>1, <3>2 DEF Awaited
      <4>7. \A k \in Requested(c, a)' : Waits(c, toServer[ws(c)][k].op, a)'
        BY <4>4 DEF Waits
      <4> QED
        BY <4>5, <4>6, <4>7 DEF Awaited
    <3>5. InOrder(c, a)'
      <4>1. \A k \in Requested(c, a)' : toServer'[ws(c)'][k] = q[k]
        BY <2>5, <3>1
      <4> QED
        BY <2>1, <2>2, <3>1, <4>1 DEF InOrder
    <3> QED
      BY <2>2, <3>3, <3>4, <3>5
  <2> QED
    BY <2>6, <2>7
<1> QED
  BY <1>4, <1>5, <1>6 DEF Informed

LEMMA ProgramKeepsKnow ==
  ASSUME KnowInv, Habits = {}, NEW c \in Clients, Beside(Program(c))
  PROVE  KnowInv'
<1>1. IdInv /\ IdInv'
  BY ProgramKeepsIds DEF KnowInv
<1>2. /\ UNCHANGED <<accepted, refused, goodbyes, aliases, tasks>>
      /\ \A j, a : ~ Leaving(j, a) /\ ~ Leaving(j, a)'
      /\ \A a : Served(c, a) = {} /\ Served(c, a)' = {}
      /\ Removed' /\ ConnectsServed' /\ OwnersNamed'
  BY BesideQuiet
<1>3. /\ ws(c) \in Sockets /\ ws(c) \in accepted /\ id[c] \in goodbyes[ws(c)]
  BY <1>1, CallFacts DEF Program, Beside, IdInv
<1>4. PICK m, call :
        /\ \/ /\ call.op \in {"bind", "shutdown"} /\ m.op = call.op
              /\ call.alias \in BindAliases /\ m.alias = call.alias
              /\ call.id = id[c] /\ ~ closing(c, call.alias)
              /\ call.op = "shutdown" <=> bound(c, call.alias)
           \/ call.op \notin {"bind", "shutdown"} /\ m.op \notin {"bind", "shutdown"}
        /\ Wait(c, call) /\ Send(c, m)
        /\ UNCHANGED <<opens, state, id, isConnected, known, toClient>>
  BY ProgramAsks
<1>5. /\ calls'[c] = calls[c] \cup {call}
      /\ \A b \in Clients \ {c} : calls'[b] = calls[b]
  BY <1>1, <1>4 DEF Wait, IdInv, TypeInv, ClientTyped
<1>6. /\ state[c] = "open" => toServer'[ws(c)] = Append(toServer[ws(c)], m)
      /\ \A s \in Sockets \ {ws(c)} : toServer'[s] = toServer[s]
  BY <1>1, <1>3, <1>4 DEF Send, IdInv, TypeInv, QueuesTyped
<1>7. ws(c)' = ws(c)
  BY <1>4 DEF ws
<1>8. ASSUME NEW b \in Clients, b # c PROVE Knows(b)'
  <2>1. ws(b) # ws(c)
    BY <1>8 DEF ws
  <2>2. ws(b) \in Sockets => toServer'[ws(b)] = toServer[ws(b)] /\ toClient'[ws(b)] = toClient[ws(b)]
    BY <1>4, <1>6, <2>1
  <2> QED
    BY <1>4, <1>5, <1>8, <2>2, BesideOthers
<1>9. Knows(c)'
  <2>1. ~ Fresh(c)'
    <3>1. opens[c] # 0
      BY <1>3 DEF ws, Sockets
    <3>2. Fresh(c)' => Fresh(c)
      BY <1>2, <1>4, <1>7 DEF Fresh, Steady
    <3>3. Fresh(c) => opens[c] = 1
      BY <3>1 DEF Fresh, Steady
    <3> QED
      BY <1>1, <1>3, <3>2, <3>3, FreshSilent
  <2>2. Steady(c)' => Steady(c) /\ state[c] = "open"
    BY <1>2, <1>4, <1>7 DEF Steady
  <2>3. ASSUME Steady(c) PROVE Informed(c)'
    BY <1>2, <1>3, <1>4, <1>5, <1>6, <2>3, ProgramInforms DEF Steady
  <2> QED
    BY <2>1, <2>2, <2>3 DEF Knows
<1> QED
  BY <1>1, <1>2, <1>8, <1>9 DEF KnowInv, Knows

LEMMA InitKeepsKnow == Init => KnowInv
<1> SUFFICES ASSUME Init PROVE KnowInv
  OBVIOUS
<1>1. IdInv
  BY InitKeepsIds
<1>2. tasks = {} /\ DOMAIN aliases = {}
  BY SameTurns DEF Init, SP!Init
<1>3. /\ opens = [c \in Clients |-> 0] /\ calls = [c \in Clients |-> {}]
      /\ known = [c \in Clients |-> [alias \in {} |-> NoId]]
  BY DEF Init, ClientInit
<1>4. \A c \in Clients : Blank(c) /\ ~ Steady(c)
  BY <1>3 DEF Blank, Steady
<1>5. Removed /\ ConnectsServed /\ OwnersNamed
  BY <1>2 DEF Removed, ConnectsServed, OwnersNamed
<1> QED
  BY <1>1, <1>4, <1>5 DEF KnowInv

LEMMA NextKeepsKnow ==
  ASSUME Habits = {}, HostsDistinct
  PROVE  KnowInv /\ HostsReserved /\ [Next]_vars => KnowInv'
<1> SUFFICES ASSUME KnowInv, HostsReserved, [Next]_vars PROVE KnowInv'
  OBVIOUS
<1>1. SUFFICES ASSUME \/ Run
                      \/ \E c \in Clients : \/ Connection(c) \/ Unasked(openClient(c))
                                            \/ Unasked(Opened(c)) \/ Unasked(Disconnected(c))
                                            \/ Unasked(handleOperation(c))
                                            \/ Beside(Program(c))
                      \/ \E s \in accepted : Receive(s)
                      \/ \E S \in SUBSET accepted : Close(S)
                      \/ UNCHANGED vars
               PROVE  KnowInv'
  BY Steps
<1> QED
  BY <1>1, RunKeepsKnow, ConnectionKeepsKnow, OpenKeepsKnow, OpenedKeepsKnow,
     DisconnectedKeepsKnow, OperationKeepsKnow, ProgramKeepsKnow, ReceiveKeepsKnow,
     CloseKeepsKnow, StutterKeepsKnow

LEMMA KnowInvariance ==
  ASSUME Habits = {}, HostsDistinct
  PROVE  Spec /\ []HostsReserved => []KnowInv
<1>1. Init => KnowInv
  BY InitKeepsKnow
<1>2. KnowInv /\ HostsReserved /\ [Next]_vars => KnowInv'
  BY NextKeepsKnow
<1> QED
  BY <1>1, <1>2, PTL DEF Spec

\* A client that has not reconnected is in its first connection.
LEMMA StaysConnected ==
  ASSUME KnowInv, NEW c \in Clients, opens[c] = 1, state[c] = "open", ws(c) \notin ended
  PROVE  Steady(c) /\ Informed(c)
<1>1. ws(c) \in accepted
  BY DEF KnowInv, IdInv, Joined
<1>2. Steady(c)
  BY <1>1 DEF Steady
<1> QED
  BY <1>2 DEF KnowInv

LEMMA NothingOnTheWay ==
  ASSUME KnowInv, NEW c \in Clients, opens[c] = 1, settledDown(c)
  PROVE  /\ Steady(c) /\ Informed(c)
         /\ \A a, j : Lately(c, a, j) <=> a \in DOMAIN known[c] /\ known[c][a] = j
         /\ \A a, j : ~ Leaving(j, a)
         /\ id[c] = NoAddress \/ id[c] \in goodbyes[ws(c)]
<1>1. /\ tasks = {} /\ state[c] = "open" /\ ws(c) \notin ended
      /\ toServer[ws(c)] = <<>> /\ toClient[ws(c)] = <<>>
  BY DEF settledDown
<1>2. Steady(c) /\ Informed(c)
  BY <1>1, StaysConnected
<1>3. \A a, j : Lately(c, a, j) <=> a \in DOMAIN known[c] /\ known[c][a] = j
  <2>1. \A a : Reports(c, a) = {0}
    BY <1>1 DEF Reports
  <2> QED
    BY <2>1 DEF Lately, Reported
<1>4. \A a, j : ~ Leaving(j, a)
  BY <1>1 DEF Leaving
<1>5. id[c] = NoAddress \/ id[c] \in goodbyes[ws(c)]
  <2>1. Acks(ws(c)) = {}
    BY <1>1 DEF Acks, Held
  <2>2. Asking(c) \/ Knocking(c) \/ Denied(c) \/ Admitted(c)
    BY <1>1, <1>2 DEF KnowInv, IdInv, Identified, Steady
  <2>3. ~ Asking(c) /\ ~ Knocking(c)
    BY <1>1 DEF Asking, Knocking
  <2> QED
    BY <2>1, <2>2, <2>3 DEF Denied, Admitted, Granted
<1> QED
  BY <1>2, <1>3, <1>4, <1>5

LEMMA KnownIsOwned == KnowInv => NoStaleAlias
<1> SUFFICES ASSUME KnowInv, NEW c \in Clients, opens[c] = 1, settledDown(c),
                    NEW alias \in DOMAIN known[c]
             PROVE  Server!owns(known[c][alias], alias)
  BY DEF NoStaleAlias
<1>1. alias \in TCPAddresses /\ known[c][alias] \in Answers
  BY DEF KnowInv, IdInv, TypeInv, ClientTyped
<1>2. Informed(c) /\ Lately(c, alias, known[c][alias]) /\ ~ Leaving(known[c][alias], alias)
  BY NothingOnTheWay
<1>3. Owner(known[c][alias], alias)
  BY <1>1, <1>2 DEF Informed, ToldTrue
<1> QED
  BY <1>3 DEF Owner, Server!owns

LEMMA OwnedIsKnown == KnowInv => OwnAliasesKnown
<1> SUFFICES ASSUME KnowInv, NEW c \in Clients, opens[c] = 1, settledDown(c),
                    NEW alias \in DOMAIN aliases, aliases[alias].id = id[c]
             PROVE  bound(c, alias)
  BY DEF OwnAliasesKnown
<1>1. alias \in TCPAddresses
  BY SameData DEF KnowInv, IdInv, TypeInv, SP!IInv, SP!DataTyped
<1>2. Owner(id[c], alias)
  BY DEF Owner
<1>3. id[c] \in goodbyes[ws(c)]
  <2>1. id[c] # NoAddress
    BY AddressesAssumption DEF KnowInv, OwnersNamed, NoAddress, IPAddresses
  <2> QED
    BY <2>1, NothingOnTheWay
<1>4. Informed(c)
  BY NothingOnTheWay
<1>5. Lately(c, alias, id[c])
  BY <1>1, <1>2, <1>3, <1>4 DEF Informed, OwnTold
<1> QED
  BY <1>5, NothingOnTheWay DEF bound

\* THEOREM StaleAliasesRetracted: however the requests of orderly programs, the answers
\* to them, departures and expiries overlap, when nothing is under way the table of a
\* client that has not reconnected holds no alias that is gone or somebody else's.
THEOREM StaleAliasesRetracted ==
  ASSUME Habits = {}, HostsDistinct
  PROVE  Spec /\ []HostsReserved => []NoStaleAlias
  BY KnownIsOwned, KnowInvariance, PTL

\* THEOREM TablesAgreed: and it holds every alias the server has registered for the
\* client, so that for what concerns the client the two tables agree.
THEOREM TablesAgreed ==
  ASSUME Habits = {}, HostsDistinct
  PROVE  Spec /\ []HostsReserved => []TablesAgree
<1>1. KnowInv => TablesAgree
  BY KnownIsOwned, OwnedIsKnown DEF TablesAgree
<1> QED
  BY <1>1, KnowInvariance, PTL

\* A bind and a shutdown end with the alias as they say it is.
LEMMA EndsTrue ==
  ASSUME KnowInv, NEW c \in Clients, opens[c] = 1, NEW e \in Ended(c)
  PROVE  LET owns == Server!owns(e.call.id, e.call.alias) IN
         /\ e.call.op = "bind" => (resolves(e.call, e.by) <=> owns)
         /\ e.call.op = "shutdown" => resolves(e.call, e.by) /\ ~ owns
<1>1. PICK m, call : /\ m = Head(toClient[ws(c)]) /\ e = [call |-> call, by |-> m]
                     /\ call \in settled(c, m) /\ call.id = id[c]
                     /\ Handles(c)
  BY DEF Ended
<1>2. e.call = call /\ e.by = m
  BY <1>1
<1> SUFFICES ASSUME call.op \in {"bind", "shutdown"}
             PROVE  /\ call.op = "bind" => (resolves(call, m) <=> Server!owns(call.id, call.alias))
                    /\ call.op = "shutdown" =>
                         resolves(call, m) /\ ~ Server!owns(call.id, call.alias)
  BY <1>2
<1>3. Steady(c) /\ Informed(c) /\ toClient[ws(c)] # <<>> /\ IdInv
  BY <1>1, StaysConnected DEF Handles, KnowInv
<1>4. call \in calls[c] /\ waitsFor(c, call, m)
  BY <1>1 DEF settled
<1>5. PICK a : a = call.alias
  OBVIOUS
<1>6. /\ a \in BindAliases /\ call.id \in goodbyes[ws(c)]
      /\ \A j \in goodbyes[ws(c)] : j = call.id
      /\ toClient[ws(c)] \in Seq(Messages)
  BY <1>3, <1>4, <1>5, SteadyFacts DEF Informed, Signs
<1>7. /\ 1 \in DOMAIN toClient[ws(c)] /\ toClient[ws(c)][1] = m
      /\ AnswerTo(c, m, a) /\ m.id = call.id
  BY <1>1, <1>3, <1>4, <1>5, <1>6, TailFacts DEF waitsFor, AnswerTo, About
<1>8. /\ OneAtATime(c, a) /\ Awaited(c, a) /\ Consistent(c, a)
      /\ ToldTrue(c) /\ OwnTold(c)
  BY <1>3, <1>6 DEF Informed
<1>9. 1 \in Answered(c, a) /\ 1 \in Reports(c, a)
  BY <1>7, AnswersReported DEF Answered
<1>10. \A n \in Answered(c, a) : ~ (1 < n)
  BY <1>8, <1>9 DEF OneAtATime
<1>11. \A j \in goodbyes[ws(c)] : ~ Leaving(j, a)
  BY <1>3, <1>8, <1>9, LeavingOwn DEF OneAtATime, Leaving
<1>12. OwnReported(c, a, 1) <=> Owned(c, a)
  BY <1>3, <1>6, <1>8, <1>9, <1>10, <1>11, LastTrue
<1>13. OwnReported(c, a, 1) <=> m.set
  BY <1>6, <1>7 DEF OwnReported, Reported, Names
<1>14. Owned(c, a) <=> Server!owns(call.id, call.alias)
  BY <1>5, <1>6 DEF Owned, Owner, Server!owns
<1>15. call.op = "shutdown" => ~ m.set
  BY <1>4, <1>5, <1>7, <1>8, <1>9 DEF Awaited, Waits
<1> QED
  BY <1>12, <1>13, <1>14, <1>15 DEF resolves

\* THEOREM AliasCallsTrue: a bind that returns has registered the alias and one that
\* fails has not, and after a shutdown the alias is gone, whatever else the server is
\* telling the clients at the time: the two wait for one key.
THEOREM AliasCallsTrue ==
  ASSUME Habits = {}, HostsDistinct
  PROVE  Spec /\ []HostsReserved => AliasCallOutcome
<1>1. KnowInv =>
        [\A c \in Clients : opens[c] = 1 => \A e \in Ended(c) :
           LET owns == Server!owns(e.call.id, e.call.alias) IN
           /\ e.call.op = "bind" => (resolves(e.call, e.by) <=> owns)
           /\ e.call.op = "shutdown" => resolves(e.call, e.by) /\ ~ owns]_vars
  BY EndsTrue
<1> QED
  BY <1>1, KnowInvariance, PTL DEF AliasCallOutcome

----
(***************************************************************************)
(* What connect and accept return                                          *)
(***************************************************************************)
\* The last that a client is told of an alias before the message at n sets it.
Sets(c, a, k) == \E j : Reported(c, a, k, j)

Told(c, a, n) ==
  \A k \in Reports(c, a) :
    k < n /\ (\A l \in Reports(c, a) : l < n => l <= k) => Sets(c, a, k)

ToldLast(c, a) == \E j : Lately(c, a, j)

\* A client handles the Accept of an alias that it knows, and is sent one of an alias
\* that it was told of last.
AcceptsKnown(c) ==
  \A k \in DOMAIN toClient[ws(c)] :
    toClient[ws(c)][k].op = "accept" => Told(c, toClient[ws(c)][k].clientAlias, k)

AcceptsTold(c) ==
  \A t \in tasks : t.at = "accept" /\ t.server = ws(c) => ToldLast(c, t.addr)

\* A connect: the call, its request on the way, with the server, and the replies.
Joining(c) == {call \in calls[c] : call.op = "connect"}

Sought(c) == {k \in DOMAIN toServer[ws(c)] : toServer[ws(c)][k].op = "connect"}

Seeking(c) == {t \in tasks : t.sock = ws(c) /\ t.data.op = "connect"}

Joins(m, c) == m.op = "alias" /\ m.clientConnectionId = c

Replies(c) == {k \in DOMAIN toClient[ws(c)] : Joins(toClient[ws(c)][k], c)}

\* The first reply is the alias of the client's own end, the second that of the other.
Own(c, call, a) ==
  a \notin BindAliases /\ call.id \in goodbyes[ws(c)] /\ Owner(call.id, a)

First(m, a) == m.set /\ m.isConnectionAlias /\ m.alias = a

Second(m, call) == m.set /\ ~ m.isConnectionAlias /\ m.alias = call.alias

\* The stages of a connect. One that the server drops stays in the last but one, or
\* leaves its call behind.
NoneSought(c) == Sought(c) = {} /\ Seeking(c) = {} /\ Replies(c) = {}

OnItsWay(c, call) ==
  /\ call.count = 0 /\ Seeking(c) = {} /\ Replies(c) = {}
  /\ \E k : Sought(c) = {k}
  /\ \A k \in Sought(c) : /\ toServer[ws(c)][k].remoteAlias = call.alias
                          /\ toServer[ws(c)][k].id = call.id

Checked(c, call) ==
  /\ call.count = 0 /\ Sought(c) = {} /\ Replies(c) = {}
  /\ \E t : /\ Seeking(c) = {t} /\ t.data.remoteAlias = call.alias /\ t.data.id = call.id
            /\ t.at \in {"connect", "lookup", "undo", "refuse"}

Made(c, call) ==
  /\ call.count = 0 /\ Sought(c) = {}
  /\ \E t : /\ Seeking(c) = {t} /\ t.data.remoteAlias = call.alias /\ t.data.id = call.id
            /\ t.at \in {"introduce", "accept", "confirm"}
            /\ \E k : Replies(c) = {k}
            /\ \A k \in Replies(c) : First(toClient[ws(c)][k], t.addr)
            /\ Own(c, call, t.addr) /\ ToldLast(c, t.addr)

Dropped(c, call) ==
  /\ call.count = 0 /\ Sought(c) = {} /\ Seeking(c) = {}
  /\ \E k : Replies(c) = {k}
  /\ \A k \in Replies(c) : toClient[ws(c)][k].set => toClient[ws(c)][k].isConnectionAlias

Both(c, call) ==
  /\ call.count = 0 /\ Sought(c) = {} /\ Seeking(c) = {}
  /\ \E k, l, a : /\ Replies(c) = {k, l} /\ k < l /\ Own(c, call, a) /\ Told(c, a, l)
                  /\ First(toClient[ws(c)][k], a) /\ Second(toClient[ws(c)][l], call)

Half(c, call) ==
  /\ call.count = 1 /\ Sought(c) = {} /\ Seeking(c) = {}
  /\ Own(c, call, call.clientAlias)
  /\ \E l : /\ Replies(c) = {l} /\ Told(c, call.clientAlias, l)
            /\ Second(toClient[ws(c)][l], call)

Stage(c) ==
  \/ NoneSought(c)
  \/ \E call \in Joining(c) : \/ OnItsWay(c, call) \/ Checked(c, call) \/ Made(c, call)
                              \/ Dropped(c, call) \/ Both(c, call) \/ Half(c, call)

Proceeds(c) == AcceptsKnown(c) /\ AcceptsTold(c) /\ Stage(c)

ConnectInv ==
  /\ IdInv
  /\ \A c \in Clients : \A x, y \in Joining(c) : x = y
  /\ \A c \in Clients : Live(c) => Proceeds(c)

\* What a client is told before the next message is in its table.
LEMMA ToldNext ==
  ASSUME NEW c, NEW a, toClient[ws(c)] \in Seq(Messages), Told(c, a, 1)
  PROVE  a \in DOMAIN known[c]
<1>1. /\ 0 \in Reports(c, a) /\ Reports(c, a) \subseteq Nat
  BY ReportsBounded
<1>2. \A l \in Reports(c, a) : l < 1 => l <= 0
  BY <1>1
<1>3. Sets(c, a, 0)
  BY <1>1, <1>2 DEF Told
<1> QED
  BY <1>3 DEF Sets, Reported

LEMMA ToldSame ==
  ASSUME NEW c, NEW a, ws(c)' = ws(c), toClient'[ws(c)] = toClient[ws(c)], known'[c] = known[c]
  PROVE  /\ ToldLast(c, a)' <=> ToldLast(c, a)
         /\ \A n : Told(c, a, n)' <=> Told(c, a, n)
<1>1. /\ Reports(c, a)' = Reports(c, a)
      /\ \A k, j : Reported(c, a, k, j)' <=> Reported(c, a, k, j)
      /\ \A j : Lately(c, a, j)' <=> Lately(c, a, j)
  BY NothingHeard
<1>2. \A k : Sets(c, a, k)' <=> Sets(c, a, k)
  BY <1>1 DEF Sets
<1> QED
  BY <1>1, <1>2 DEF ToldLast, Told

\* A new message changes nothing before it.
LEMMA ToldStays ==
  ASSUME NEW c, NEW a, ws(c)' = ws(c), known'[c] = known[c],
         toClient[ws(c)] \in Seq(Messages), NEW m \in Messages,
         toClient'[ws(c)] = Append(toClient[ws(c)], m),
         NEW n, n = Len(toClient[ws(c)]) + 1
  PROVE  /\ \A l \in DOMAIN toClient[ws(c)] : Told(c, a, l) => Told(c, a, l)'
         /\ ToldLast(c, a) => Told(c, a, n)'
         /\ ToldLast(c, a) /\ (About(m, a) => m.set) => ToldLast(c, a)'
         /\ About(m, a) /\ m.set => ToldLast(c, a)'
<1>1. /\ \A k \in Reports(c, a) : \A j : Reported(c, a, k, j)' <=> Reported(c, a, k, j)
      /\ \A k \in Reports(c, a) : k < n
      /\ Reports(c, a)' = Reports(c, a) \/ Reports(c, a)' = Reports(c, a) \cup {n}
  BY SomethingHeard
<1>2. /\ \A l \in DOMAIN toClient[ws(c)] : l \in Nat /\ l < n
      /\ Reports(c, a) \subseteq Nat /\ n \in Nat
  BY SeqFacts, AppendFacts, ReportsBounded
<1>3. \A k \in Reports(c, a) : Sets(c, a, k)' <=> Sets(c, a, k)
  BY <1>1 DEF Sets
<1>4. ASSUME NEW l \in DOMAIN toClient[ws(c)], Told(c, a, l) PROVE Told(c, a, l)'
  <2> SUFFICES ASSUME NEW k \in Reports(c, a)', k < l,
                      \A i \in Reports(c, a)' : i < l => i <= k
               PROVE  Sets(c, a, k)'
    BY DEF Told
  <2>1. k \in Reports(c, a)
    BY <1>1, <1>2
  <2>2. \A i \in Reports(c, a) : i < l => i <= k
    BY <1>1
  <2> QED
    BY <1>3, <1>4, <2>1, <2>2 DEF Told
<1>5. ASSUME ToldLast(c, a) PROVE Told(c, a, n)'
  <2>1. PICK i \in Reports(c, a) : Sets(c, a, i) /\ \A l \in Reports(c, a) : l <= i
    BY <1>5 DEF ToldLast, Lately, Sets
  <2> SUFFICES ASSUME NEW k \in Reports(c, a)', k < n,
                      \A l \in Reports(c, a)' : l < n => l <= k
               PROVE  Sets(c, a, k)'
    BY DEF Told
  <2>2. k \in Reports(c, a)
    BY <1>1, <1>2
  <2>3. i <= k
    BY <1>1, <2>1
  <2>4. k = i
    BY <1>2, <2>1, <2>2, <2>3
  <2> QED
    BY <1>3, <2>1, <2>4
<1>6. ASSUME ToldLast(c, a), ~ About(m, a) PROVE ToldLast(c, a)'
  <2>1. \A j : Lately(c, a, j)' <=> Lately(c, a, j)
    BY <1>6, SomethingHeard
  <2> QED
    BY <1>6, <2>1 DEF ToldLast
<1>7. ASSUME About(m, a), m.set PROVE ToldLast(c, a)'
  <2>1. \A j : Lately(c, a, j)' <=> Names(m, j)
    BY <1>7, SomethingHeard
  <2>2. Names(m, m.id)
    BY <1>7 DEF Names
  <2> QED
    BY <2>1, <2>2 DEF ToldLast
<1> QED
  BY <1>4, <1>5, <1>6, <1>7

\* What was told before a message goes on being so when the client handles the head.
LEMMA ToldMoves ==
  ASSUME NEW c, NEW a, ws(c)' = ws(c),
         toClient[ws(c)] \in Seq(Messages), toClient[ws(c)] # <<>>,
         toClient'[ws(c)] = Tail(toClient[ws(c)]),
         LET m == Head(toClient[ws(c)]) IN
         /\ ~ About(m, a) => /\ a \in DOMAIN known'[c] <=> a \in DOMAIN known[c]
                             /\ a \in DOMAIN known[c] => known'[c][a] = known[c][a]
         /\ About(m, a) => /\ a \in DOMAIN known'[c] <=> m.set
                           /\ m.set => known'[c][a] = m.id,
         NEW n \in Nat \ {0}, Told(c, a, n + 1)
  PROVE  Told(c, a, n)'
<1> DEFINE q == toClient[ws(c)]
           m == Head(q)
           before(k) == Before(k, About(m, a))
<1>1. \A k \in Reports(c, a)' :
        /\ k \in Nat /\ before(k) \in Nat /\ before(k) \in Reports(c, a)
        /\ \A j : Reported(c, a, k, j)' <=> Reported(c, a, before(k), j)
  BY MovesUp
<1>2. /\ m = q[1] /\ 1 \in DOMAIN q
      /\ \A k \in DOMAIN q : k # 1 => k - 1 \in DOMAIN Tail(q) /\ Tail(q)[k - 1] = q[k]
      /\ DOMAIN q \subseteq Nat \ {0}
  <2>1. Tail(q) \in Seq(Messages)
    BY TailFacts
  <2> QED
    BY <2>1, TailFacts, SeqFacts
<1>3. toClient'[ws(c)'] = Tail(q)
  OBVIOUS
<1> SUFFICES ASSUME NEW k \in Reports(c, a)', k < n,
                    \A l \in Reports(c, a)' : l < n => l <= k
             PROVE  Sets(c, a, k)'
  BY DEF Told
<1>4. before(k) < n + 1 /\ before(k) \in Reports(c, a) /\ before(k) \in Nat /\ k \in Nat
  BY <1>1 DEF Before
<1>5. ASSUME NEW l \in Reports(c, a), l < n + 1 PROVE l <= before(k)
  <2>1. CASE l = 0
    BY <1>4, <2>1
  <2>2. CASE l # 0
    <3>1. l \in DOMAIN q /\ About(q[l], a) /\ l \in Nat \ {0}
      BY <1>2, <2>2 DEF Reports
    <3>2. CASE l = 1
      <4>1. About(m, a)
        BY <1>2, <3>1, <3>2
      <4> QED
        BY <1>4, <3>2, <4>1 DEF Before
    <3>3. CASE l # 1
      <4>1. l - 1 \in Reports(c, a)'
        <5>1. l - 1 \in DOMAIN Tail(q) /\ About(Tail(q)[l - 1], a)
          BY <1>2, <3>1, <3>3
        <5> QED
          BY <1>3, <5>1 DEF Reports
      <4>2. l - 1 <= k /\ l - 1 # 0 /\ l - 1 \in Nat
        BY <1>5, <3>1, <3>3, <4>1
      <4>3. k # 0 /\ before(k) = k + 1
        <5>1. PICK i : i = l - 1
          OBVIOUS
        <5>2. i <= k /\ i # 0 /\ i \in Nat /\ k \in Nat
          BY <1>4, <4>2, <5>1
        <5>3. k # 0
          BY <5>2
        <5> QED
          BY <5>3 DEF Before
      <4>4. l <= k + 1
        <5>1. k \in Nat /\ l \in Nat /\ l - 1 <= k
          BY <1>4, <3>1, <4>2
        <5> QED
          BY <5>1
      <4> QED
        BY <4>3, <4>4
    <3> QED
      BY <3>2, <3>3
  <2> QED
    BY <2>1, <2>2
<1>6. Sets(c, a, before(k))
  BY <1>4, <1>5 DEF Told
<1> QED
  BY <1>1, <1>6 DEF Sets

----
\* What a client hears that is no reply to a connect leaves the replies as they are.
Hushed(c) ==
  /\ Replies(c)' = Replies(c)
  /\ \A k \in Replies(c) : /\ toClient'[ws(c)][k] = toClient[ws(c)][k]
                           /\ \A a : Told(c, a, k) => Told(c, a, k)'

LEMMA NoMessage ==
  ASSUME NEW c, ws(c)' = ws(c), known'[c] = known[c], toClient'[ws(c)] = toClient[ws(c)]
  PROVE  Hushed(c)
<1>1. Replies(c)' = Replies(c)
  BY DEF Replies, Joins
<1>2. \A a : \A k : Told(c, a, k)' <=> Told(c, a, k)
  BY ToldSame
<1> QED
  BY <1>1, <1>2 DEF Hushed

LEMMA OneMessage ==
  ASSUME NEW c, ws(c)' = ws(c), known'[c] = known[c],
         toClient[ws(c)] \in Seq(Messages), NEW m \in Messages,
         toClient'[ws(c)] = Append(toClient[ws(c)], m),
         NEW n, n = Len(toClient[ws(c)]) + 1
  PROVE  /\ \A k \in Replies(c) : /\ k < n /\ k # n
                                  /\ toClient'[ws(c)][k] = toClient[ws(c)][k]
         /\ toClient'[ws(c)][n] = m
         /\ ~ Joins(m, c) => Hushed(c)
         /\ Joins(m, c) => Replies(c)' = Replies(c) \cup {n}
<1> DEFINE q == toClient[ws(c)]
<1>1. /\ DOMAIN Append(q, m) = DOMAIN q \cup {n} /\ n \notin DOMAIN q
      /\ \A k \in DOMAIN q : Append(q, m)[k] = q[k] /\ k < n
      /\ Append(q, m)[n] = m
  BY AppendFacts
<1>2. toClient'[ws(c)'] = Append(q, m)
  OBVIOUS
<1>3. /\ Replies(c) = {k \in DOMAIN q : Joins(q[k], c)}
      /\ Replies(c)' = {k \in DOMAIN Append(q, m) : Joins(Append(q, m)[k], c)}
  BY <1>2 DEF Replies
<1>4. \A k \in Replies(c) : /\ k \in DOMAIN q /\ k < n /\ k # n
                            /\ toClient'[ws(c)][k] = toClient[ws(c)][k]
  BY <1>1, <1>2, <1>3
<1>5. toClient'[ws(c)][n] = m
  BY <1>1, <1>2
<1>6. Joins(m, c) => Replies(c)' = Replies(c) \cup {n}
  <2> HIDE DEF q
  <2> QED
    BY <1>1, <1>3
<1>7. ASSUME ~ Joins(m, c) PROVE Hushed(c)
  <2>1. Replies(c)' = Replies(c)
    <3> HIDE DEF q
    <3> QED
      BY <1>1, <1>3, <1>7
  <2>2. \A a : \A k \in DOMAIN q : Told(c, a, k) => Told(c, a, k)'
    BY ToldStays
  <2> QED
    BY <1>4, <2>1, <2>2 DEF Hushed
<1> QED
  BY <1>4, <1>5, <1>6, <1>7

\* In a turn that serves none of its connects a client is where it was, and what it
\* connects from stays its own.
OwnsOn(c) ==
  \A j \in goodbyes[ws(c)] : \A a :
    j \in goodbyes'[ws(c)] /\ (Owner(j, a) /\ a \notin BindAliases => Owner(j, a)')

\* What is on the way to the server is so further on.
SoughtOn(c) ==
  /\ Sought(c) = {} => Sought(c)' = {}
  /\ \A k : Sought(c) = {k} =>
       \E l : Sought(c)' = {l} /\ toServer'[ws(c)][l] = toServer[ws(c)][k]

LEMMA StageStays ==
  ASSUME NEW c, ws(c)' = ws(c), calls'[c] = calls[c], Hushed(c), OwnsOn(c), SoughtOn(c),
         Seeking(c) = {}, Seeking(c)' = {},
         Stage(c)
  PROVE  Stage(c)'
<1>1. /\ Joining(c)' = Joining(c) /\ (Sought(c) = {} => Sought(c)' = {})
      /\ Replies(c)' = Replies(c)
      /\ \A k \in Replies(c) : toClient'[ws(c)][k] = toClient[ws(c)][k]
  BY DEF Joining, SoughtOn, Hushed
<1>2. \A call, a : Own(c, call, a) => Own(c, call, a)'
  BY DEF Own, OwnsOn
<1>3. CASE NoneSought(c)
  BY <1>1, <1>3 DEF Stage, NoneSought
<1>4. ASSUME NEW call \in Joining(c),
             \/ OnItsWay(c, call) \/ Checked(c, call) \/ Made(c, call)
             \/ Dropped(c, call) \/ Both(c, call) \/ Half(c, call)
      PROVE  \/ OnItsWay(c, call)' \/ Checked(c, call)' \/ Made(c, call)'
             \/ Dropped(c, call)' \/ Both(c, call)' \/ Half(c, call)'
  <2>1. ~ Checked(c, call) /\ ~ Made(c, call)
    BY DEF Checked, Made
  <2>2. CASE OnItsWay(c, call)
    <3>1. PICK k : Sought(c) = {k}
      BY <2>2 DEF OnItsWay
    <3>2. PICK l : Sought(c)' = {l} /\ toServer'[ws(c)][l] = toServer[ws(c)][k]
      BY <3>1 DEF SoughtOn
    <3>3. PICK y : y = toServer[ws(c)][k]
      OBVIOUS
    <3>4. y.remoteAlias = call.alias /\ y.id = call.id
      BY <2>2, <3>1, <3>3 DEF OnItsWay
    <3>5. \A i \in Sought(c)' : toServer'[ws(c)'][i] = y
      BY <3>2, <3>3
    <3>6. call.count = 0 /\ Replies(c)' = {}
      BY <1>1, <2>2 DEF OnItsWay
    <3> QED
      BY <3>2, <3>4, <3>5, <3>6 DEF OnItsWay
  <2>3. CASE Dropped(c, call)
    BY <1>1, <2>3 DEF Dropped
  <2>4. CASE Both(c, call)
    <3>1. PICK k, l, a : /\ Replies(c) = {k, l} /\ k < l /\ Own(c, call, a) /\ Told(c, a, l)
                         /\ First(toClient[ws(c)][k], a) /\ Second(toClient[ws(c)][l], call)
      BY <2>4 DEF Both
    <3>2. /\ Replies(c)' = {k, l} /\ Own(c, call, a)' /\ Told(c, a, l)'
          /\ toClient'[ws(c)'][k] = toClient[ws(c)][k] /\ toClient'[ws(c)'][l] = toClient[ws(c)][l]
      BY <1>1, <1>2, <3>1 DEF Hushed
    <3>3. First(toClient[ws(c)][k], a)' /\ Second(toClient[ws(c)][l], call)'
      BY <3>1, <3>2 DEF First, Second
    <3> QED
      BY <1>1, <2>4, <3>1, <3>2, <3>3 DEF Both
  <2>5. CASE Half(c, call)
    <3>1. PICK l : /\ Replies(c) = {l} /\ Told(c, call.clientAlias, l)
                   /\ Second(toClient[ws(c)][l], call)
      BY <2>5 DEF Half
    <3>2. /\ Replies(c)' = {l} /\ Own(c, call, call.clientAlias)'
          /\ toClient'[ws(c)'][l] = toClient[ws(c)][l]
      BY <1>1, <1>2, <2>5, <3>1 DEF Half
    <3>3. Told(c, call.clientAlias, l)' /\ Second(toClient[ws(c)][l], call)'
      BY <3>1, <3>2 DEF Second, Hushed
    <3> QED
      BY <1>1, <2>5, <3>1, <3>2, <3>3 DEF Half
  <2> QED
    BY <1>4, <2>1, <2>2, <2>3, <2>4, <2>5
<1> QED
  BY <1>1, <1>3, <1>4 DEF Stage

----
\* What the steps of a connect tell the client that connects.
LEMMA RunReplies ==
  ASSUME IdInv, NEW t, Runs(t), NEW c \in Clients, Live(c), t \in Seeking(c),
         NEW x \in sent', NEW m, m = x.message
  PROVE  /\ t.at \in {"lookup", "refuse", "introduce", "accept", "confirm"}
         /\ t.at = "lookup" => Joins(m, c) /\ First(m, t.addr)
         /\ t.at = "refuse" => Joins(m, c) /\ ~ m.set
         /\ t.at = "introduce" => m.op = "alias" /\ ~ Joins(m, c) /\ m.set
         /\ t.at = "accept" => m.op = "accept"
         /\ t.at = "confirm" =>
              /\ Joins(m, c) /\ m.set /\ ~ m.isConnectionAlias
              /\ m.alias = t.data.remoteAlias
<1>1. /\ SP!DataTyped /\ SP!TasksTyped /\ t \in tasks /\ SP!Run(t)
      /\ t.sock = ws(c) /\ t.data.op = "connect"
  BY DEF IdInv, TypeInv, SP!IInv, Runs, Seeking
<1>2. SP!Says(t, x)
  BY <1>1, SP!RunSays, ServerAssumptions
<1>3. t.at \in {"connect", "lookup", "undo", "refuse", "introduce", "accept", "confirm"}
  BY <1>1, PlaceOps DEF SP!ConnectPlaces, SP!CreatedPlaces
<1>4. t.data.clientConnectionId = c /\ c # NoConnection
  <2>1. Asked(t.sock, t.data)
    BY <1>1 DEF IdInv, TaskKinds
  <2>2. t.data.clientConnectionId = t.sock[1]
    BY <1>1, <2>1 DEF Asked, Knock
  <2> QED
    BY <1>1, <2>2, OperationsAssumption, ClientAssumption DEF ws
<1>5. /\ t.at = "lookup" => m = SP!ConnectionAlias(t.data.id, t.addr, c)
      /\ t.at = "refuse" => m = SP!Retraction(t.data.id, t.addr, c)
      /\ t.at = "introduce" => m = SP!Registration(t.data.id, t.addr, NoConnection)
      /\ t.at = "accept" => m = SP!Accept(t.data.remoteAlias, t.addr)
      /\ t.at = "confirm" => m = SP!Registration(t.owner, t.data.remoteAlias, c)
      /\ t.at \notin {"connect", "undo"}
  BY <1>2, <1>3, <1>4 DEF SP!Says
<1>6. CASE t.at = "lookup"
  BY <1>5, <1>6, SP!AliasFields, ServerAssumptions DEF Joins, First
<1>7. CASE t.at = "refuse"
  BY <1>5, <1>7, SP!AliasFields, ServerAssumptions DEF Joins
<1>8. CASE t.at = "introduce"
  BY <1>4, <1>5, <1>8, SP!AliasFields, ServerAssumptions DEF Joins
<1>9. CASE t.at = "accept"
  BY <1>5, <1>9 DEF SP!Accept
<1>10. CASE t.at = "confirm"
  BY <1>5, <1>10, SP!AliasFields, ServerAssumptions DEF Joins
<1> QED
  BY <1>3, <1>5, <1>6, <1>7, <1>8, <1>9, <1>10

\* Nobody else replies to it.
LEMMA RunJoins ==
  ASSUME IdInv, NEW t, Runs(t), NEW c \in Clients, Live(c),
         NEW x \in sent', x.to = ws(c), Joins(x.message, c)
  PROVE  t \in Seeking(c)
<1>1. /\ SP!DataTyped /\ SP!TasksTyped /\ t \in tasks /\ SP!Run(t)
  BY DEF IdInv, TypeInv, SP!IInv, Runs
<1>2. c # NoConnection /\ x.message.op = "alias" /\ x.message.clientConnectionId = c
  BY OperationsAssumption, ClientAssumption DEF Joins
<1>3. t.at \in {"lookup", "introduce", "refuse", "confirm"}
  BY <1>2, RunTells
<1>4. t.data.op = "connect"
  BY <1>1, <1>3, PlaceOps DEF SP!ConnectPlaces, SP!CreatedPlaces
<1>5. t.at # "introduce"
  <2>1. SP!Says(t, x)
    BY <1>1, SP!RunSays, ServerAssumptions
  <2>2. t.at = "introduce" => x.message = SP!Registration(t.data.id, t.addr, NoConnection)
    BY <2>1 DEF SP!Says
  <2> QED
    BY <1>2, <2>2, SP!AliasFields, ServerAssumptions
<1>6. t.sock = ws(c)
  BY <1>2, <1>3, <1>5, RunTells
<1> QED
  BY <1>1, <1>4, <1>6 DEF Seeking

\* What a client hears in a step of the server.
LEMMA RunHeard ==
  ASSUME IdInv, NEW t, Runs(t), NEW c \in Clients, Live(c)
  PROVE  /\ ws(c)' = ws(c) /\ known'[c] = known[c] /\ calls'[c] = calls[c]
         /\ toServer'[ws(c)] = toServer[ws(c)]
         /\ toClient[ws(c)] \in Seq(Messages)
         /\ \/ toClient'[ws(c)] = toClient[ws(c)] /\ \A x \in sent' : x.to # ws(c)
            \/ \E x \in sent' : /\ x.to = ws(c) /\ x.message \in Messages
                                /\ toClient'[ws(c)] = Append(toClient[ws(c)], x.message)
<1>1. /\ UNCHANGED <<opens, known, calls, toServer>> /\ deliver
      /\ SP!IInv /\ ConnectsTyped /\ t \in tasks /\ SP!Run(t)
  BY DEF Runs, IdInv, TypeInv
<1>2. ws(c) \in Sockets /\ current(ws(c)) /\ toClient[ws(c)] \in Seq(Messages)
  BY LiveFacts
<1>3. \A x \in sent' : x.message \in Messages
  BY <1>1, RunMessages
<1> QED
  BY <1>1, <1>2, <1>3, Delivered DEF ws

LEMMA RunAcceptsKnown ==
  ASSUME IdInv, NEW t, Runs(t), NEW c \in Clients, Live(c), AcceptsKnown(c), AcceptsTold(c)
  PROVE  AcceptsKnown(c)'
<1> DEFINE q == toClient[ws(c)]
<1>1. ws(c)' = ws(c) /\ known'[c] = known[c] /\ q \in Seq(Messages)
  BY RunHeard
<1>2. CASE toClient'[ws(c)] = q
  <2>1. \A a : \A k : Told(c, a, k)' <=> Told(c, a, k)
    BY <1>1, <1>2, ToldSame
  <2> QED
    BY <1>1, <1>2, <2>1 DEF AcceptsKnown
<1>3. ASSUME NEW x \in sent', NEW m \in Messages, m = x.message, x.to = ws(c),
             toClient'[ws(c)] = Append(q, m)
      PROVE  AcceptsKnown(c)'
  <2>1. PICK n : n = Len(q) + 1
    OBVIOUS
  <2>2. /\ \A a : \A l \in DOMAIN q : Told(c, a, l) => Told(c, a, l)'
        /\ \A a : ToldLast(c, a) => Told(c, a, n)'
    BY <1>1, <1>3, <2>1, ToldStays
  <2>3. /\ DOMAIN Append(q, m) = DOMAIN q \cup {n}
        /\ \A k \in DOMAIN q : Append(q, m)[k] = q[k]
        /\ Append(q, m)[n] = m
    BY <1>1, <2>1, AppendFacts
  <2>4. ASSUME m.op = "accept" PROVE ToldLast(c, m.clientAlias)
    <3>1. /\ SP!DataTyped /\ SP!TasksTyped /\ t \in tasks /\ SP!Run(t)
      BY DEF IdInv, TypeInv, SP!IInv, Runs
    <3>2. SP!accept(t)
      BY <1>3, <2>4, <3>1, SP!AcceptsAreSent, ServerAssumptions
    <3>3. t.at = "accept"
      BY <3>2 DEF SP!accept, SP!At
    <3>4. SP!Tells(t.server, SP!Accept(t.data.remoteAlias, t.addr))
      BY <3>1, <3>3, SP!AcceptSends, ServerAssumptions
    <3>5. t.server = ws(c) /\ m.clientAlias = t.addr
      BY <1>3, <3>4 DEF SP!Tells, SP!Accept
    <3> QED
      BY <3>1, <3>3, <3>5 DEF AcceptsTold
  <2>5. ASSUME NEW k \in DOMAIN Append(q, m), NEW y, y = Append(q, m)[k], y.op = "accept",
               NEW a, a = y.clientAlias
        PROVE  Told(c, a, k)'
    <3>1. CASE k \in DOMAIN q
      <4>1. Told(c, a, k)
        BY <2>3, <2>5, <3>1 DEF AcceptsKnown
      <4> QED
        BY <2>2, <3>1, <4>1
    <3>2. CASE k = n
      <4>1. ToldLast(c, a)
        BY <2>3, <2>4, <2>5, <3>2
      <4> QED
        BY <2>2, <3>2, <4>1
    <3> QED
      BY <2>3, <3>1, <3>2
  <2>6. toClient'[ws(c)'] = Append(q, m)
    BY <1>1, <1>3
  <2>7. SUFFICES ASSUME NEW k \in DOMAIN toClient'[ws(c)'], NEW y, y = toClient'[ws(c)'][k],
                        y.op = "accept", NEW a, a = y.clientAlias
                 PROVE  Told(c, a, k)'
    BY DEF AcceptsKnown
  <2> QED
    BY <2>5, <2>6, <2>7
<1> QED
  BY <1>2, <1>3, RunHeard

LEMMA RunAcceptsTold ==
  ASSUME IdInv, NEW t, Runs(t), NEW c \in Clients, Live(c)
  PROVE  AcceptsTold(c)'
<1>1. /\ SP!DataTyped /\ SP!TasksTyped /\ t \in tasks /\ SP!Run(t)
      /\ ws(c)' = ws(c) /\ known'[c] = known[c] /\ toClient[ws(c)] \in Seq(Messages)
  BY RunHeard DEF IdInv, TypeInv, SP!IInv, Runs
<1> SUFFICES ASSUME NEW u \in tasks', u.at = "accept", u.server = ws(c)
             PROVE  ToldLast(c, u.addr)'
  BY <1>1 DEF AcceptsTold
<1>2. u \notin tasks
  <2>1. SUFFICES ASSUME u \in tasks PROVE FALSE
    OBVIOUS
  <2>2. u.data.op = "connect"
    BY <2>1, PlaceOps DEF SP!ConnectPlaces, SP!CreatedPlaces
  <2>3. tasks = {u}
    BY <2>1, <2>2, TaskFor
  <2> QED
    BY <1>1, <2>3, RunTasks
<1>3. t.at = "introduce" /\ u.addr = t.addr
  BY <1>2, RunTasks DEF SP!Continues, SP!Edges
<1>4. PICK y : /\ y = [to |-> ws(c), message |-> SP!Registration(t.data.id, t.addr, NoConnection)]
               /\ sent' = {y}
  BY <1>1, <1>2, <1>3, SP!IntroduceSends, ServerAssumptions DEF SP!Tells
<1>5. PICK m \in Messages : /\ toClient'[ws(c)] = Append(toClient[ws(c)], m)
                            /\ m = SP!Registration(t.data.id, t.addr, NoConnection)
  BY <1>4, RunHeard
<1>6. About(m, t.addr) /\ m.set
  BY <1>5, SP!AliasFields, ServerAssumptions DEF About
<1>7. PICK n : n = Len(toClient[ws(c)]) + 1
  OBVIOUS
<1>8. ToldLast(c, t.addr)'
  BY <1>1, <1>5, <1>6, <1>7, ToldStays
<1> QED
  BY <1>3, <1>8

\* A step that serves no connect of the client.
LEMMA RunOwnsOn ==
  ASSUME IdInv, NEW t, Runs(t), NEW c \in Clients, Live(c)
  PROVE  OwnsOn(c)
<1>1. t \in tasks /\ ws(c)' = ws(c) /\ ws(c) \in Sockets /\ ws(c) \in accepted
  BY RunHeard, LiveFacts DEF Runs
<1>2. goodbyes[ws(c)] \subseteq goodbyes'[ws(c)]
  BY <1>1, RunSockets
<1>3. ASSUME NEW j \in goodbyes[ws(c)], NEW a, Owner(j, a), a \notin BindAliases
      PROVE  Owner(j, a)'
  <2>1. SUFFICES ASSUME SP!Retracts(t, a), j = t.data.id PROVE FALSE
    BY <1>3, RunOwners
  <2>2. t.at # "expire"
    BY <1>1, <1>3, <2>1, PlaceOps, TaskFor DEF SP!LeavePlaces
  <2>3. t.at = "shutdown" /\ a = t.data.alias
    BY <2>1, <2>2 DEF SP!Retracts
  <2> QED
    BY <1>1, <1>3, <2>3, PlaceOps, TaskFor
<1> QED
  BY <1>2, <1>3 DEF OwnsOn

LEMMA RunStageElsewhere ==
  ASSUME IdInv, NEW t, Runs(t), NEW c \in Clients, Live(c), Stage(c), t \notin Seeking(c)
  PROVE  Stage(c)'
<1>1. /\ t \in tasks /\ ws(c)' = ws(c) /\ known'[c] = known[c] /\ calls'[c] = calls[c]
      /\ toServer'[ws(c)] = toServer[ws(c)] /\ toClient[ws(c)] \in Seq(Messages)
  BY RunHeard DEF Runs
<1>2. Seeking(c) = {}
  <2>1. SUFFICES ASSUME NEW u \in Seeking(c) PROVE FALSE
    OBVIOUS
  <2>2. u \in tasks /\ u.data.op = "connect"
    BY DEF Seeking
  <2>3. tasks = {u}
    BY <2>2, TaskFor
  <2> QED
    BY <1>1, <2>3
<1>3. Seeking(c)' = {}
  <2>1. SUFFICES ASSUME NEW u \in tasks', u.sock = ws(c), u.data.op = "connect" PROVE FALSE
    BY <1>1 DEF Seeking
  <2>2. u \notin tasks
    BY <1>2, <2>1 DEF Seeking
  <2>3. SP!Continues(t, u) /\ SP!Brings(t, u)
    BY <2>2, RunTasks
  <2>4. t.at # "expire"
    BY <2>1, <2>3 DEF SP!Brings
  <2>5. t.sock = ws(c) /\ t.data.op = "connect"
    BY <2>1, <2>3, <2>4 DEF SP!Continues, SP!Brings
  <2> QED
    BY <1>1, <1>2, <2>5 DEF Seeking
<1>4. Hushed(c)
  <2>1. CASE toClient'[ws(c)] = toClient[ws(c)]
    BY <1>1, <2>1, NoMessage
  <2>2. ASSUME NEW x \in sent', x.to = ws(c), NEW m \in Messages, m = x.message,
               toClient'[ws(c)] = Append(toClient[ws(c)], m)
        PROVE  Hushed(c)
    <3>1. ~ Joins(m, c)
      BY <1>2, <2>2, RunJoins
    <3>2. PICK n : n = Len(toClient[ws(c)]) + 1
      OBVIOUS
    <3> QED
      BY <1>1, <2>2, <3>1, <3>2, OneMessage
  <2> QED
    BY <2>1, <2>2, RunHeard
<1>5. SoughtOn(c)
  BY <1>1 DEF SoughtOn, Sought
<1> QED
  BY <1>1, <1>2, <1>3, <1>4, <1>5, RunOwnsOn, StageStays

\* The handler of a connect goes on alone, or ends.
LEMMA RunSeeks ==
  ASSUME IdInv, NEW t, Runs(t), NEW c \in Clients, Live(c), t \in Seeking(c)
  PROVE  /\ Seeking(c) = {t} /\ tasks = {t} /\ ws(c)' = ws(c)
         /\ t.data.id \in goodbyes[ws(c)] /\ goodbyes' = goodbyes
         /\ t.at \in SP!ConnectPlaces
         /\ \/ Seeking(c)' = {}
            \/ \E u : /\ Seeking(c)' = {u} /\ SP!Continues(t, u) /\ u.data = t.data
                      /\ t.at # "connect" => u.addr = t.addr
         /\ t.at \in {"refuse", "confirm"} => Seeking(c)' = {}
<1>1. /\ t \in tasks /\ t.sock = ws(c) /\ t.data.op = "connect" /\ ws(c)' = ws(c)
  BY RunHeard DEF Runs, Seeking
<1>2. tasks = {t} /\ t.data.id \in goodbyes[ws(c)] /\ t.at \in SP!ConnectPlaces
  BY <1>1, TaskFor, PlaceOps
<1>3. Seeking(c) = {t}
  BY <1>1, <1>2 DEF Seeking
<1>4. goodbyes' = goodbyes
  BY <1>2, RunSockets DEF SP!ConnectPlaces, SP!CreatedPlaces
<1>5. t.at \notin {"knock", "expire"}
  BY <1>2 DEF SP!ConnectPlaces, SP!CreatedPlaces
<1>6. ASSUME NEW u \in tasks'
      PROVE  /\ SP!Continues(t, u) /\ u.data = t.data /\ u \in Seeking(c)'
             /\ t.at # "connect" => u.addr = t.addr
  <2>1. SP!Continues(t, u) /\ SP!Brings(t, u)
    BY <1>2, RunTasks
  <2>2. u.data = t.data /\ u.sock = t.sock /\ (t.at # "connect" => u.addr = t.addr)
    BY <1>5, <2>1 DEF SP!Continues, SP!Brings
  <2> QED
    BY <1>1, <2>1, <2>2 DEF Seeking
<1>7. Seeking(c)' = tasks'
  BY <1>6 DEF Seeking
<1>8. \A u, v \in tasks' : u = v
  <2>1. /\ SP!TasksTyped /\ SP!Run(t)
    BY DEF IdInv, TypeInv, SP!IInv, Runs
  <2>2. \A u, v \in tasks' \ tasks : u = v \/ t.at = "expire"
    BY <1>1, <2>1, SP!RunContinues, ServerAssumptions
  <2>3. t \notin tasks'
    BY RunTasks
  <2> QED
    BY <1>2, <1>5, <2>2, <2>3
<1>9. t.at \in {"refuse", "confirm"} => tasks' = {}
  BY <1>6 DEF SP!Continues, SP!Edges
<1> QED
  BY <1>1, <1>2, <1>3, <1>4, <1>6, <1>7, <1>8, <1>9

\* The port of a connect becomes its alias when somebody accepts, or else is freed.
LEMMA LookupGoesOn ==
  ASSUME IdInv, NEW t, Runs(t), NEW c \in Clients, Live(c), t \in Seeking(c), t.at = "lookup"
  PROVE  \E u : /\ Seeking(c)' = {u} /\ u.data = t.data /\ u.addr = t.addr
                /\ SP!accepting(t.data.remoteAlias) => u.at = "introduce"
                /\ ~ SP!accepting(t.data.remoteAlias) => u.at = "undo" /\ sent' = {}
<1>1. /\ SP!DataTyped /\ SP!TasksTyped /\ t \in tasks /\ SP!Run(t) /\ t \in SP!Tasks
      /\ t.sock = ws(c) /\ t.data.op = "connect"
  BY DEF IdInv, TypeInv, SP!IInv, Runs, Seeking, SP!TasksTyped, SP!TaskOK
<1>2. tasks = {t} /\ t.data.id \in goodbyes[ws(c)] /\ ws(c)' = ws(c)
  BY RunSeeks
<1>3. SP!Get(t.data.id) # NoSocket
  <2>1. ws(c) \in Sockets
    BY LiveFacts
  <2>2. t.data.id \in DOMAIN clients /\ clients[t.data.id] = ws(c)
    BY <1>2, <2>1 DEF IdInv, Registered
  <2> QED
    BY <2>1, <2>2, SignalingAssumption DEF SP!Get
<1> DEFINE v(place) == [t EXCEPT !.at = place, !.client = SP!Get(t.data.id)]
<1>4. \A place : /\ v(place).at = place /\ v(place).data = t.data
                 /\ v(place).addr = t.addr /\ v(place).sock = t.sock
  BY <1>1 DEF SP!Tasks
<1> HIDE DEF v
<1>5. \/ /\ SP!accepting(t.data.remoteAlias) /\ tasks' = (tasks \ {t}) \cup {v("introduce")}
      \/ /\ ~ SP!accepting(t.data.remoteAlias) /\ sent' = {}
         /\ tasks' = (tasks \ {t}) \cup {v("undo")}
  BY <1>1, <1>3, SP!RunsAt, ServerAssumptions DEF SP!lookup, SP!Send, v
<1>6. ASSUME NEW place, tasks' = (tasks \ {t}) \cup {v(place)} PROVE Seeking(c)' = {v(place)}
  BY <1>1, <1>2, <1>4, <1>6 DEF Seeking
<1> QED
  BY <1>4, <1>5, <1>6

----
\* A connect that is being served goes on to its next stage. First its port.
LEMMA RunChecked ==
  ASSUME IdInv, NEW t, Runs(t), NEW c \in Clients, Live(c), t \in Seeking(c),
         NEW call, Checked(c, call)
  PROVE  NoneSought(c)' \/ Checked(c, call)' \/ Made(c, call)' \/ Dropped(c, call)'
<1> DEFINE q == toClient[ws(c)]
<1>1. /\ call.count = 0 /\ Sought(c) = {} /\ Replies(c) = {}
      /\ t.data.remoteAlias = call.alias /\ t.data.id = call.id
      /\ t.at \in {"connect", "lookup", "undo", "refuse"}
  BY DEF Checked
<1>2. /\ ws(c)' = ws(c) /\ known'[c] = known[c] /\ q \in Seq(Messages)
      /\ toServer'[ws(c)] = toServer[ws(c)]
  BY RunHeard
<1>3. Sought(c)' = {}
  BY <1>1, <1>2 DEF Sought
<1>4. ASSUME toClient'[ws(c)] = q PROVE Replies(c)' = {}
  BY <1>1, <1>2, <1>4, NoMessage DEF Hushed
<1>5. ASSUME NEW x \in sent', NEW m \in Messages, m = x.message, Joins(m, c),
             toClient'[ws(c)] = Append(q, m), NEW n, n = Len(q) + 1
      PROVE  Replies(c)' = {n} /\ toClient'[ws(c)'][n] = m
  BY <1>1, <1>2, <1>5, OneMessage
<1>6. CASE t.at \in {"connect", "undo"}
  <2>1. \A x \in sent' : FALSE
    <3>1. SUFFICES ASSUME NEW x \in sent' PROVE FALSE
      OBVIOUS
    <3>2. t.at \notin {"connect", "undo"}
      BY RunReplies
    <3> QED
      BY <1>6, <3>2
  <2>2. Replies(c)' = {}
    BY <1>4, <2>1, RunHeard
  <2>3. CASE Seeking(c)' = {}
    BY <1>3, <2>2, <2>3 DEF NoneSought
  <2>4. ASSUME NEW u, Seeking(c)' = {u}, SP!Continues(t, u), u.data = t.data
        PROVE  Checked(c, call)'
    <3>1. u.at \in {"connect", "lookup", "undo", "refuse"}
      BY <1>6, <2>4 DEF SP!Continues, SP!Edges
    <3> QED
      BY <1>1, <1>3, <2>2, <2>4, <3>1 DEF Checked
  <2> QED
    BY <2>3, <2>4, RunSeeks
<1>7. CASE t.at = "lookup"
  <2>1. PICK u : /\ Seeking(c)' = {u} /\ u.data = t.data /\ u.addr = t.addr
                 /\ SP!accepting(t.data.remoteAlias) => u.at = "introduce"
                 /\ ~ SP!accepting(t.data.remoteAlias) => u.at = "undo" /\ sent' = {}
    BY <1>7, LookupGoesOn
  <2>2. CASE ~ SP!accepting(t.data.remoteAlias)
    <3>1. Replies(c)' = {}
      BY <1>4, <2>1, <2>2, RunHeard
    <3> QED
      BY <1>1, <1>3, <2>1, <2>2, <3>1 DEF Checked
  <2>3. CASE SP!accepting(t.data.remoteAlias)
    <3>1. t \in tasks /\ t.data.id \in goodbyes[ws(c)] /\ goodbyes' = goodbyes
      BY RunSeeks DEF Runs
    <3>2. \E x \in sent' : x.to = ws(c)
      BY <1>7, <2>3, <3>1, RunReaches
    <3>3. PICK x \in sent', m \in Messages :
            m = x.message /\ toClient'[ws(c)] = Append(q, m)
      BY <3>2, RunHeard
    <3>4. Joins(m, c) /\ First(m, t.addr)
      BY <1>7, <3>3, RunReplies
    <3>5. PICK n : n = Len(q) + 1
      OBVIOUS
    <3>6. Replies(c)' = {n} /\ toClient'[ws(c)'][n] = m
      BY <1>5, <3>3, <3>4, <3>5
    <3>7. About(m, t.addr) /\ m.set
      BY <3>4 DEF Joins, First, About
    <3>8. PICK a : a = u.addr
      OBVIOUS
    <3>9. a = t.addr
      BY <2>1, <3>8
    <3>10. ToldLast(c, a)'
      BY <1>2, <3>3, <3>5, <3>7, <3>9, ToldStays
    <3>11. Owner(call.id, a)'
      <4>1. SP!Registers(t, t.addr)
        BY <1>7, <2>3 DEF SP!Registers
      <4>2. PICK j : j = t.data.id
        OBVIOUS
      <4>3. Owner(j, a)'
        BY <3>9, <4>1, <4>2, RunOwners
      <4> QED
        BY <1>1, <4>2, <4>3
    <3>12. a \notin BindAliases
      BY <1>7, <3>1, <3>9, CreatedApart DEF SP!CreatedPlaces
    <3>13. Own(c, call, a)'
      BY <1>1, <1>2, <3>1, <3>11, <3>12 DEF Own
    <3>14. \A k \in Replies(c)' : First(toClient'[ws(c)'][k], a)
      BY <3>4, <3>6, <3>9
    <3>15. u.at = "introduce"
      BY <2>1, <2>3
    <3> QED
      BY <1>1, <1>3, <2>1, <3>6, <3>8, <3>10, <3>13, <3>14, <3>15 DEF Made, First
  <2> QED
    BY <2>2, <2>3
<1>8. CASE t.at = "refuse"
  <2>1. Seeking(c)' = {}
    BY <1>8, RunSeeks
  <2>2. CASE toClient'[ws(c)] = q
    BY <1>3, <1>4, <2>1, <2>2 DEF NoneSought
  <2>3. ASSUME NEW x \in sent', NEW m \in Messages, m = x.message, toClient'[ws(c)] = Append(q, m)
        PROVE  Dropped(c, call)'
    <3>1. Joins(m, c) /\ ~ m.set
      BY <1>8, <2>3, RunReplies
    <3>2. PICK n : n = Len(q) + 1
      OBVIOUS
    <3>3. Replies(c)' = {n} /\ toClient'[ws(c)'][n] = m
      BY <1>5, <2>3, <3>1, <3>2
    <3> QED
      BY <1>1, <1>3, <2>1, <3>1, <3>3 DEF Dropped
  <2> QED
    BY <2>2, <2>3, RunHeard
<1> QED
  BY <1>1, <1>6, <1>7, <1>8

\* Then the aliases of its ends.
LEMMA RunMade ==
  ASSUME IdInv, NEW t, Runs(t), NEW c \in Clients, Live(c), t \in Seeking(c),
         NEW call, Made(c, call)
  PROVE  Made(c, call)' \/ Dropped(c, call)' \/ Both(c, call)'
<1> DEFINE q == toClient[ws(c)]
<1>1. PICK a : a = t.addr
  OBVIOUS
<1>2. /\ call.count = 0 /\ Sought(c) = {}
      /\ t.data.remoteAlias = call.alias /\ t.data.id = call.id
      /\ t.at \in {"introduce", "accept", "confirm"}
      /\ \E k : Replies(c) = {k}
      /\ \A k \in Replies(c) : First(q[k], a)
      /\ Own(c, call, a) /\ ToldLast(c, a)
  BY <1>1 DEF Made
<1>3. /\ ws(c)' = ws(c) /\ known'[c] = known[c] /\ q \in Seq(Messages)
      /\ toServer'[ws(c)] = toServer[ws(c)]
  BY RunHeard
<1>4. Sought(c)' = {}
  BY <1>2, <1>3 DEF Sought
<1>5. PICK k : Replies(c) = {k}
  BY <1>2
<1>6. Own(c, call, a)'
  <2>1. aliases' = aliases
    BY <1>2, RunOwners
  <2>2. goodbyes' = goodbyes
    BY RunSeeks
  <2> QED
    BY <1>2, <1>3, <2>1, <2>2 DEF Own, Owner
<1>7. /\ Seeking(c)' = {} \/ \E u : /\ Seeking(c)' = {u} /\ SP!Continues(t, u) /\ u.data = t.data
                                    /\ u.addr = a
      /\ t.at = "confirm" => Seeking(c)' = {}
  BY <1>1, <1>2, RunSeeks
<1>8. ASSUME Replies(c)' = {k}, First(toClient'[ws(c)][k], a), t.at # "confirm", ToldLast(c, a)'
      PROVE  Made(c, call)' \/ Dropped(c, call)'
  <2>1. CASE Seeking(c)' = {}
    BY <1>2, <1>3, <1>4, <1>8, <2>1 DEF Dropped, First
  <2>2. ASSUME NEW u, Seeking(c)' = {u}, SP!Continues(t, u), u.data = t.data, u.addr = a
        PROVE  Made(c, call)'
    <3>1. u.at \in {"introduce", "accept", "confirm"}
      BY <1>2, <1>8, <2>2 DEF SP!Continues, SP!Edges
    <3>2. \A l \in Replies(c)' : First(toClient'[ws(c)'][l], u.addr)
      BY <1>3, <1>8, <2>2
    <3>3. Own(c, call, u.addr)' /\ ToldLast(c, u.addr)'
      BY <1>6, <1>8, <2>2
    <3> QED
      BY <1>2, <1>4, <1>8, <2>2, <3>1, <3>2, <3>3 DEF Made, First
  <2> QED
    BY <1>7, <2>1, <2>2
<1>9. CASE toClient'[ws(c)] = q
  <2>1. Replies(c)' = {k} /\ First(toClient'[ws(c)][k], a)
    BY <1>2, <1>3, <1>5, <1>9, NoMessage DEF Hushed
  <2>2. ToldLast(c, a)'
    BY <1>2, <1>3, <1>9, ToldSame
  <2>3. CASE t.at = "confirm"
    BY <1>2, <1>3, <1>4, <1>7, <2>1, <2>3 DEF Dropped, First
  <2> QED
    BY <1>8, <2>1, <2>2, <2>3
<1>10. ASSUME NEW x \in sent', NEW m \in Messages, m = x.message, toClient'[ws(c)] = Append(q, m)
       PROVE  Made(c, call)' \/ Dropped(c, call)' \/ Both(c, call)'
  <2>1. PICK n : n = Len(q) + 1
    OBVIOUS
  <2>2. /\ k < n /\ toClient'[ws(c)][k] = q[k] /\ toClient'[ws(c)][n] = m
        /\ ~ Joins(m, c) => Hushed(c)
        /\ Joins(m, c) => Replies(c)' = {k, n}
    <3>1. \A l \in Replies(c) : /\ l < n /\ l # n
                                /\ toClient'[ws(c)][l] = toClient[ws(c)][l]
      BY <1>3, <1>10, <2>1, OneMessage
    <3>2. toClient'[ws(c)][n] = m
      BY <1>3, <1>10, <2>1, OneMessage
    <3>3. ~ Joins(m, c) => Hushed(c)
      BY <1>3, <1>10, <2>1, OneMessage
    <3>4. Joins(m, c) => Replies(c)' = Replies(c) \cup {n}
      BY <1>3, <1>10, <2>1, OneMessage
    <3>5. k \in Replies(c) /\ Replies(c) \cup {n} = {k, n}
      BY <1>5
    <3> QED
      BY <3>1, <3>2, <3>3, <3>4, <3>5
  <2>3. First(toClient'[ws(c)][k], a)
    BY <1>2, <1>5, <2>2
  <2>4. CASE t.at \in {"introduce", "accept"}
    <3>1. ~ Joins(m, c) /\ (About(m, a) => m.set)
      BY <1>10, <2>4, RunReplies DEF Joins, About
    <3>2. Replies(c)' = {k}
      BY <1>5, <2>2, <3>1 DEF Hushed
    <3>3. ToldLast(c, a)'
      BY <1>2, <1>3, <1>10, <2>1, <3>1, ToldStays
    <3> QED
      BY <1>8, <2>3, <2>4, <3>2, <3>3
  <2>5. CASE t.at = "confirm"
    <3>1. Joins(m, c) /\ Second(m, call)
      BY <1>2, <1>10, <2>5, RunReplies DEF Second
    <3>2. Replies(c)' = {k, n}
      BY <2>2, <3>1
    <3>3. Told(c, a, n)'
      BY <1>2, <1>3, <1>10, <2>1, ToldStays
    <3>4. First(toClient[ws(c)][k], a)' /\ Second(toClient[ws(c)][n], call)'
      BY <1>3, <2>2, <2>3, <3>1 DEF First, Second
    <3>5. Both(c, call)'
      BY <1>2, <1>4, <1>6, <1>7, <2>2, <2>5, <3>2, <3>3, <3>4 DEF Both
    <3> QED
      BY <3>5
  <2> QED
    BY <1>2, <2>4, <2>5
<1> QED
  BY <1>9, <1>10, RunHeard

LEMMA RunStage ==
  ASSUME IdInv, NEW t, Runs(t), NEW c \in Clients, Live(c), Stage(c)
  PROVE  Stage(c)'
<1>1. CASE t \notin Seeking(c)
  BY <1>1, RunStageElsewhere
<1>2. CASE t \in Seeking(c)
  <2>1. Joining(c)' = Joining(c)
    BY RunHeard DEF Joining
  <2>2. PICK call \in Joining(c) : Checked(c, call) \/ Made(c, call)
    BY <1>2 DEF Stage, NoneSought, OnItsWay, Dropped, Both, Half
  <2>3. \/ NoneSought(c)' \/ Checked(c, call)' \/ Made(c, call)'
        \/ Dropped(c, call)' \/ Both(c, call)'
    BY <1>2, <2>2, RunChecked, RunMade
  <2> QED
    BY <2>1, <2>3 DEF Stage
<1> QED
  BY <1>1, <1>2

LEMMA RunKeepsConnect ==
  ASSUME ConnectInv, HostsReserved, Run
  PROVE  ConnectInv'
<1>1. PICK t : Runs(t)
  BY RunRuns
<1>2. IdInv /\ IdInv' /\ \A c : ws(c)' = ws(c)
  BY <1>1, RunKeepsIds DEF ConnectInv, Runs, ws
<1>3. ASSUME NEW c \in Clients, Live(c)' PROVE Proceeds(c)'
  <2>1. Live(c)
    BY <1>1, <1>2, <1>3, RunSockets DEF Live, Runs
  <2>2. Proceeds(c)
    BY <2>1 DEF ConnectInv
  <2> QED
    BY <1>1, <1>2, <2>1, <2>2, RunAcceptsKnown, RunAcceptsTold, RunStage DEF Proceeds
<1>4. \A c \in Clients : Joining(c)' = Joining(c)
  BY <1>1 DEF Runs, Joining
<1> QED
  BY <1>2, <1>3, <1>4 DEF ConnectInv

----
\* A client to which nothing happens, and of which nothing is served.
Still(c) ==
  /\ ws(c)' = ws(c) /\ calls'[c] = calls[c] /\ known'[c] = known[c]
  /\ toServer'[ws(c)] = toServer[ws(c)] /\ toClient'[ws(c)] = toClient[ws(c)]
  /\ goodbyes'[ws(c)] = goodbyes[ws(c)] /\ aliases' = aliases

LEMMA StillAccepts ==
  ASSUME NEW c, Still(c), AcceptsKnown(c)
  PROVE  AcceptsKnown(c)'
<1>1. \A a : \A k : Told(c, a, k)' <=> Told(c, a, k)
  BY ToldSame DEF Still
<1> QED
  BY <1>1 DEF AcceptsKnown, Still

LEMMA StillProceeds ==
  ASSUME NEW c, Still(c), Seeking(c) = {}, Seeking(c)' = {}, \A t \in tasks' : t.at # "accept",
         Proceeds(c)
  PROVE  Proceeds(c)'
<1>1. OwnsOn(c)
  BY DEF Still, OwnsOn, Owner
<1>2. Hushed(c)
  BY NoMessage DEF Still
<1>3. SoughtOn(c)
  BY DEF Still, SoughtOn, Sought
<1>4. Stage(c)'
  BY <1>1, <1>2, <1>3, StageStays DEF Still, Proceeds
<1>5. AcceptsTold(c)'
  BY DEF AcceptsTold
<1> QED
  BY <1>4, <1>5, StillAccepts DEF Proceeds

LEMMA StutterStays ==
  ASSUME NEW c, UNCHANGED vars, Proceeds(c)
  PROVE  Proceeds(c)'
<1>1. /\ UNCHANGED <<opens, calls, known, toServer, toClient, goodbyes, aliases, tasks>>
      /\ ws(c)' = ws(c)
  BY DEF vars, client, server, ws
<1>2. /\ \A a : ToldLast(c, a)' <=> ToldLast(c, a)
      /\ \A a : \A n : Told(c, a, n)' <=> Told(c, a, n)
  BY <1>1, ToldSame
<1>3. /\ Seeking(c)' = Seeking(c) /\ Sought(c)' = Sought(c) /\ Replies(c)' = Replies(c)
      /\ Joining(c)' = Joining(c)
      /\ \A call, a : Own(c, call, a)' <=> Own(c, call, a)
  BY <1>1 DEF Seeking, Sought, Replies, Joins, Joining, Own, Owner
<1>4. AcceptsKnown(c)' /\ AcceptsTold(c)'
  BY <1>1, <1>2 DEF Proceeds, AcceptsKnown, AcceptsTold
<1>5. NoneSought(c)' <=> NoneSought(c)
  BY <1>3 DEF NoneSought
<1>6. ASSUME NEW call PROVE OnItsWay(c, call)' <=> OnItsWay(c, call)
  BY <1>1, <1>3 DEF OnItsWay
<1>7. ASSUME NEW call PROVE Checked(c, call)' <=> Checked(c, call)
  BY <1>3 DEF Checked
<1>8. ASSUME NEW call, Made(c, call) PROVE Made(c, call)'
  BY <1>1, <1>2, <1>3, <1>8 DEF Made, First
<1>9. ASSUME NEW call PROVE Dropped(c, call)' <=> Dropped(c, call)
  BY <1>1, <1>3 DEF Dropped
<1>10. ASSUME NEW call, Both(c, call) PROVE Both(c, call)'
  BY <1>1, <1>2, <1>3, <1>10 DEF Both, First, Second
<1>11. ASSUME NEW call, Half(c, call) PROVE Half(c, call)'
  BY <1>1, <1>2, <1>3, <1>11 DEF Half, Second
<1> QED
  BY <1>3, <1>4, <1>5, <1>6, <1>7, <1>8, <1>9, <1>10, <1>11 DEF Proceeds, Stage

LEMMA StutterKeepsConnect ==
  ASSUME ConnectInv, UNCHANGED vars
  PROVE  ConnectInv'
<1>1. IdInv /\ IdInv'
  BY StutterKeepsIds DEF ConnectInv
<1>2. \A c \in Clients : (Live(c)' => Live(c)) /\ Joining(c)' = Joining(c)
  BY DEF vars, client, server, Live, ws, Joining
<1>3. \A c \in Clients : Live(c)' => Proceeds(c)'
  BY <1>2, StutterStays DEF ConnectInv
<1> QED
  BY <1>1, <1>2, <1>3 DEF ConnectInv

LEMMA CloseKeepsConnect ==
  ASSUME ConnectInv, NEW S \in SUBSET accepted, Close(S)
  PROVE  ConnectInv'
<1>1. /\ SP!Close(S) /\ IdInv
      /\ toServer' = [s \in Sockets |-> IF s \in S THEN <<>> ELSE toServer[s]]
      /\ UNCHANGED <<opens, state, id, isConnected, calls, known, toClient>>
  BY SameTurns DEF Close, client, ConnectInv
<1>2. /\ tasks = {} /\ accepted' = accepted \ S /\ aliases' = aliases
      /\ goodbyes' = [s \in Sockets |-> IF s \in S THEN {} ELSE goodbyes[s]]
  BY <1>1 DEF SP!Close
<1>3. \A u \in tasks' : u.at = "close" /\ u.data.op = "close"
  BY <1>1 DEF SP!Close, SP!Begin
<1>4. \A c : ws(c)' = ws(c)
  BY <1>1 DEF ws
<1>5. ASSUME NEW c \in Clients, Live(c)' PROVE Proceeds(c)'
  <2>1. Live(c) /\ ws(c) \notin S
    BY <1>1, <1>2, <1>4, <1>5 DEF Live
  <2>2. ws(c) \in Sockets
    BY <1>1, <2>1, LiveFacts
  <2>3. Still(c)
    BY <1>1, <1>2, <1>4, <2>1, <2>2 DEF Still
  <2>4. Seeking(c) = {} /\ Seeking(c)' = {} /\ \A u \in tasks' : u.at # "accept"
    BY <1>2, <1>3 DEF Seeking
  <2> QED
    BY <2>1, <2>3, <2>4, StillProceeds DEF ConnectInv
<1>6. \A c \in Clients : Joining(c)' = Joining(c)
  BY <1>1 DEF Joining
<1>7. IdInv'
  BY <1>1, CloseKeepsIds
<1> QED
  BY <1>5, <1>6, <1>7 DEF ConnectInv

LEMMA ConnectionKeepsConnect ==
  ASSUME ConnectInv, NEW c \in Clients, Connection(c)
  PROVE  ConnectInv'
<1>1. /\ SP!Connection(ws(c)) /\ state[c] = "connecting" /\ IdInv
      /\ UNCHANGED <<opens, state, id, isConnected, calls, known, toServer, toClient, ended>>
  BY SameTurns DEF Connection, client, ConnectInv
<1>2. /\ accepted' = accepted \cup {ws(c)} /\ tasks = {}
      /\ UNCHANGED <<goodbyes, aliases, tasks>>
  BY <1>1 DEF SP!Connection, SP!addresses
<1>3. \A b : ws(b)' = ws(b)
  BY <1>1 DEF ws
<1>4. ASSUME NEW b \in Clients, Live(b)' PROVE Proceeds(b)'
  <2>1. state[b] = "open" /\ b # c
    BY <1>1, <1>4 DEF Live
  <2>2. Live(b)
    <3>1. ws(b) # ws(c)
      BY <2>1 DEF ws
    <3> QED
      BY <1>2, <1>3, <1>4, <2>1, <3>1 DEF Live
  <2>3. Still(b)
    BY <1>1, <1>2, <1>3 DEF Still
  <2>4. Seeking(b) = {} /\ Seeking(b)' = {} /\ \A u \in tasks' : u.at # "accept"
    BY <1>2 DEF Seeking
  <2> QED
    BY <2>2, <2>3, <2>4, StillProceeds DEF ConnectInv
<1>5. \A b \in Clients : Joining(b)' = Joining(b)
  BY <1>1 DEF Joining
<1>6. IdInv'
  BY <1>1, ConnectionKeepsIds
<1> QED
  BY <1>4, <1>5, <1>6 DEF ConnectInv

----
LEMMA BesideProceeds ==
  ASSUME ConnectInv, NEW step, Beside(step), NEW b \in Clients,
         opens'[b] = opens[b], state'[b] = state[b], calls'[b] = calls[b], known'[b] = known[b],
         ws(b) \in Sockets => toServer'[ws(b)] = toServer[ws(b)] /\ toClient'[ws(b)] = toClient[ws(b)]
  PROVE  Live(b)' => Proceeds(b)'
<1> SUFFICES ASSUME Live(b)' PROVE Proceeds(b)'
  OBVIOUS
<1>1. tasks = {} /\ UNCHANGED <<accepted, goodbyes, aliases, tasks>> /\ ws(b)' = ws(b) /\ IdInv
  BY DEF Beside, ws, ConnectInv
<1>2. Live(b)
  BY <1>1 DEF Live
<1>3. Still(b)
  BY <1>1, <1>2, LiveFacts DEF Still
<1>4. Seeking(b) = {} /\ Seeking(b)' = {} /\ \A u \in tasks' : u.at # "accept"
  BY <1>1 DEF Seeking
<1> QED
  BY <1>2, <1>3, <1>4, StillProceeds DEF ConnectInv

LEMMA OpenKeepsConnect ==
  ASSUME ConnectInv, NEW c \in Clients, Unasked(openClient(c))
  PROVE  ConnectInv'
<1>1. Beside(openClient(c)) /\ openClient(c) /\ IdInv
  BY DEF Unasked, Beside, ConnectInv
<1>2. /\ opens' = [opens EXCEPT ![c] = @ + 1]
      /\ state' = [state EXCEPT ![c] = "connecting"]
      /\ UNCHANGED <<id, isConnected, calls, known, toServer, toClient>>
  BY <1>1 DEF openClient
<1>3. /\ \A b \in Clients : opens'[b] = IF b = c THEN opens[b] + 1 ELSE opens[b]
      /\ \A b \in Clients : state'[b] = IF b = c THEN "connecting" ELSE state[b]
  BY <1>1, <1>2 DEF IdInv, TypeInv, ClientTyped
<1>4. \A b \in Clients \ {c} : Live(b)' => Proceeds(b)'
  BY <1>1, <1>2, <1>3, BesideProceeds
<1>5. ~ Live(c)'
  BY <1>3 DEF Live
<1>6. \A b \in Clients : Joining(b)' = Joining(b)
  BY <1>2 DEF Joining
<1>7. IdInv'
  BY <1>1, OpenKeepsIds
<1> QED
  BY <1>4, <1>5, <1>6, <1>7 DEF ConnectInv

LEMMA DisconnectedKeepsConnect ==
  ASSUME ConnectInv, NEW c \in Clients, Unasked(Disconnected(c))
  PROVE  ConnectInv'
<1>1. Beside(Disconnected(c)) /\ Disconnected(c) /\ IdInv
  BY DEF Unasked, Beside, ConnectInv
<1>2. /\ state' = [state EXCEPT ![c] = "closed"]
      /\ toClient' = [toClient EXCEPT ![ws(c)] = <<>>]
      /\ UNCHANGED <<opens, id, isConnected, calls, known, toServer>>
  BY <1>1 DEF Disconnected, handleDisconnect
<1>3. \A b \in Clients : state'[b] = IF b = c THEN "closed" ELSE state[b]
  BY <1>1, <1>2 DEF IdInv, TypeInv, ClientTyped
<1>4. ASSUME NEW b \in Clients \ {c} PROVE Live(b)' => Proceeds(b)'
  <2>1. ws(b) # ws(c)
    BY <1>4 DEF ws
  <2>2. ws(b) \in Sockets => toServer'[ws(b)] = toServer[ws(b)] /\ toClient'[ws(b)] = toClient[ws(b)]
    BY <1>1, <1>2, <2>1 DEF IdInv, TypeInv, QueuesTyped
  <2>3. /\ opens'[b] = opens[b] /\ state'[b] = state[b]
        /\ calls'[b] = calls[b] /\ known'[b] = known[b]
    BY <1>2, <1>3, <1>4
  <2> QED
    BY <1>1, <2>2, <2>3, BesideProceeds
<1>5. ~ Live(c)'
  BY <1>3 DEF Live
<1>6. \A b \in Clients : Joining(b)' = Joining(b)
  BY <1>2 DEF Joining
<1>7. IdInv'
  BY <1>1, DisconnectedKeepsIds
<1> QED
  BY <1>4, <1>5, <1>6, <1>7 DEF ConnectInv

\* A connection that has just opened carries no connect.
LEMMA OpenedKeepsConnect ==
  ASSUME ConnectInv, NEW c \in Clients, Unasked(Opened(c))
  PROVE  ConnectInv'
<1> DEFINE m == Knock(subnetPrefix)
<1>1. Beside(Opened(c)) /\ Opened(c) /\ IdInv
  BY DEF Unasked, Beside, ConnectInv
<1>2. /\ ws(c) \in accepted /\ state[c] = "connecting"
      /\ state' = [state EXCEPT ![c] = "open"]
      /\ toServer' = [toServer EXCEPT ![ws(c)] = Append(@, m)]
      /\ UNCHANGED <<opens, id, isConnected, calls, known, toClient>>
  BY <1>1 DEF Opened, handleConnect
<1>3. ws(c) \in Sockets /\ \A b \in Clients : ws(b)' = ws(b)
  BY <1>1, <1>2, SocketOf DEF IdInv, TypeInv, ws
<1>4. \A b \in Clients : state'[b] = IF b = c THEN "open" ELSE state[b]
  BY <1>1, <1>2 DEF IdInv, TypeInv, ClientTyped
<1>5. \A s \in Sockets \ {ws(c)} : toServer'[s] = toServer[s]
  BY <1>2
<1>6. ASSUME NEW b \in Clients \ {c} PROVE Live(b)' => Proceeds(b)'
  <2>1. ws(b) # ws(c)
    BY <1>6 DEF ws
  <2> QED
    BY <1>1, <1>2, <1>4, <1>5, <1>6, <2>1, BesideProceeds
<1>7. Proceeds(c)'
  <2>1. toServer[ws(c)] = <<>> /\ toClient[ws(c)] = <<>>
    <3>1. Unused(ws(c))
      BY <1>2 DEF Unused, ws
    <3> QED
      BY <1>1, <1>3, <3>1 DEF IdInv, UnusedSilent
  <2>2. toServer'[ws(c)'] = <<m>> /\ toClient'[ws(c)'] = <<>> /\ tasks' = {}
    BY <1>1, <1>2, <1>3, <2>1 DEF IdInv, TypeInv, QueuesTyped, Beside
  <2>3. m.op = "knock"
    BY DEF Knock
  <2> HIDE DEF m
  <2>4. Sought(c)' = {} /\ Seeking(c)' = {} /\ Replies(c)' = {}
    BY <2>2, <2>3 DEF Sought, Seeking, Replies
  <2>5. AcceptsKnown(c)' /\ AcceptsTold(c)'
    BY <2>2 DEF AcceptsKnown, AcceptsTold
  <2> QED
    BY <2>4, <2>5 DEF Proceeds, Stage, NoneSought
<1>8. \A b \in Clients : Joining(b)' = Joining(b)
  BY <1>2 DEF Joining
<1>9. IdInv'
  BY <1>1, OpenedKeepsIds
<1> QED
  BY <1>6, <1>7, <1>8, <1>9 DEF ConnectInv

----
\* The server takes up a request.
LEMMA ReceiveProceeds ==
  ASSUME ConnectInv, NEW s, Receive(s), NEW c \in Clients, Live(c), ws(c) = s,
         NEW u, NEW m, m = Head(toServer[s]), u.sock = s, u.at = m.op, u.data = m, tasks' = {u},
         u.at # "accept"
  PROVE  Proceeds(c)'
<1> DEFINE q == toServer[s]
<1>1. /\ IdInv /\ tasks = {} /\ q # <<>>
      /\ toServer' = [toServer EXCEPT ![s] = Tail(q)]
      /\ UNCHANGED <<opens, calls, known, toClient, goodbyes, aliases>>
  BY Received DEF client, ConnectInv
<1>2. s \in Sockets /\ q \in Seq(SP!Data) /\ ws(c)' = s /\ Proceeds(c)
  BY <1>1, LiveFacts DEF ConnectInv, ws
<1>3. toServer'[s] = Tail(q)
  BY <1>1, <1>2 DEF IdInv, TypeInv, QueuesTyped
<1>4. /\ m = q[1] /\ 1 \in DOMAIN q
      /\ \A k \in DOMAIN Tail(q) : k + 1 \in DOMAIN q /\ Tail(q)[k] = q[k + 1] /\ k + 1 # 1
      /\ \A k \in DOMAIN q : k # 1 => k - 1 \in DOMAIN Tail(q) /\ Tail(q)[k - 1] = q[k]
      /\ DOMAIN q \subseteq Nat \ {0} /\ DOMAIN Tail(q) \subseteq Nat \ {0}
  <2>1. Tail(q) \in Seq(SP!Data)
    BY <1>1, <1>2, TailFacts
  <2> QED
    BY <1>1, <1>2, <2>1, TailFacts, SeqFacts
<1>5. /\ Sought(c) = {k \in DOMAIN q : q[k].op = "connect"}
      /\ Sought(c)' = {k \in DOMAIN Tail(q) : Tail(q)[k].op = "connect"}
  <2>1. toServer'[ws(c)'] = Tail(q)
    BY <1>2, <1>3
  <2> QED
    BY <2>1 DEF Sought
<1>6. AcceptsTold(c)'
  BY DEF AcceptsTold
<1>7. AcceptsKnown(c)'
  <2>1. \A a : \A k : Told(c, a, k)' <=> Told(c, a, k)
    BY <1>1, <1>2, ToldSame
  <2> QED
    BY <1>1, <1>2, <2>1 DEF AcceptsKnown, Proceeds
<1>8. Stage(c)'
  <2> HIDE DEF q
  <2>1. Seeking(c) = {}
    BY <1>1 DEF Seeking
  <2>2. Joining(c)' = Joining(c) /\ Replies(c)' = Replies(c) /\ Hushed(c)
    BY <1>1, <1>2, NoMessage DEF Joining, Hushed
  <2>3. CASE m.op = "connect"
    <3>1. 1 \in Sought(c)
      BY <1>4, <1>5, <2>3
    <3>2. PICK call \in Joining(c) : OnItsWay(c, call)
      BY <1>2, <3>1 DEF Proceeds, Stage, NoneSought, Checked, Made, Dropped, Both, Half
    <3>3. Sought(c) = {1}
      BY <3>1, <3>2 DEF OnItsWay
    <3>4. Sought(c)' = {}
      BY <1>4, <1>5, <3>3
    <3>5. Seeking(c)' = {u}
      BY <1>2, <2>3 DEF Seeking
    <3>6. m.remoteAlias = call.alias /\ m.id = call.id
      <4>1. \A k \in Sought(c) : /\ toServer[s][k].remoteAlias = call.alias
                                 /\ toServer[s][k].id = call.id
        BY <3>2 DEF OnItsWay
      <4>2. q[1].remoteAlias = call.alias /\ q[1].id = call.id
        BY <3>1, <4>1 DEF q
      <4> QED
        BY <1>4, <4>2
    <3>7. Checked(c, call)'
      BY <2>2, <2>3, <3>2, <3>4, <3>5, <3>6 DEF Checked, OnItsWay
    <3> QED
      BY <2>2, <3>2, <3>7 DEF Stage
  <2>4. CASE m.op # "connect"
    <3>1. Seeking(c)' = {}
      BY <1>2, <2>4 DEF Seeking
    <3>2. SoughtOn(c)
      <4>1. \A k \in Sought(c)' : k + 1 \in Sought(c)
        BY <1>4, <1>5
      <4>2. ASSUME NEW k, Sought(c) = {k}
            PROVE  \E l : Sought(c)' = {l} /\ toServer'[ws(c)][l] = toServer[ws(c)][k]
        <5>1. k \in DOMAIN q /\ k # 1 /\ k \in Nat \ {0}
          BY <1>4, <1>5, <2>4, <4>2
        <5>2. PICK l : l = k - 1
          OBVIOUS
        <5>3. l \in Sought(c)' /\ Tail(q)[l] = q[k]
          BY <1>4, <1>5, <4>2, <5>1, <5>2
        <5>4. \A i \in Sought(c)' : i = l
          <6>1. \A i \in Sought(c)' : i \in Nat /\ i + 1 = k
            BY <1>4, <1>5, <4>1, <4>2
          <6> QED
            BY <5>1, <5>2, <6>1
        <5>5. Sought(c)' = {l}
          BY <5>3, <5>4
        <5> QED
          BY <1>3, <5>3, <5>5 DEF q
      <4> QED
        BY <4>1, <4>2 DEF SoughtOn
    <3>3. OwnsOn(c)
      BY <1>1 DEF OwnsOn, Owner
    <3> QED
      BY <1>1, <1>2, <2>1, <2>2, <3>1, <3>2, <3>3, StageStays DEF Proceeds
  <2> QED
    BY <2>3, <2>4
<1> QED
  BY <1>6, <1>7, <1>8 DEF Proceeds

LEMMA ReceiveKeepsConnect ==
  ASSUME ConnectInv, HostsDistinct, NEW s, Receive(s)
  PROVE  ConnectInv'
<1> DEFINE m == Head(toServer[s])
           u == SP!Begin(1, s, m.op, m)
<1>1. /\ IdInv /\ tasks = {} /\ tasks' = {u} /\ s \in accepted /\ toServer[s] # <<>>
      /\ toServer' = [toServer EXCEPT ![s] = Tail(@)]
      /\ UNCHANGED <<opens, state, calls, known, toClient, accepted, goodbyes, aliases>>
  BY Received DEF client, ConnectInv
<1>2. IdInv'
  BY <1>1, ReceiveKeepsIds
<1>3. u.sock = s /\ u.at = m.op /\ u.data = m
  BY DEF SP!Begin
<1> HIDE DEF u
<1>4. s \in Sockets /\ \A r \in Sockets \ {s} : toServer'[r] = toServer[r]
  BY <1>1 DEF IdInv, TypeInv, SP!IInv, SP!DataTyped, QueuesTyped
<1>5. m.op # "accept"
  <2>1. toServer[s] \in Seq(SP!Data)
    BY <1>1, <1>4 DEF IdInv, TypeInv, QueuesTyped
  <2>2. m \in Held(toServer[s])
    BY <1>1, <2>1, TailFacts
  <2>3. Asked(s, m)
    BY <1>1, <2>2 DEF IdInv, AskedKinds
  <2> QED
    BY <2>3 DEF Asked, Knock
<1>6. \A b : ws(b)' = ws(b) /\ (Live(b)' => Live(b)) /\ Joining(b)' = Joining(b)
  BY <1>1 DEF ws, Live, Joining
<1>7. ASSUME NEW b \in Clients, Live(b), ws(b) # s PROVE Proceeds(b)'
  <2>1. Still(b)
    BY <1>1, <1>4, <1>6, <1>7, LiveFacts DEF Still
  <2>2. Seeking(b) = {} /\ Seeking(b)' = {} /\ \A t \in tasks' : t.at # "accept"
    BY <1>1, <1>3, <1>5, <1>6, <1>7 DEF Seeking
  <2> QED
    BY <1>7, <2>1, <2>2, StillProceeds DEF ConnectInv
<1>8. ASSUME NEW b \in Clients, Live(b), ws(b) = s PROVE Proceeds(b)'
  BY <1>1, <1>3, <1>5, <1>8, ReceiveProceeds
<1> QED
  BY <1>2, <1>6, <1>7, <1>8 DEF ConnectInv

----
\* A reply counts for the connect that waits, and another message does not.
LEMMA OperationJoins ==
  ASSUME IdInv, NEW c \in Clients, Unasked(handleOperation(c)), NEW m, m = Head(toClient[ws(c)])
  PROVE  /\ ~ Joins(m, c) => Joining(c)' = Joining(c)
         /\ Joins(m, c) => \A y : y \in Joining(c)' <=>
                             \E x \in Joining(c) : goesOn(x, m) /\ y = counted(x, m)
<1>1. ClientTyped /\ calls[c] \subseteq Calls
  BY DEF IdInv, TypeInv, ClientTyped
<1>2. \/ m.op \in {"alias", "accept"} /\ notify(c, m)
      \/ m.op \notin {"alias", "accept"} /\ calls' = calls
  BY DEF Unasked, Beside, handleOperation
<1>3. CASE calls' = calls /\ m.op \notin {"alias", "accept"}
  BY <1>3 DEF Joining, Joins
<1>4. CASE notify(c, m)
  <2>1. calls'[c] = {IF waitsFor(c, x, m) THEN counted(x, m) ELSE x : x \in calls[c] \ settled(c, m)}
    BY <1>1, <1>4 DEF notify, ClientTyped
  <2>2. \A x \in Joining(c) : /\ waitsFor(c, x, m) <=> Joins(m, c)
                              /\ x \in settled(c, m) <=> Joins(m, c) /\ ~ goesOn(x, m)
    BY DEF waitsFor, Joins, settled, Joining
  <2>3. \A x \in Calls : counted(x, m).op = x.op
    BY DEF counted, Calls
  <2>4. ASSUME NEW y \in Joining(c)'
        PROVE  \/ ~ Joins(m, c) /\ y \in Joining(c)
               \/ Joins(m, c) /\ \E x \in Joining(c) : goesOn(x, m) /\ y = counted(x, m)
    <3>1. PICK x \in calls[c] \ settled(c, m) :
            y = IF waitsFor(c, x, m) THEN counted(x, m) ELSE x
      BY <2>1, <2>4 DEF Joining
    <3>2. CASE waitsFor(c, x, m)
      <4>1. x \in Joining(c)
        BY <3>2, NotifyFacts DEF Joining
      <4> QED
        BY <2>2, <3>1, <3>2, <4>1
    <3>3. CASE ~ waitsFor(c, x, m)
      <4>1. x \in Joining(c) /\ y = x
        BY <2>4, <3>1, <3>3 DEF Joining
      <4> QED
        BY <2>2, <3>3, <4>1
    <3> QED
      BY <3>2, <3>3
  <2>5. ASSUME NEW x \in Joining(c), ~ Joins(m, c) PROVE x \in Joining(c)'
    <3>1. x \in calls[c] \ settled(c, m) /\ ~ waitsFor(c, x, m)
      BY <2>2, <2>5 DEF Joining
    <3>2. x \in calls'[c]
      BY <2>1, <3>1
    <3> QED
      BY <3>2 DEF Joining
  <2>6. ASSUME NEW x \in Joining(c), Joins(m, c), goesOn(x, m) PROVE counted(x, m) \in Joining(c)'
    <3>1. x \in calls[c] \ settled(c, m) /\ waitsFor(c, x, m) /\ x.op = "connect" /\ x \in Calls
      BY <1>1, <2>2, <2>6 DEF Joining
    <3>2. counted(x, m) \in calls'[c]
      BY <2>1, <3>1
    <3>3. counted(x, m).op = "connect"
      BY <2>3, <3>1
    <3> QED
      BY <3>2, <3>3 DEF Joining
  <2> QED
    BY <2>4, <2>5, <2>6
<1> QED
  BY <1>2, <1>3, <1>4

LEMMA CountedFields ==
  ASSUME NEW x \in Calls, NEW m, x.count = 0
  PROVE  LET y == counted(x, m) IN
         /\ y.id = x.id /\ y.alias = x.alias /\ y.count = 1
         /\ m.isConnectionAlias => y.clientAlias = m.alias
         /\ ~ m.isConnectionAlias => y.clientAlias = x.clientAlias
  BY DEF counted, Calls

\* The client handles a message.
LEMMA OperationProceeds ==
  ASSUME ConnectInv, NEW c \in Clients, Unasked(handleOperation(c)), Live(c)
  PROVE  Proceeds(c)'
<1> DEFINE q == toClient[ws(c)]
<1>1. PICK m : m = Head(q)
  OBVIOUS
<1>2. IdInv /\ Proceeds(c) /\ Beside(handleOperation(c)) /\ calls[c] \subseteq Calls
  BY DEF ConnectInv, Unasked, Beside, IdInv, TypeInv, ClientTyped
<1>3. /\ q # <<>> /\ q \in Seq(Messages) /\ m \in Messages
      /\ toClient'[ws(c)] = Tail(q)
      /\ UNCHANGED <<opens, toServer>> /\ Notes(c, m)
  BY <1>1, <1>2, OperationFacts
<1>4. tasks = {} /\ UNCHANGED <<goodbyes, aliases, tasks>> /\ ws(c)' = ws(c)
  BY <1>2, <1>3 DEF ws, Beside
<1>5. /\ m = q[1] /\ 1 \in DOMAIN q
      /\ \A k \in DOMAIN Tail(q) : k + 1 \in DOMAIN q /\ Tail(q)[k] = q[k + 1]
      /\ \A k \in DOMAIN q : k # 1 => k - 1 \in DOMAIN Tail(q) /\ Tail(q)[k - 1] = q[k]
      /\ DOMAIN q \subseteq Nat \ {0} /\ DOMAIN Tail(q) \subseteq Nat \ {0}
  <2>1. Tail(q) \in Seq(Messages)
    BY <1>3, TailFacts
  <2> QED
    BY <1>1, <1>3, <2>1, TailFacts, SeqFacts
<1>6. ASSUME NEW a, NEW n \in Nat \ {0}, Told(c, a, n + 1) PROVE Told(c, a, n)'
  <2>1. /\ ~ About(m, a) => /\ a \in DOMAIN known'[c] <=> a \in DOMAIN known[c]
                            /\ a \in DOMAIN known[c] => known'[c][a] = known[c][a]
        /\ About(m, a) => /\ a \in DOMAIN known'[c] <=> m.set
                          /\ m.set => known'[c][a] = m.id
    BY <1>3 DEF Notes, About
  <2> QED
    BY <1>1, <1>3, <1>4, <1>6, <2>1, ToldMoves
<1>7. toClient'[ws(c)'] = Tail(q)
  BY <1>3, <1>4
<1>8. AcceptsTold(c)'
  BY <1>4 DEF AcceptsTold
<1>9. AcceptsKnown(c)'
  <2>1. ASSUME NEW k \in DOMAIN Tail(q), NEW y, y = Tail(q)[k], y.op = "accept",
               NEW a, a = y.clientAlias
        PROVE  Told(c, a, k)'
    <3>1. Told(c, a, k + 1)
      BY <1>2, <1>5, <2>1 DEF Proceeds, AcceptsKnown
    <3> QED
      BY <1>5, <1>6, <3>1
  <2> SUFFICES ASSUME NEW k \in DOMAIN toClient'[ws(c)'], NEW y, y = toClient'[ws(c)'][k],
                      y.op = "accept", NEW a, a = y.clientAlias
               PROVE  Told(c, a, k)'
    BY DEF AcceptsKnown
  <2> QED
    BY <1>7, <2>1
<1>10. /\ Replies(c) = {k \in DOMAIN q : Joins(q[k], c)}
       /\ Replies(c)' = {k \in DOMAIN Tail(q) : Joins(Tail(q)[k], c)}
  BY <1>7 DEF Replies
<1>11. /\ \A k \in Replies(c)' : k \in Nat \ {0} /\ k + 1 \in Replies(c)
       /\ \A k \in Replies(c) : /\ k \in Nat \ {0}
                                /\ k # 1 => k - 1 \in Replies(c)' /\ Tail(q)[k - 1] = q[k]
       /\ 1 \in Replies(c) <=> Joins(m, c)
  <2> HIDE DEF q
  <2> QED
    BY <1>5, <1>10
<1>12. /\ Seeking(c) = {} /\ Seeking(c)' = {} /\ Sought(c)' = Sought(c)
       /\ \A call, a : Own(c, call, a) => Own(c, call, a)'
  BY <1>3, <1>4 DEF Seeking, Sought, Own, Owner
<1>13. ASSUME NoneSought(c) PROVE Stage(c)'
  <2>1. Replies(c)' = {} /\ Sought(c) = {}
    BY <1>11, <1>13 DEF NoneSought
  <2>2. NoneSought(c)'
    BY <1>12, <2>1 DEF NoneSought
  <2> QED
    BY <2>2 DEF Stage
<1>14. ASSUME NEW call \in Joining(c), OnItsWay(c, call) PROVE Stage(c)'
  <2>1. Replies(c)' = {} /\ ~ Joins(m, c)
    BY <1>11, <1>14 DEF OnItsWay
  <2>2. call \in Joining(c)'
    BY <1>1, <1>2, <1>14, <2>1, OperationJoins
  <2>3. OnItsWay(c, call)'
    BY <1>3, <1>4, <1>12, <1>14, <2>1 DEF OnItsWay
  <2> QED
    BY <2>2, <2>3 DEF Stage
<1>15. ASSUME NEW call \in Joining(c), Dropped(c, call) PROVE Stage(c)'
  <2>1. PICK k : Replies(c) = {k}
    BY <1>15 DEF Dropped
  <2>2. CASE Joins(m, c)
    <3>1. k = 1
      BY <1>11, <2>1, <2>2
    <3>2. Replies(c)' = {}
      BY <1>11, <2>1, <3>1
    <3> QED
      BY <1>12, <1>15, <3>2 DEF Stage, NoneSought, Dropped
  <2>3. CASE ~ Joins(m, c)
    <3>1. k # 1 /\ k \in Nat \ {0}
      BY <1>11, <2>1, <2>3
    <3>2. k - 1 \in Replies(c)' /\ Tail(q)[k - 1] = q[k]
      BY <1>11, <2>1, <3>1
    <3>3. Replies(c)' = {k - 1}
      <4>1. \A i \in Replies(c)' : i \in Nat /\ i + 1 = k
        BY <1>11, <2>1
      <4>2. \A i \in Replies(c)' : i = k - 1
        BY <3>1, <4>1
      <4> QED
        BY <3>2, <4>2
    <3>4. PICK l, y : l = k - 1 /\ y = q[k]
      OBVIOUS
    <3>5. y.set => y.isConnectionAlias
      BY <1>15, <2>1, <3>4 DEF Dropped
    <3>6. Replies(c)' = {l} /\ toClient'[ws(c)'][l] = y
      BY <1>7, <3>2, <3>3, <3>4
    <3>7. Dropped(c, call)'
      BY <1>12, <1>15, <3>5, <3>6 DEF Dropped
    <3>8. call \in Joining(c)'
      BY <1>1, <1>2, <1>15, <2>3, OperationJoins
    <3> QED
      BY <3>7, <3>8 DEF Stage
  <2> QED
    BY <2>2, <2>3
<1>16. ASSUME NEW call \in Joining(c), Both(c, call) PROVE Stage(c)'
  <2>1. PICK k, l, a : /\ Replies(c) = {k, l} /\ k < l /\ Own(c, call, a) /\ Told(c, a, l)
                       /\ First(q[k], a) /\ Second(q[l], call)
    BY <1>16 DEF Both
  <2>2. k \in Nat \ {0} /\ l \in Nat \ {0} /\ l # 1 /\ l - 1 \in Nat \ {0} /\ (l - 1) + 1 = l
    <3>1. k \in Nat \ {0} /\ l \in Nat \ {0}
      BY <1>11, <2>1
    <3> QED
      BY <2>1, <3>1
  <2>3. PICK n : n = l - 1
    OBVIOUS
  <2>4. PICK y : y = q[l]
    OBVIOUS
  <2>5. /\ n \in Nat \ {0} /\ n + 1 = l /\ Told(c, a, n)' /\ Own(c, call, a)'
        /\ n \in Replies(c)' /\ toClient'[ws(c)'][n] = y /\ Second(y, call)
    BY <1>6, <1>7, <1>11, <1>12, <2>1, <2>2, <2>3, <2>4
  <2>6. CASE Joins(m, c)
    <3>1. k = 1
      BY <1>11, <2>1, <2>2, <2>6
    <3>2. m = q[k] /\ m.set /\ m.isConnectionAlias /\ m.alias = a
      BY <1>5, <2>1, <3>1 DEF First
    <3>3. call \in Calls /\ call.count = 0 /\ call.op = "connect"
      BY <1>2, <1>16 DEF Both, Joining
    <3>4. goesOn(call, m)
      BY <3>2, <3>3 DEF goesOn
    <3>5. PICK z : z = counted(call, m)
      OBVIOUS
    <3>6. z \in Joining(c)'
      BY <1>1, <1>2, <1>16, <2>6, <3>4, <3>5, OperationJoins
    <3>7. z.id = call.id /\ z.alias = call.alias /\ z.count = 1 /\ z.clientAlias = a
      BY <3>2, <3>3, <3>5, CountedFields
    <3>8. Replies(c)' = {n}
      <4>1. \A i \in Replies(c)' : i \in Nat \ {0} /\ i + 1 \in {k, l}
        BY <1>11, <2>1
      <4>2. \A i \in Replies(c)' : i = n
        BY <2>3, <2>2, <3>1, <4>1
      <4> QED
        BY <2>5, <4>2
    <3>9. Own(c, z, a)' /\ Second(y, z)
      BY <2>5, <3>7 DEF Own, Second
    <3>10. Half(c, z)'
      <4>1. Own(c, z, z.clientAlias)' /\ Told(c, z.clientAlias, n)'
        BY <2>5, <3>7, <3>9
      <4> QED
        BY <1>12, <1>16, <2>5, <3>7, <3>8, <3>9, <4>1 DEF Half, Both, Second
    <3> QED
      BY <3>6, <3>10 DEF Stage
  <2>7. CASE ~ Joins(m, c)
    <3>1. k # 1 /\ l # 1
      BY <1>11, <2>1, <2>7
    <3>2. PICK i, x : i = k - 1 /\ x = q[k]
      OBVIOUS
    <3>3. i \in Replies(c)' /\ toClient'[ws(c)'][i] = x /\ First(x, a)
      BY <1>7, <1>11, <2>1, <3>1, <3>2
    <3>4. i < n
      BY <2>1, <2>2, <2>3, <3>2
    <3>5. Replies(c)' = {i, n}
      <4>1. \A j \in Replies(c)' : j \in Nat /\ j + 1 \in {k, l}
        BY <1>11, <2>1
      <4>2. \A j \in Replies(c)' : j = i \/ j = n
        BY <2>2, <2>3, <3>2, <4>1
      <4> QED
        BY <2>5, <3>3, <4>2
    <3>6. Both(c, call)'
      BY <1>12, <1>16, <2>5, <3>3, <3>4, <3>5 DEF Both, First, Second
    <3>7. call \in Joining(c)'
      BY <1>1, <1>2, <1>16, <2>7, OperationJoins
    <3> QED
      BY <3>6, <3>7 DEF Stage
  <2> QED
    BY <2>6, <2>7
<1>17. ASSUME NEW call \in Joining(c), Half(c, call) PROVE Stage(c)'
  <2>1. PICK l : /\ Replies(c) = {l} /\ Told(c, call.clientAlias, l) /\ Second(q[l], call)
    BY <1>17 DEF Half
  <2>2. CASE Joins(m, c)
    <3>1. l = 1
      BY <1>11, <2>1, <2>2
    <3>2. Replies(c)' = {}
      BY <1>11, <2>1, <3>1
    <3> QED
      BY <1>12, <1>17, <3>2 DEF Stage, NoneSought, Half
  <2>3. CASE ~ Joins(m, c)
    <3>1. l # 1 /\ l \in Nat \ {0}
      BY <1>11, <2>1, <2>3
    <3>2. PICK n, y, a : n = l - 1 /\ y = q[l] /\ a = call.clientAlias
      OBVIOUS
    <3>3. n \in Nat \ {0} /\ n + 1 = l
      BY <3>1, <3>2
    <3>4. n \in Replies(c)' /\ toClient'[ws(c)'][n] = y /\ Second(y, call)
      BY <1>7, <1>11, <2>1, <3>1, <3>2
    <3>5. Told(c, a, n)'
      BY <1>6, <2>1, <3>2, <3>3
    <3>6. Replies(c)' = {n}
      <4>1. \A j \in Replies(c)' : j \in Nat /\ j + 1 = l
        BY <1>11, <2>1
      <4>2. \A j \in Replies(c)' : j = n
        BY <3>2, <4>1
      <4> QED
        BY <3>4, <4>2
    <3>7. Told(c, call.clientAlias, n)' /\ Own(c, call, call.clientAlias)'
      BY <1>12, <1>17, <3>2, <3>5 DEF Half
    <3>8. Half(c, call)'
      BY <1>12, <1>17, <3>4, <3>6, <3>7 DEF Half, Second
    <3>9. call \in Joining(c)'
      BY <1>1, <1>2, <1>17, <2>3, OperationJoins
    <3> QED
      BY <3>8, <3>9 DEF Stage
  <2> QED
    BY <2>2, <2>3
<1>18. Stage(c)'
  <2>1. \A call : ~ Checked(c, call) /\ ~ Made(c, call)
    BY <1>12 DEF Checked, Made
  <2> QED
    BY <1>2, <1>13, <1>14, <1>15, <1>16, <1>17, <2>1 DEF Proceeds, Stage
<1> QED
  BY <1>8, <1>9, <1>18 DEF Proceeds

LEMMA OperationKeepsConnect ==
  ASSUME ConnectInv, NEW c \in Clients, Unasked(handleOperation(c))
  PROVE  ConnectInv'
<1>1. PICK m : m = Head(toClient[ws(c)])
  OBVIOUS
<1>2. IdInv /\ Beside(handleOperation(c))
  BY DEF ConnectInv, Unasked, Beside
<1>3. /\ UNCHANGED <<opens, state, toServer>>
      /\ \A b \in Clients \ {c} : calls'[b] = calls[b] /\ known'[b] = known[b]
      /\ \A s \in Sockets \ {ws(c)} : toClient'[s] = toClient[s]
  BY <1>1, <1>2, OperationFacts
<1>4. ASSUME NEW b \in Clients \ {c} PROVE Live(b)' => Proceeds(b)'
  <2>1. ws(b) # ws(c)
    BY <1>4 DEF ws
  <2> QED
    BY <1>2, <1>3, <2>1, BesideProceeds
<1>5. Live(c)' => Proceeds(c)'
  <2>1. Live(c)' => Live(c)
    BY <1>2, <1>3 DEF Live, ws, Beside
  <2> QED
    BY <2>1, OperationProceeds
<1>6. ASSUME NEW b \in Clients PROVE \A x, y \in Joining(b)' : x = y
  <2>1. CASE b # c
    BY <1>3, <2>1 DEF Joining, ConnectInv
  <2>2. CASE b = c
    <3>1. \A x, y \in Joining(c) : x = y
      BY DEF ConnectInv
    <3> QED
      BY <1>1, <1>2, <2>2, <3>1, OperationJoins
  <2> QED
    BY <2>1, <2>2
<1>7. IdInv'
  BY <1>2, OperationKeepsIds
<1> QED
  BY <1>4, <1>5, <1>6, <1>7 DEF ConnectInv

----
\* A program that asks for something waits for no connect.
LEMMA ProgramConnects ==
  ASSUME NEW c \in Clients, Beside(Program(c))
  PROVE  /\ Joining(c) = {}
         /\ \E m, call :
              /\ \/ call.op # "connect" /\ m.op # "connect"
                 \/ /\ call.op = "connect" /\ call.count = 0 /\ m.op = "connect"
                    /\ m.remoteAlias = call.alias /\ m.id = call.id
              /\ Wait(c, call) /\ Send(c, m)
              /\ UNCHANGED <<opens, state, id, isConnected, known, toClient>>
<1>1. Program(c) /\ running(c)
  BY DEF Beside, Program
<1>2. Joining(c) = {}
  BY <1>1 DEF running, Joining
<1>3. ASSUME NEW op, NEW alias
      PROVE  /\ Request(op, id[c], alias).op = op
             /\ Connect(id[c], alias, c).op = "connect"
             /\ Connect(id[c], alias, c).remoteAlias = alias
             /\ Connect(id[c], alias, c).id = id[c]
             /\ Call(op, c, alias).op = op /\ Call(op, c, alias).alias = alias
             /\ Call(op, c, alias).id = id[c] /\ Call(op, c, alias).count = 0
  BY DEF Request, Connect, Call
<1>4. PICK m, call :
           /\ \/ \E alias : m = Request("bind", id[c], alias) /\ call = Call("bind", c, alias)
              \/ \E alias : m = Request("accepting", id[c], alias) /\ call = Call("accept", c, alias)
              \/ \E alias : m = Request("shutdown", id[c], alias) /\ call = Call("shutdown", c, alias)
              \/ \E alias : m = Connect(id[c], alias, c) /\ call = Call("connect", c, alias)
           /\ Wait(c, call) /\ Send(c, m)
           /\ UNCHANGED <<opens, state, id, isConnected, known, toClient>>
  BY <1>1, ProgramCalls
<1>5. \/ call.op # "connect" /\ m.op # "connect"
      \/ /\ call.op = "connect" /\ call.count = 0 /\ m.op = "connect"
         /\ m.remoteAlias = call.alias /\ m.id = call.id
  BY <1>3, <1>4
<1> QED
  BY <1>2, <1>4, <1>5

LEMMA ProgramKeepsConnect ==
  ASSUME ConnectInv, "tidy" \notin Habits, NEW c \in Clients, Beside(Program(c))
  PROVE  ConnectInv'
<1>1. IdInv /\ IdInv'
  BY ProgramKeepsIds DEF ConnectInv
<1>2. ws(c) \in Sockets /\ ws(c) \in accepted
  BY <1>1, CallFacts DEF Program, Beside, IdInv
<1>3. PICK m, call :
        /\ \/ call.op # "connect" /\ m.op # "connect"
           \/ /\ call.op = "connect" /\ call.count = 0 /\ m.op = "connect"
              /\ m.remoteAlias = call.alias /\ m.id = call.id
        /\ Wait(c, call) /\ Send(c, m)
        /\ UNCHANGED <<opens, state, id, isConnected, known, toClient>>
  BY ProgramConnects
<1>4. /\ calls'[c] = calls[c] \cup {call}
      /\ \A b \in Clients \ {c} : calls'[b] = calls[b]
  BY <1>1, <1>3 DEF Wait, IdInv, TypeInv, ClientTyped
<1>5. /\ state[c] = "open" => toServer'[ws(c)] = Append(toServer[ws(c)], m)
      /\ \A s \in Sockets \ {ws(c)} : toServer'[s] = toServer[s]
  BY <1>1, <1>2, <1>3 DEF Send, IdInv, TypeInv, QueuesTyped
<1>6. ws(c)' = ws(c) /\ tasks = {} /\ UNCHANGED <<tasks, accepted>>
  BY <1>3 DEF ws, Beside
<1>7. ASSUME NEW b \in Clients, b # c PROVE Live(b)' => Proceeds(b)'
  <2>1. ws(b) # ws(c)
    BY <1>7 DEF ws
  <2>2. ws(b) \in Sockets => toServer'[ws(b)] = toServer[ws(b)] /\ toClient'[ws(b)] = toClient[ws(b)]
    BY <1>3, <1>5, <2>1
  <2> QED
    BY <1>3, <1>4, <1>7, <2>2, BesideProceeds
<1>8. ASSUME Live(c)' PROVE Proceeds(c)'
  <2> DEFINE q == toServer[ws(c)]
  <2>1. Live(c) /\ state[c] = "open" /\ Proceeds(c)
    BY <1>3, <1>6, <1>8 DEF Live, ConnectInv
  <2>2. AcceptsKnown(c)' /\ AcceptsTold(c)'
    <3>1. \A a : \A k : Told(c, a, k)' <=> Told(c, a, k)
      BY <1>3, <1>6, ToldSame
    <3>2. AcceptsKnown(c)'
      BY <1>3, <1>6, <2>1, <3>1 DEF AcceptsKnown, Proceeds
    <3> QED
      BY <1>6, <3>2 DEF AcceptsTold
  <2>3. Sought(c) = {} /\ Seeking(c) = {} /\ Replies(c) = {}
    BY <2>1, ProgramConnects DEF Proceeds, Stage, NoneSought
  <2>4. Seeking(c)' = {} /\ Replies(c)' = {}
    BY <1>3, <1>6, <2>3 DEF Seeking, Replies, Joins
  <2>5. q \in Seq(SP!Data \cup {m})
    BY <1>1, <2>1, LiveFacts
  <2>6. PICK n : n = Len(q) + 1
    OBVIOUS
  <2>7. /\ DOMAIN Append(q, m) = DOMAIN q \cup {n} /\ n \notin DOMAIN q
        /\ \A k \in DOMAIN q : Append(q, m)[k] = q[k]
        /\ Append(q, m)[n] = m
    BY <2>5, <2>6, AppendFacts
  <2>8. toServer'[ws(c)'] = Append(q, m)
    BY <1>5, <1>6, <2>1
  <2>9. /\ Sought(c) = {k \in DOMAIN q : q[k].op = "connect"}
        /\ Sought(c)' = {k \in DOMAIN Append(q, m) : Append(q, m)[k].op = "connect"}
    BY <2>8 DEF Sought
  <2>10. CASE m.op # "connect"
    <3>1. Sought(c)' = {}
      <4> HIDE DEF q
      <4> QED
        BY <2>3, <2>7, <2>9, <2>10
    <3> QED
      BY <2>2, <2>4, <3>1 DEF Proceeds, Stage, NoneSought
  <2>11. CASE call.op = "connect" /\ m.op = "connect"
    <3>1. Sought(c)' = {n}
      <4> HIDE DEF q
      <4> QED
        BY <2>3, <2>7, <2>9, <2>11
    <3>2. toServer'[ws(c)'][n] = m
      BY <2>7, <2>8
    <3>3. call.count = 0 /\ m.remoteAlias = call.alias /\ m.id = call.id
      BY <1>3, <2>11
    <3>4. OnItsWay(c, call)'
      BY <2>4, <3>1, <3>2, <3>3 DEF OnItsWay
    <3>5. call \in Joining(c)'
      BY <1>4, <2>11 DEF Joining
    <3> QED
      BY <2>2, <3>4, <3>5 DEF Proceeds, Stage
  <2> QED
    BY <1>3, <2>10, <2>11
<1>9. ASSUME NEW b \in Clients PROVE \A x, y \in Joining(b)' : x = y
  <2>1. CASE b # c
    BY <1>4, <2>1 DEF Joining, ConnectInv
  <2>2. CASE b = c
    BY <1>4, <2>2, ProgramConnects DEF Joining
  <2> QED
    BY <2>1, <2>2
<1> QED
  BY <1>1, <1>7, <1>8, <1>9 DEF ConnectInv

----
LEMMA InitKeepsConnect == Init => ConnectInv
<1> SUFFICES ASSUME Init PROVE ConnectInv
  OBVIOUS
<1>1. IdInv
  BY InitKeepsIds
<1>2. /\ state = [c \in Clients |-> "none"] /\ calls = [c \in Clients |-> {}]
  BY DEF Init, ClientInit
<1>3. \A c \in Clients : ~ Live(c) /\ Joining(c) = {}
  BY <1>2 DEF Live, Joining
<1> QED
  BY <1>1, <1>3 DEF ConnectInv

LEMMA NextKeepsConnect ==
  ASSUME "tidy" \notin Habits, HostsDistinct
  PROVE  ConnectInv /\ HostsReserved /\ [Next]_vars => ConnectInv'
<1> SUFFICES ASSUME ConnectInv, HostsReserved, [Next]_vars PROVE ConnectInv'
  OBVIOUS
<1>1. SUFFICES ASSUME \/ Run
                      \/ \E c \in Clients : \/ Connection(c) \/ Unasked(openClient(c))
                                            \/ Unasked(Opened(c)) \/ Unasked(Disconnected(c))
                                            \/ Unasked(handleOperation(c))
                                            \/ Beside(Program(c))
                      \/ \E s \in accepted : Receive(s)
                      \/ \E S \in SUBSET accepted : Close(S)
                      \/ UNCHANGED vars
               PROVE  ConnectInv'
  BY Steps
<1> QED
  BY <1>1, RunKeepsConnect, ConnectionKeepsConnect, OpenKeepsConnect, OpenedKeepsConnect,
     DisconnectedKeepsConnect, OperationKeepsConnect, ProgramKeepsConnect,
     ReceiveKeepsConnect, CloseKeepsConnect, StutterKeepsConnect

LEMMA ConnectInvariance ==
  ASSUME "tidy" \notin Habits, HostsDistinct
  PROVE  Spec /\ []HostsReserved => []ConnectInv
<1>1. Init => ConnectInv
  BY InitKeepsConnect
<1>2. ConnectInv /\ HostsReserved /\ [Next]_vars => ConnectInv'
  BY NextKeepsConnect
<1> QED
  BY <1>1, <1>2, PTL DEF Spec

\* A client takes a message from its queue only in handleOperation.
LEMMA HandlesIs ==
  ASSUME IdInv, [Next]_vars, NEW c \in Clients, Handles(c)
  PROVE  Unasked(handleOperation(c))
<1> DEFINE q == toClient[ws(c)]
<1>1. /\ state[c] = "open" /\ state'[c] = "open" /\ q # <<>> /\ toClient'[ws(c)] = Tail(q)
  BY DEF Handles
<1>2. ws(c) \in Sockets /\ ClientTyped /\ QueuesTyped /\ q \in Seq(Messages)
  BY <1>1, SocketOf DEF IdInv, TypeInv, QueuesTyped
<1>3. Len(Tail(q)) = Len(q) - 1 /\ Len(q) \in Nat
  BY <1>1, <1>2, TailFacts
<1>4. toClient'[ws(c)] # q /\ \A y : Len(y) = Len(q) + 1 => toClient'[ws(c)] # y
  <2>1. PICK r : r = toClient'[ws(c)]
    OBVIOUS
  <2>2. Len(r) = Len(q) - 1
    BY <1>1, <1>3, <2>1
  <2>3. r # q /\ \A y : Len(y) = Len(q) + 1 => r # y
    BY <1>3, <2>2
  <2> QED
    BY <2>1, <2>3
<1>5. ~ Run
  <2>1. SUFFICES ASSUME Run PROVE FALSE
    OBVIOUS
  <2>2. PICK t : Runs(t)
    BY <2>1, RunRuns
  <2>3. deliver /\ t \in tasks /\ SP!Run(t) /\ SP!IInv /\ ConnectsTyped
    BY <2>2 DEF Runs, IdInv, TypeInv
  <2>4. PICK x \in sent' : toClient'[ws(c)] = Append(q, x.message)
    BY <1>2, <1>4, <2>3, Delivered
  <2>5. x.message \in Messages
    BY <2>3, RunMessages
  <2>6. Len(Append(q, x.message)) = Len(q) + 1
    BY <1>2, <2>5, AppendFacts
  <2> QED
    BY <1>4, <2>4, <2>6
<1>6. ASSUME NEW b \in Clients
      PROVE  ~ Connection(b) /\ ~ Unasked(openClient(b)) /\ ~ Unasked(Opened(b)) /\ ~ Beside(Program(b))
  <2>1. Connection(b) => toClient' = toClient
    BY DEF Connection
  <2>2. Unasked(openClient(b)) => toClient' = toClient
    BY DEF Unasked, Beside, openClient
  <2>3. Unasked(Opened(b)) => toClient' = toClient
    BY DEF Unasked, Beside, Opened, handleConnect
  <2>4. Beside(Program(b)) => toClient' = toClient
    BY ProgramConnects
  <2> QED
    BY <1>4, <2>1, <2>2, <2>3, <2>4
<1>7. ASSUME NEW b \in Clients PROVE ~ Unasked(Disconnected(b))
  <2>1. SUFFICES ASSUME Unasked(Disconnected(b)) PROVE FALSE
    OBVIOUS
  <2>2. /\ state' = [state EXCEPT ![b] = "closed"]
        /\ toClient' = [toClient EXCEPT ![ws(b)] = <<>>]
    BY <2>1 DEF Unasked, Beside, Disconnected, handleDisconnect
  <2>3. b # c
    BY <1>1, <1>2, <2>2 DEF ClientTyped
  <2>4. ws(b) # ws(c)
    BY <2>3 DEF ws
  <2> QED
    BY <1>2, <1>4, <2>2, <2>4 DEF QueuesTyped
<1>8. ASSUME NEW b \in Clients \ {c} PROVE ~ Unasked(handleOperation(b))
  <2>1. Unasked(handleOperation(b)) => \A s \in Sockets \ {ws(b)} : toClient'[s] = toClient[s]
    BY OperationFacts
  <2>2. ws(b) # ws(c)
    BY <1>8 DEF ws
  <2> QED
    BY <1>2, <1>4, <2>1, <2>2
<1>9. /\ \A s \in accepted : ~ Receive(s)
      /\ \A S \in SUBSET accepted : ~ Close(S)
      /\ ~ UNCHANGED vars
  <2>1. \A s \in accepted : Receive(s) => toClient' = toClient
    BY DEF Receive
  <2>2. \A S \in SUBSET accepted : Close(S) => toClient' = toClient
    BY DEF Close
  <2>3. UNCHANGED vars => toClient' = toClient
    BY DEF vars
  <2> QED
    BY <1>4, <2>1, <2>2, <2>3
<1> QED
  BY <1>5, <1>6, <1>7, <1>8, <1>9, Steps

LEMMA ReturnsTrue ==
  ASSUME ConnectInv, [Next]_vars, NEW c \in Clients, NEW e \in Ended(c), NEW alias,
         alias = returned(e.call, e.by)
  PROVE  /\ e.call.op = "connect" /\ resolves(e.call, e.by) =>
              /\ Server!owns(e.call.id, alias)
              /\ {alias, e.call.alias} \subseteq DOMAIN known'[c]
         /\ e.call.op = "accept" => alias \in DOMAIN known'[c]
<1> DEFINE q == toClient[ws(c)]
<1>1. PICK m, call : /\ m = Head(q) /\ e = [call |-> call, by |-> m]
                     /\ call \in settled(c, m) /\ Handles(c)
  BY DEF Ended
<1>2. e.call = call /\ e.by = m /\ alias = returned(call, m)
  BY <1>1
<1>3. call \in calls[c] /\ call \in Calls /\ waitsFor(c, call, m) /\ ~ goesOn(call, m) /\ IdInv
  BY <1>1 DEF settled, ConnectInv, IdInv, TypeInv, ClientTyped
<1>4. Live(c) /\ Proceeds(c)
  <2>1. state[c] = "open" /\ ws(c) \in accepted
    BY <1>1, <1>3 DEF Handles, IdInv, Joined
  <2> QED
    BY <2>1 DEF Live, ConnectInv
<1>5. q \in Seq(Messages) /\ q # <<>> /\ Notes(c, m)
  <2>1. Unasked(handleOperation(c))
    BY <1>1, <1>3, HandlesIs
  <2> QED
    BY <1>1, <1>3, <2>1, OperationFacts
<1>6. q[1] = m /\ 1 \in DOMAIN q
  BY <1>1, <1>5, TailFacts
<1>7. CASE call.op = "connect" /\ resolves(call, m)
  <2>1. Joins(m, c) /\ m.set /\ call.count # 0 /\ call \in Joining(c)
    BY <1>3, <1>7 DEF waitsFor, Joins, resolves, goesOn, Joining
  <2>2. 1 \in Replies(c)
    BY <1>6, <2>1 DEF Replies
  <2>3. \A x \in Joining(c) : x = call
    BY <2>1 DEF ConnectInv
  <2>4. Half(c, call)
    BY <1>4, <2>1, <2>2, <2>3
    DEF Proceeds, Stage, NoneSought, OnItsWay, Checked, Made, Dropped, Both
  <2>5. Told(c, call.clientAlias, 1) /\ Second(m, call) /\ Own(c, call, call.clientAlias)
    BY <1>6, <2>2, <2>4 DEF Half
  <2>6. returned(call, m) = call.clientAlias
    BY <1>3, <1>7, <2>5 DEF returned, counted, Calls, Second
  <2>7. alias \in DOMAIN known[c]
    BY <1>2, <1>5, <2>5, <2>6, ToldNext
  <2>8. DOMAIN known'[c] = DOMAIN known[c] \cup {call.alias}
    BY <1>5, <2>1, <2>5 DEF Notes, Joins, Second
  <2>9. Server!owns(call.id, alias)
    BY <1>2, <2>5, <2>6 DEF Own, Owner, Server!owns
  <2> QED
    BY <1>2, <1>7, <2>7, <2>8, <2>9
<1>8. CASE call.op = "accept"
  <2>1. m.op = "accept" /\ alias = m.clientAlias
    BY <1>2, <1>3, <1>8 DEF waitsFor, returned
  <2>2. Told(c, alias, 1)
    BY <1>4, <1>6, <2>1 DEF Proceeds, AcceptsKnown
  <2>3. alias \in DOMAIN known[c] /\ known'[c] = known[c]
    BY <1>5, <2>1, <2>2, ToldNext DEF Notes
  <2> QED
    BY <1>2, <1>8, <2>3
<1> QED
  BY <1>2, <1>7, <1>8

\* THEOREM ReturnedAliasesKnown: a connect that returns has the alias of its own end registered
\* for it, and the table of its client holds the aliases of both ends, so that the thread
\* can send; and so it is with the alias that accept returns. The server sends each
\* before the message that ends the call, and nothing else the client is told meanwhile
\* takes them back.
THEOREM ReturnedAliasesKnown ==
  ASSUME "tidy" \notin Habits, HostsDistinct
  PROVE  Spec /\ []HostsReserved => ConnectionOutcome
<1>1. ConnectInv /\ [Next]_vars =>
        [\A c \in Clients : \A e \in Ended(c) :
           LET alias == returned(e.call, e.by) IN
           /\ e.call.op = "connect" /\ resolves(e.call, e.by) =>
                /\ Server!owns(e.call.id, alias)
                /\ {alias, e.call.alias} \subseteq DOMAIN known'[c]
           /\ e.call.op = "accept" => alias \in DOMAIN known'[c]]_vars
  BY ReturnsTrue
<1> QED
  BY <1>1, ConnectInvariance, PTL DEF Spec, ConnectionOutcome

====
