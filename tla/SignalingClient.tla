---- MODULE SignalingClient ----
(***************************************************************************)
(* The signaling client of each program: its WebSocket and the reconnect   *)
(* loop, the calls that wait for an event by its key, and the table of     *)
(* aliases that its runner keeps.                                          *)
(*                                                                         *)
(* The program is one thread, suspended while a bind, an accept or a       *)
(* connect waits; the shutdown that closes a descriptor waits in the       *)
(* background. A message is one step: everything its handler awaits        *)
(* resolves on the microtask queue. A call is known by its key, so that    *)
(* two waiting shutdowns with one key are one: they end together.          *)
(***************************************************************************)
EXTENDS Operations, Sequences, Functions

CONSTANTS Clients,
          BindAliases,   \* the aliases programs bind and connect to
          MaxOpens       \* bound: the WebSockets a client opens

\* A client waits for one connect at a time, and stands for its connection id.
ASSUME ClientAssumption ==
  /\ Connections = Clients
  /\ BindAliases \subseteq TCPAddresses
  /\ MaxOpens \in Nat \ {0}

VARIABLES opens,         \* how many WebSockets the client has opened
          state,         \* of the last of them, which is this.client
          id, isConnected,
          calls,         \* the calls that wait in asyncResolver
          known,         \* alias -> id, the table onAlias keeps
          toServer, toClient   \* the messages on the way, by socket

client == <<opens, state, id, isConnected, calls, known>>

Sockets == Clients \X (1 .. MaxOpens)

ws(c) == <<c, opens[c]>>

\* "", the id before the first acknowledgement and the alias before the answer.
NoId == [subnet |-> "", suffix |-> 0]
NoAlias == NoId

Calls == [op : {"bind", "accept", "shutdown", "connect"}, id : Answers \cup {NoId},
          alias : TCPAddresses, count : 0 .. 1, clientAlias : TCPAddresses \cup {NoAlias}]

ClientTypeOK ==
  /\ opens \in [Clients -> 0 .. MaxOpens]
  /\ state \in [Clients -> {"none", "connecting", "open", "closed"}]
  /\ id \in [Clients -> Answers \cup {NoId}]
  /\ isConnected \in [Clients -> BOOLEAN]
  /\ \A c \in Clients : calls[c] \subseteq Calls
  /\ \A c \in Clients : \A alias \in DOMAIN known[c] : known[c][alias] \in Answers

ClientInit ==
  /\ opens = [c \in Clients |-> 0]
  /\ state = [c \in Clients |-> "none"]
  /\ id = [c \in Clients |-> NoId]
  /\ isConnected = [c \in Clients |-> FALSE]
  /\ calls = [c \in Clients |-> {}]
  /\ known = [c \in Clients |-> [alias \in {} |-> NoId]]
  /\ toServer = [s \in Sockets |-> <<>>]
  /\ toClient = [s \in Sockets |-> <<>>]

----
(***************************************************************************)
(* The connection.                                                         *)
(***************************************************************************)

\* A WebSocket that is not open sends nothing.
Send(c, message) ==
  toServer' = IF state[c] = "open" THEN [toServer EXCEPT ![ws(c)] = Append(@, message)]
                                   ELSE toServer

\* The first socket() of the program opens the client; the end of a connection
\* opens the next one, after a pause.
openClient(c) ==
  /\ state[c] \in {"none", "closed"}
  /\ opens[c] < MaxOpens
  /\ opens' = [opens EXCEPT ![c] = @ + 1]
  /\ state' = [state EXCEPT ![c] = "connecting"]
  /\ UNCHANGED <<id, isConnected, calls, known, toServer, toClient>>

handleConnect_Silent(c, subnet) ==   \* mutant: the reconnected client does not knock
  /\ state[c] = "connecting"
  /\ state' = [state EXCEPT ![c] = "open"]
  /\ toServer' = IF opens[c] > 1 THEN toServer
                 ELSE [toServer EXCEPT ![ws(c)] = Append(@, Knock(subnet))]
  /\ UNCHANGED <<opens, id, isConnected, calls, known, toClient>>

handleConnect(c, subnet) ==
  /\ state[c] = "connecting"
  /\ state' = [state EXCEPT ![c] = "open"]
  /\ toServer' = [toServer EXCEPT ![ws(c)] = Append(@, Knock(subnet))]
  /\ UNCHANGED <<opens, id, isConnected, calls, known, toClient>>

\* The connection is lost, or close() or onerror terminates it. The id, the
\* table and the calls that wait stay as they are.
handleDisconnect(c) ==
  /\ state[c] \in {"connecting", "open"}
  /\ state' = [state EXCEPT ![c] = "closed"]
  /\ toClient' = [toClient EXCEPT ![ws(c)] = <<>>]
  /\ UNCHANGED <<opens, id, isConnected, calls, known, toServer>>

----
(***************************************************************************)
(* The calls.                                                              *)
(***************************************************************************)
Call(op, c, alias) ==
  [op |-> op, id |-> id[c], alias |-> alias, count |-> 0, clientAlias |-> NoAlias]

\* The program has a descriptor, and is not suspended in a call.
running(c) ==
  isConnected[c] /\ \A call \in calls[c] : call.op = "shutdown"

Wait(c, call) == calls' = [calls EXCEPT ![c] = @ \cup {call}]

bind(c, alias) ==
  /\ running(c)
  /\ Wait(c, Call("bind", c, alias))
  /\ Send(c, Request("bind", id[c], alias))
  /\ UNCHANGED <<opens, state, id, isConnected, known, toClient>>

accept(c, alias) ==
  /\ running(c)
  /\ Wait(c, Call("accept", c, alias))
  /\ Send(c, Request("accepting", id[c], alias))
  /\ UNCHANGED <<opens, state, id, isConnected, known, toClient>>

shutdown(c, alias) ==
  /\ running(c)
  /\ Wait(c, Call("shutdown", c, alias))
  /\ Send(c, Request("shutdown", id[c], alias))
  /\ UNCHANGED <<opens, state, id, isConnected, known, toClient>>

connect(c, remoteAlias) ==
  /\ running(c)
  /\ Wait(c, Call("connect", c, remoteAlias))
  /\ Send(c, Connect(id[c], remoteAlias, c))
  /\ UNCHANGED <<opens, state, id, isConnected, known, toClient>>

----
(***************************************************************************)
(* The messages of the server.                                             *)
(***************************************************************************)

\* The key a call waits for.
waitsFor_AnyId(c, call, m) ==   \* mutant: the id is not part of the alias key
  \/ /\ call.op \in {"bind", "shutdown"} /\ m.op = "alias"
     /\ m.clientConnectionId = NoConnection /\ m.alias = call.alias
  \/ call.op = "accept" /\ m.op = "accept" /\ m.boundAlias = call.alias
  \/ call.op = "connect" /\ m.op = "alias" /\ m.clientConnectionId = c

waitsFor(c, call, m) ==
  \/ /\ call.op \in {"bind", "shutdown"} /\ m.op = "alias"
     /\ m.clientConnectionId = NoConnection /\ m.id = call.id /\ m.alias = call.alias
  \/ call.op = "accept" /\ m.op = "accept" /\ m.boundAlias = call.alias
  \/ call.op = "connect" /\ m.op = "alias" /\ m.clientConnectionId = c

\* A connect needs two aliases; a refusal ends it at once.
goesOn_Never(call, m) == FALSE   \* mutant: one alias is enough

goesOn_Ever(call, m) == call.op = "connect" /\ m.set   \* mutant: two are not

goesOn(call, m) == call.op = "connect" /\ m.set /\ call.count = 0

counted(call, m) ==
  [call EXCEPT !.count = @ + 1,
               !.clientAlias = IF m.isConnectionAlias THEN m.alias ELSE @]

settled(c, m) == {call \in calls[c] : waitsFor(c, call, m) /\ ~ goesOn(call, m)}

resolves(call, m) ==
  CASE call.op = "accept"   -> TRUE
    [] call.op = "shutdown" -> ~ m.set
    [] OTHER                -> m.set

\* What accept and connect return.
returned(call, m) ==
  IF call.op = "accept" THEN m.clientAlias
  ELSE counted(call, m).clientAlias

notify(c, m) ==
  calls' = [calls EXCEPT ![c] = {IF waitsFor(c, call, m) THEN counted(call, m) ELSE call
                                   : call \in @ \ settled(c, m)}]

handleAlias_KeepsRemoved(c, m) ==   \* mutant: a retraction is ignored
  known' = IF m.set THEN [known EXCEPT ![c] = [a \in DOMAIN @ \cup {m.alias} |->
                            IF a = m.alias THEN m.id ELSE @[a]]]
           ELSE known

handleAlias(c, m) ==
  known' = [known EXCEPT ![c] =
              IF m.set THEN [a \in DOMAIN @ \cup {m.alias} |->
                               IF a = m.alias THEN m.id ELSE @[a]]
              ELSE Restrict(@, DOMAIN @ \ {m.alias})]

\* Goodbyes, greetings, offers, answers and candidates go to the runner's
\* callbacks and leave the client as it is. An Accept of this server has no
\* clientId, so that line 323 does nothing.
handleOperation(c) ==
  LET m == Head(toClient[ws(c)]) IN
  /\ state[c] = "open"
  /\ toClient[ws(c)] # <<>>
  /\ toClient' = [toClient EXCEPT ![ws(c)] = Tail(@)]
  /\ \/ /\ m.op = "acknowledgement"
        /\ id' = [id EXCEPT ![c] = m.id]
        /\ isConnected' = [isConnected EXCEPT ![c] = TRUE]
        /\ UNCHANGED <<calls, known>>
     \/ /\ m.op = "alias"
        /\ notify(c, m)
        /\ handleAlias(c, m)
        /\ UNCHANGED <<id, isConnected>>
     \/ /\ m.op = "accept"
        /\ notify(c, m)
        /\ UNCHANGED <<id, isConnected, known>>
     \/ /\ m.op \in {"goodbye", "greeting", "offer", "answer", "candidate"}
        /\ UNCHANGED <<id, isConnected, calls, known>>
  /\ UNCHANGED <<opens, state, toServer>>

====
