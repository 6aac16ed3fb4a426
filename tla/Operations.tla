---- MODULE Operations ----
(***************************************************************************)
(* The messages of the signaling protocol, without the payloads of offers, *)
(* answers and candidates, which nobody on the way looks into.             *)
(***************************************************************************)
EXTENDS Addresses

CONSTANTS Connections,   \* the clientConnectionIds of connects
          NoConnection   \* an Alias without one

ASSUME OperationsAssumption == NoConnection \notin Connections

\* From clients. An id is one the server gave to the socket's client, or "-1"
\* after a refused knock.
Knocks   == [op : {"knock"}, subnet : Subnets]
Requests == [op : {"bind", "accepting", "shutdown"}, id : Answers, alias : TCPAddresses]
Connects == [op : {"connect"}, id : Answers, remoteAlias : TCPAddresses,
             clientConnectionId : Connections]
Relayed  == [op : {"offer", "answer", "candidate"}, offererId : Answers, answererId : Answers]

Knock(subnet) == [op |-> "knock", subnet |-> subnet]
Request(op, id, alias) == [op |-> op, id |-> id, alias |-> alias]
Connect(id, remoteAlias, clientConnectionId) ==
  [op |-> "connect", id |-> id, remoteAlias |-> remoteAlias,
   clientConnectionId |-> clientConnectionId]

\* From the server.
Acknowledgement(id, rejected) ==
  [op |-> "acknowledgement", id |-> id, rejected |-> rejected]
Greeting(offererId, answererId) ==
  [op |-> "greeting", offererId |-> offererId, answererId |-> answererId]
Goodbye(id) == [op |-> "goodbye", id |-> id]
Alias(id, alias, set, clientConnectionId) ==
  [op |-> "alias", id |-> id, alias |-> alias, set |-> set,
   clientConnectionId |-> clientConnectionId, isConnectionAlias |-> FALSE]
ConnectionAlias(id, alias, clientConnectionId) ==
  [Alias(id, alias, TRUE, clientConnectionId) EXCEPT !.isConnectionAlias = TRUE]
Accept(boundAlias, clientAlias) ==
  [op |-> "accept", boundAlias |-> boundAlias, clientAlias |-> clientAlias]

====
