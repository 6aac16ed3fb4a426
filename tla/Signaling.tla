---- MODULE Signaling ----
(***************************************************************************)
(* Signaling clients and the server, over WebSockets that deliver in order *)
(* until they close. Each end learns by itself that a connection is gone,  *)
(* and may first read what was on the way.                                 *)
(*                                                                         *)
(* The other processes move between the turns of the server only. A turn   *)
(* reads nothing they write, and appends to what they read, so a step of   *)
(* theirs that falls into a turn could as well come after it.              *)
(***************************************************************************)
EXTENDS SignalingClient

CONSTANTS NoSocket,
          subnetPrefix, \* what every client knocks for
          Unreliable,   \* the clients whose connections may be lost
          Habits,       \* what programs do that is not orderly
          MaxCalls,     \* bound: the calls a program makes
          MaxQueue,     \* bound: a program calls with fewer messages on any way
          PortBound     \* bound: a client connects below this many ports

ASSUME SignalingAssumption ==
  /\ NoSocket \notin Sockets
  /\ subnetPrefix \in Subnets
  /\ Unreliable \subseteq Clients
  /\ Habits \subseteq {"tidy", "hasty", "foreign"}
  /\ MaxCalls \in Nat

VARIABLES accepted, refused, goodbyes, clients, aliases, subnets, members, ports, tasks, sent,
          ended,   \* the connections the server has closed
          made     \* the calls each program has made

server == <<accepted, refused, goodbyes, clients, aliases, subnets, members, ports,
            tasks, sent, ended>>

vars == <<client, toServer, toClient, server, made>>

Server == INSTANCE SignalingServer WITH
  open <- accepted, Polite <- FALSE, MaxBatch <- 1, IdBound <- 1

TypeOK == ClientTypeOK /\ Server!TypeOK

Init == ClientInit /\ Server!Init /\ ended = {} /\ made = [c \in Clients |-> 0]

----
(***************************************************************************)
(* The server and its sockets.                                             *)
(***************************************************************************)
current(s) == s = ws(s[1]) /\ state[s[1]] \in {"connecting", "open"}

\* A step of the server sends at most one message to a socket.
deliver ==
  toClient' = [s \in Sockets |->
     LET messages == {m.message : m \in {x \in sent' : x.to = s}} IN
     IF messages # {} /\ current(s) THEN Append(toClient[s], CHOOSE m \in messages : TRUE)
                                    ELSE toClient[s]]

Run == Server!Handlers /\ deliver /\ UNCHANGED <<client, toServer, ended, made>>

Connection(c) ==
  /\ state[c] = "connecting"
  /\ ws(c) \notin ended
  /\ Server!Connection(ws(c))
  /\ UNCHANGED <<client, toServer, toClient, ended, made>>

\* One message at a time: SignalingServer treats several in one chunk.
Receive(s) ==
  /\ toServer[s] # <<>>
  /\ Server!Receive(s, <<Head(toServer[s])>>)
  /\ toServer' = [toServer EXCEPT ![s] = Tail(@)]
  /\ UNCHANGED <<client, toClient, ended, made>>

\* The server reads no more from a connection that is lost, or that the
\* heartbeat ends.
mayClose(s) ==
  \/ ~ current(s)
  \/ s[1] \in Unreliable /\ opens[s[1]] < MaxOpens

Close(S) ==
  /\ \A s \in S : mayClose(s)
  /\ Server!Close(S)
  /\ toServer' = [s \in Sockets |-> IF s \in S THEN <<>> ELSE toServer[s]]
  /\ ended' = ended \cup S
  /\ UNCHANGED <<client, toClient, made>>

----
(***************************************************************************)
(* The clients and their programs.                                         *)
(***************************************************************************)
Opened(c) == ws(c) \in accepted /\ handleConnect(c, subnetPrefix)

\* The client sees the end of a connection the server has closed, or that is lost.
Disconnected(c) ==
  /\ c \in Unreliable
  /\ opens[c] < MaxOpens
  /\ handleDisconnect(c)

\* An orderly program binds what it has not bound, accepts on and shuts down
\* what it has, and calls under an id of its present connection. A tidy one
\* shuts down the aliases it connected from as well. A hasty one binds again
\* before its shutdown of the alias is answered, since closing a descriptor does
\* not wait for the answer. One with the foreign habit shuts down aliases of other
\* clients, as closing an accepted descriptor does.
bound(c, alias) == alias \in DOMAIN known[c] /\ known[c][alias] = id[c]

closing(c, alias) == \E call \in calls[c] : call.alias = alias

mayCall(c) == id[c] \in goodbyes[ws(c)]

mayBind(c, alias) ==
  IF closing(c, alias) THEN "hasty" \in Habits ELSE ~ bound(c, alias)

mayShutdown(c, alias) ==
  /\ ~ closing(c, alias)
  /\ alias \notin BindAliases => "tidy" \in Habits
  /\ ~ bound(c, alias) => "foreign" \in Habits

Program(c) ==
  /\ running(c) /\ mayCall(c)
  /\ made[c] < MaxCalls /\ made' = [made EXCEPT ![c] = @ + 1]
  /\ \A s \in Sockets : Len(toServer[s]) < MaxQueue /\ Len(toClient[s]) < MaxQueue
  /\ \/ \E alias \in BindAliases : mayBind(c, alias) /\ bind(c, alias)
     \/ \E alias \in BindAliases : bound(c, alias) /\ ~ closing(c, alias) /\ accept(c, alias)
     \/ \E alias \in DOMAIN known[c] : mayShutdown(c, alias) /\ shutdown(c, alias)
     \/ /\ Cardinality(PortsOf(ports, id[c])) < PortBound
        /\ \E alias \in BindAliases : connect(c, alias)

Beside(step) ==
  /\ tasks = {}
  /\ step
  /\ sent' = {}
  /\ UNCHANGED <<accepted, refused, goodbyes, clients, aliases, subnets, members, ports,
                 tasks, ended>>

Unasked(step) == Beside(step) /\ UNCHANGED made

\* What goes on by itself: handlers run, connections are made and deliver what
\* was sent, and each end learns that the other has closed.
Progress ==
  \/ Run
  \/ \E c \in Clients : \/ Connection(c)
                        \/ Unasked(openClient(c))
                        \/ Unasked(Opened(c))
                        \/ Unasked(ws(c) \in ended /\ Disconnected(c))
                        \/ Unasked(handleOperation(c))
  \/ \E s \in accepted : Receive(s) \/ (~ current(s) /\ Close({s}))

Next ==
  \/ Progress
  \/ \E c \in Clients : Unasked(Disconnected(c)) \/ Beside(Program(c))
  \/ \E S \in SUBSET accepted \ {{}} : Close(S)

\* Programs need not call anything, and nothing need fail.
Fairness == WF_vars(Progress)

Spec == Init /\ [][Next]_vars

FairSpec == Spec /\ Fairness

----
(***************************************************************************)
(* Properties                                                              *)
(***************************************************************************)

\* The client handles a message in this step, over a connection the server has
\* not closed.
Handles(c) ==
  /\ state[c] = "open" /\ state'[c] = "open" /\ ws(c) \notin ended
  /\ toClient[ws(c)] # <<>> /\ toClient'[ws(c)] = Tail(toClient[ws(c)])

\* The calls that this step ends, of those made under the id the client has
\* now, with the message that ends them.
Ended(c) ==
  IF ~ Handles(c) THEN {}
  ELSE LET m == Head(toClient[ws(c)]) IN
       {[call |-> call, by |-> m] : call \in {x \in settled(c, m) : x.id = id[c]}}

\* A bind that returns has registered the alias, one that fails has not; after
\* a shutdown the alias is gone. Both wait for one key (signaling-client.ts:100, 138).
\* A client that has reconnected may call by a table of its former connection.
AliasCallOutcome ==
  [][\A c \in Clients : opens[c] = 1 => \A e \in Ended(c) :
       LET owns == Server!owns(e.call.id, e.call.alias) IN
       /\ e.call.op = "bind" => (resolves(e.call, e.by) <=> owns)
       /\ e.call.op = "shutdown" => resolves(e.call, e.by) /\ ~ owns]_vars

\* A connect returns the alias of its own end, which is registered for the
\* client, and the thread can send to the other end (signaling-client.ts:170). What
\* accept returns is an alias the thread can send to (326, worker.ts:239).
ConnectionOutcome ==
  [][\A c \in Clients : \A e \in Ended(c) :
       LET alias == returned(e.call, e.by) IN
       /\ e.call.op = "connect" /\ resolves(e.call, e.by) =>
            /\ Server!owns(e.call.id, alias)
            /\ {alias, e.call.alias} \subseteq DOMAIN known'[c]
       /\ e.call.op = "accept" => alias \in DOMAIN known'[c]]_vars

\* Nothing is under way to the client, and it has stayed connected.
settledDown(c) ==
  /\ tasks = {}
  /\ state[c] = "open" /\ ws(c) \notin ended
  /\ toServer[ws(c)] = <<>> /\ toClient[ws(c)] = <<>>

\* When nothing is under way, the table of a client that has not reconnected
\* holds no alias the server has retracted or given to another client.
NoStaleAlias ==
  \A c \in Clients : opens[c] = 1 /\ settledDown(c) =>
    \A alias \in DOMAIN known[c] : Server!owns(known[c][alias], alias)

\* When nothing is under way, every alias the server has registered for a client
\* is in its table.
OwnAliasesKnown ==
  \A c \in Clients : opens[c] = 1 /\ settledDown(c) =>
    \A alias \in DOMAIN aliases : aliases[alias].id = id[c] => bound(c, alias)

\* The table is a copy of the server's, as far as the client was told.
TablesAgree == NoStaleAlias /\ OwnAliasesKnown

\* When nothing is under way, the id a client signs with is the one the server
\* has registered for its present connection, or "-1" when that was refused.
IdOfConnection ==
  \A c \in Clients : settledDown(c) =>
    \/ ws(c) \in refused /\ id[c] = NoAddress
    \/ id[c] \in DOMAIN clients /\ clients[id[c]] = ws(c)

\* A bind, a shutdown or a connect of a client that stays connected returns or
\* fails, also when the other end of the connect is lost meanwhile. (An accept
\* waits for somebody to connect.)
EveryCallReturns ==
  \A c \in Clients \ Unreliable : \A op \in {"bind", "connect", "shutdown"} :
    (\E call \in calls[c] : call.op = op) ~> (\A call \in calls[c] : call.op # op)

\* A client that is cut off has an id of a new connection some time.
Reconnects ==
  \A c \in Clients : (state[c] = "closed") ~> (state[c] = "open" /\ id[c] \in goodbyes[ws(c)])

====
