---- MODULE Threads ----
(***************************************************************************)
(* A page: the main thread, and workers that each run one thread of the    *)
(* program. Every worker has a signaling client and sockets of its own;    *)
(* the main thread has the transporter, hands out descriptors, and passes  *)
(* on what one worker learns of binds and aliases to others.               *)
(*                                                                         *)
(* A worker is suspended in its call, so that an answer is for the call    *)
(* that waits, and no request needs an id here. What a SignalingClient     *)
(* tells its worker comes from a server that is one step per request       *)
(* (Signaling has the protocol): the Aliases a call waits for, and then    *)
(* what the call returns. A thread stands for the id it knocks for.        *)
(***************************************************************************)
EXTENDS Naturals, Sequences, FiniteSets

CONSTANTS Threads,
          Remote,           \* the clients of other pages
          NoOne,            \* no client: the alias is not registered, or not in a table
          Order,            \* the threads in customThreadsHolder, as they were added
          Sharing,          \* the threads that send, also on descriptors of others
          BindAliases,      \* what threads bind
          RemoteAliases,    \* what clients elsewhere bind
          ConnectAliases,   \* what the server gives to the connecting end
          Recycled,         \* the aliases that are registered again once they are retracted
          MaxDescriptors,   \* bound: the descriptors a program asks for
          MaxSends,         \* bound: the sends of the threads in Sharing
          MaxQueue          \* bound: the server acts with fewer messages under way

Ids == Threads \cup {Remote}
Aliases == BindAliases \cup RemoteAliases \cup ConnectAliases

ASSUME ThreadsAssumption ==
  /\ IsFiniteSet(Threads)
  /\ Remote \notin Threads /\ NoOne \notin Ids /\ "stub" \notin Aliases
  /\ Order \in Seq(Threads)
  /\ Sharing \subseteq Threads
  /\ BindAliases \cap RemoteAliases = {}
  /\ ConnectAliases \cap (BindAliases \cup RemoteAliases) = {}
  /\ Recycled \subseteq Aliases
  /\ MaxDescriptors \in Nat /\ MaxSends \in Nat /\ MaxQueue \in Nat

VARIABLES aliases, used,                      \* the server: alias -> id; aliases it ever gave out
          isConnected, news,                  \* each signaling client, and what it is told
          aliasesHolder, binds, clientAliases, call,   \* each worker
          toMain, toWorker,                   \* posted messages, in order
          socketBinds, socketAliases, socketDescriptors, transporter,   \* the main thread
          sends

server == <<aliases, used>>
workers == <<isConnected, aliasesHolder, binds, clientAliases, call, sends>>
main == <<socketBinds, socketAliases, socketDescriptors, transporter>>
vars == <<server, news, workers, toMain, toWorker, main>>

Bind(alias, connectorId) == [alias |-> alias, connectorId |-> connectorId]
STUB == Bind("stub", "stub")   \* a descriptor without an address
Binds == [alias : Aliases, connectorId : Threads]

Tables == [Aliases -> Ids \cup {NoOne}]
empty == <<>>                  \* a Map without entries, from descriptors

Put(f, k, v) == [x \in DOMAIN f \cup {k} |-> IF x = k THEN v ELSE f[x]]

\* The call a worker is in, and what it waits for.
idle == [op |-> "none", at |-> "idle", fd |-> 0, alias |-> NoOne]
Calls == [op : {"none", "socket", "bind", "accept", "connect", "send"},
          at : {"idle", "ready", "descriptor", "binds", "client", "transporter"},
          fd : 0 .. MaxDescriptors, alias : Aliases \cup {NoOne}]

Alias(alias, id, set) == [op |-> "alias", alias |-> alias, id |-> id, set |-> set]
Returns(alias) == [op |-> "returns", alias |-> alias]   \* accept, connect or bind returns
Fails == [op |-> "fails"]

TypeOK ==
  /\ aliases \in Tables /\ used \subseteq Aliases
  /\ isConnected \in [Threads -> BOOLEAN]
  /\ aliasesHolder \in [Threads -> Tables] /\ socketAliases \in Tables
  /\ call \in [Threads -> Calls]
  /\ socketDescriptors \in 0 .. MaxDescriptors
  /\ DOMAIN socketBinds \subseteq 1 .. socketDescriptors
  /\ \A fd \in DOMAIN socketBinds : socketBinds[fd] \in Binds
  /\ \A t \in Threads :
       /\ DOMAIN binds[t] \subseteq 1 .. socketDescriptors
       /\ \A fd \in DOMAIN binds[t] : binds[t][fd] \in Binds \cup {STUB}
       /\ DOMAIN clientAliases[t] \subseteq DOMAIN binds[t]

Init ==
  /\ aliases = [a \in Aliases |-> NoOne] /\ used = {}
  /\ isConnected = [t \in Threads |-> FALSE]
  /\ news = [t \in Threads |-> <<>>]
  /\ aliasesHolder = [t \in Threads |-> [a \in Aliases |-> NoOne]]
  /\ binds = [t \in Threads |-> empty] /\ clientAliases = [t \in Threads |-> empty]
  /\ call = [t \in Threads |-> idle]
  /\ toMain = [t \in Threads |-> <<>>] /\ toWorker = [t \in Threads |-> <<>>]
  /\ socketBinds = empty /\ socketAliases = [a \in Aliases |-> NoOne]
  /\ socketDescriptors = 0 /\ transporter = {}
  /\ sends = 0

----
(***************************************************************************)
(* The main thread. Its handlers are async, but await nothing before they  *)
(* are done, except for the transporter.                                   *)
(***************************************************************************)
notified(t) == {Order[i] : i \in {j \in DOMAIN Order : \A k \in 1 .. j : Order[k] # t}}

\* The loop returns at the thread the news is from.
notifyAllThreads(t, message) ==
  toWorker' = [u \in Threads |-> IF u \in notified(t) THEN Append(toWorker[u], message)
                                                      ELSE toWorker[u]]

getThread_Registered(t) == t \in {Order[i] : i \in DOMAIN Order}   \* mutant: added threads only

getThread(t) == t \in Threads

answer(t, message) ==
  toWorker' = IF getThread(t) THEN [toWorker EXCEPT ![t] = Append(@, message)] ELSE toWorker

handleBindUpdate(t, m) ==
  /\ socketBinds' = Put(socketBinds, m.fd, m.bind)
  /\ notifyAllThreads(t, [cmd |-> "notifyBindAdd", fd |-> m.fd, bind |-> m.bind])
  /\ UNCHANGED <<socketAliases, socketDescriptors, transporter>>

handleAliasUpdate_AddsOnly(t, m) ==   \* mutant: the others are not told of a retraction
  /\ socketAliases' = [socketAliases EXCEPT ![m.alias] = IF m.isDelete THEN NoOne ELSE m.id]
  /\ IF m.isDelete THEN UNCHANGED toWorker
     ELSE notifyAllThreads(t, [cmd |-> "notifyAliasAdd", alias |-> m.alias, id |-> m.id,
                               isDelete |-> m.isDelete])
  /\ UNCHANGED <<socketBinds, socketDescriptors, transporter>>

handleAliasUpdate(t, m) ==
  /\ socketAliases' = [socketAliases EXCEPT ![m.alias] = IF m.isDelete THEN NoOne ELSE m.id]
  /\ notifyAllThreads(t, [cmd |-> "notifyAliasAdd", alias |-> m.alias, id |-> m.id,
                          isDelete |-> m.isDelete])
  /\ UNCHANGED <<socketBinds, socketDescriptors, transporter>>

handleFetchBinds(t) ==
  /\ answer(t, [cmd |-> "onFetchBinds", binds |-> socketBinds, aliases |-> socketAliases])
  /\ UNCHANGED main

handleSocketDescriptor_NoIncrement(t) ==   \* mutant: the next call gets the same one
  /\ socketDescriptors' = 1
  /\ answer(t, [cmd |-> "onSocketDescriptor", fd |-> 1])
  /\ UNCHANGED <<socketBinds, socketAliases, transporter>>

handleSocketDescriptor_PostIncrement(t) ==   \* mutant: the first descriptor is 0
  /\ socketDescriptors' = socketDescriptors + 1
  /\ answer(t, [cmd |-> "onSocketDescriptor", fd |-> socketDescriptors])
  /\ UNCHANGED <<socketBinds, socketAliases, transporter>>

handleSocketDescriptor(t) ==
  /\ socketDescriptors' = socketDescriptors + 1
  /\ answer(t, [cmd |-> "onSocketDescriptor", fd |-> socketDescriptors'])
  /\ UNCHANGED <<socketBinds, socketAliases, transporter>>

\* The transporter may take its time, or never be done.
handleWrtcSend(t, m) ==
  /\ transporter' = transporter \cup {[thread |-> t, remoteId |-> m.remoteId, localId |-> m.localId]}
  /\ UNCHANGED <<socketBinds, socketAliases, socketDescriptors, toWorker>>

transported(w) ==
  /\ transporter' = transporter \ {w}
  /\ answer(w.thread, [cmd |-> "onWrtcSendCallback"])
  /\ UNCHANGED <<server, news, workers, toMain, socketBinds, socketAliases, socketDescriptors>>

handleMessage(t) ==
  LET m == Head(toMain[t]) IN
  /\ toMain[t] # <<>>
  /\ toMain' = [toMain EXCEPT ![t] = Tail(@)]
  /\ \/ m.cmd = "bindUpdate" /\ handleBindUpdate(t, m)
     \/ m.cmd = "aliasUpdate" /\ handleAliasUpdate(t, m)
     \/ m.cmd = "fetchBinds" /\ handleFetchBinds(t)
     \/ m.cmd = "socketDescriptor" /\ handleSocketDescriptor(t)
     \/ m.cmd = "wrtcSend" /\ handleWrtcSend(t, m)
  /\ UNCHANGED <<server, news, workers>>

----
(***************************************************************************)
(* The sockets of a worker. Their calls use the tables as they are, or as  *)
(* a fetch has just made them.                                             *)
(***************************************************************************)
postMessage(t, messages) == toMain' = [toMain EXCEPT ![t] = @ \o messages]

setBind(t, its, fd, alias) ==
  /\ binds' = [binds EXCEPT ![t] = Put(its, fd, Bind(alias, t))]
  /\ postMessage(t, <<[cmd |-> "bindUpdate", fd |-> fd, bind |-> Bind(alias, t)]>>)

waiting(c, at) == [c EXCEPT !.at = at]

\* bind, accept, connect and send from ensureBound on, with these tables. A send to
\* an alias that is not known is over at once. A recv takes the steps of a send.
body(t, c, its, holder) ==
  /\ aliasesHolder' = [aliasesHolder EXCEPT ![t] = holder]
  /\ \/ /\ c.op = "bind"
        /\ call' = [call EXCEPT ![t] = waiting(c, "client")]
        /\ binds' = [binds EXCEPT ![t] = its]
        /\ UNCHANGED toMain
     \/ /\ c.op = "accept"
        /\ call' = [call EXCEPT ![t] = waiting(c, "descriptor")]
        /\ binds' = [binds EXCEPT ![t] = its]
        /\ postMessage(t, <<[cmd |-> "socketDescriptor"]>>)
     \/ /\ c.op = "connect"
        /\ call' = [call EXCEPT ![t] = waiting(c, "client")]
        /\ setBind(t, its, c.fd, c.alias)
     \/ /\ c.op = "send"
        /\ binds' = [binds EXCEPT ![t] = its]
        /\ LET bind == its[c.fd] IN
           IF bind # STUB /\ holder[bind.alias] # NoOne
             THEN /\ call' = [call EXCEPT ![t] = waiting(c, "transporter")]
                  /\ postMessage(t, <<[cmd |-> "wrtcSend", remoteId |-> holder[bind.alias],
                                       localId |-> bind.connectorId]>>)
             ELSE call' = [call EXCEPT ![t] = idle] /\ UNCHANGED toMain

ensureBound(t, c) ==
  IF c.fd \in DOMAIN binds[t]
    THEN body(t, c, binds[t], aliasesHolder[t])
    ELSE /\ call' = [call EXCEPT ![t] = waiting(c, "binds")]
         /\ postMessage(t, <<[cmd |-> "fetchBinds"]>>)
         /\ UNCHANGED <<binds, aliasesHolder>>

\* What the main thread has replaces what the worker had. A descriptor that it
\* does not have either makes the call throw.
onFetchBinds(t, m) ==
  LET its == [fd \in DOMAIN m.binds \cup DOMAIN binds[t] |->
                IF fd \in DOMAIN m.binds THEN m.binds[fd] ELSE binds[t][fd]]
      holder == [a \in Aliases |-> IF m.aliases[a] # NoOne THEN m.aliases[a] ELSE aliasesHolder[t][a]]
  IN
  /\ \/ call[t].fd \in DOMAIN its /\ body(t, call[t], its, holder)
     \/ /\ call[t].fd \notin DOMAIN its
        /\ call' = [call EXCEPT ![t] = idle]
        /\ binds' = [binds EXCEPT ![t] = its]
        /\ aliasesHolder' = [aliasesHolder EXCEPT ![t] = holder]
        /\ UNCHANGED toMain
  /\ UNCHANGED clientAliases

\* socket returns; accept goes on to wait for a connection, and keeps its new
\* descriptor beside its call.
onSocketDescriptor(t, m) ==
  /\ binds' = [binds EXCEPT ![t] = Put(@, m.fd, STUB)]
  /\ call' = [call EXCEPT ![t] = IF @.op = "accept"
                THEN [@ EXCEPT !.at = "client", !.alias = binds[t][call[t].fd].alias, !.fd = m.fd]
                ELSE idle]
  /\ UNCHANGED <<toMain, aliasesHolder, clientAliases>>

onNotifyBindAdd(t, m) ==
  /\ binds' = IF m.fd \in DOMAIN binds[t] THEN binds
              ELSE [binds EXCEPT ![t] = Put(@, m.fd, m.bind)]
  /\ UNCHANGED <<toMain, call, aliasesHolder, clientAliases>>

onNotifyAliasAdd(t, m) ==
  /\ aliasesHolder' = IF ~ m.isDelete /\ aliasesHolder[t][m.alias] # NoOne THEN aliasesHolder
                      ELSE [aliasesHolder EXCEPT ![t][m.alias] = IF m.isDelete THEN NoOne ELSE m.id]
  /\ UNCHANGED <<toMain, call, binds, clientAliases>>

onWrtcSendCallback(t) ==
  /\ call' = [call EXCEPT ![t] = idle]
  /\ UNCHANGED <<toMain, aliasesHolder, binds, clientAliases>>

onmessage(t) ==
  LET m == Head(toWorker[t]) IN
  /\ toWorker[t] # <<>>
  /\ toWorker' = [toWorker EXCEPT ![t] = Tail(@)]
  /\ \/ m.cmd = "notifyBindAdd" /\ onNotifyBindAdd(t, m)
     \/ m.cmd = "notifyAliasAdd" /\ onNotifyAliasAdd(t, m)
     \/ m.cmd = "onFetchBinds" /\ onFetchBinds(t, m)
     \/ m.cmd = "onSocketDescriptor" /\ onSocketDescriptor(t, m)
     \/ m.cmd = "onWrtcSendCallback" /\ onWrtcSendCallback(t)
  /\ UNCHANGED <<server, news, isConnected, sends, main>>

----
(***************************************************************************)
(* The signaling client of a worker.                                       *)
(***************************************************************************)
aliasUpdate(t, m) ==
  [cmd |-> "aliasUpdate", alias |-> m.alias, id |-> m.id, isDelete |-> ~ m.set]

handleAlias_OthersOnly(t, m) ==   \* mutant: the worker leaves its table to the main thread
  /\ postMessage(t, <<aliasUpdate(t, m)>>)
  /\ UNCHANGED <<aliasesHolder, call, binds, clientAliases>>

handleAlias(t, m) ==
  /\ aliasesHolder' = [aliasesHolder EXCEPT ![t][m.alias] = IF m.set THEN m.id ELSE NoOne]
  /\ postMessage(t, <<aliasUpdate(t, m)>>)
  /\ UNCHANGED <<call, binds, clientAliases>>

\* bind, accept and connect from the answer on.
returns(t, m) ==
  LET c == call[t] IN
  /\ call' = [call EXCEPT ![t] = idle]
  /\ \/ /\ c.op \in {"bind", "accept"}
        /\ setBind(t, binds[t], c.fd, m.alias)
        /\ UNCHANGED clientAliases
     \/ /\ c.op = "connect"
        /\ clientAliases' = [clientAliases EXCEPT ![t] = Put(@, c.fd, m.alias)]
        /\ UNCHANGED <<binds, toMain>>
  /\ UNCHANGED aliasesHolder

\* A connect that fails has set its bind.
fails(t) ==
  /\ call' = [call EXCEPT ![t] = idle]
  /\ UNCHANGED <<aliasesHolder, binds, clientAliases, toMain>>

handleOperation(t) ==
  LET m == Head(news[t]) IN
  /\ news[t] # <<>>
  /\ news' = [news EXCEPT ![t] = Tail(@)]
  /\ \/ m.op = "alias" /\ handleAlias(t, m)
     \/ m.op = "returns" /\ returns(t, m)
     \/ m.op = "fails" /\ fails(t)
  /\ UNCHANGED <<server, isConnected, sends, toWorker, main>>

----
(***************************************************************************)
(* The program of a thread. A descriptor is given one address.             *)
(***************************************************************************)
asked == {t \in Threads : \/ call[t].at = "descriptor"
                          \/ call[t].op = "socket" /\ call[t].at = "ready"}

mayAsk == socketDescriptors + Cardinality(asked) < MaxDescriptors

\* The first socket() connects the signaling client.
socket(t) ==
  /\ mayAsk
  /\ IF isConnected[t]
       THEN /\ call' = [call EXCEPT ![t] = [idle EXCEPT !.op = "socket", !.at = "descriptor"]]
            /\ postMessage(t, <<[cmd |-> "socketDescriptor"]>>)
       ELSE /\ call' = [call EXCEPT ![t] = [idle EXCEPT !.op = "socket", !.at = "ready"]]
            /\ UNCHANGED toMain
  /\ UNCHANGED <<binds, aliasesHolder, sends>>

ready(t) ==
  /\ call[t].at = "ready"
  /\ isConnected' = [isConnected EXCEPT ![t] = TRUE]
  /\ call' = [call EXCEPT ![t].at = "descriptor"]
  /\ postMessage(t, <<[cmd |-> "socketDescriptor"]>>)
  /\ UNCHANGED <<server, news, aliasesHolder, binds, clientAliases, sends, toWorker, main>>

Call(op, fd, alias) == [op |-> op, at |-> "idle", fd |-> fd, alias |-> alias]

\* What this thread has listened on.
listening(t, fd) ==
  binds[t][fd] # STUB /\ binds[t][fd].alias \in BindAliases /\ fd \notin DOMAIN clientAliases[t]
                      /\ aliases[binds[t][fd].alias] = t

Program(t) ==
  /\ call[t] = idle
  /\ \/ socket(t)
     \/ /\ UNCHANGED sends
        /\ \E fd \in DOMAIN binds[t] :
             \/ /\ binds[t][fd] = STUB
                /\ \/ \E a \in BindAliases :
                        aliasesHolder[t][a] = NoOne /\ ensureBound(t, Call("bind", fd, a))
                   \/ \E a \in BindAliases \cup RemoteAliases : ensureBound(t, Call("connect", fd, a))
             \/ listening(t, fd) /\ mayAsk /\ ensureBound(t, Call("accept", fd, NoOne))
     \/ /\ sends < MaxSends /\ sends' = sends + 1
        /\ \E fd \in (IF t \in Sharing THEN 1 .. socketDescriptors ELSE {}) :
             ensureBound(t, Call("send", fd, NoOne))
  /\ UNCHANGED <<server, news, isConnected, clientAliases, toWorker, main>>

----
(***************************************************************************)
(* The server, as the threads see it.                                      *)
(***************************************************************************)
tell(messages) ==   \* thread -> messages
  news' = [t \in Threads |-> IF isConnected[t] THEN news[t] \o messages[t] ELSE news[t]]

broadcast(message) == [t \in Threads |-> <<message>>]

fresh(a) == aliases[a] = NoOne /\ (a \in used => a \in Recycled)

registered(a, id) ==
  /\ aliases' = [aliases EXCEPT ![a] = id]
  /\ used' = used \cup {a}

waitsAtServer(t, op) == call[t].op = op /\ call[t].at = "client" /\ Len(news[t]) = 0

register(t) ==
  LET a == call[t].alias IN
  /\ waitsAtServer(t, "bind") /\ fresh(a)
  /\ registered(a, t)
  /\ tell([broadcast(Alias(a, t, TRUE)) EXCEPT ![t] = Append(@, Returns(a))])

registerRemote(a) ==
  /\ fresh(a)
  /\ registered(a, Remote)
  /\ tell(broadcast(Alias(a, Remote, TRUE)))

accepts(id, a) ==
  id = Remote \/ (id \in Threads /\ waitsAtServer(id, "accept") /\ call[id].alias = a)

connects(id, a) ==
  id = Remote \/ (id \in Threads /\ waitsAtServer(id, "connect") /\ call[id].alias = a)

\* A client connects to an alias of another that accepts, and is given x.
introduce(id, a, x) ==
  LET owner == aliases[a] IN
  /\ owner # id /\ accepts(owner, a) /\ connects(id, a) /\ fresh(x)
  /\ registered(x, id)
  /\ tell([t \in Threads |->
       CASE t = owner -> <<Alias(x, id, TRUE), Returns(x)>>
         [] t = id    -> <<Alias(x, id, TRUE), Alias(a, owner, TRUE), Returns(x)>>
         [] OTHER     -> <<>>])

\* A refusal is an alias that is not set: the one asked for, or the one given,
\* which is taken back.
refuse(t, x) ==
  /\ \/ waitsAtServer(t, "bind") /\ x = call[t].alias /\ aliases[x] # NoOne
     \/ /\ waitsAtServer(t, "connect") /\ x \in ConnectAliases /\ fresh(x)
        /\ aliases[call[t].alias] \in Threads => ~ accepts(aliases[call[t].alias], call[t].alias)
  /\ news' = [news EXCEPT ![t] = @ \o <<Alias(x, t, FALSE), Fails>>]
  /\ used' = used \cup {x}
  /\ UNCHANGED aliases

\* A client elsewhere shuts down or leaves, or a thread closes a descriptor,
\* which ends the alias it connected from or is bound to.
closes(t, a) ==
  /\ call[t] = idle
  /\ \E fd \in DOMAIN binds[t] :
       a = IF fd \in DOMAIN clientAliases[t] THEN clientAliases[t][fd] ELSE binds[t][fd].alias

retract(a) ==
  /\ aliases[a] # NoOne
  /\ aliases[a] = Remote \/ (aliases[a] \in Threads /\ closes(aliases[a], a))
  /\ aliases' = [aliases EXCEPT ![a] = NoOne]
  /\ tell(broadcast(Alias(a, aliases[a], FALSE)))
  /\ UNCHANGED used

Server ==
  /\ \/ \E t \in Threads : register(t) \/ \E x \in Aliases : refuse(t, x)
     \/ \E a \in RemoteAliases : registerRemote(a)
     \/ \E id \in Ids, x \in ConnectAliases : \E a \in Aliases : introduce(id, a, x)
     \/ \E a \in Aliases : retract(a)
  /\ UNCHANGED <<workers, toMain, toWorker, main>>

----
\* Programs call when nothing is under way, the server goes on with a bounded number
\* of messages on the way through the page.
few(n) ==
  \A t, u \in Threads : Len(news[t]) + Len(toMain[u]) + Len(toWorker[t]) < n

Next ==
  \/ \E t \in Threads : handleMessage(t) \/ onmessage(t) \/ handleOperation(t) \/ ready(t)
  \/ (few(MaxQueue) /\ Server)
  \/ (few(1) /\ \E t \in Threads : Program(t))
  \/ \E w \in transporter : transported(w)

\* The event loops take, in turn, what each source has posted to them. Nobody need
\* call anything, and neither the transporter nor the server need answer a call.
Fairness ==
  \A t \in Threads : /\ WF_vars(handleMessage(t)) /\ WF_vars(onmessage(t))
                     /\ WF_vars(handleOperation(t) \/ ready(t))

Spec == Init /\ [][Next]_vars /\ Fairness

----
(***************************************************************************)
(* Properties                                                              *)
(***************************************************************************)

\* Nothing is under way on the page.
quiet == \A t \in Threads : news[t] = <<>> /\ toMain[t] = <<>> /\ toWorker[t] = <<>>

\* A descriptor means the same address and the same channel in every thread that
\* knows it, and the main thread has it for those that do not.
BindsAgree ==
  quiet => \A t \in Threads : \A fd \in DOMAIN binds[t] :
    binds[t][fd] # STUB => fd \in DOMAIN socketBinds /\ binds[t][fd] = socketBinds[fd]

\* However the news of one worker overtakes that of another, in the end no thread
\* keeps an alias that is gone, or that is another client's by now. (A thread that
\* fetches may, since a fetch adds what the main thread has not yet deleted.)
NoStaleAlias ==
  quiet => \A t \in Threads \ Sharing : \A a \in Aliases :
    aliasesHolder[t][a] \in {NoOne, aliases[a]}

\* The connections of a thread that came about: those it accepted or made.
established(t) ==
  {fd \in DOMAIN binds[t] : \/ fd \in DOMAIN clientAliases[t]
                            \/ binds[t][fd] # STUB /\ binds[t][fd].alias \in ConnectAliases}

\* A thread can send and receive on its connections while the other end is
\* registered, whatever its page hears of other aliases. (An alias that threads
\* may try to bind, or that comes back, can be lost: a refusal, or a late
\* retraction by another worker, deletes it.)
Reachable ==
  quiet => \A t \in Threads : \A fd \in established(t) :
    LET a == binds[t][fd].alias IN
    binds[t][fd].connectorId = t /\ a \notin BindAliases \cup Recycled /\ aliases[a] # NoOne
      => aliasesHolder[t][a] = aliases[a]

\* Whatever other workers do, the main thread gives a worker the descriptor or
\* the binds it asked for.
EveryRequestAnswered ==
  \A t \in Threads :
    (call[t].at \in {"ready", "descriptor", "binds"})
      ~> (call[t].at \notin {"ready", "descriptor", "binds"})

====
