# A verification project for unisockets

unisockets gives WebAssembly programs Berkeley sockets over WebRTC. A
*signaling server* hands out addresses and introduces clients to each other; a
*signaling client* in each program speaks to it; a *transporter* wraps the
WebRTC connections; *sockets* maps descriptors to all of this. This directory
holds TLA+ modules for the parts that carry the program's own logic, TLC
configurations that check them on small instances, and TLAPS proofs for every
value of the constants.

Paths below are relative to the repository. `signaling-server.ts` and its
neighbours are in `pkg/web/signaling/services/`.

## 1. Inventory

| Part | State | Operations | Talks to |
| --- | --- | --- | --- |
| Signaling server, handlers (`signaling-server.ts`) | `clients` (id -> socket), `aliases` (alias -> id, accepting), the close listeners on sockets | knock, offer, answer, candidate, bind, accepting, shutdown, connect; the departure of a client; the heartbeat | clients, by messages over WebSockets; its own address functions |
| Signaling server, addresses (same file, 487-669) | `subnets` (subnet -> suffix -> ports), `subnetsMutex` | createIPAddress, createTCPAddress, claimTCPAddress, removeIPAddress, removeTCPAddress | called and awaited by the handlers |
| Protocol (`operations/*.ts`, `models/*.ts`) | none | thirteen messages and two records | |
| Signaling service (`signaling-service.ts`) | none | send (throws without a client), receive | base class of server and client |
| Signaling client (`signaling-client.ts`) | `id`, `isConnected`, the WebSocket, the events somebody waits for | open, close, bind, accept, shutdown, connect, the handlers of server messages, reconnect | server, by messages; runner, by callbacks |
| Transporter (`pkg/web/transport/transporter.ts`) | peer connections, data channels by remote and local id, queued messages, queued candidates | getOffer, handleOffer, handleAnswer, handleCandidate, send, recv, shutdown, close | WebRTC, by callbacks; runner |
| Sockets (`pkg/web/sockets/sockets.ts`) | `binds`, `clientAliases`, memories | socket, bind, listen, accept, connect, send, recv, close, getsockname | runner, by the `external*` callbacks |
| Web runner (`cmd/unisockets_runner_web/{main,worker}.ts`) | the threads, `socketBinds`, `socketAliases`, `socketDescriptors`; each worker's copies | updates and fetches of binds and aliases, relays between workers and transporter | worker and main thread, by postMessage |
| Node runner, bindings, examples, vendored runtimes | | start-up, declarations | |

What is hard in each part, and what makes it correct:

- **Server handlers.** They are async functions: state is read before an await
  and used after it, departures start callbacks that nobody awaits, one step of
  several may throw. Correct means: a registered id is a live socket and leaves
  with it; no alias outlives its owner and only its owner takes it away; nothing
  in use is leaked; no two clients have one id; Accept goes to the owner of the
  bound alias; knocks, connects and departures are answered or announced.
- **Server addresses.** A search for a free number, an await, a write, by several
  calls at once. Correct means: mutual exclusion on every way out, a search that
  is still right when it is used, and answers as if each call were indivisible.
- **Signaling client.** Calls wait for events by a string key, and events reach
  only who waits at that moment. Correct means: each call ends with *its*
  outcome, what it returns can be used, the table of aliases follows the server's,
  and a reconnected client signs with its new id.
- **Transporter.** Promises per message, two places a message can be taken from.
  Correct means: each message received once and in order, candidates added once
  and after the remote description, and no send waits beside an open channel.
- **Pages together.** Each thread is a client of its own, the threads of a page
  share a transporter, and the server greets everybody who is there. Correct means:
  any two clients get a channel, its two ends are held under the same ids, and
  each end of a connection is given the candidates of the other.
- **Sockets, runner.** Copies of binds and aliases in several threads, updated by
  messages that overtake each other. Correct means: a descriptor is given out
  once and means the same everywhere, no thread keeps an alias that is gone, a
  thread can use the connections it has, and what it asks the main thread for comes.

`PROJECT.json` lists each hazard at its line, with the properties that cover it
or the reason none does yet.

## 2. Modules

| Module | Models | Size |
| --- | --- | --- |
| `Addresses` | address formats and parsers, and the search for the first free number | operators |
| `AddressBook` | *abstract*: what the five address functions promise, each one indivisible operation | state machine |
| `AddressPool` | the same functions as the code runs them: mutex with its queue, await inside, exceptions, `finally` | state machine |
| `Operations` | the messages of the protocol | operators |
| `SignalingServer` | sockets, handlers and close listeners | state machine |
| `SignalingClient` | WebSocket, reconnect loop, the calls that wait, the table of aliases | actions |
| `Signaling` | clients and server over WebSockets | composition |
| `Inbox` | *abstract*: a FIFO queue of messages for each pair of a remote and a local client | state machine |
| `Transporter` | peer connections, data channels, queues, and the calls that negotiate, send and receive | state machine |
| `Mesh` | the transporters of several pages, their clients, and the server's greetings and relay | composition |
| `Reloads` | `Mesh` with pages that are reloaded | extension |
| `Threads` | a page's main thread and workers, with the sockets of each | composition |
| `MC*` | the instances TLC checks | |
| `AddressesProofs`, `AddressPoolProofs`, `SignalingServerProofs`, `PoliteClientsProofs`, `TransporterProofs`, `MeshProofs`, `ThreadsProofs`, `SignalingProofs` | the proofs | |

`AddressBook`, `AddressPool` and `Operations` extend `Addresses`.
`AddressPool` instantiates `AddressBook` with a refinement mapping.
`SignalingServer` uses each address function as one step, which is what the
refinement licenses. `SignalingClient` and `SignalingServer` extend `Operations`,
and `Signaling` extends the one and instantiates the other. `Transporter`
instantiates `Inbox`. `Mesh` and `Threads` stand alone: each takes from the components
below it what its subject needs, and says in its head what it leaves to them.

### Data

An address string is the record the parsers split it into:
`[subnet, suffix]`, or `[subnet, suffix, port]`. `parseInt` stops at the colon,
so an alias passed to `removeIPAddress` parses to its host (the code does this
at 118 and 369); `parseIPAddress` drops the port in the same way. The id `"-1"`
of a refused knock is `NoAddress`, whose subnet nobody can know. `FirstGap`
translates the loop over the sorted numbers: the index of a number is how many
are smaller, the first index that differs from its number wins, else the length.

The nested maps of `subnets` are the set `subnets` of known subnets, the set
`members` of hosts in use and the set `ports` of ports in use; deleting a member
deletes its ports, as dropping its array does.

SDP texts and candidates are left out: the server passes them on unseen. In `Mesh`
a description and a candidate are the number of the peer connection they describe.

### `AddressPool`

A call is at `pc`: `idle`, `queued` for the mutex, `entered` (it holds the mutex
and has done nothing), `found` (the search has resolved, the call awaits it
still inside the mutex), `answered`. `acquire` takes a free mutex or joins the
queue; `release` is the `finally` block, part of every action that ends a call
whether it returns or throws, and hands the mutex to the first waiter.
`findSuffix`/`addSuffix` and `findPort`/`addPort` are the two halves of
the create functions, before and after the await; `noHost`, `claimPort`, `removeHost` and
`removePort` run without one. The mutex itself is the `async-mutex` package,
modelled from how it is used.

### `SignalingServer`

Node runs one piece of JavaScript at a time. A handler runs alone up to its next
await, so the model has one action per stretch between two awaits, named for
what it does; a handler under way is a *task* that holds the message, the place
and the local variables that live across awaits (`clientAlias`, `client`,
`server`, `serverId.id`).

All awaits of this class resolve on the microtask queue: the mutex, the `send`
that calls `client.send` and returns, the search. Node drains that queue
before the next I/O callback. Handlers therefore overlap only if they start in
one *turn* of the event loop:

- `Chunk(s)`: the frames in one chunk read from a socket each fire `message`;
- `Close(S)`: sockets that end in one turn (the heartbeat terminates all that
  have not answered, 65-81; a failing network ends several). All
  listeners run up to their first await, `clients.delete`, before any goes on;
- `Connection(s)`: a socket is accepted.

Turns start when `tasks = {}`. Within a turn the model allows every
interleaving of the tasks, which includes the order of the microtask queue.

| Actions | Code |
| --- | --- |
| `createIPAddress`, `acknowledge`, `greet` | handleKnock, with registerGoodbye's first half |
| `relay` | handleOffer, handleAnswer, handleCandidate |
| `bind`, `claimTCPAddress`, `register` | handleBind |
| `handleAccepting` | handleAccepting |
| `shutdown`, `removeTCPAddress`, `removeIPAddress`, `retract` | handleShutdown |
| `createTCPAddress`, `lookup`, `undo`, `refuse`, `introduce`, `accept`, `confirm` | handleConnect |
| `leave`, `expire`, `expireHost`, `expirePort`, `retract` | the close listener and the callbacks of its forEach |

`goodbyes[s]` are the ids for which socket `s` has a close listener: a client
may knock more than once, and each id leaves separately. `refused` remembers
the sockets that were told `"-1"`. `sent` holds the messages of the last step
only: the server never reads what it sent, and the properties about messages
look at the step that sends them. `Throw` is an exception of the handler
(ClientClosedError, SuffixDoesNotExistError and so on): the promise is
rejected, nothing is sent.

**What clients may send.** Any message, signed with any id the socket was given
(or with `"-1"` after a refusal); binds, accepts and connects about the aliases in
`BindAliases`, shutdowns about these and all that are registered. The constant `Polite` narrows
this: a polite client binds on its own host or on one nobody uses, or asks for an alias
that is taken; it does not shut
down an alias on the host of a client that is connected, and stops when it is
refused. Within a chunk it also waits for answers, as the calls of the signaling client do
(`hasty`): it asks for nothing beside its knock, binds one alias at a time on a host
that is not its own, and neither connects to an alias it is closing nor binds it again. Two properties fail without these restrictions (section 4): what
holds against every client is checked with `Polite = FALSE`, what needs the
restriction with `Polite = TRUE`.

### `SignalingClient` and `Signaling`

A client is its last WebSocket (`opens`, `state`), its `id`, the `calls` that wait in
`asyncResolver`, and `known`, the table its runner keeps in `handleAlias`. `bind`, `accept`,
`shutdown` and `connect` send their request and wait for an event by a key:
`waitsFor` says which message raises it. `goesOn` is a connect's first alias;
`settled` are the calls a message ends, `resolves` says whether they succeed, and
`returned` what they return. `openClient`, `handleConnect` and `handleDisconnect` are the
reconnect loop; the id, the table and the calls that wait survive it, as in the code.
A program is a thread suspended in its call, except that closing a descriptor
does not wait for the shutdown (sockets.ts:83).

`Signaling` joins the clients to `SignalingServer` by two queues for each WebSocket. A
connection ends at either end first (`Disconnected`, `Close`), and the client's next one
may be open before the server has seen the end of the last: `current(s)`
tells them apart. What is sent on a connection that is gone is lost.

**What programs do.** An orderly program binds what it has not bound, accepts on
and shuts down what it has, connects to anything in `BindAliases`, and calls under an id
of its present connection. The constant `Habits` adds ways of less orderly ones:
`"tidy"` also shuts down the aliases it connected from, as closing a connected
descriptor does; `"hasty"` binds again before its shutdown is answered; `"foreign"`
shuts down aliases of others, as closing an accepted descriptor does.

### `Mesh`

A page has a transporter; each of its threads is a client of the server with an id
of its own. `Join` registers a client and greets the others; `relay` is
handleOffer, handleAnswer and handleCandidate of the server; `Receive` is the
way of a message through signaling client, worker and main thread to the transporter.
The methods of the transporter are cut at their promises as in `Transporter`,
without refusals and failures; `ondatachannel` opens both ends of a channel once
two peers have each other's descriptions. `Reloads` extends `Mesh` by one action: `Reload`
ends a page and all it holds, and its clients come back under the ids they had, as the
server gives out the first that is free.

### `Threads`

The main thread (`socketBinds`, `socketAliases`, `socketDescriptors`, the sends its transporter
has) and workers (`aliasesHolder`, `binds`, `clientAliases`, and the `call` each is
suspended in). `toMain` and `toWorker` are the messages posted between them, in
order; `news` is what each signaling client hears: the aliases a call waits for, and
then what the call returns, since the promise of a call resolves after
the handlers of its messages. The server is one step for each request
(`register`, `introduce`, `refuse`, `retract`); `Signaling` has the protocol. `used` are the
aliases that were ever given out, also one that was given for a connect and taken back
when it was refused (createTCPAddress comes before the checks of handleConnect).

| Actions | Code |
| --- | --- |
| `handleMessage` | the main thread's handlers, by the `cmd` of a message: handleBindUpdate, handleAliasUpdate, handleFetchBinds, handleSocketDescriptor, handleWrtcSend |
| `transported` | handleWrtcSend after the transporter's promise |
| `onmessage` | a worker's handlers, and the call that one of them lets go on: onNotifyBindAdd, onNotifyAliasAdd, updateBinds, handleExternalSocket, handleExternalSend after their wait |
| `handleOperation` | handleAlias, and the rest of bind, accept or connect once the client answers |
| `Program`, `ready` | socket, bind, accept, connect, send up to their first wait |

`Order` is what `customThreadsHolder` iterates over. A thread that is not in it is known to the
runtime only: it is answered (`getThread`) but never notified. `notifyAllThreads` *returns* at
the thread the news is from, which the model keeps: threads that come later
in the order do not hear of it.

### `Transporter`

The page's side of WebRTC. `connections` is the map of that name, `peers` the
state of each `RTCPeerConnection`, `objects` the data channels in the order they
were made; `channels` says which of them the nested map holds for a remote and
a local id. A channel that was replaced there lives on in its connection.

Two kinds of await occur. A promise of WebRTC or of a Blob is resolved by the
browser in a task of its own, and anything may happen before: such a call is an
entry in `calls` (negotiations) or `arriving` (messages being read), and the code
after the await is an action of its own. A promise of Emittery is
resolved by an `emit`. `once` registers synchronously; `emit` calls the listeners
that were there when it began, and whoever awaited them goes on from the
microtask queue. So the event marks calls as `woken`, and until they have gone
on (`quiet`) no other task starts.

| Actions | Code |
| --- | --- |
| `getOffer`, `offer` | getOffer up to, and after, createOffer and setLocalDescription |
| `handleOffer`, `setRemoteDescription`, `answer` | handleOffer, cut at its promises; `answer` includes addQueuedCandidates |
| `handleAnswer`, `acceptAnswer` | handleAnswer before and after its promise |
| `reject` | any of these promises rejected: the call throws, the connection stays in the map |
| `handleCandidate`, `shutdown`, `close` | the methods of these names, each one turn |
| `connectionstatechange` | handleConnectionStatusChange with "closed", possibly after a successor was made |
| `onopen`, `onclose`, `onmessage`, `ondatachannel` | the handlers that dataChannelConfiguration and the negotiations set |
| `queueAndEmitMessage` | the same, once the bytes of a message are read; without a channel the message is lost |
| `send`, `resumeSend`, `recv`, `resumeRecv` | send and recv up to, and after, their wait |

A getOffer or handleOffer for a remote id that has a connection (`extend`) throws
after it made a channel for a further local id. Messages are numbered as they
arrive; reads may overtake each other.

## 3. Runs

| Run | Instance | Checks |
| --- | --- | --- |
| `address_pool` | 3 calls, 1 subnet, suffixes 0..1, at most 1 port of a host, 7 requests | `TypeOK`, `MutualExclusion`, `SearchStillCurrent`, `PortsHosted`, `ImplementsAddressBook` (safety and liveness), `EveryCallReturns` |
| `signaling_server` | 2 sockets, suffixes 0..1, bind on one alias, 2 messages in a chunk, any client | `TypeOK`, `ClientsConnected`, `NoOrphanAlias`, `NothingLeaked`, `OnlyOwnerRetracts` |
| `signaling_server_polite` | 2 sockets, suffixes 0..1, 2 aliases, 2 messages in a chunk, polite clients | `UniqueIds`, `AliasesHoldPorts`, `AcceptReachesOwner`, `AliasKept`, `EveryRequestAnswered`, `DepartureAnnounced` |
| `transporter` | 1 remote and 1 local id, 2 connections, 3 channels, 2 candidates, 2 negotiations at once, 1 send | `TypeOK`, `NoSendForgotten`, `NoConnectionLeaked`, `NoCandidateForgotten` |
| `transporter_receive` | 1 remote and 2 local ids, 2 connections, 2 channels, 2 messages, 1 recv for each pair | `NoRecvForgotten`, `FirstInFirstOut` |
| `signaling` | 2 tidy clients that stay connected, 1 alias, 5 calls of each, up to 3 messages on each way | `TypeOK`, `TablesAgree`, `AliasCallOutcome`, `ConnectionOutcome` |
| `signaling_calls` | 2 clients, one of which may lose its connection once, 2 calls of each | `NoStaleAlias`, `IdOfConnection`, `EveryCallReturns`, `Reconnects` |
| `mesh` | 3 clients on 2 pages, 1 candidate | `TypeOK`, `ChannelsPaired`, `OffererHeard`, `EveryPairConnects` |
| `threads` | 2 workers, 2 descriptors, 1 alias to bind, 1 elsewhere, 1 of connections | `TypeOK`, `BindsAgree`, `NoStaleAlias`, `Reachable`, `EveryRequestAnswered` |
| `signaling_connect_again` | as `signaling`, 3 calls of each, 1 message on each way | `EveryCallReturns`, violated |
| `mesh_candidates` | 2 clients on 2 pages, 2 candidates | `CandidatesExchanged`, violated |
| `mesh_reload` | 2 clients on 2 pages, 1 reload | `EveryPairConnects`, violated |

What they show:

- **The mutex is enough, and needed.** `SearchStillCurrent`: no overlapping
  create, claim or remove changes what a search was computed from before its
  result is used. With the lock unchecked it fails. `EveryCallReturns`: every
  way out releases; without the `finally`, one unknown host stops the server.
- **The address functions are linearizable.** `ImplementsAddressBook`: each call
  answers as one indivisible operation made while it is pending, except that a
  subnet becomes known a moment before its first knock is answered.
- **Departures are complete.** `NoOrphanAlias`, `NothingLeaked`: however the
  callbacks of several departures interleave, no alias keeps a departed owner and
  no host stays in use. A refused client, whose id is `"-1"`, is the exception: it has no
  close listener. It can register an alias, since handleBind does not
  ask who it is, and that alias stays.
- **Refusals are complete.** `NothingLeaked` again: a refused connect gives its port
  back, and of two binds of one alias in one chunk, which both pass the check at
  318, the claim lets one through.
- **Accept finds its owner.** `AcceptReachesOwner`: the alias that handleConnect
  reads again at 443, after an await, is still the one it checked: whoever is sent an Accept
owns the alias, and the alias of the connection it names is registered.
- **Nobody is left waiting by the server.** `EveryRequestAnswered` and
  `DepartureAnnounced`: every knock and connect is answered, and a departure, with
  each alias it ends, is announced to all who stay, for polite clients (whose hosts
  are not freed while they are connected).
- **Received once and in order.** `FirstInFirstOut`: a waiting recv returns what an
  event brought it and then shifts the queue without looking. With one recv at a
  time for a pair both are the same message, so the pair is a FIFO queue from
  the moment messages are queued.
- **Nobody waits beside what it waits for.** `NoSendForgotten`, `NoRecvForgotten`: no
  event passes between a check and the wait that follows it, also when the
  channel object is replaced while a send waits. That a send ends is not claimed: a
  shutdown does not end it.
- **Connections and candidates are accounted for.** `NoConnectionLeaked`: no open
  connection is outside the map, however negotiations and shutdowns overlap.
  `NoCandidateForgotten`: candidates that came before the remote
  description, even before the connection, are added when it is set.
- **A call ends with its own answer.** `AliasCallOutcome`: the key of an
  alias with an id is enough, though broadcasts about other aliases come in between,
  and when a call returns, what it says is still true at the server.
  `ConnectionOutcome`: the aliases are in the table by the time the thread may send.
- **Tables follow the server.** `TablesAgree` (`NoStaleAlias` and `OwnAliasesKnown`): once nothing is under way a
  client that stayed connected has all of its own aliases and none that is gone.
- **A reconnect comes through.** `IdOfConnection`, `Reconnects`: whichever end notices the
  loss first, the client ends up with the id of its new connection, and the other
  client, whose calls all return, forgets the aliases of the old one.
- **Everybody meets.** `EveryPairConnects`: two clients of one page and one of another get
  their channels in whatever order they join; `ChannelsPaired`: on shared connections
  no channel is held under the wrong client; `OffererHeard`: the candidates of the offering
  end arrive, also those that come before the connection they are for.
- **Threads agree.** `BindsAgree`: a descriptor is the same in all workers, although binds
  travel by broadcast and by fetch. `NoStaleAlias`: the workers hear of each retraction
  from their own client and from others, in any order, and none is undone.
  `Reachable`: no retraction that another worker passes on takes an alias that is in
  use away. `EveryRequestAnswered`: the main thread answers workers it does not notify.

### Bounds

- `Calls`: three calls are one that holds the mutex and a queue of two, which is
  where order in the queue begins to matter.
- `MaxSuffix` is 255 in the code. A subnet of two suffixes fills up
  within a run, which is what the limit is about; `Signaling` has room to spare.
- `PortBound`: createTCPAddress has no limit of its own. A client connects only
  while it has fewer ports than this.
- `MaxBatch`: messages in one chunk. Two handlers meet at every await. Copies of
  one message are told apart by their number.
- `IdBound`: a socket knocks only while it has fewer ids. The same paths free
  two ids of one socket as two ids of two sockets.
- Two sockets: each property relates at most two clients, one that acts and one
  that owns, stays or is taken over.
- `Connections`, `MaxChannels` of `Transporter`: two connections for one remote id are one that was
  shut down or failed and its successor; three channels allow a pair to have a channel
  from either end on one connection and one on the next. They count what is ever
  made, so no run ends early by a shutdown.
- `MaxMessages`: two are one being returned and one being read or queued; three
  were checked by hand. `Candidates`: a set of two, one early and one late.
- `Signaling`, `MaxQueue`: a program calls with fewer messages on any way, so that three
  let requests, answers and broadcasts pass each other. `MaxOpens`: the WebSockets of a
  client, the lost one and its successor. `MaxCalls`: five let each client bind, accept, shut down, connect
  and be refused in one run; it also brings every behaviour to rest, so that weak fairness is enough.
- `Mesh`: three clients on two pages are the least where two share a connection.
  `MaxCandidates`, `MaxReloads` of `Reloads`: one event of the kind can meet every step of the rest.
- `Threads`: the first worker is in `customThreadsHolder` and the second only known
  to the runtime, which may send, also on descriptors of the first. `MaxQueue`: the server acts with
  fewer than two messages on the way through the page, programs call when there is none
  (`few`), so that an update and its successor meet everywhere. By hand the
  invariants were also checked with three workers (1.6 million states), with `MaxQueue` 3, and with
  three and four descriptors.
- `signaling_server` uses `VIEW` to leave out `sent`, which its
  invariants do not look at; `OnlyOwnerRetracts` compares `aliases` only.
  Runs with invariants only, or with action
  properties that treat clients alike, use symmetry; runs with liveness use none.

### Fairness

`AddressPool`: weak fairness on each call's steps past `acquire`; it is never
assumed that a call is made or that its caller goes on. `SignalingServer`: weak
fairness on the handlers together, never on connections, messages or closes.
These two
say that the microtask queue is drained: a continuation whose promise is
resolved runs, and nothing in these functions waits for I/O. That one handler
cannot starve another follows, since a turn has finitely many steps.
`Transporter` checks safety only and assumes none.

`Signaling` and `Mesh`: weak fairness on all that goes on by itself (`Progress`): handlers run,
messages are delivered, a closed WebSocket is opened again, a promise of WebRTC
resolves. Nothing is assumed of programs, joins, losses and reloads. `Mesh` and
`signaling_calls` bound these, so that what is under way is finite and comes to an end in any
order. In `signaling_connect_again` nothing but the weak fairness is assumed either: its
counterexample ends in a state where nothing is enabled that could answer.

`Threads`: weak fairness for each event loop and source: the main thread takes the messages of each
worker in turn, and each worker those of the main thread and of its WebSocket.
Neither the transporter nor the server nor any program need do anything.

## 4. Where the code does otherwise

Three runs state what the documentation says and find it violated.

- `signaling_connect_again`. Closing a descriptor that was connected shuts down the
  alias the server gave it (sockets.ts:338), whose host is the id of the client.
  removeIPAddress (369) frees that host, so the client's next connect fails in
  createTCPAddress with SuffixDoesNotExistError, and since nothing catches it the
  client, instead of being told that its "connection [was] rejected by server"
  (errors/connection-rejected.ts:3), waits for ever.
- `mesh_candidates`. The end that answers signs its candidates with offererId and
  answererId as they are in the offer (main.ts:158), and the server sends a
  candidate to its answererId (signaling-server.ts:308): back to the page it is from.
  "Who this candidate should be delivered to" (operations/candidate.ts:5) is the other end,
  and in protocol.puml:43 the answering client puts the offerer there. The page
  takes its own candidate for one of the other's, and the offering end never gets any.
- `mesh_reload`. The web runner logs a goodbye and leaves its connection in the map
  (worker.ts:121; the node runner shuts it down). A reloaded page gets its
  ids back, the other page answers the new negotiation with "Connection already exist",
  and the two never connect.

What else was seen by hand, where no document says otherwise, or a property
had to leave something out:

- *A host that is not one's own* (`UniqueIds`, `AliasKept` with `Polite = FALSE`). An alias may be
  bound on any host. When it is shut down (369), or its owner leaves (118), its
  host is freed, also when a connected client has it as its id. The next knock is
  given that id, and two sockets share it. Freeing a host also drops the ports of other
  aliases still registered on it: the next connect is given such a port, and
  `aliases.set` at 426 replaces the registered alias. Keeping off used hosts is not enough,
  since the check is as old as the answer: with three messages in a chunk a client that binds
  two aliases on one unused host, and shuts one down, frees the port of the other; one that knocks and
  binds at once may be given the host it binds on. So polite clients also wait for answers.
- *Hasty programs* (`AliasCallOutcome` with `"hasty"`). A program that binds again before its shutdown is answered
  takes the answer of the shutdown for the one of its bind: the bind is
  rejected, and registered.
- *Closing an accepted descriptor* (`NoStaleAlias` with `"foreign"`). It asks the server to shut down the
  alias of the other end, which is refused by an Alias that is set, with the id of
  the one who asked. The client stores it: it now sends to itself.
- *Two connects for one accept.* The owner is sent two Accepts and hears one; the
  second connection has no descriptor.
- *Calls between two connections.* A call made before the new id is known is signed with
  the old one, and its answer, if any, is for nobody.
- *Two clients on each of two pages* (`EveryPairConnects`). With a and e on one page, b and f on the other,
  who join in the order a, e, b, f, clients e and f can stay without a channel: the greeting that
  would make one finds a connection by the remote id of another pair.
- *Fetching* (`NoStaleAlias` for a thread in `Sharing`). updateBinds adds all aliases the main
  thread has to the worker's table (worker.ts:229), also one whose retraction the worker
  has heard of and the main thread has not yet.
- *Aliases that come back* (`Reachable` for `Recycled`). A worker passes on a retraction late, when another has
  already heard that the alias is registered again, as it is when a client
  reconnects: the alias is deleted (worker.ts:30), and a send then finds no
  alias and returns as if it had sent (239-250).
- *Refusals* (`Reachable` for `BindAliases`). A refused bind deletes the alias, which somebody
  else has registered, from the tables of the whole page (worker.ts:143).

## 5. Proofs

Checked by TLAPS for every value of the constants the assumptions admit. Each of the
components has an invariant (`IInv`; for polite clients: `PoliteInv`; for `Signaling`:
`TypeInv`, `IdInv`, `KnowInv` and `ConnectInv`; for `Threads`: `CallsInv`, `BindsInv`, `AliasesInv` and `LastingInv`), one
lemma per action that the action keeps it, and a theorem for each property that it
implies. TLC checked the invariants on the instances of the runs before they were proved.

- `AddressesProofs`: `FirstGapIsLeastFree`. For a finite set of naturals the
  search returns a natural outside the set, and everything below it is inside.
  The argument: take the least natural `k` that is missing (one exists because
  the set is finite). The numbers below `k` all sit at their own index; each
  larger one has its index shifted down. So the least mismatch is at index
  `k`, or there is none and the set is `0..k-1`, of size `k`.
- `AddressPoolProofs`: `TypeCorrect`, `MutexExcludes`, `SearchNeverStale`,
  `PortsStayHosted`, all from the invariant `IInv`. `MutualExclusion` is
  inductive by itself. `SearchStillCurrent` is not: that nobody else writes while
  a call is at `found` needs the mutual exclusion, and that `FirstGap` is a
  natural number needs the sets of numbers in use to be finite, which `DataOK`
  states. The refinement also needs `SubnetsOpen`, that the subnet of a knock
  whose search is over is known.
  `PoolImplementsBook` is the refinement. `acquire` is the book's `Ask`,
  `resume` its `Take`; the search is a stutter, or the opening of the subnet; each
  step that releases is one of its operations. A granted suffix is free because
  the search is not stale, a refusal is right because all numbers below a
  least free number above `MaxSuffix` are in use, and a granted port is within the
  book's range because a least free number is at most the size of the set.
- `SignalingServerProofs`: `TypeCorrect`, `RegisteredAreConnected`, `NoAliasSurvivesItsOwner`,
  `NothingStaysInUse`, `OnlyItsOwnerRetracts`, for clients of any kind. `NoOrphanAlias` and `NothingLeaked`
  speak of states without tasks; the invariant says where things are while there
  are some. `OwnersKnown`: the owner of an alias has a socket, or a task
  of its departure has not come to it yet. `PortsAccounted`, `HostsAccounted`: what is in use belongs
  to an alias, a client, or a task that will register it or give it back.
  `AskersPresent`: a client that binds keeps its socket for the turn, without which an
  alias could be registered after its owner left. `PortsHosted`: a port given back
  finds its host.
- `PoliteClientsProofs`: `IdsStayUnique`, `AliasesKeepTheirPorts`, `AliasesStayWithTheirClient`,
  `AcceptsReachTheOwner`, each under the hypothesis `Polite`. All four come down to one question: when a
  shutdown or a departure frees a host, is it anybody's? `PoliteInv` answers it in three parts.
  *Turns*: the handlers under way are of one socket's messages or of departures, never of
  both (`TurnsApart`). *Ids*: the id of a connected client is a host in use (`IdsHosted`), an id that is
  being handed out is nobody's (`IdsFresh`), and one that has left is not given again within the turn
  (`IdsGone`). *Hosts*: on the host of a client nobody else has an alias or asks for one
  (`HostsOwned`); on any other host there is at most one (`HostsApart`); so the host that is
  freed with an alias is empty and no client's (`HostsEmpty`). From these a port that is
  in use stays so until its alias goes (`PortsHeld`, `AliasesHoldPorts`), no connect is given the port of
  a registered alias, and the alias a connect checked is still its owner's when it is used
  (`ConnectsOwned`, `ConnectsTrue`). Nothing bounds the sockets, hosts, ports or messages in a chunk, and
  `BindAliases` may be any addresses. The lemmas `RunConnected`, `RunChangesAliases`, `RunFrees` and `RunGains` say what a step
  of a handler can change, so that each part is proved from these rather than action by action.
- `SignalingProofs`: `EverythingTyped`, from `TypeInv`, the types of clients, queues and server together, and
  `IdsOfConnections`, that is `IdOfConnection`, from `IdInv`. A client's last connection is in one of four
  phases (`Identified`): its knock is on the way or not sent (`Asking`), a handler has it (`Knocking`), it was
  refused (`Denied`), or it was given an id (`Admitted`), which an Acknowledgement on the way tells
  the client or which the client has; and an id that is given is registered for its socket (`Registered`). An id of a former
  connection is no danger: who signs what is in the queues is kept by `AskedKinds`. What could go wrong
  is the server giving one id twice, which is what `PoliteInv` excludes. The instance of the server in `Signaling`
  has `Polite = FALSE`, so nothing is assumed of its clients; instead the proof shows that what programs do ask is polite
  (`AskedPolitely`), so that each step keeps `PoliteInv` by the lemmas of `PoliteClientsProofs`.
  This has two hypotheses, and section 4 says what happens without them (*A host that is not one's own*). Programs are not `"tidy"`:
  they do not shut down the aliases they connected from, which frees their own host. And the hosts of the
  aliases that programs bind differ (`HostsDistinct`) and are not given to clients (`HostsReserved`,
  assumed of every state of a behaviour: no knock is answered with such a host). The run that checks `IdOfConnection` meets all of this.
  `StaleAliasesRetracted`, `TablesAgreed` and `AliasCallsTrue`, that is `NoStaleAlias`, `TablesAgree` and
  `AliasCallOutcome`, come from `KnowInv`, under the same hypotheses and for programs without any of the `Habits`:
  section 4 shows `"hasty"` and `"foreign"` ones break them. What a client is told of an alias is the sequence
  of its *reports*: its table, then the messages about the alias in its queue. The last report is so, or the server is
  about to retract it (`ToldTrue`), and an alias that is the client's own is the last it hears of it (`OwnTold`).
  The table itself may be old. That a program which goes by it asks for the right thing is
  what the rest is about: a request is on the way to the server, with it, or answered, never two of these at once
  (`OneAtATime`), and a call waits for it (`Awaited`); and between two answers, whether an alias is its
  own does not change for the client, whatever is broadcast (`Consistent`). So a program that waits for no answer sees by its old table whether
  the alias is its own now, and binds what it has not and shuts down what it has (`InOrder`). An answer then
  says what became of the request, and no other message has its key. For programs that do not wait this fails.
  The three are about clients that have not reconnected: a table outlives its
  connection, and what it says of the client's own aliases is then out of date.
  `ReturnedAliasesKnown`, that is `ConnectionOutcome`, comes from `ConnectInv`, under the same two hypotheses, but
  for hasty and foreign programs too, and for clients that have reconnected. It follows a connect through its stages (`Stage`):
  on its way (`OnItsWay`), with the server and its own end not made yet or given up (`Checked`), its own end made and the client
  told of it (`Made`), both replies sent (`Both`), the first of them counted (`Half`), or given up by
  the server with one reply, which does not end it well (`Dropped`). Each stage says which replies are in the client's queue,
  and from `Made` on that the alias of the own end is registered for the client and that the last it was told
  of it before the second reply is so (`Told`). So the table has both ends when the second reply is handled. In the same way the last a client is told of
  the alias an Accept names, before the Accept, is its owner (`AcceptsTold` where the server is about to send it,
  `AcceptsKnown` once it is on the way).
- `TransporterProofs`: `TypeCorrect`, `EveryOpenConnectionIsKnown`, `EarlyCandidatesAreAdded`,
  `EverySenderIsWoken`, `EveryReceiverIsWoken`, and `ReceivesInOrder`, that the transporter
  implements `Inbox`. `NoConnectionLeaked` needs to know of each negotiation that the connection it
  keeps is of the client it is for, and open while the map leads to it
  (`CallsAgree`, `MapAgrees`). The waits need `ChannelsKeyed`, that an open event wakes the pair the
  channel is found under, and `ReceiversWait`: the message that wakes a receiver is
  alone in the queue until it goes on, so that what the event brought is what
  the shift takes away. That last part is what makes the steps those of a FIFO queue.
- `MeshProofs`: `TypeCorrect`, `TwinsAgree`, `OffererIsHeard`. `ChannelsPaired` follows from what a
  message says (`MessagesTrue`: an offer or answer describes a peer between the
  two clients it names), from what each description is of (`DescriptionsAgree`), and
  from the label of a channel whose other end is not there yet (`ChannelsLabelled`).
  `OffererHeard` needs every candidate followed on its way (`CandidatesTravel`), and queues that are
  empty once a connection is established (`QueuesDrained`).
- `ThreadsProofs`: `CallsInvariance`, `TypeCorrect`, `DescriptorsAgree`, for any number of threads.
  `CallsInv` says that what a call waits for is under way once: as a
  request, with the transporter, as an answer or as news; that the call is of the kind the
  answer is for; and that its descriptor stays as it was meanwhile (`CallTrue`), without
  which a bind could be given twice. `BindsInv` says that each descriptor has one holder
  (`OneHolder`), new when it is handed out (`GivenNew`), and that a bind of it, in whatever table or message
  (`Claimed`), is the holder's (`ClaimsTrue`). So the order in which binds travel does not matter.
  `BindsArrive`: what a thread knows the main thread has, or is about to be told.
  `StaleAliasesDeleted`, that is `NoStaleAlias` of `Threads`: an alias that is gone
  may be reported to a thread again, late, by another worker. `AliasesInv` follows the news on each of
  its three ways, from the server to a worker, on to the main thread, and from there to others: a message
  that names a client the alias does not belong to is followed, in its queue or behind it on the
  way, by one that says the alias is gone (`StaleFollowed`), and a thread that has such an
  alias in its table is about to be told (`HoldersTold`). A retraction is broadcast to connected
  clients only; that those are all who can have heard of the alias is `HearsFromConnected`,
  and that the server answers nobody else is `ConnectedFirst`.
  `ConnectionsReachable`, that is `Reachable`, is about the aliases that last, which no thread tries
  to bind and which never come back. It has an invariant of its own, `LastingInv`: whatever any table or message has
  or says of such an alias is so, or was so until the alias was retracted (`BeliefsTrue`), so
  that no late news harms; the news that an accept or connect is over comes behind the news
  of the other end in the same queue (`ReturnsKnown`); and a thread that knows the
  other end of a connection goes on knowing it (`EstablishedKnown`). That a descriptor whose connect
  returned still has its bind, `NoStubConnected`, follows from `CallTrue`.

The assumptions are those on the constants, each named in the module that declares
them: `MaxSuffix` is a natural, `"-1"` is no subnet, `NoCall` is no call, requests are calls of the
five functions; aliases that clients bind are addresses; `None` and `NoOne` are
nobody; `NoSocket` is no socket; a page has finitely many threads; the aliases of connections are not those of binds; `"stub"`,
the alias of a descriptor without an address, is none of them.

Only model-checked:

- all liveness (the liveness half of `ImplementsAddressBook`, `EveryCallReturns`, `EveryRequestAnswered`,
  `EveryPairConnects`, `Reconnects`, `DepartureAnnounced` and the like), which TLAPS does not prove;
- what `TablesAgree`, `AliasCallOutcome` and `ConnectionOutcome` say of `"tidy"` programs: they free the hosts of clients, so that without bounds on
  what they do nothing keeps ids apart (section 4). The run `signaling` has them; the theorems leave them out.

## 6. What is not modelled

Of the transporter, the callbacks it is constructed with: they only log. ICE itself, and the states
`connecting`, `connected`, `disconnected` and `failed` of a connection, are one state, open,
since the code tells only `closed` from the rest. The server's `receive` is a rebuild of the message it was given;
unknown opcodes throw before anything changes. The heartbeat's clock and the client's pause before it
reconnects are left out: which sockets end, and when a client comes back, is free.
`SignalingServer.close` ends the whole process's service.

Of the sockets, the copying between WebAssembly memory and JavaScript, `listen`, which does
nothing, and `getsockname`, which reads a bind after ensureBound. `recv` takes the
steps of `send` up to the transporter; what the transporter then does is in `Transporter`.
`close` appears in `Signaling` as the shutdown it sends and in `Threads` as the
retraction of the alias; the descriptor keeps its bind, as in the code.

Of the web runner, `parentSocket` (main.ts:240-250): an opcode "parent" that the
server of this repository does not know. What starts workers, fills `customThreadsHolder`
and calls the handlers by their `cmd` is patched into the Emscripten runtime and not in the
repository; it is modelled from the handlers' arguments. `notifyAllThreads` wants
entries with a property `worker`, `getThread` entries that are workers: the model takes each lookup
as it is meant.

The node runner only starts the other parts, and passes
arguments of earlier signatures. Bindings, examples and vendored runtimes hold
no state of the system.

