---- MODULE Mesh ----
(***************************************************************************)
(* How pages are connected. A page runs one program; each of its threads   *)
(* is a client of the signaling server, under an id of its own, and all of *)
(* them share the transporter of the page's main thread. The server greets *)
(* the clients that are there when another joins, and passes on the offer, *)
(* the answer and the candidates that follow. A client stands for the id   *)
(* it is given: that ids are unique is the subject of SignalingServer.     *)
(*                                                                         *)
(* What goes from the server to a client, from the client's worker to the  *)
(* main thread of its page, and back, stays in order; each way is one      *)
(* queue. Awaited WebRTC operations are steps of their own. Connections    *)
(* never fail and descriptions are never refused here (Transporter has     *)
(* both); Reloads adds pages that are reloaded.                            *)
(***************************************************************************)
EXTENDS Naturals, Sequences, FiniteSets

CONSTANTS Clients, Pages,
          page,            \* the page a client's thread runs on
          MaxCandidates    \* bound: the candidates that are ever emitted

ASSUME MeshAssumption ==
  /\ page \in [Clients -> Pages]
  /\ MaxCandidates \in Nat

VARIABLES clients,      \* who is registered at the server
          toServer, toClient,
          connections,  \* page, remote id -> peer connection, 0 for none
          channels,     \* page, remote and local id -> data channel, 0 for none
          queuedCandidates,   \* page, remote id -> candidates that came too early
          peers,        \* the RTCPeerConnections, in the order they were made
          objects,      \* the RTCDataChannels, in the order they were made
          emitted       \* the peers whose candidate was emitted

signaling == <<clients, toServer, toClient>>
transporters == <<connections, channels, queuedCandidates, peers, objects, emitted>>
vars == <<signaling, transporters>>

\* An offer or answer carries the description of a peer; a candidate is known by
\* the peer it describes.
Messages == [op : {"greeting", "offer", "answer", "candidate"}, offererId : Clients,
             answererId : Clients, sdp : 0 .. Len(peers)]

Message(op, offererId, answererId, sdp) ==
  [op |-> op, offererId |-> offererId, answererId |-> answererId, sdp |-> sdp]

\* A peer is "gone" with its page (Reloads).
Peers == [page : Pages, remote : Clients, local : Clients,
          at : {"offering", "offered", "accepting", "accepted",
                "describing", "answering", "answered", "gone"},
          description : 0 .. Len(peers),   \* whose description the remote one is to be
          added : SUBSET (1 .. Len(peers))]

Objects == [page : Pages, key : Clients \X Clients, peer : 1 .. Len(peers), label : Clients,
            twin : 0 .. Len(objects)]      \* the other end's, once both are open

TypeOK ==
  /\ clients \subseteq Clients
  /\ \A c \in Clients : toServer[c] \in Seq(Messages) /\ toClient[c] \in Seq(Messages)
  /\ connections \in [Pages -> [Clients -> 0 .. Len(peers)]]
  /\ channels \in [Pages \X Clients \X Clients -> 0 .. Len(objects)]
  /\ queuedCandidates \in [Pages -> [Clients -> SUBSET (1 .. Len(peers))]]
  /\ peers \in Seq(Peers)
  /\ objects \in Seq(Objects)
  /\ emitted \subseteq DOMAIN peers

Init ==
  /\ clients = {}
  /\ toServer = [c \in Clients |-> <<>>]
  /\ toClient = [c \in Clients |-> <<>>]
  /\ connections = [p \in Pages |-> [r \in Clients |-> 0]]
  /\ channels = [k \in Pages \X Clients \X Clients |-> 0]
  /\ queuedCandidates = [p \in Pages |-> [r \in Clients |-> {}]]
  /\ peers = <<>> /\ objects = <<>> /\ emitted = {}

----
(***************************************************************************)
(* The server.                                                             *)
(***************************************************************************)
Join(c) ==
  /\ c \notin clients
  /\ clients' = clients \cup {c}
  /\ toClient' = [o \in Clients |-> IF o \in clients
                    THEN Append(toClient[o], Message("greeting", o, c, 0))
                    ELSE toClient[o]]
  /\ UNCHANGED <<toServer, transporters>>

\* Without a client of that id the message is lost.
relay(c) ==
  LET m == Head(toServer[c])
      addressee == IF m.op = "answer" THEN m.offererId ELSE m.answererId
  IN
  /\ toServer[c] # <<>>
  /\ toServer' = [toServer EXCEPT ![c] = Tail(@)]
  /\ toClient' = IF addressee \in clients
                   THEN [toClient EXCEPT ![addressee] = Append(@, m)]
                   ELSE toClient
  /\ UNCHANGED <<clients, transporters>>

----
(***************************************************************************)
(* The transporter of a page, as the main thread calls it.                 *)
(***************************************************************************)
post(c, message) == toServer' = [toServer EXCEPT ![c] = Append(@, message)]

NewPeer(p, r, l, at, description) ==
  [page |-> p, remote |-> r, local |-> l, at |-> at, description |-> description, added |-> {}]

createDataChannel_ForRemote(p, r, l, i) ==   \* mutant: labelled with the remote id
  [page |-> p, key |-> <<r, l>>, peer |-> i, label |-> r, twin |-> 0]

\* The label tells the other end whose channel it is.
createDataChannel(p, r, l, i) ==
  [page |-> p, key |-> <<r, l>>, peer |-> i, label |-> l, twin |-> 0]

configure(p, r, l, object) ==
  /\ objects' = Append(objects, object)
  /\ channels' = [channels EXCEPT ![<<p, r, l>>] = Len(objects) + 1]

connect(p, r, peer) ==
  /\ peers' = Append(peers, peer)
  /\ connections' = [connections EXCEPT ![p][r] = Len(peers) + 1]

extend_Nothing(p, r, l) == UNCHANGED transporters   \* mutant: only the first pair gets a channel

\* There is a connection with this remote id already: another local client gets
\* a channel of its own on it, and the call fails.
extend(p, r, l) ==
  /\ \/ /\ channels[<<p, r, l>>] = 0
        /\ configure(p, r, l, createDataChannel(p, r, l, connections[p][r]))
     \/ channels[<<p, r, l>>] # 0 /\ UNCHANGED <<objects, channels>>
  /\ UNCHANGED <<connections, queuedCandidates, peers, emitted>>

getOffer_NoConnection(p, r, l) == extend(p, r, l)   \* mutant: as if there always was one

getOffer(p, r, l) ==
  \/ connections[p][r] # 0 /\ extend(p, r, l)
  \/ /\ connections[p][r] = 0
     /\ connect(p, r, NewPeer(p, r, l, "offering", 0))
     /\ configure(p, r, l, createDataChannel(p, r, l, Len(peers) + 1))
     /\ UNCHANGED <<queuedCandidates, emitted>>

handleOffer(p, r, l, offer) ==
  \/ connections[p][r] # 0 /\ extend(p, r, l)
  \/ /\ connections[p][r] = 0
     /\ connect(p, r, NewPeer(p, r, l, "describing", offer))
     /\ UNCHANGED <<channels, objects, queuedCandidates, emitted>>

\* An answer is refused unless an offer was made.
handleAnswer(p, r, answer) ==
  LET i == connections[p][r] IN
  /\ peers' = IF i # 0 /\ peers[i].at = "offered"
                THEN [peers EXCEPT ![i].at = "accepting", ![i].description = answer]
                ELSE peers
  /\ UNCHANGED <<connections, channels, queuedCandidates, objects, emitted>>

described(i) == peers[i].at \in {"accepted", "answering", "answered"}

handleCandidate(p, r, candidate) ==
  LET i == connections[p][r] IN
  /\ \/ /\ i # 0 /\ described(i)
        /\ peers' = [peers EXCEPT ![i].added = @ \cup {candidate}]
        /\ UNCHANGED queuedCandidates
     \/ /\ ~ (i # 0 /\ described(i))
        /\ queuedCandidates' = [queuedCandidates EXCEPT ![p][r] = @ \cup {candidate}]
        /\ UNCHANGED peers
  /\ UNCHANGED <<connections, channels, objects, emitted>>

\* The message of the server that is next for a client, at the main thread.
Receive(c) ==
  LET m == Head(toClient[c]) IN
  /\ toClient[c] # <<>>
  /\ toClient' = [toClient EXCEPT ![c] = Tail(@)]
  /\ \/ m.op = "greeting" /\ getOffer(page[c], m.answererId, m.offererId)
     \/ m.op = "offer" /\ handleOffer(page[c], m.offererId, m.answererId, m.sdp)
     \/ m.op = "answer" /\ handleAnswer(page[c], m.answererId, m.sdp)
     \/ m.op = "candidate" /\ handleCandidate(page[c], m.offererId, m.sdp)
  /\ UNCHANGED <<clients, toServer>>

----
(***************************************************************************)
(* What the calls of the transporter await.                                *)
(***************************************************************************)
addQueuedCandidates(p, r) == queuedCandidates' = [queuedCandidates EXCEPT ![p][r] = {}]

offer(i) ==
  LET peer == peers[i] IN
  /\ peer.at = "offering"
  /\ peers' = [peers EXCEPT ![i].at = "offered"]
  /\ post(peer.local, Message("offer", peer.local, peer.remote, i))
  /\ UNCHANGED <<clients, toClient, connections, channels, queuedCandidates,
                 objects, emitted>>

setRemoteDescription(i) ==
  /\ peers[i].at = "describing"
  /\ peers' = [peers EXCEPT ![i].at = "answering"]
  /\ UNCHANGED <<signaling, connections, channels, queuedCandidates, objects, emitted>>

answer_NoFlush(i) ==   \* mutant: the candidates that came early stay in the queue
  LET peer == peers[i] IN
  /\ peer.at = "answering"
  /\ peers' = [peers EXCEPT ![i].at = "answered"]
  /\ post(peer.local, Message("answer", peer.remote, peer.local, i))
  /\ UNCHANGED <<clients, toClient, connections, channels, queuedCandidates,
                 objects, emitted>>

answer(i) ==
  LET peer == peers[i] IN
  /\ peer.at = "answering"
  /\ peers' = [peers EXCEPT ![i].at = "answered",
                            ![i].added = @ \cup queuedCandidates[peer.page][peer.remote]]
  /\ addQueuedCandidates(peer.page, peer.remote)
  /\ post(peer.local, Message("answer", peer.remote, peer.local, i))
  /\ UNCHANGED <<clients, toClient, connections, channels, objects, emitted>>

acceptAnswer(i) ==
  LET peer == peers[i] IN
  /\ peer.at = "accepting"
  /\ peers' = [peers EXCEPT ![i].at = "accepted",
                            ![i].added = @ \cup queuedCandidates[peer.page][peer.remote]]
  /\ addQueuedCandidates(peer.page, peer.remote)
  /\ UNCHANGED <<signaling, connections, channels, objects, emitted>>

\* Candidates come from the local description on. Both ends name the offerer first.
onicecandidate(i) ==
  LET peer == peers[i] IN
  /\ i \notin emitted /\ Cardinality(emitted) < MaxCandidates
  /\ emitted' = emitted \cup {i}
  /\ \/ /\ peer.at \in {"offering", "offered", "accepting", "accepted"}
        /\ post(peer.local, Message("candidate", peer.local, peer.remote, i))
     \/ /\ peer.at \in {"answering", "answered"}
        /\ post(peer.local, Message("candidate", peer.remote, peer.local, i))
  /\ UNCHANGED <<clients, toClient, connections, channels, queuedCandidates,
                 peers, objects>>

\* Two peers that have each other's description are connected.
connected(i) ==
  LET j == peers[i].description IN
  /\ j # 0 /\ peers[j].description = i
  /\ {peers[i].at, peers[j].at} = {"accepted", "answered"}

\* The other end learns of a channel, and both open.
ondatachannel(o) ==
  LET object == objects[o]
      j == peers[object.peer].description
  IN
  /\ object.twin = 0
  /\ connected(object.peer)
  /\ objects' = Append([objects EXCEPT ![o].twin = Len(objects) + 1],
                       [page |-> peers[j].page, key |-> <<object.label, peers[j].local>>, peer |-> j,
                        label |-> object.label, twin |-> o])
  /\ channels' = [channels EXCEPT ![<<peers[j].page, object.label, peers[j].local>>] =
                               Len(objects) + 1]
  /\ UNCHANGED <<signaling, connections, queuedCandidates, peers, emitted>>

----
\* What goes on by itself, once clients have joined.
Progress ==
  \/ \E c \in Clients : relay(c) \/ Receive(c)
  \/ \E i \in DOMAIN peers : offer(i) \/ setRemoteDescription(i) \/ answer(i) \/ acceptAnswer(i)
  \/ \E o \in DOMAIN objects : ondatachannel(o)

Next ==
  \/ Progress
  \/ \E c \in Clients : Join(c)
  \/ \E i \in DOMAIN peers : onicecandidate(i)

Spec == Init /\ [][Next]_vars /\ WF_vars(Progress)

----
(***************************************************************************)
(* Properties                                                              *)
(***************************************************************************)

\* What a client sends to another arrives there as from this client: the two
\* ends of a channel are held under the same two ids, on the pages of these
\* clients, although clients share connections.
ChannelsPaired ==
  \A o \in DOMAIN objects : objects[o].twin # 0 =>
    LET twin == objects[objects[o].twin] IN
    /\ twin.twin = o
    /\ twin.key = <<objects[o].key[2], objects[o].key[1]>>
    /\ objects[o].page = page[objects[o].key[2]]

\* What a sends to b goes into a channel whose other end is open.
sends(a, b) ==
  LET o == channels[<<page[a], b, a>>] IN
  /\ o # 0 /\ objects[o].twin # 0
  /\ peers[objects[objects[o].twin].peer].at # "gone"

Pairs == {pair \in SUBSET Clients : Cardinality(pair) = 2}

Linked(pair) == \A a, b \in pair : a # b => sends(a, b)

\* Any two clients that are registered are connected some time. (Clients join only
\* so many times: what is under way then comes to an end.)
EveryPairConnects ==
  []<>(\A pair \in Pairs : pair \subseteq clients => Linked(pair))

\* Nothing is under way.
settled ==
  /\ \A c \in Clients : toServer[c] = <<>> /\ toClient[c] = <<>>
  /\ \A i \in DOMAIN peers : peers[i].at \in {"offered", "accepted", "answered", "gone"}

Reached(i) == i \in peers[peers[i].description].added

\* However early they come, the candidates of the client that made the offer
\* reach the other end of its connection.
OffererHeard ==
  settled => \A i \in emitted : peers[i].at = "accepted" /\ connected(i) => Reached(i)

\* Each end of a connection is given the candidates of the other
\* (protocol.puml:43-50).
CandidatesExchanged ==
  settled => \A i \in emitted : connected(i) => Reached(i)

====
