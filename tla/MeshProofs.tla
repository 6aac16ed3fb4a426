---- MODULE MeshProofs ----
(***************************************************************************)
(* How the clients of any number of pages are connected: whose description *)
(* each peer connection is given, which channels are the two ends of one   *)
(* connection, and where a candidate is until it has arrived.              *)
(***************************************************************************)
EXTENDS Mesh, TLAPS

\* The peers that made the offer of their connection, and those that answer one.
Offering == {"offering", "offered", "accepting", "accepted"}
Answering == {"describing", "answering", "answered"}

\* The messages in a queue.
Held(queue) == {queue[k] : k \in DOMAIN queue}

SignalingTyped ==
  /\ clients \subseteq Clients
  /\ toServer \in [Clients -> Seq(Messages)]
  /\ toClient \in [Clients -> Seq(Messages)]

ConnectionsTyped ==
  /\ connections \in [Pages -> [Clients -> 0 .. Len(peers)]]
  /\ queuedCandidates \in [Pages -> [Clients -> SUBSET (1 .. Len(peers))]]
  /\ peers \in Seq(Peers)
  /\ emitted \subseteq DOMAIN peers

ChannelsTyped ==
  /\ channels \in [Pages \X Clients \X Clients -> 0 .. Len(objects)]
  /\ objects \in Seq(Objects)

\* What a message says is so: a greeting names clients that are registered, and
\* whatever describes a peer names the two clients that this peer connects.
Says(m) ==
  /\ m.op = "greeting" => m.offererId \in clients /\ m.answererId \in clients
  /\ m.op # "greeting" => m.sdp \in DOMAIN peers
  /\ m.op = "offer" \/ (m.op = "candidate" /\ peers[m.sdp].at \in Offering) =>
       /\ peers[m.sdp].at \in Offering
       /\ peers[m.sdp].local = m.offererId /\ peers[m.sdp].remote = m.answererId
  /\ m.op = "answer" =>
       /\ peers[m.sdp].at \in Answering
       /\ peers[m.sdp].local = m.answererId /\ peers[m.sdp].remote = m.offererId

addresseeOf(m) == IF m.op \in {"greeting", "answer"} THEN m.offererId ELSE m.answererId

MessagesTrue ==
  \A c \in Clients :
    /\ \A m \in Held(toServer[c]) : Says(m) /\ m.op # "greeting"
    /\ \A m \in Held(toClient[c]) : Says(m) /\ addresseeOf(m) = c

\* A page has one peer for each remote client, which belongs to one of its own.
PeersKnown ==
  /\ \A i \in DOMAIN peers :
       /\ peers[i].at \in Offering \cup Answering
       /\ peers[i].page = page[peers[i].local]
       /\ peers[i].remote \in clients /\ peers[i].local \in clients
       /\ connections[peers[i].page][peers[i].remote] = i
  /\ \A p \in Pages, r \in Clients : connections[p][r] # 0 =>
       peers[connections[p][r]].page = p /\ peers[connections[p][r]].remote = r

\* The remote description of a peer is that of a peer between the same two
\* clients, of the other kind.
Described(i) ==
  LET j == peers[i].description IN
  /\ peers[i].at \in {"offering", "offered"} => j = 0
  /\ peers[i].at \notin {"offering", "offered"} =>
       /\ j \in DOMAIN peers
       /\ peers[j].local = peers[i].remote /\ peers[j].remote = peers[i].local
       /\ peers[i].at \in Answering <=> peers[j].at \in Offering

DescriptionsAgree == \A i \in DOMAIN peers : Described(i)

\* A channel whose other end does not know of it is labelled with its own
\* client, and is on the connection with the client it is for.
ChannelsLabelled ==
  \A o \in DOMAIN objects :
    /\ objects[o].page = page[objects[o].key[2]]
    /\ objects[o].twin = 0 =>
         /\ objects[o].label = objects[o].key[2]
         /\ objects[o].key[1] = peers[objects[o].peer].remote
    /\ objects[o].twin # 0 => objects[o].twin \in DOMAIN objects

\* A candidate waits in a page's queue for a remote client, or was given to the
\* connection with this client.
Arrived(p, r, i) ==
  \/ i \in queuedCandidates[p][r]
  \/ connections[p][r] # 0 /\ i \in peers[connections[p][r]].added

\* The candidate of a peer between a, which made the offer, and b is somewhere on
\* its way to the page of b, or there.
Travelling(a, b, i) ==
  \/ Message("candidate", a, b, i) \in Held(toServer[a]) \cup Held(toClient[b])
  \/ Arrived(page[b], a, i)

CandidatesTravel ==
  \A i \in emitted :
    peers[i].at \in Offering => Travelling(peers[i].local, peers[i].remote, i)

\* Nothing is queued for a connection that is established.
QueuesDrained ==
  \A p \in Pages, r \in Clients :
    connections[p][r] # 0 /\ peers[connections[p][r]].at \in {"accepted", "answered"}
      => queuedCandidates[p][r] = {}

IInv ==
  /\ SignalingTyped /\ MessagesTrue
  /\ ConnectionsTyped /\ PeersKnown /\ DescriptionsAgree
  /\ ChannelsTyped /\ ChannelsLabelled /\ ChannelsPaired
  /\ CandidatesTravel /\ QueuesDrained

----
(***************************************************************************)
(* Queues, and what grows                                                  *)
(***************************************************************************)
LEMMA AppendHeld ==
  ASSUME NEW S, NEW s \in Seq(S), NEW m \in S
  PROVE  Append(s, m) \in Seq(S) /\ Held(Append(s, m)) = Held(s) \cup {m}
<1>1. /\ Append(s, m) \in Seq(S)
      /\ DOMAIN Append(s, m) = DOMAIN s \cup {Len(s) + 1}
      /\ Append(s, m)[Len(s) + 1] = m
      /\ \A k \in DOMAIN s : Append(s, m)[k] = s[k]
  OBVIOUS
<1> QED
  BY <1>1 DEF Held

LEMMA TailHeld ==
  ASSUME NEW S, NEW s \in Seq(S), s # <<>>
  PROVE  /\ Head(s) \in S /\ Head(s) \in Held(s)
         /\ Tail(s) \in Seq(S) /\ Held(s) = Held(Tail(s)) \cup {Head(s)}
<1>1. /\ Head(s) \in S /\ Tail(s) \in Seq(S) /\ Len(s) \in Nat \ {0}
      /\ DOMAIN s = 1 .. Len(s) /\ DOMAIN Tail(s) = 1 .. (Len(s) - 1)
      /\ Head(s) = s[1] /\ \A k \in 1 .. (Len(s) - 1) : Tail(s)[k] = s[k + 1]
  OBVIOUS
<1>2. Head(s) \in Held(s)
  BY <1>1 DEF Held
<1>3. Held(Tail(s)) \subseteq Held(s)
  BY <1>1 DEF Held
<1>4. ASSUME NEW k \in DOMAIN s PROVE s[k] \in Held(Tail(s)) \cup {Head(s)}
  <2>1. CASE k = 1
    BY <1>1, <2>1
  <2>2. CASE k # 1
    <3>1. k - 1 \in DOMAIN Tail(s) /\ Tail(s)[k - 1] = s[k]
      BY <1>1, <2>2
    <3> QED
      BY <3>1 DEF Held
  <2> QED
    BY <2>1, <2>2
<1> QED
  BY <1>1, <1>2, <1>3, <1>4 DEF Held

LEMMA SeqGrows ==
  ASSUME NEW S, NEW T, S \subseteq T, NEW s \in Seq(S)
  PROVE  s \in Seq(T)
<1>1. Len(s) \in Nat /\ s \in [1 .. Len(s) -> T]
  OBVIOUS
<1> QED
  BY <1>1

\* What no step undoes: a peer keeps its page, its two clients and its kind, and
\* nobody signs off.
PeersKept ==
  /\ Len(peers) <= Len(peers')
  /\ \A i \in DOMAIN peers :
       /\ peers'[i].page = peers[i].page
       /\ peers'[i].remote = peers[i].remote /\ peers'[i].local = peers[i].local
       /\ peers'[i].at \in Offering <=> peers[i].at \in Offering
       /\ peers'[i].at \in Answering <=> peers[i].at \in Answering
  /\ clients \subseteq clients'

LEMMA SaysKept ==
  ASSUME peers \in Seq(Peers), peers' \in Seq(Peers'), PeersKept, NEW m, Says(m)
  PROVE  Says(m)'
<1>1. DOMAIN peers = 1 .. Len(peers) /\ DOMAIN peers' = 1 .. Len(peers')
      /\ Len(peers) \in Nat /\ Len(peers') \in Nat
  OBVIOUS
<1>2. m.op # "greeting" => m.sdp \in DOMAIN peers /\ m.sdp \in DOMAIN peers'
  BY <1>1 DEF PeersKept, Says
<1> QED
  BY <1>2 DEF PeersKept, Says

LEMMA MessagesGrow ==
  ASSUME peers \in Seq(Peers), peers' \in Seq(Peers'), PeersKept
  PROVE  Messages \subseteq Messages' /\ Seq(Messages) \subseteq Seq(Messages')
<1>1. Messages \subseteq Messages'
  BY DEF Messages, PeersKept
<1> QED
  BY <1>1, SeqGrows

\* Queues that hold only what they held, or what is true.
LEMMA SignalingKept ==
  ASSUME SignalingTyped, MessagesTrue, peers \in Seq(Peers), peers' \in Seq(Peers'), PeersKept,
         clients' \subseteq Clients,
         toServer' \in [Clients -> Seq(Messages')], toClient' \in [Clients -> Seq(Messages')],
         \A c \in Clients : \A m \in Held(toServer'[c]) :
           m \in Held(toServer[c]) \/ (Says(m)' /\ m.op # "greeting"),
         \A c \in Clients : \A m \in Held(toClient'[c]) :
           m \in Held(toClient[c]) \/ (Says(m)' /\ addresseeOf(m) = c)
  PROVE  SignalingTyped' /\ MessagesTrue'
<1>1. SignalingTyped'
  BY DEF SignalingTyped
<1>2. ASSUME NEW c \in Clients, NEW m \in Held(toServer'[c])
      PROVE  Says(m)' /\ m.op # "greeting"
  BY <1>2, SaysKept DEF MessagesTrue
<1>3. ASSUME NEW c \in Clients, NEW m \in Held(toClient'[c])
      PROVE  Says(m)' /\ addresseeOf(m) = c
  BY <1>3, SaysKept DEF MessagesTrue
<1>4. MessagesTrue'
  BY <1>2, <1>3 DEF MessagesTrue, Held
<1> QED
  BY <1>1, <1>4

\* Nothing is posted.
LEMMA SignalingUntouched ==
  ASSUME SignalingTyped, MessagesTrue, peers \in Seq(Peers), peers' \in Seq(Peers'), PeersKept,
         UNCHANGED signaling
  PROVE  SignalingTyped' /\ MessagesTrue'
<1>1. clients' = clients /\ toServer' = toServer /\ toClient' = toClient
  BY DEF signaling
<1>2. toServer' \in [Clients -> Seq(Messages')] /\ toClient' \in [Clients -> Seq(Messages')]
  BY <1>1, MessagesGrow DEF SignalingTyped
<1> QED
  BY <1>1, <1>2, SignalingKept DEF SignalingTyped

\* One client posts a message to the server.
LEMMA PostKept ==
  ASSUME SignalingTyped, MessagesTrue, peers \in Seq(Peers), peers' \in Seq(Peers'), PeersKept,
         clients' = clients, toClient' = toClient,
         NEW c \in Clients, NEW m \in Messages', m.op # "greeting", Says(m)', post(c, m)
  PROVE  SignalingTyped' /\ MessagesTrue'
<1>1. toServer' = [toServer EXCEPT ![c] = Append(@, m)]
  BY DEF post
<1>2. toServer \in [Clients -> Seq(Messages')] /\ toClient \in [Clients -> Seq(Messages')]
  BY MessagesGrow DEF SignalingTyped
<1>3. Append(toServer[c], m) \in Seq(Messages')
      /\ Held(Append(toServer[c], m)) = Held(toServer[c]) \cup {m}
  BY <1>2, AppendHeld
<1>4. /\ toServer' \in [Clients -> Seq(Messages')]
      /\ \A d \in Clients : Held(toServer'[d]) \subseteq Held(toServer[d]) \cup {m}
  BY <1>1, <1>2, <1>3
<1> QED
  BY <1>2, <1>4, SignalingKept DEF SignalingTyped

\* A client takes the message that is next for it.
LEMMA TakeKept ==
  ASSUME SignalingTyped, MessagesTrue, peers \in Seq(Peers), peers' \in Seq(Peers'), PeersKept,
         clients' = clients, toServer' = toServer,
         NEW c \in Clients, toClient[c] # <<>>, toClient' = [toClient EXCEPT ![c] = Tail(@)]
  PROVE  SignalingTyped' /\ MessagesTrue'
<1>1. toServer \in [Clients -> Seq(Messages')] /\ toClient \in [Clients -> Seq(Messages')]
  BY MessagesGrow DEF SignalingTyped
<1>2. Tail(toClient[c]) \in Seq(Messages') /\ Held(Tail(toClient[c])) \subseteq Held(toClient[c])
  BY <1>1, TailHeld
<1>3. /\ toClient' \in [Clients -> Seq(Messages')]
      /\ \A d \in Clients : Held(toClient'[d]) \subseteq Held(toClient[d])
  BY <1>1, <1>2
<1> QED
  BY <1>1, <1>3, SignalingKept DEF SignalingTyped

\* What is known of the message that is next for a client, or for the server.
LEMMA NextMessage ==
  ASSUME SignalingTyped, MessagesTrue, NEW c \in Clients
  PROVE  /\ toClient[c] # <<>> =>
              LET m == Head(toClient[c]) IN m \in Messages /\ Says(m) /\ addresseeOf(m) = c
         /\ toServer[c] # <<>> =>
              LET m == Head(toServer[c]) IN m \in Messages /\ Says(m) /\ m.op # "greeting"
<1>1. toServer[c] \in Seq(Messages) /\ toClient[c] \in Seq(Messages)
  BY DEF SignalingTyped
<1>2. toClient[c] # <<>> => Head(toClient[c]) \in Messages /\ Head(toClient[c]) \in Held(toClient[c])
  BY <1>1, TailHeld
<1>3. toServer[c] # <<>> => Head(toServer[c]) \in Messages /\ Head(toServer[c]) \in Held(toServer[c])
  BY <1>1, TailHeld
<1> QED
  BY <1>2, <1>3 DEF MessagesTrue

----
(***************************************************************************)
(* Peers                                                                   *)
(***************************************************************************)
PeersInv == ConnectionsTyped /\ PeersKnown /\ DescriptionsAgree

LEMMA PeerFacts ==
  ASSUME ConnectionsTyped, NEW i \in DOMAIN peers
  PROVE  /\ i \in 1 .. Len(peers) /\ Len(peers) \in Nat /\ peers[i] \in Peers
         /\ peers[i].page \in Pages /\ peers[i].remote \in Clients /\ peers[i].local \in Clients
         /\ peers[i].description \in 0 .. Len(peers)
         /\ peers[i].added \subseteq 1 .. Len(peers)
<1>1. peers \in Seq(Peers)
  BY DEF ConnectionsTyped
<1>2. i \in 1 .. Len(peers) /\ Len(peers) \in Nat /\ peers[i] \in Peers
  BY <1>1
<1> QED
  BY <1>2 DEF Peers

\* A peer goes on, as the same end of the same connection.
LEMMA PeerUpdated ==
  ASSUME ConnectionsTyped, NEW i \in DOMAIN peers, NEW peer \in Peers,
         peers' = [peers EXCEPT ![i] = peer], clients' = clients,
         peer.page = peers[i].page, peer.remote = peers[i].remote, peer.local = peers[i].local,
         peer.at \in Offering <=> peers[i].at \in Offering,
         peer.at \in Answering <=> peers[i].at \in Answering
  PROVE  /\ PeersKept /\ peers' \in Seq(Peers')
         /\ DOMAIN peers' = DOMAIN peers /\ Len(peers') = Len(peers)
         /\ peers'[i] = peer /\ \A k \in DOMAIN peers \ {i} : peers'[k] = peers[k]
<1>1. peers \in Seq(Peers) /\ Len(peers) \in Nat
  BY DEF ConnectionsTyped
<1>2. /\ peers' \in Seq(Peers) /\ Len(peers') = Len(peers) /\ DOMAIN peers' = DOMAIN peers
      /\ peers'[i] = peer /\ \A k \in DOMAIN peers \ {i} : peers'[k] = peers[k]
  BY <1>1
<1>3. Peers' = Peers
  BY <1>2 DEF Peers
<1>4. PeersKept
  BY <1>1, <1>2 DEF PeersKept
<1> QED
  BY <1>2, <1>3, <1>4

\* The same, with a description that agrees or the one it had.
LEMMA PeerGoesOn ==
  ASSUME PeersInv, NEW i \in DOMAIN peers, NEW peer \in Peers,
         peers' = [peers EXCEPT ![i] = peer], clients' = clients, connections' = connections,
         queuedCandidates' \in [Pages -> [Clients -> SUBSET (1 .. Len(peers))]],
         emitted' = emitted,
         peer.page = peers[i].page, peer.remote = peers[i].remote, peer.local = peers[i].local,
         peer.at \in Offering <=> peers[i].at \in Offering,
         peer.at \in Answering <=> peers[i].at \in Answering,
         \/ /\ peer.description = peers[i].description
            /\ peer.at \in {"offering", "offered"} <=> peers[i].at \in {"offering", "offered"}
         \/ Described(i)'
  PROVE  PeersInv' /\ PeersKept
<1>1. /\ PeersKept /\ peers' \in Seq(Peers')
      /\ DOMAIN peers' = DOMAIN peers /\ Len(peers') = Len(peers)
      /\ peers'[i] = peer /\ \A k \in DOMAIN peers \ {i} : peers'[k] = peers[k]
  BY PeerUpdated DEF PeersInv
<1>2. \A k \in DOMAIN peers : peers'[k].at \in Offering \cup Answering
  BY <1>1 DEF PeersInv, PeersKnown
<1>3. ConnectionsTyped'
  BY <1>1 DEF PeersInv, ConnectionsTyped
<1>4. PeersKnown'
  <2>1. \A p \in Pages, r \in Clients : connections[p][r] # 0 => connections[p][r] \in DOMAIN peers
    BY DEF PeersInv, ConnectionsTyped
  <2> QED
    BY <1>1, <1>2, <2>1 DEF PeersInv, PeersKnown, PeersKept
<1>5. DescriptionsAgree'
  <2>1. ASSUME NEW k \in DOMAIN peers, peers'[k].description = peers[k].description,
               peers'[k].at \in {"offering", "offered"} <=> peers[k].at \in {"offering", "offered"}
        PROVE  Described(k)'
    <3>1. Described(k)
      BY DEF PeersInv, DescriptionsAgree
    <3> QED
      BY <1>1, <2>1, <3>1 DEF Described, PeersKept
  <2>2. Described(i)'
    BY <1>1, <2>1
  <2>3. \A k \in DOMAIN peers : Described(k)'
    BY <1>1, <2>1, <2>2
  <2> QED
    BY <1>1, <2>3 DEF DescriptionsAgree
<1> QED
  BY <1>1, <1>3, <1>4, <1>5 DEF PeersInv

\* A page makes its one peer for a remote client.
LEMMA PeerAdded ==
  ASSUME PeersInv, MeshAssumption, NEW p \in Pages, NEW r \in clients, NEW l \in clients,
         page[l] = p, clients \subseteq Clients, connections[p][r] = 0,
         NEW at, NEW d \in 0 .. Len(peers), connect(p, r, NewPeer(p, r, l, at, d)),
         \/ at = "offering" /\ d = 0
         \/ /\ at = "describing" /\ d # 0 /\ peers[d].at \in Offering
            /\ peers[d].local = r /\ peers[d].remote = l,
         clients' = clients, queuedCandidates' = queuedCandidates, emitted' = emitted
  PROVE  /\ PeersInv' /\ PeersKept
         /\ Len(peers') = Len(peers) + 1 /\ peers'[Len(peers) + 1].remote = r
         /\ peers'[Len(peers) + 1].at = at
         /\ \A k \in DOMAIN peers : peers'[k] = peers[k]
<1> DEFINE peer == NewPeer(p, r, l, at, d)
<1>0. PICK n \in Nat : n = Len(peers) /\ DOMAIN peers = 1 .. n
  <2>1. peers \in Seq(Peers)
    BY DEF PeersInv, ConnectionsTyped
  <2> QED
    BY <2>1
<1>1. /\ peers' = Append(peers, peer)
      /\ connections' = [connections EXCEPT ![p][r] = n + 1]
  BY <1>0 DEF connect
<1>2. /\ peer.page = p /\ peer.remote = r /\ peer.local = l /\ peer.at = at
      /\ peer.description = d /\ peer \in Peers
  BY DEF NewPeer, Peers
<1>3. peers \in Seq(Peers) /\ \A q \in Pages, s \in Clients : connections[q][s] \in 0 .. n
  BY <1>0 DEF PeersInv, ConnectionsTyped
<1> HIDE DEF peer
<1>4. /\ peers' \in Seq(Peers) /\ Len(peers') = n + 1 /\ DOMAIN peers' = 1 .. n + 1
      /\ peers'[n + 1] = peer /\ \A k \in DOMAIN peers : peers'[k] = peers[k]
  BY <1>0, <1>1, <1>2, <1>3
<1>5. Peers \subseteq Peers'
  BY <1>0, <1>4 DEF Peers
<1>6. peers' \in Seq(Peers')
  BY <1>4, <1>5, SeqGrows
<1>7. PeersKept
  BY <1>0, <1>4 DEF PeersKept
<1>8. /\ connections \in [Pages -> [Clients -> 0 .. n]]
      /\ connections'[p][r] = n + 1
      /\ \A q \in Pages, s \in Clients : q # p \/ s # r => connections'[q][s] = connections[q][s]
      /\ connections' \in [Pages -> [Clients -> 0 .. n + 1]]
  <2>1. connections \in [Pages -> [Clients -> 0 .. n]]
    BY <1>0 DEF PeersInv, ConnectionsTyped
  <2>2. [connections[p] EXCEPT ![r] = n + 1] \in [Clients -> 0 .. n + 1]
    BY <1>3, <2>1
  <2> QED
    BY <1>1, <1>3, <2>1, <2>2
<1>9. ConnectionsTyped'
  <2>1. /\ queuedCandidates \in [Pages -> [Clients -> SUBSET (1 .. n)]]
        /\ emitted \subseteq 1 .. n
    BY <1>0 DEF PeersInv, ConnectionsTyped
  <2>2. SUBSET (1 .. n) \subseteq SUBSET (1 .. n + 1)
    OBVIOUS
  <2>3. queuedCandidates \in [Pages -> [Clients -> SUBSET (1 .. n + 1)]]
    BY <2>1, <2>2
  <2>4. emitted \subseteq 1 .. n + 1
    BY <2>1
  <2> QED
    BY <1>4, <1>6, <1>8, <2>3, <2>4 DEF ConnectionsTyped
<1>10. PeersKnown'
  <2>1. \A k \in DOMAIN peers : ~ (peers[k].page = p /\ peers[k].remote = r)
    BY <1>0 DEF PeersInv, PeersKnown
  <2>2. \A k \in DOMAIN peers : peers[k].page \in Pages /\ peers[k].remote \in Clients
    BY PeerFacts DEF PeersInv
  <2>3. peer.at \in Offering \cup Answering
    BY <1>2 DEF Offering, Answering
  <2>4. ASSUME NEW k \in DOMAIN peers'
        PROVE  /\ peers'[k].at \in Offering \cup Answering
               /\ peers'[k].page = page[peers'[k].local]
               /\ peers'[k].remote \in clients' /\ peers'[k].local \in clients'
               /\ connections'[peers'[k].page][peers'[k].remote] = k
    <3>1. CASE k = n + 1
      BY <1>2, <1>4, <1>8, <2>3, <3>1
    <3>2. CASE k # n + 1
      <4>1. k \in DOMAIN peers /\ peers'[k] = peers[k]
        BY <1>0, <1>4, <3>2
      <4>2. /\ peers[k].at \in Offering \cup Answering
            /\ peers[k].page = page[peers[k].local] /\ peers[k].remote \in clients
            /\ peers[k].local \in clients
            /\ connections[peers[k].page][peers[k].remote] = k
        BY <4>1 DEF PeersInv, PeersKnown
      <4>3. /\ peers[k].page \in Pages /\ peers[k].remote \in Clients
            /\ peers[k].page # p \/ peers[k].remote # r
        BY <2>1, <2>2, <4>1
      <4>4. connections'[peers[k].page][peers[k].remote] = k
        BY <1>8, <4>2, <4>3
      <4> QED
        BY <4>1, <4>2, <4>4
    <3> QED
      BY <3>1, <3>2
  <2>5. ASSUME NEW q \in Pages, NEW s \in Clients, connections'[q][s] # 0
        PROVE  /\ peers'[connections'[q][s]].page = q
               /\ peers'[connections'[q][s]].remote = s
    <3>1. CASE q = p /\ s = r
      BY <1>2, <1>4, <1>8, <3>1
    <3>2. CASE q # p \/ s # r
      <4>1. connections'[q][s] = connections[q][s]
        BY <1>8, <3>2
      <4>2. connections[q][s] \in 0 .. n /\ connections[q][s] # 0
        BY <1>3, <2>5, <4>1
      <4>3. connections[q][s] \in DOMAIN peers
        BY <1>0, <4>2
      <4> QED
        BY <1>4, <4>1, <4>2, <4>3 DEF PeersInv, PeersKnown
    <3> QED
      BY <3>1, <3>2
  <2> QED
    BY <2>4, <2>5 DEF PeersKnown
<1>11. DescriptionsAgree'
  <2>1. ASSUME NEW k \in DOMAIN peers PROVE Described(k)'
    <3>1. Described(k)
      BY DEF PeersInv, DescriptionsAgree
    <3> QED
      BY <1>0, <1>4, <3>1 DEF Described
  <2>2. Described(n + 1)'
    <3>1. d # 0 => d \in DOMAIN peers
      BY <1>0
    <3>2. peers'[n + 1] = peer /\ (d # 0 => d \in DOMAIN peers' /\ peers'[d] = peers[d])
      BY <1>0, <1>4, <3>1
    <3> QED
      BY <1>2, <3>2 DEF Described, Offering, Answering
  <2>3. \A k \in DOMAIN peers' : Described(k)'
    BY <1>0, <1>4, <2>1, <2>2
  <2> QED
    BY <2>3 DEF DescriptionsAgree
<1> QED
  BY <1>0, <1>2, <1>4, <1>7, <1>9, <1>10, <1>11 DEF PeersInv

----
(***************************************************************************)
(* Data channels                                                           *)
(***************************************************************************)
ChannelsInv == ChannelsTyped /\ ChannelsLabelled /\ ChannelsPaired

LEMMA ObjectFacts ==
  ASSUME ChannelsTyped, ConnectionsTyped, NEW o \in DOMAIN objects
  PROVE  /\ objects[o] \in Objects /\ o \in 1 .. Len(objects) /\ Len(objects) \in Nat
         /\ objects[o].page \in Pages /\ objects[o].key \in Clients \X Clients
         /\ objects[o].peer \in DOMAIN peers /\ objects[o].label \in Clients
         /\ objects[o].twin \in 0 .. Len(objects)
<1>1. objects \in Seq(Objects) /\ peers \in Seq(Peers)
  BY DEF ChannelsTyped, ConnectionsTyped
<1>2. objects[o] \in Objects /\ o \in 1 .. Len(objects) /\ Len(objects) \in Nat
  BY <1>1
<1>3. DOMAIN peers = 1 .. Len(peers)
  BY <1>1
<1> QED
  BY <1>2, <1>3 DEF Objects

LEMMA ChannelsUntouched ==
  ASSUME ChannelsInv, ConnectionsTyped, peers' \in Seq(Peers'), PeersKept,
         UNCHANGED <<objects, channels>>
  PROVE  ChannelsInv'
<1>1. Objects \subseteq Objects'
  BY DEF Objects, PeersKept
<1>2. objects \in Seq(Objects')
  BY <1>1, SeqGrows DEF ChannelsInv, ChannelsTyped
<1>3. ChannelsTyped'
  BY <1>2 DEF ChannelsInv, ChannelsTyped
<1>4. \A o \in DOMAIN objects : objects[o].peer \in DOMAIN peers
  BY ObjectFacts DEF ChannelsInv
<1>5. ChannelsLabelled'
  BY <1>4 DEF ChannelsInv, ChannelsLabelled, PeersKept
<1>6. ChannelsPaired'
  BY DEF ChannelsInv, ChannelsPaired
<1> QED
  BY <1>3, <1>5, <1>6 DEF ChannelsInv

\* A channel that is created here is labelled with its own client.
LEMMA ChannelConfigured ==
  ASSUME ChannelsInv, ConnectionsTyped, peers' \in Seq(Peers'), PeersKept,
         NEW p \in Pages, NEW r \in Clients, NEW l \in Clients, page[l] = p,
         NEW i \in DOMAIN peers', peers'[i].remote = r,
         configure(p, r, l, createDataChannel(p, r, l, i))
  PROVE  ChannelsInv'
<1> DEFINE object == createDataChannel(p, r, l, i)
<1>1. object \in Objects' /\ object.page = p /\ object.key = <<r, l>> /\ object.peer = i
      /\ object.label = l /\ object.twin = 0
  <2>1. DOMAIN peers' = 1 .. Len(peers')
    OBVIOUS
  <2>2. Len(objects') \in Nat
    <3>1. objects' = Append(objects, object) /\ objects \in Seq(Objects)
      BY DEF configure, ChannelsInv, ChannelsTyped
    <3> QED
      BY <3>1
  <2> QED
    BY <2>1, <2>2 DEF createDataChannel, Objects
<1>2. PICK n \in Nat : n = Len(objects) /\ DOMAIN objects = 1 .. n
  BY DEF ChannelsInv, ChannelsTyped
<1>3. /\ objects' = Append(objects, object)
      /\ channels' = [channels EXCEPT ![<<p, r, l>>] = n + 1]
  BY <1>2 DEF configure
<1> HIDE DEF object
<1>4. /\ Len(objects') = n + 1 /\ DOMAIN objects' = 1 .. n + 1
      /\ objects'[n + 1] = object /\ \A o \in DOMAIN objects : objects'[o] = objects[o]
  BY <1>2, <1>3 DEF ChannelsInv, ChannelsTyped
<1>5. Objects \subseteq Objects'
  BY <1>2, <1>4 DEF Objects, PeersKept
<1>6. objects' \in Seq(Objects')
  <2>1. objects \in Seq(Objects')
    BY <1>5, SeqGrows DEF ChannelsInv, ChannelsTyped
  <2> QED
    BY <1>1, <1>3, <2>1
<1>7. ChannelsTyped'
  BY <1>2, <1>3, <1>4, <1>6 DEF ChannelsInv, ChannelsTyped
<1>8. \A o \in DOMAIN objects : objects[o].peer \in DOMAIN peers
  BY ObjectFacts DEF ChannelsInv
<1>9. ChannelsLabelled'
  <2>1. ASSUME NEW o \in DOMAIN objects
        PROVE  /\ objects'[o] = objects[o] /\ o \in DOMAIN objects'
               /\ peers'[objects[o].peer].remote = peers[objects[o].peer].remote
    BY <1>2, <1>4, <1>8 DEF PeersKept
  <2>2. \A o \in DOMAIN objects' : o \in DOMAIN objects \/ o = n + 1
    BY <1>2, <1>4
  <2>3. object.key[2] = l /\ object.key[1] = r
    BY <1>1
  <2> QED
    BY <1>1, <1>4, <2>1, <2>2, <2>3 DEF ChannelsInv, ChannelsLabelled
<1>10. ChannelsPaired'
  <2>1. \A o \in DOMAIN objects' : objects'[o].twin # 0 => o \in DOMAIN objects
    BY <1>1, <1>2, <1>4
  <2>2. \A o \in DOMAIN objects : objects[o].twin # 0 => objects[o].twin \in DOMAIN objects
    BY DEF ChannelsInv, ChannelsLabelled
  <2> QED
    BY <1>4, <2>1, <2>2 DEF ChannelsInv, ChannelsPaired
<1> QED
  BY <1>7, <1>9, <1>10 DEF ChannelsInv

\* The other end of a channel is held under the ids of the first one, swapped.
LEMMA ChannelPaired ==
  ASSUME ChannelsInv, PeersInv, NEW o \in DOMAIN objects, ondatachannel(o)
  PROVE  ChannelsInv'
<1>1. PICK n \in Nat : n = Len(objects) /\ DOMAIN objects = 1 .. n
  BY DEF ChannelsInv, ChannelsTyped
<1>2. PICK i \in DOMAIN peers : i = objects[o].peer
  BY ObjectFacts DEF ChannelsInv, PeersInv
<1>3. PICK j \in DOMAIN peers : j = peers[i].description
  BY <1>2 DEF ondatachannel, connected, PeersInv, DescriptionsAgree, Described
<1>4. PICK object \in Objects : object = objects[o]
  BY ObjectFacts DEF ChannelsInv, PeersInv
<1> DEFINE first == [object EXCEPT !.twin = n + 1]
           second == [page |-> peers[j].page, key |-> <<object.label, peers[j].local>>, peer |-> j,
                      label |-> object.label, twin |-> o]
<1>5. /\ object.twin = 0
      /\ objects' = Append([objects EXCEPT ![o] = first], second)
      /\ channels' = [channels EXCEPT ![<<peers[j].page, object.label, peers[j].local>>] = n + 1]
      /\ UNCHANGED <<connections, queuedCandidates, peers, emitted>>
  BY <1>1, <1>2, <1>3, <1>4 DEF ondatachannel
<1>6. /\ peers[j].page \in Pages /\ peers[j].local \in Clients
      /\ peers[j].page = page[peers[j].local] /\ peers[j].local = peers[i].remote
      /\ DOMAIN peers = 1 .. Len(peers)
  <2>1. peers[j].page \in Pages /\ peers[j].local \in Clients
    BY PeerFacts DEF PeersInv
  <2>2. peers[j].page = page[peers[j].local]
    BY DEF PeersInv, PeersKnown
  <2>3. peers[i].description = j /\ j # 0
    BY <1>2, <1>3 DEF PeersInv, ConnectionsTyped
  <2>4. peers[j].local = peers[i].remote
    BY <2>3 DEF PeersInv, DescriptionsAgree, Described
  <2> QED
    BY <2>1, <2>2, <2>4 DEF PeersInv, ConnectionsTyped
<1>7. /\ object.page = page[object.key[2]] /\ object.label = object.key[2]
      /\ object.key[1] = peers[i].remote /\ object.key \in Clients \X Clients
      /\ object.page \in Pages /\ object.label \in Clients /\ object.peer = i
  BY <1>2, <1>4, <1>5 DEF ChannelsInv, ChannelsLabelled, Objects
<1>8. /\ first \in Objects' /\ second \in Objects'
      /\ first.page = object.page /\ first.key = object.key /\ first.peer = i
      /\ first.label = object.label /\ first.twin = n + 1
      /\ second.page = peers[j].page /\ second.key = <<object.key[2], object.key[1]>>
      /\ second.peer = j /\ second.twin = o
  <2>1. Len(objects') = n + 1
    BY <1>1, <1>4, <1>5 DEF ChannelsInv, ChannelsTyped
  <2>2. o \in 0 .. n + 1
    BY <1>1
  <2>3. DOMAIN peers' = 1 .. Len(peers') /\ j \in 1 .. Len(peers')
    BY <1>5, <1>6
  <2>4. Objects' = [page : Pages, key : Clients \X Clients, peer : 1 .. Len(peers'),
                    label : Clients, twin : 0 .. n + 1]
    BY <2>1 DEF Objects
  <2>5. second \in Objects'
    BY <1>6, <1>7, <2>2, <2>3, <2>4
  <2>6. object \in [page : Pages, key : Clients \X Clients, peer : 1 .. Len(peers'),
                    label : Clients, twin : 0 .. Len(objects)]
    BY <1>5 DEF Objects
  <2>7. first \in Objects'
    BY <2>4, <2>6
  <2>8. /\ first.page = object.page /\ first.key = object.key /\ first.peer = i
        /\ first.label = object.label /\ first.twin = n + 1
    BY <1>7, <2>6
  <2>9. /\ second.page = peers[j].page /\ second.key = <<object.key[2], object.key[1]>>
        /\ second.peer = j /\ second.twin = o
    BY <1>6, <1>7
  <2> QED
    BY <2>5, <2>7, <2>8, <2>9
<1>9. Objects \subseteq Objects'
  <2>1. Len(objects') = n + 1
    BY <1>1, <1>4, <1>5 DEF ChannelsInv, ChannelsTyped
  <2> QED
    BY <1>1, <1>5, <2>1 DEF Objects
<1> HIDE DEF first, second
<1>10. /\ DOMAIN objects' = 1 .. n + 1 /\ Len(objects') = n + 1 /\ objects' \in Seq(Objects')
       /\ objects'[o] = first /\ objects'[n + 1] = second
       /\ \A q \in DOMAIN objects : q # o => objects'[q] = objects[q]
  <2>1. objects \in Seq(Objects')
    BY <1>9, SeqGrows DEF ChannelsInv, ChannelsTyped
  <2>2. [objects EXCEPT ![o] = first] \in Seq(Objects')
        /\ Len([objects EXCEPT ![o] = first]) = n
    BY <1>1, <1>8, <2>1
  <2> QED
    BY <1>1, <1>5, <1>8, <2>2
<1>11. ChannelsTyped'
  BY <1>1, <1>5, <1>6, <1>7, <1>10 DEF ChannelsInv, ChannelsTyped
<1>12. \A q \in DOMAIN objects' : q = o \/ q = n + 1 \/ (q \in DOMAIN objects /\ q # o)
  BY <1>1, <1>10
<1>13. o # n + 1 /\ o # 0
  BY <1>1
<1>14. ChannelsLabelled'
  <2>1. \A q \in DOMAIN objects : q \in DOMAIN objects'
    BY <1>1, <1>10
  <2>2. second.page = page[second.key[2]] /\ second.twin \in DOMAIN objects' /\ second.twin # 0
    BY <1>6, <1>7, <1>8, <1>13, <2>1
  <2>3. first.page = page[first.key[2]] /\ first.twin \in DOMAIN objects' /\ first.twin # 0
    BY <1>7, <1>8, <1>10
  <2> QED
    BY <1>5, <1>10, <1>12, <2>1, <2>2, <2>3 DEF ChannelsInv, ChannelsLabelled
<1>15. ChannelsPaired'
  <2>1. ASSUME NEW q \in DOMAIN objects, q # o, objects[q].twin # 0
        PROVE  /\ objects'[q] = objects[q]
               /\ objects'[objects[q].twin] = objects[objects[q].twin]
    <3>1. objects[q].twin \in DOMAIN objects /\ objects[objects[q].twin].twin = q
      BY <2>1 DEF ChannelsInv, ChannelsLabelled, ChannelsPaired
    <3>2. objects[q].twin # o
      <4>1. q # 0
        BY <1>1
      <4> QED
        BY <1>4, <1>5, <3>1, <4>1
    <3> QED
      BY <1>10, <2>1, <3>1, <3>2
  <2>2. first.key = <<second.key[2], second.key[1]>>
    BY <1>7, <1>8
  <2>3. second.page = page[second.key[2]] /\ first.page = page[first.key[2]]
    BY <1>6, <1>7, <1>8
  <2>4. ASSUME NEW q \in DOMAIN objects', objects'[q].twin # 0
        PROVE  LET twin == objects'[objects'[q].twin] IN
               /\ twin.twin = q
               /\ twin.key = <<objects'[q].key[2], objects'[q].key[1]>>
               /\ objects'[q].page = page[objects'[q].key[2]]
    <3>1. CASE q = o
      BY <1>8, <1>10, <2>3, <3>1
    <3>2. CASE q = n + 1
      BY <1>8, <1>10, <2>2, <2>3, <3>2
    <3>3. CASE q \in DOMAIN objects /\ q # o
      <4>1. objects[q].twin # 0
        BY <1>10, <2>4, <3>3
      <4> QED
        BY <2>1, <3>3, <4>1 DEF ChannelsInv, ChannelsPaired
    <3> QED
      BY <1>12, <3>1, <3>2, <3>3
  <2> QED
    BY <2>4 DEF ChannelsPaired
<1> QED
  BY <1>11, <1>14, <1>15 DEF ChannelsInv

----
(***************************************************************************)
(* What the calls of a transporter do to peers and candidates              *)
(***************************************************************************)
\* The peers and queues are as they should be, and no candidate is lost.
PeersMoved ==
  /\ PeersInv' /\ PeersKept /\ QueuesDrained' /\ emitted' = emitted
  /\ \A p \in Pages, r \in Clients : \A i : Arrived(p, r, i) => Arrived(p, r, i)'

\* A peer goes on; its page's queue for its remote client is as it was, or given
\* to this peer.
LEMMA PeerMoves ==
  ASSUME PeersInv, QueuesDrained, NEW i \in DOMAIN peers, NEW peer \in Peers,
         peers' = [peers EXCEPT ![i] = peer], clients' = clients, connections' = connections,
         emitted' = emitted,
         peer.page = peers[i].page, peer.remote = peers[i].remote, peer.local = peers[i].local,
         peer.at \in Offering <=> peers[i].at \in Offering,
         peer.at \in Answering <=> peers[i].at \in Answering,
         \/ /\ peer.description = peers[i].description
            /\ peer.at \in {"offering", "offered"} <=> peers[i].at \in {"offering", "offered"}
         \/ Described(i)',
         peers[i].added \subseteq peer.added,
         \/ /\ queuedCandidates' = queuedCandidates
            /\ peer.at \in {"accepted", "answered"} => peers[i].at \in {"accepted", "answered"}
         \/ /\ queuedCandidates' = [queuedCandidates EXCEPT ![peer.page][peer.remote] = {}]
            /\ queuedCandidates[peer.page][peer.remote] \subseteq peer.added
  PROVE  PeersMoved
<1>1. /\ peer.page \in Pages /\ peer.remote \in Clients
      /\ connections[peer.page][peer.remote] = i
      /\ i # 0
  <2>1. peers[i].page \in Pages /\ peers[i].remote \in Clients /\ i \in 1 .. Len(peers)
    BY PeerFacts DEF PeersInv
  <2>2. connections[peers[i].page][peers[i].remote] = i
    BY DEF PeersInv, PeersKnown
  <2> QED
    BY <2>1, <2>2
<1>2. /\ queuedCandidates \in [Pages -> [Clients -> SUBSET (1 .. Len(peers))]]
      /\ peers \in Seq(Peers)
  BY DEF PeersInv, ConnectionsTyped
<1>3. queuedCandidates' \in [Pages -> [Clients -> SUBSET (1 .. Len(peers))]]
  <2>1. CASE queuedCandidates' = queuedCandidates
    BY <1>2, <2>1
  <2>2. CASE queuedCandidates' = [queuedCandidates EXCEPT ![peer.page][peer.remote] = {}]
    <3>1. [queuedCandidates[peer.page] EXCEPT ![peer.remote] = {}]
            \in [Clients -> SUBSET (1 .. Len(peers))]
      BY <1>1, <1>2
    <3> QED
      BY <1>1, <1>2, <2>2, <3>1
  <2> QED
    BY <2>1, <2>2
<1>4. PeersInv' /\ PeersKept
  BY <1>3, PeerGoesOn
<1>5. peers'[i] = peer /\ \A k \in DOMAIN peers \ {i} : peers'[k] = peers[k]
  BY <1>2
<1>6. \A p \in Pages, r \in Clients :
        /\ connections[p][r] # 0 => connections[p][r] \in DOMAIN peers
        /\ connections[p][r] = i => p = peer.page /\ r = peer.remote
  BY DEF PeersInv, PeersKnown, ConnectionsTyped
<1>7. \A p \in Pages, r \in Clients :
        \/ queuedCandidates'[p][r] = queuedCandidates[p][r]
        \/ /\ queuedCandidates'[p][r] = {} /\ p = peer.page /\ r = peer.remote
           /\ queuedCandidates[p][r] \subseteq peer.added
  BY <1>1, <1>2
<1>8. QueuesDrained'
  <2>1. ASSUME NEW p \in Pages, NEW r \in Clients, connections[p][r] # 0,
               peers'[connections[p][r]].at \in {"accepted", "answered"}
        PROVE  queuedCandidates'[p][r] = {}
    <3>1. CASE connections[p][r] = i
      <4>1. p = peer.page /\ r = peer.remote /\ peer.at \in {"accepted", "answered"}
        BY <1>5, <1>6, <2>1, <3>1
      <4>2. CASE queuedCandidates' = queuedCandidates /\ peers[i].at \in {"accepted", "answered"}
        BY <2>1, <3>1, <4>2 DEF QueuesDrained
      <4>3. CASE queuedCandidates' = [queuedCandidates EXCEPT ![peer.page][peer.remote] = {}]
        BY <1>1, <1>2, <4>1, <4>3
      <4> QED
        BY <4>1, <4>2, <4>3
    <3>2. CASE connections[p][r] # i
      <4>1. peers'[connections[p][r]] = peers[connections[p][r]]
        BY <1>5, <1>6, <2>1, <3>2
      <4>2. queuedCandidates[p][r] = {}
        BY <2>1, <4>1 DEF QueuesDrained
      <4> QED
        BY <1>7, <4>2
    <3> QED
      BY <3>1, <3>2
  <2> QED
    BY <2>1 DEF QueuesDrained
<1>9. ASSUME NEW p \in Pages, NEW r \in Clients, NEW k, Arrived(p, r, k)
      PROVE  Arrived(p, r, k)'
  <2>1. CASE k \in queuedCandidates[p][r]
    BY <1>1, <1>5, <1>7, <2>1 DEF Arrived
  <2>2. CASE connections[p][r] # 0 /\ k \in peers[connections[p][r]].added
    BY <1>5, <1>6, <2>2 DEF Arrived
  <2> QED
    BY <1>9, <2>1, <2>2 DEF Arrived
<1> QED
  BY <1>4, <1>8, <1>9 DEF PeersMoved

LEMMA PeersStay ==
  ASSUME PeersInv, QueuesDrained, UNCHANGED <<connections, queuedCandidates, peers, emitted>>,
         clients \subseteq clients'
  PROVE  PeersMoved
<1>1. PeersInv'
  BY DEF PeersInv, ConnectionsTyped, Peers, PeersKnown, DescriptionsAgree, Described
<1>2. QueuesDrained'
  BY DEF QueuesDrained
<1>3. PeersKept
  BY DEF PeersKept, PeersInv, ConnectionsTyped
<1> QED
  BY <1>1, <1>2, <1>3 DEF PeersMoved, Arrived

\* A new peer takes nothing from the queue that waits for its description.
LEMMA PeerJoins ==
  ASSUME PeersInv, QueuesDrained, MeshAssumption, NEW p \in Pages, NEW r \in clients,
         NEW l \in clients, page[l] = p, clients \subseteq Clients, connections[p][r] = 0,
         NEW at, NEW d \in 0 .. Len(peers), connect(p, r, NewPeer(p, r, l, at, d)),
         \/ at = "offering" /\ d = 0
         \/ /\ at = "describing" /\ d # 0 /\ peers[d].at \in Offering
            /\ peers[d].local = r /\ peers[d].remote = l,
         clients' = clients, queuedCandidates' = queuedCandidates, emitted' = emitted
  PROVE  /\ PeersMoved
         /\ Len(peers) + 1 \in DOMAIN peers' /\ peers'[Len(peers) + 1].remote = r
<1>1. PICK n \in Nat : n = Len(peers) /\ DOMAIN peers = 1 .. n
  BY DEF PeersInv, ConnectionsTyped
<1>2. /\ PeersInv' /\ PeersKept
      /\ Len(peers') = n + 1 /\ peers'[n + 1].remote = r
      /\ peers'[n + 1].at = at
      /\ \A k \in DOMAIN peers : peers'[k] = peers[k]
  BY <1>1, PeerAdded
<1>3. DOMAIN peers' = 1 .. n + 1
  <2>1. peers' \in Seq(Peers')
    BY <1>2 DEF PeersInv, ConnectionsTyped
  <2> QED
    BY <1>2, <2>1
<1>4. /\ connections'[p][r] = n + 1
      /\ \A q \in Pages, s \in Clients : q # p \/ s # r => connections'[q][s] = connections[q][s]
      /\ \A q \in Pages, s \in Clients : connections[q][s] \in 0 .. n
  BY <1>1 DEF connect, PeersInv, ConnectionsTyped
<1>5. ASSUME NEW q \in Pages, NEW s \in Clients, connections[q][s] # 0
      PROVE  /\ connections'[q][s] = connections[q][s] /\ connections[q][s] \in DOMAIN peers
             /\ peers'[connections[q][s]] = peers[connections[q][s]]
  <2>1. q # p \/ s # r
    BY <1>5
  <2>2. connections'[q][s] = connections[q][s]
    BY <1>4, <2>1
  <2>3. connections[q][s] \in 0 .. n
    BY <1>4
  <2>4. connections[q][s] \in DOMAIN peers
    BY <1>1, <1>5, <2>3
  <2> QED
    BY <1>2, <2>2, <2>4
<1>6. QueuesDrained'
  <2>1. ASSUME NEW q \in Pages, NEW s \in Clients, connections'[q][s] # 0,
               peers'[connections'[q][s]].at \in {"accepted", "answered"}
        PROVE  connections[q][s] # 0
    <3>1. CASE q = p /\ s = r
      BY <1>2, <1>4, <2>1, <3>1
    <3>2. CASE q # p \/ s # r
      BY <1>4, <2>1, <3>2
    <3> QED
      BY <3>1, <3>2
  <2> QED
    BY <1>5, <2>1 DEF QueuesDrained
<1>7. ASSUME NEW q \in Pages, NEW s \in Clients, NEW k, Arrived(q, s, k)
      PROVE  Arrived(q, s, k)'
  BY <1>5, <1>7 DEF Arrived
<1> QED
  BY <1>1, <1>2, <1>3, <1>6, <1>7 DEF PeersMoved

\* A call to a remote client whose connection is there already.
LEMMA ExtendKept ==
  ASSUME PeersInv, ChannelsInv, QueuesDrained, NEW p \in Pages, NEW r \in Clients,
         NEW l \in Clients, page[l] = p, connections[p][r] # 0, extend(p, r, l),
         clients' = clients
  PROVE  PeersMoved /\ ChannelsInv'
<1>1. PeersMoved
  BY PeersStay DEF extend
<1>2. connections[p][r] \in DOMAIN peers /\ peers[connections[p][r]].remote = r
  BY DEF PeersInv, PeersKnown, ConnectionsTyped
<1>3. peers' \in Seq(Peers') /\ PeersKept
  BY <1>1 DEF PeersMoved, PeersInv, ConnectionsTyped
<1>4. peers' = peers
  BY DEF extend
<1>5. CASE configure(p, r, l, createDataChannel(p, r, l, connections[p][r]))
  <2>1. PICK i \in DOMAIN peers : i = connections[p][r] /\ peers[i].remote = r
    BY <1>2
  <2>2. configure(p, r, l, createDataChannel(p, r, l, i)) /\ i \in DOMAIN peers' /\ peers'[i].remote = r
    BY <1>4, <1>5, <2>1
  <2> QED
    BY <1>1, <1>3, <2>2, ChannelConfigured DEF PeersInv
<1>6. CASE UNCHANGED <<objects, channels>>
  BY <1>1, <1>3, <1>6, ChannelsUntouched DEF PeersInv
<1> QED
  BY <1>5, <1>6 DEF extend

LEMMA GetOfferKept ==
  ASSUME PeersInv, ChannelsInv, QueuesDrained, NEW p \in Pages, NEW r \in clients,
         NEW l \in clients, page[l] = p, clients \subseteq Clients, getOffer(p, r, l),
         clients' = clients
  PROVE  PeersMoved /\ ChannelsInv'
<1>1. CASE connections[p][r] # 0 /\ extend(p, r, l)
  BY <1>1, ExtendKept
<1>2. CASE /\ connections[p][r] = 0
           /\ connect(p, r, NewPeer(p, r, l, "offering", 0))
           /\ configure(p, r, l, createDataChannel(p, r, l, Len(peers) + 1))
           /\ UNCHANGED <<queuedCandidates, emitted>>
  <2>1. 0 \in 0 .. Len(peers)
    BY DEF PeersInv, ConnectionsTyped
  <2>2. /\ PeersMoved
        /\ Len(peers) + 1 \in DOMAIN peers' /\ peers'[Len(peers) + 1].remote = r
    BY <1>2, <2>1, PeerJoins, MeshAssumption
  <2>3. peers' \in Seq(Peers') /\ PeersKept
    BY <2>2 DEF PeersMoved, PeersInv, ConnectionsTyped
  <2>4. PICK i \in DOMAIN peers' : i = Len(peers) + 1 /\ peers'[i].remote = r
    BY <2>2
  <2>5. configure(p, r, l, createDataChannel(p, r, l, i))
    BY <1>2, <2>4
  <2> QED
    BY <2>2, <2>3, <2>4, <2>5, ChannelConfigured DEF PeersInv
<1> QED
  BY <1>1, <1>2 DEF getOffer

\* An offer from another page is that of a peer there, for this client.
LEMMA HandleOfferKept ==
  ASSUME PeersInv, ChannelsInv, QueuesDrained, NEW p \in Pages, NEW r \in clients,
         NEW l \in clients, page[l] = p, clients \subseteq Clients,
         NEW d \in DOMAIN peers, peers[d].at \in Offering,
         peers[d].local = r, peers[d].remote = l,
         handleOffer(p, r, l, d), clients' = clients
  PROVE  PeersMoved /\ ChannelsInv'
<1>1. CASE connections[p][r] # 0 /\ extend(p, r, l)
  BY <1>1, ExtendKept
<1>2. CASE /\ connections[p][r] = 0
           /\ connect(p, r, NewPeer(p, r, l, "describing", d))
           /\ UNCHANGED <<channels, objects, queuedCandidates, emitted>>
  <2>1. d \in 0 .. Len(peers) /\ d # 0
    BY DEF PeersInv, ConnectionsTyped
  <2>2. PeersMoved
    BY <1>2, <2>1, PeerJoins, MeshAssumption
  <2>3. peers' \in Seq(Peers') /\ PeersKept
    BY <2>2 DEF PeersMoved, PeersInv, ConnectionsTyped
  <2> QED
    BY <1>2, <2>2, <2>3, ChannelsUntouched DEF PeersInv
<1> QED
  BY <1>1, <1>2 DEF handleOffer

\* The peer an answer is found with is the one that its client made the offer
\* with, since a page has one peer for each remote client.
LEMMA HandleAnswerKept ==
  ASSUME PeersInv, ChannelsInv, QueuesDrained, NEW l \in Clients, NEW r \in Clients,
         NEW d \in DOMAIN peers, peers[d].at \in Answering,
         peers[d].local = r, peers[d].remote = l, page[l] \in Pages,
         handleAnswer(page[l], r, d), clients' = clients
  PROVE  PeersMoved /\ ChannelsInv'
<1> DEFINE p == page[l]
<1>1. PICK i : i = connections[p][r]
  OBVIOUS
<1>2. /\ peers' = IF i # 0 /\ peers[i].at = "offered"
                    THEN [peers EXCEPT ![i].at = "accepting", ![i].description = d]
                    ELSE peers
      /\ UNCHANGED <<connections, channels, queuedCandidates, objects, emitted>>
  BY <1>1 DEF handleAnswer
<1>3. PeersMoved
  <2>1. CASE i # 0 /\ peers[i].at = "offered"
    <3>1. i \in DOMAIN peers
      BY <1>1, <2>1 DEF PeersInv, ConnectionsTyped
    <3>2. peers[i].local = l /\ peers[i].remote = r
      <4>1. Described(d) /\ peers[d].at \notin {"offering", "offered"}
        BY DEF PeersInv, DescriptionsAgree, Answering
      <4>2. PICK e \in DOMAIN peers : /\ e = peers[d].description
                                      /\ peers[e].local = l /\ peers[e].remote = r
        BY <4>1 DEF Described
      <4>3. peers[e].page = p /\ connections[peers[e].page][peers[e].remote] = e
        BY <4>2 DEF PeersInv, PeersKnown
      <4>4. e = i
        BY <1>1, <4>2, <4>3
      <4> QED
        BY <4>2, <4>4
    <3>3. PICK old \in Peers : old = peers[i]
      BY <3>1, PeerFacts DEF PeersInv
    <3> DEFINE peer == [old EXCEPT !.at = "accepting", !.description = d]
    <3>4. /\ peer \in Peers /\ peer.page = old.page /\ peer.remote = old.remote
          /\ peer.local = old.local /\ peer.added = old.added
          /\ peer.at = "accepting" /\ peer.description = d
      <4>1. d \in 0 .. Len(peers)
        BY DEF PeersInv, ConnectionsTyped
      <4> QED
        BY <4>1 DEF Peers
    <3>5. peers' = [peers EXCEPT ![i] = peer]
      BY <1>2, <2>1, <3>1, <3>3 DEF Peers
    <3> HIDE DEF peer
    <3>6. peer.at \in Offering /\ old.at \in Offering
          /\ peer.at \notin Answering /\ old.at \notin Answering
      BY <2>1, <3>3, <3>4 DEF Offering, Answering
    <3>7. Described(i)'
      <4>1. /\ peers'[i] = peer /\ d \in DOMAIN peers' /\ d # i
            /\ peers'[d] = peers[d]
        <5>1. d # i
          BY <3>3, <3>6
        <5> QED
          BY <3>1, <3>5, <5>1 DEF PeersInv, ConnectionsTyped
      <4>2. peers[d].at \notin Offering
        BY DEF Offering, Answering
      <4> QED
        BY <3>2, <3>3, <3>4, <3>6, <4>1, <4>2 DEF Described
    <3> QED
      BY <1>2, <2>1, <3>1, <3>3, <3>4, <3>5, <3>6, <3>7, PeerMoves
  <2>2. CASE ~ (i # 0 /\ peers[i].at = "offered")
    BY <1>2, <2>2, PeersStay
  <2> QED
    BY <2>1, <2>2
<1>4. peers' \in Seq(Peers') /\ PeersKept
  BY <1>3 DEF PeersMoved, PeersInv, ConnectionsTyped
<1> QED
  BY <1>2, <1>3, <1>4, ChannelsUntouched DEF PeersInv

\* A candidate that is received has arrived.
LEMMA HandleCandidateKept ==
  ASSUME PeersInv, ChannelsInv, QueuesDrained, NEW p \in Pages, NEW r \in Clients,
         NEW k \in DOMAIN peers, handleCandidate(p, r, k), clients' = clients
  PROVE  PeersMoved /\ ChannelsInv' /\ Arrived(p, r, k)'
<1>1. PICK i : i = connections[p][r]
  OBVIOUS
<1>2. /\ UNCHANGED <<connections, channels, objects, emitted>>
      /\ \/ /\ i # 0 /\ described(i)
            /\ peers' = [peers EXCEPT ![i].added = @ \cup {k}]
            /\ queuedCandidates' = queuedCandidates
         \/ /\ ~ (i # 0 /\ described(i))
            /\ queuedCandidates' = [queuedCandidates EXCEPT ![p][r] = @ \cup {k}]
            /\ peers' = peers
  BY <1>1 DEF handleCandidate
<1>3. /\ k \in 1 .. Len(peers) /\ (i # 0 => i \in DOMAIN peers)
      /\ queuedCandidates \in [Pages -> [Clients -> SUBSET (1 .. Len(peers))]]
      /\ peers \in Seq(Peers)
  BY <1>1 DEF PeersInv, ConnectionsTyped
<1>4. PeersMoved /\ Arrived(p, r, k)'
  <2>1. CASE /\ i # 0 /\ described(i)
             /\ peers' = [peers EXCEPT ![i].added = @ \cup {k}]
             /\ queuedCandidates' = queuedCandidates
    <3>1. PICK old \in Peers : old = peers[i]
      BY <1>3, <2>1, PeerFacts DEF PeersInv
    <3> DEFINE peer == [old EXCEPT !.added = @ \cup {k}]
    <3>2. /\ peer \in Peers /\ peer.page = old.page /\ peer.remote = old.remote
          /\ peer.local = old.local /\ peer.at = old.at /\ peer.description = old.description
          /\ peer.added = old.added \cup {k}
      BY <1>3 DEF Peers
    <3>3. peers' = [peers EXCEPT ![i] = peer]
      BY <1>3, <2>1, <3>1 DEF Peers
    <3> HIDE DEF peer
    <3>4. PeersMoved
      BY <1>2, <1>3, <2>1, <3>1, <3>2, <3>3, PeerMoves
    <3>5. peers'[i] = peer
      BY <1>3, <2>1, <3>3
    <3> QED
      BY <1>1, <1>2, <2>1, <3>2, <3>4, <3>5 DEF Arrived
  <2>2. CASE /\ ~ (i # 0 /\ described(i))
             /\ queuedCandidates' = [queuedCandidates EXCEPT ![p][r] = @ \cup {k}]
             /\ peers' = peers
    <3>1. /\ queuedCandidates' \in [Pages -> [Clients -> SUBSET (1 .. Len(peers))]]
          /\ queuedCandidates'[p][r] = queuedCandidates[p][r] \cup {k}
          /\ \A q \in Pages, s \in Clients : q # p \/ s # r =>
               queuedCandidates'[q][s] = queuedCandidates[q][s]
      <4>1. [queuedCandidates[p] EXCEPT ![r] = @ \cup {k}] \in [Clients -> SUBSET (1 .. Len(peers))]
        BY <1>3
      <4> QED
        BY <1>3, <2>2, <4>1
    <3>2. PeersInv'
      <4>1. ConnectionsTyped'
        BY <1>2, <2>2, <3>1 DEF PeersInv, ConnectionsTyped, Peers
      <4>2. PeersKnown' /\ DescriptionsAgree'
        BY <1>2, <2>2 DEF PeersInv, PeersKnown, DescriptionsAgree, Described
      <4> QED
        BY <4>1, <4>2 DEF PeersInv
    <3>3. PeersKept
      BY <1>3, <2>2 DEF PeersKept
    <3>4. QueuesDrained'
      <4>1. i # 0 => peers[i].at \notin {"accepted", "answered"}
        BY <2>2 DEF described
      <4> QED
        BY <1>1, <1>2, <2>2, <3>1, <4>1 DEF QueuesDrained
    <3>5. \A q \in Pages, s \in Clients : queuedCandidates[q][s] \subseteq queuedCandidates'[q][s]
      BY <3>1
    <3> QED
      BY <1>2, <2>2, <3>1, <3>2, <3>3, <3>4, <3>5 DEF PeersMoved, Arrived
  <2> QED
    BY <1>2, <2>1, <2>2
<1>5. peers' \in Seq(Peers') /\ PeersKept
  BY <1>4 DEF PeersMoved, PeersInv, ConnectionsTyped
<1> QED
  BY <1>2, <1>4, <1>5, ChannelsUntouched DEF PeersInv

----
(***************************************************************************)
(* Every step                                                              *)
(***************************************************************************)
LEMMA TravelKept ==
  ASSUME IInv, PeersKept, emitted' = emitted,
         \A a \in Clients, b \in clients : \A i : Travelling(a, b, i) => Travelling(a, b, i)'
  PROVE  CandidatesTravel'
<1>1. ASSUME NEW i \in emitted, peers'[i].at \in Offering
      PROVE  Travelling(peers[i].local, peers[i].remote, i)'
  <2>1. /\ i \in DOMAIN peers /\ peers[i].local \in Clients /\ peers[i].remote \in clients
        /\ peers[i].at \in Offering
        /\ peers'[i].local = peers[i].local /\ peers'[i].remote = peers[i].remote
    BY <1>1, PeerFacts DEF IInv, PeersKept, ConnectionsTyped, PeersKnown
  <2>2. PICK a \in Clients, b \in clients : a = peers[i].local /\ b = peers[i].remote
    BY <2>1
  <2>3. Travelling(a, b, i)
    BY <2>1, <2>2 DEF IInv, CandidatesTravel
  <2>4. Travelling(a, b, i)'
    BY <2>3
  <2> QED
    BY <2>1, <2>2, <2>4 DEF Travelling, Arrived
<1> QED
  BY <1>1 DEF CandidatesTravel

\* The parts of the invariant that a call of the transporter keeps.
LEMMA MovedTyped ==
  ASSUME PeersMoved, IInv
  PROVE  /\ peers \in Seq(Peers) /\ peers' \in Seq(Peers') /\ PeersKept
         /\ ConnectionsTyped' /\ PeersKnown' /\ DescriptionsAgree' /\ QueuesDrained'
         /\ emitted' = emitted
  BY DEF PeersMoved, PeersInv, IInv, ConnectionsTyped

LEMMA JoinKeepsInv ==
  ASSUME IInv, NEW c \in Clients, Join(c)
  PROVE  IInv'
<1>1. /\ clients' = clients \cup {c} /\ toServer' = toServer
      /\ toClient' = [o \in Clients |-> IF o \in clients
                        THEN Append(toClient[o], Message("greeting", o, c, 0))
                        ELSE toClient[o]]
      /\ UNCHANGED <<connections, channels, queuedCandidates, peers, objects, emitted>>
  BY DEF Join, transporters
<1>2. PeersMoved
  BY <1>1, PeersStay DEF IInv, PeersInv
<1>3. ChannelsInv'
  BY <1>1, <1>2, ChannelsUntouched, MovedTyped DEF IInv, ChannelsInv
<1>4. toServer \in [Clients -> Seq(Messages')] /\ toClient \in [Clients -> Seq(Messages')]
  BY <1>2, MessagesGrow, MovedTyped DEF IInv, SignalingTyped
<1>5. ASSUME NEW o \in Clients, o \in clients
      PROVE  LET m == Message("greeting", o, c, 0) IN
             /\ m \in Messages' /\ Says(m)' /\ addresseeOf(m) = o
             /\ Append(toClient[o], m) \in Seq(Messages')
             /\ Held(Append(toClient[o], m)) = Held(toClient[o]) \cup {m}
  <2>1. Message("greeting", o, c, 0) \in Messages'
    BY <1>1 DEF Message, Messages, IInv, ConnectionsTyped
  <2>2. PICK m \in Messages' : m = Message("greeting", o, c, 0)
    BY <2>1
  <2>3. Says(m)' /\ addresseeOf(m) = o
    BY <1>1, <1>5, <2>2 DEF Message, Says, addresseeOf
  <2>4. Append(toClient[o], m) \in Seq(Messages')
        /\ Held(Append(toClient[o], m)) = Held(toClient[o]) \cup {m}
    BY <1>4, AppendHeld
  <2> QED
    BY <2>2, <2>3, <2>4 DEF Says
<1>6. /\ toClient' \in [Clients -> Seq(Messages')]
      /\ \A o \in Clients : /\ Held(toClient[o]) \subseteq Held(toClient'[o])
                            /\ \A m \in Held(toClient'[o]) :
                                 m \in Held(toClient[o]) \/ (Says(m)' /\ addresseeOf(m) = o)
  <2>1. ASSUME NEW o \in Clients
        PROVE  /\ toClient'[o] \in Seq(Messages')
               /\ Held(toClient[o]) \subseteq Held(toClient'[o])
               /\ \A m \in Held(toClient'[o]) :
                    m \in Held(toClient[o]) \/ (Says(m)' /\ addresseeOf(m) = o)
    <3>1. CASE o \in clients
      <4>1. PICK g : g = Message("greeting", o, c, 0)
        OBVIOUS
      <4>2. /\ Says(g)' /\ addresseeOf(g) = o
            /\ Append(toClient[o], g) \in Seq(Messages')
            /\ Held(Append(toClient[o], g)) = Held(toClient[o]) \cup {g}
        BY <1>5, <3>1, <4>1 DEF Says
      <4>3. toClient'[o] = Append(toClient[o], g)
        BY <1>1, <3>1, <4>1
      <4> QED
        BY <4>2, <4>3
    <3>2. CASE o \notin clients
      BY <1>1, <1>4, <3>2
    <3> QED
      BY <3>1, <3>2
  <2> QED
    BY <1>1, <2>1
<1>7. SignalingTyped' /\ MessagesTrue'
  <2>1. clients' \subseteq Clients
    BY <1>1 DEF IInv, SignalingTyped
  <2> QED
    BY <1>1, <1>2, <1>4, <1>6, <2>1, MovedTyped, SignalingKept DEF IInv
<1>8. CandidatesTravel'
  <2>1. ASSUME NEW a \in Clients, NEW b \in clients, NEW i, Travelling(a, b, i)
        PROVE  Travelling(a, b, i)'
    <3>1. b \in Clients
      BY DEF IInv, SignalingTyped
    <3> QED
      BY <1>1, <1>6, <2>1, <3>1 DEF Travelling, Arrived
  <2> QED
    BY <1>2, <2>1, MovedTyped, TravelKept
<1> QED
  BY <1>2, <1>3, <1>7, <1>8, MovedTyped DEF IInv, ChannelsInv

\* A message goes from the queue of its sender to that of its addressee.
LEMMA RelayKeepsInv ==
  ASSUME IInv, NEW c \in Clients, relay(c)
  PROVE  IInv'
<1>1. toServer[c] # <<>>
  BY DEF relay
<1>2. PICK m \in Messages : m = Head(toServer[c]) /\ Says(m) /\ m.op # "greeting"
  BY <1>1, NextMessage DEF IInv
<1>3. PICK d \in Clients : d = addresseeOf(m)
  BY DEF addresseeOf, Messages
<1>4. /\ toServer' = [toServer EXCEPT ![c] = Tail(@)]
      /\ toClient' = IF d \in clients THEN [toClient EXCEPT ![d] = Append(@, m)] ELSE toClient
      /\ UNCHANGED <<clients, connections, channels, queuedCandidates, peers, objects, emitted>>
  BY <1>2, <1>3 DEF relay, addresseeOf, transporters
<1>5. PeersMoved
  BY <1>4, PeersStay DEF IInv, PeersInv
<1>6. ChannelsInv'
  BY <1>4, <1>5, ChannelsUntouched, MovedTyped DEF IInv, ChannelsInv
<1>7. /\ toServer \in [Clients -> Seq(Messages')] /\ toClient \in [Clients -> Seq(Messages')]
      /\ m \in Messages' /\ Says(m)'
  BY <1>2, <1>5, MessagesGrow, SaysKept, MovedTyped DEF IInv, SignalingTyped
<1>8. /\ Tail(toServer[c]) \in Seq(Messages')
      /\ Held(toServer[c]) = Held(Tail(toServer[c])) \cup {m}
  BY <1>1, <1>2, <1>7, TailHeld
<1>9. /\ Append(toClient[d], m) \in Seq(Messages')
      /\ Held(Append(toClient[d], m)) = Held(toClient[d]) \cup {m}
  BY <1>7, AppendHeld
<1>10. /\ toServer' \in [Clients -> Seq(Messages')] /\ toClient' \in [Clients -> Seq(Messages')]
       /\ \A e \in Clients : /\ Held(toServer'[e]) \subseteq Held(toServer[e])
                             /\ Held(toServer[e]) \subseteq Held(toServer'[e]) \cup {m}
                             /\ Held(toClient[e]) \subseteq Held(toClient'[e])
       /\ \A e \in Clients : e # d => toClient'[e] = toClient[e]
       /\ Held(toClient'[d]) \subseteq Held(toClient[d]) \cup {m}
       /\ d \in clients => m \in Held(toClient'[d])
  <2>1. toServer' \in [Clients -> Seq(Messages')] /\ toClient' \in [Clients -> Seq(Messages')]
    BY <1>4, <1>7, <1>8, <1>9
  <2>2. \A e \in Clients : toServer'[e] = IF e = c THEN Tail(toServer[c]) ELSE toServer[e]
    BY <1>4, <1>7
  <2>3. \A e \in Clients : toClient'[e] = IF e = d /\ d \in clients THEN Append(toClient[d], m)
                                                                  ELSE toClient[e]
    BY <1>4, <1>7
  <2> QED
    BY <1>8, <1>9, <2>1, <2>2, <2>3
<1>11. SignalingTyped' /\ MessagesTrue'
  <2>1. \A e \in Clients : \A x \in Held(toClient'[e]) :
          x \in Held(toClient[e]) \/ (Says(x)' /\ addresseeOf(x) = e)
    BY <1>3, <1>7, <1>10
  <2>2. clients' \subseteq Clients
    BY <1>4 DEF IInv, SignalingTyped
  <2>3. \A e \in Clients : \A x \in Held(toServer'[e]) :
          x \in Held(toServer[e]) \/ (Says(x)' /\ x.op # "greeting")
    BY <1>10
  <2> QED
    BY <1>5, <1>10, <2>1, <2>2, <2>3, MovedTyped, SignalingKept DEF IInv
<1>12. CandidatesTravel'
  <2>1. ASSUME NEW a \in Clients, NEW b \in clients, NEW i, Travelling(a, b, i)
        PROVE  Travelling(a, b, i)'
    <3>1. PICK x : x = Message("candidate", a, b, i)
      OBVIOUS
    <3>2. x = m => d = b
      BY <1>3, <3>1 DEF Message, addresseeOf
    <3>3. b \in Clients
      BY DEF IInv, SignalingTyped
    <3>4. x \in Held(toServer[a]) \cup Held(toClient[b]) =>
            x \in Held(toServer'[a]) \cup Held(toClient'[b])
      BY <1>10, <3>2, <3>3
    <3>5. Arrived(page[b], a, i) => Arrived(page[b], a, i)'
      BY <1>4 DEF Arrived
    <3> QED
      BY <2>1, <3>1, <3>4, <3>5 DEF Travelling, Message, Held
  <2> QED
    BY <1>5, <2>1, MovedTyped, TravelKept
<1> QED
  BY <1>5, <1>6, <1>11, <1>12, MovedTyped DEF IInv, ChannelsInv

\* A page does with a message what it says; nothing but a candidate that has
\* arrived goes out of sight.
LEMMA ReceiveKeepsInv ==
  ASSUME IInv, NEW c \in Clients, Receive(c)
  PROVE  IInv'
<1>1. toClient[c] # <<>>
  BY DEF Receive
<1>2. PICK m \in Messages : m = Head(toClient[c]) /\ Says(m) /\ addresseeOf(m) = c
  BY <1>1, NextMessage DEF IInv
<1>3. /\ toClient' = [toClient EXCEPT ![c] = Tail(@)]
      /\ clients' = clients /\ toServer' = toServer
      /\ \/ m.op = "greeting" /\ getOffer(page[c], m.answererId, m.offererId)
         \/ m.op = "offer" /\ handleOffer(page[c], m.offererId, m.answererId, m.sdp)
         \/ m.op = "answer" /\ handleAnswer(page[c], m.answererId, m.sdp)
         \/ m.op = "candidate" /\ handleCandidate(page[c], m.offererId, m.sdp)
  BY <1>2 DEF Receive
<1>4. /\ PeersInv /\ ChannelsInv /\ QueuesDrained /\ clients \subseteq Clients
      /\ page[c] \in Pages /\ m.offererId \in Clients /\ m.answererId \in Clients
  BY MeshAssumption DEF IInv, PeersInv, ChannelsInv, SignalingTyped, Messages
<1>5. /\ PeersMoved /\ ChannelsInv'
      /\ m.op = "candidate" => Arrived(page[c], m.offererId, m.sdp)'
  <2>1. CASE m.op = "greeting" /\ getOffer(page[c], m.answererId, m.offererId)
    <3>1. m.answererId \in clients /\ m.offererId \in clients /\ m.offererId = c
      BY <1>2, <2>1 DEF Says, addresseeOf
    <3> QED
      BY <1>3, <1>4, <2>1, <3>1, GetOfferKept
  <2>2. CASE m.op = "offer" /\ handleOffer(page[c], m.offererId, m.answererId, m.sdp)
    <3>1. /\ m.answererId = c /\ m.sdp \in DOMAIN peers /\ peers[m.sdp].at \in Offering
          /\ peers[m.sdp].local = m.offererId /\ peers[m.sdp].remote = m.answererId
      BY <1>2, <2>2 DEF Says, addresseeOf
    <3>2. m.offererId \in clients /\ m.answererId \in clients
      BY <3>1 DEF IInv, PeersKnown
    <3> QED
      BY <1>3, <1>4, <2>2, <3>1, <3>2, HandleOfferKept
  <2>3. CASE m.op = "answer" /\ handleAnswer(page[c], m.answererId, m.sdp)
    <3>1. /\ m.offererId = c /\ m.sdp \in DOMAIN peers /\ peers[m.sdp].at \in Answering
          /\ peers[m.sdp].local = m.answererId /\ peers[m.sdp].remote = c
      BY <1>2, <2>3 DEF Says, addresseeOf
    <3> QED
      BY <1>3, <1>4, <2>3, <3>1, HandleAnswerKept
  <2>4. CASE m.op = "candidate" /\ handleCandidate(page[c], m.offererId, m.sdp)
    <3>1. m.sdp \in DOMAIN peers
      BY <1>2, <2>4 DEF Says
    <3> QED
      BY <1>3, <1>4, <2>4, <3>1, HandleCandidateKept
  <2> QED
    BY <1>3, <2>1, <2>2, <2>3, <2>4
<1>6. SignalingTyped' /\ MessagesTrue'
  BY <1>1, <1>3, <1>5, TakeKept, MovedTyped DEF IInv
<1>7. /\ Held(toClient[c]) = Held(Tail(toClient[c])) \cup {m}
      /\ \A e \in Clients : toClient'[e] = IF e = c THEN Tail(toClient[c]) ELSE toClient[e]
  <2>1. toClient \in [Clients -> Seq(Messages)]
    BY DEF IInv, SignalingTyped
  <2> QED
    BY <1>1, <1>2, <1>3, <2>1, TailHeld
<1>8. CandidatesTravel'
  <2>1. ASSUME NEW a \in Clients, NEW b \in clients, NEW i, Travelling(a, b, i)
        PROVE  Travelling(a, b, i)'
    <3>1. PICK x : x = Message("candidate", a, b, i)
      OBVIOUS
    <3>2. b \in Clients /\ page[b] \in Pages
      BY MeshAssumption DEF IInv, SignalingTyped
    <3>3. x = m => m.op = "candidate" /\ m.offererId = a /\ m.sdp = i /\ b = c
      BY <1>2, <3>1 DEF Message, addresseeOf
    <3>4. x = m => Arrived(page[b], a, i)'
      BY <1>5, <3>3 DEF Arrived
    <3>5. x \in Held(toServer[a]) \cup Held(toClient[b]) /\ x # m =>
            x \in Held(toServer'[a]) \cup Held(toClient'[b])
      BY <1>3, <1>7, <3>2
    <3>6. Arrived(page[b], a, i) => Arrived(page[b], a, i)'
      BY <1>5, <3>2 DEF PeersMoved
    <3> QED
      BY <2>1, <3>1, <3>4, <3>5, <3>6 DEF Travelling, Message, Held
  <2> QED
    BY <1>5, <2>1, MovedTyped, TravelKept
<1> QED
  BY <1>5, <1>6, <1>8, MovedTyped DEF IInv, ChannelsInv

\* A peer goes on and its client posts what describes it, or nothing.
LEMMA SpeakKeepsInv ==
  ASSUME IInv, NEW i \in DOMAIN peers, PeersMoved, UNCHANGED <<clients, toClient, channels, objects>>,
         \/ toServer' = toServer
         \/ \E m \in Messages : /\ m.op # "greeting" /\ Says(m)' /\ post(peers[i].local, m)
  PROVE  IInv'
<1>1. ChannelsInv'
  BY ChannelsUntouched, MovedTyped DEF IInv, ChannelsInv
<1>2. peers[i].local \in Clients
  BY PeerFacts DEF IInv
<1>3. SignalingTyped' /\ MessagesTrue'
  <2>1. CASE toServer' = toServer
    BY <2>1, SignalingUntouched, MovedTyped DEF IInv, signaling
  <2>2. ASSUME NEW m \in Messages, m.op # "greeting", Says(m)', post(peers[i].local, m)
        PROVE  SignalingTyped' /\ MessagesTrue'
    <3>1. m \in Messages'
      BY <2>2, MessagesGrow, MovedTyped
    <3>2. PICK l \in Clients : l = peers[i].local
      BY <1>2
    <3>3. post(l, m)
      BY <2>2, <3>2
    <3> QED
      BY <2>2, <3>1, <3>3, PostKept, MovedTyped DEF IInv
  <2> QED
    BY <2>1, <2>2
<1>4. \A a \in Clients : Held(toServer[a]) \subseteq Held(toServer'[a])
  <2>1. CASE toServer' = toServer
    BY <2>1
  <2>2. ASSUME NEW m \in Messages, post(peers[i].local, m)
        PROVE  \A a \in Clients : Held(toServer[a]) \subseteq Held(toServer'[a])
    <3>1. toServer \in [Clients -> Seq(Messages)]
      BY DEF IInv, SignalingTyped
    <3>2. Held(Append(toServer[peers[i].local], m)) = Held(toServer[peers[i].local]) \cup {m}
      BY <1>2, <3>1, AppendHeld
    <3> QED
      BY <1>2, <2>2, <3>1, <3>2 DEF post
  <2> QED
    BY <2>1, <2>2
<1>5. CandidatesTravel'
  <2>1. ASSUME NEW a \in Clients, NEW b \in clients, NEW k, Travelling(a, b, k)
        PROVE  Travelling(a, b, k)'
    <3>1. page[b] \in Pages
      BY MeshAssumption DEF IInv, SignalingTyped
    <3>2. Arrived(page[b], a, k) => Arrived(page[b], a, k)'
      BY <3>1 DEF PeersMoved
    <3> QED
      BY <1>4, <2>1, <3>2 DEF Travelling, Message, Held
  <2> QED
    BY <2>1, MovedTyped, TravelKept
<1> QED
  BY <1>1, <1>3, <1>5, MovedTyped DEF IInv, ChannelsInv

\* A peer that goes on keeps its description, and takes over queued candidates.
LEMMA NextStage ==
  ASSUME IInv, NEW i \in DOMAIN peers, NEW at, NEW more \in SUBSET (1 .. Len(peers)),
         at \in {"offered", "answering", "answered", "accepted"},
         at \in Offering <=> peers[i].at \in Offering,
         at = "offered" <=> peers[i].at \in {"offering", "offered"},
         peers' = [peers EXCEPT ![i] = [peers[i] EXCEPT !.at = at, !.added = @ \cup more]],
         clients' = clients, connections' = connections, emitted' = emitted,
         \/ queuedCandidates' = queuedCandidates /\ at \in {"offered", "answering"}
         \/ /\ queuedCandidates' =
                 [queuedCandidates EXCEPT ![peers[i].page][peers[i].remote] = {}]
            /\ more = queuedCandidates[peers[i].page][peers[i].remote]
  PROVE  PeersMoved /\ peers'[i].at = at
<1>1. PICK old \in Peers : old = peers[i]
  BY PeerFacts DEF IInv
<1> DEFINE peer == [old EXCEPT !.at = at, !.added = @ \cup more]
<1>2. /\ peer \in Peers /\ peer.page = old.page /\ peer.remote = old.remote
      /\ peer.local = old.local /\ peer.at = at /\ peer.description = old.description
      /\ peer.added = old.added \cup more
  BY DEF Peers
<1>3. peers' = [peers EXCEPT ![i] = peer]
  BY <1>1
<1> HIDE DEF peer
<1>4. peers'[i] = peer
  BY <1>3 DEF IInv, ConnectionsTyped
<1>5. peer.at \in Answering <=> old.at \in Answering
  <2>1. old.at \in Offering \cup Answering
    BY <1>1 DEF IInv, PeersKnown
  <2>2. \A a \in {"offered", "answering", "answered", "accepted"} :
          a \in Answering <=> a \notin Offering
    BY DEF Offering, Answering
  <2>3. old.at \in Offering => old.at \notin Answering
    BY DEF Offering, Answering
  <2> QED
    BY <1>1, <1>2, <2>1, <2>2, <2>3
<1>6. peer.at \in {"offering", "offered"} <=> old.at \in {"offering", "offered"}
  BY <1>1, <1>2
<1>7. \/ /\ queuedCandidates' = queuedCandidates
         /\ peer.at \in {"accepted", "answered"} => old.at \in {"accepted", "answered"}
      \/ /\ queuedCandidates' = [queuedCandidates EXCEPT ![peer.page][peer.remote] = {}]
         /\ queuedCandidates[peer.page][peer.remote] \subseteq peer.added
  BY <1>1, <1>2
<1>8. PeersMoved
  <2>1. PeersInv /\ QueuesDrained
    BY DEF IInv, PeersInv
  <2>2. /\ peer.page = peers[i].page /\ peer.remote = peers[i].remote
        /\ peer.local = peers[i].local /\ peer.description = peers[i].description
        /\ peers[i].added \subseteq peer.added
    BY <1>1, <1>2
  <2>3. /\ peer.at \in Offering <=> peers[i].at \in Offering
        /\ peer.at \in Answering <=> peers[i].at \in Answering
        /\ peer.at \in {"offering", "offered"} <=> peers[i].at \in {"offering", "offered"}
    BY <1>1, <1>2, <1>5, <1>6
  <2>4. \/ /\ queuedCandidates' = queuedCandidates
           /\ peer.at \in {"accepted", "answered"} => peers[i].at \in {"accepted", "answered"}
        \/ /\ queuedCandidates' = [queuedCandidates EXCEPT ![peer.page][peer.remote] = {}]
           /\ queuedCandidates[peer.page][peer.remote] \subseteq peer.added
    BY <1>1, <1>7
  <2> QED
    BY <1>2, <1>3, <2>1, <2>2, <2>3, <2>4, PeerMoves
<1> QED
  BY <1>2, <1>4, <1>8

\* What a peer says of itself is true and stays true.
LEMMA PeerSays ==
  ASSUME IInv, PeersMoved, NEW i \in DOMAIN peers,
         NEW op \in {"offer", "answer", "candidate"}, NEW offererId, NEW answererId,
         \/ /\ op # "answer" /\ peers[i].at \in Offering
            /\ offererId = peers[i].local /\ answererId = peers[i].remote
         \/ /\ op # "offer" /\ peers[i].at \in Answering
            /\ offererId = peers[i].remote /\ answererId = peers[i].local
  PROVE  LET m == Message(op, offererId, answererId, i) IN
         /\ m \in Messages /\ m.op # "greeting" /\ Says(m)'
<1>1. /\ peers[i].local \in Clients /\ peers[i].remote \in Clients /\ i \in 0 .. Len(peers)
  BY PeerFacts DEF IInv
<1>2. PICK m \in Messages : m = Message(op, offererId, answererId, i)
  BY <1>1 DEF Message, Messages
<1>3. m.op = op /\ m.sdp = i /\ m.offererId = offererId /\ m.answererId = answererId
  BY <1>2 DEF Message
<1>4. peers[i].at \in Offering => peers[i].at \notin Answering
  BY DEF Offering, Answering
<1>5. Says(m)
  BY <1>3, <1>4 DEF Says
<1>6. Says(m)'
  BY <1>5, SaysKept, MovedTyped
<1> QED
  BY <1>2, <1>3, <1>6 DEF Says

LEMMA AwaitedKeepsInv ==
  ASSUME IInv, NEW i \in DOMAIN peers,
         offer(i) \/ setRemoteDescription(i) \/ answer(i) \/ acceptAnswer(i)
  PROVE  IInv'
<1>1. PICK old \in Peers : old = peers[i]
  BY PeerFacts DEF IInv
<1>2. {} \in SUBSET (1 .. Len(peers)) /\ old.added \cup {} = old.added
      /\ [old EXCEPT !.added = @ \cup {}] = old
  BY DEF Peers
<1>3. PICK more \in SUBSET (1 .. Len(peers)) :
        more = queuedCandidates[old.page][old.remote]
  BY <1>1, PeerFacts DEF IInv, ConnectionsTyped
<1>4. UNCHANGED <<clients, toClient, channels, objects>>
  BY DEF offer, setRemoteDescription, answer, acceptAnswer, signaling
<1>5. CASE offer(i)
  <2>1. /\ old.at = "offering"
        /\ peers' = [peers EXCEPT ![i].at = "offered"]
        /\ post(old.local, Message("offer", old.local, old.remote, i))
        /\ UNCHANGED <<connections, queuedCandidates, emitted>>
    BY <1>1, <1>5 DEF offer
  <2>2. [peers[i] EXCEPT !.at = "offered"] = [peers[i] EXCEPT !.at = "offered", !.added = @ \cup {}]
    BY <1>1 DEF Peers
  <2>3. PeersMoved
    BY <1>1, <1>2, <1>4, <2>1, <2>2, NextStage DEF Offering
  <2> QED
    BY <1>1, <1>4, <2>1, <2>3, PeerSays, SpeakKeepsInv DEF Offering
<1>6. CASE setRemoteDescription(i)
  <2>1. /\ old.at = "describing"
        /\ peers' = [peers EXCEPT ![i].at = "answering"]
        /\ UNCHANGED <<toServer, connections, queuedCandidates, emitted>>
    BY <1>1, <1>6 DEF setRemoteDescription, signaling
  <2>2. [peers[i] EXCEPT !.at = "answering"] = [peers[i] EXCEPT !.at = "answering", !.added = @ \cup {}]
    BY <1>1 DEF Peers
  <2>3. PeersMoved
    BY <1>1, <1>2, <1>4, <2>1, <2>2, NextStage DEF Offering
  <2> QED
    BY <1>4, <2>1, <2>3, SpeakKeepsInv
<1>7. CASE answer(i)
  <2>1. /\ old.at = "answering"
        /\ peers' = [peers EXCEPT ![i].at = "answered", ![i].added = @ \cup more]
        /\ queuedCandidates' = [queuedCandidates EXCEPT ![old.page][old.remote] = {}]
        /\ post(old.local, Message("answer", old.remote, old.local, i))
        /\ UNCHANGED <<connections, emitted>>
    BY <1>1, <1>3, <1>7 DEF answer, addQueuedCandidates
  <2>2. peers' = [peers EXCEPT ![i] = [peers[i] EXCEPT !.at = "answered", !.added = @ \cup more]]
    BY <1>1, <2>1 DEF Peers, IInv, ConnectionsTyped
  <2>3. /\ "answered" \in Offering <=> peers[i].at \in Offering
        /\ peers[i].at \notin {"offering", "offered"}
    BY <1>1, <2>1 DEF Offering
  <2>4. /\ queuedCandidates' =
              [queuedCandidates EXCEPT ![peers[i].page][peers[i].remote] = {}]
        /\ more = queuedCandidates[peers[i].page][peers[i].remote]
    BY <1>1, <1>3, <2>1
  <2>5. PeersMoved
    BY <1>4, <2>1, <2>2, <2>3, <2>4, NextStage
  <2> QED
    BY <1>1, <1>4, <2>1, <2>5, PeerSays, SpeakKeepsInv DEF Answering
<1>8. CASE acceptAnswer(i)
  <2>1. /\ old.at = "accepting"
        /\ peers' = [peers EXCEPT ![i].at = "accepted", ![i].added = @ \cup more]
        /\ queuedCandidates' = [queuedCandidates EXCEPT ![old.page][old.remote] = {}]
        /\ UNCHANGED <<toServer, connections, emitted>>
    BY <1>1, <1>3, <1>8 DEF acceptAnswer, addQueuedCandidates, signaling
  <2>2. peers' = [peers EXCEPT ![i] = [peers[i] EXCEPT !.at = "accepted", !.added = @ \cup more]]
    BY <1>1, <2>1 DEF Peers, IInv, ConnectionsTyped
  <2>3. /\ "accepted" \in Offering <=> peers[i].at \in Offering
        /\ peers[i].at \notin {"offering", "offered"}
    BY <1>1, <2>1 DEF Offering
  <2>4. /\ queuedCandidates' =
              [queuedCandidates EXCEPT ![peers[i].page][peers[i].remote] = {}]
        /\ more = queuedCandidates[peers[i].page][peers[i].remote]
    BY <1>1, <1>3, <2>1
  <2>5. PeersMoved
    BY <1>4, <2>1, <2>2, <2>3, <2>4, NextStage
  <2> QED
    BY <1>4, <2>1, <2>5, SpeakKeepsInv
<1> QED
  BY <1>5, <1>6, <1>7, <1>8

\* A candidate that is emitted is posted.
LEMMA CandidateKeepsInv ==
  ASSUME IInv, NEW i \in DOMAIN peers, onicecandidate(i)
  PROVE  IInv'
<1>1. PICK old \in Peers : old = peers[i]
  BY PeerFacts DEF IInv
<1>2. /\ emitted' = emitted \cup {i}
      /\ UNCHANGED <<clients, toClient, connections, channels, queuedCandidates, peers, objects>>
      /\ \/ /\ old.at \in Offering
            /\ post(old.local, Message("candidate", old.local, old.remote, i))
         \/ /\ old.at \in Answering
            /\ post(old.local, Message("candidate", old.remote, old.local, i))
  BY <1>1 DEF onicecandidate, Offering, Answering
<1>3. /\ peers \in Seq(Peers) /\ peers' \in Seq(Peers') /\ PeersKept
  BY <1>2 DEF IInv, ConnectionsTyped, Peers, PeersKept
<1>4. ChannelsInv'
  BY <1>2, <1>3, ChannelsUntouched DEF IInv, ChannelsInv
<1>5. ConnectionsTyped'
  BY <1>2, <1>3 DEF IInv, ConnectionsTyped
<1>6. PeersKnown' /\ DescriptionsAgree' /\ QueuesDrained'
  BY <1>2 DEF IInv, PeersKnown, DescriptionsAgree, Described, QueuesDrained
<1>7. PICK m \in Messages :
        /\ m.op = "candidate" /\ m.sdp = i /\ post(old.local, m)
        /\ \/ /\ old.at \in Offering /\ m = Message("candidate", old.local, old.remote, i)
              /\ m.offererId = old.local /\ m.answererId = old.remote
           \/ /\ old.at \in Answering /\ m.offererId = old.remote /\ m.answererId = old.local
  <2>1. old.local \in Clients /\ old.remote \in Clients /\ i \in 0 .. Len(peers)
    BY <1>1, PeerFacts DEF IInv
  <2> QED
    BY <1>2, <2>1 DEF Message, Messages
<1>8. Says(m) /\ Says(m)'
  <2>1. old.at \in Offering => old.at \notin Answering
    BY DEF Offering, Answering
  <2>2. Says(m)
    BY <1>1, <1>7, <2>1 DEF Says
  <2> QED
    BY <1>3, <2>2, SaysKept
<1>9. PICK l \in Clients : l = old.local
  BY DEF Peers
<1>10. SignalingTyped' /\ MessagesTrue'
  <2>1. m \in Messages' /\ post(l, m) /\ m.op # "greeting"
    BY <1>3, <1>7, <1>9, MessagesGrow
  <2> QED
    BY <1>2, <1>3, <1>8, <2>1, PostKept DEF IInv
<1>11. \A a \in Clients : /\ Held(toServer[a]) \subseteq Held(toServer'[a])
                          /\ a = l => m \in Held(toServer'[a])
  <2>1. toServer \in [Clients -> Seq(Messages)] /\ post(l, m)
    BY <1>7, <1>9 DEF IInv, SignalingTyped
  <2>2. Held(Append(toServer[l], m)) = Held(toServer[l]) \cup {m}
    BY <2>1, AppendHeld
  <2> QED
    BY <2>1, <2>2 DEF post
<1>12. CandidatesTravel'
  <2>1. ASSUME NEW a \in Clients, NEW b, NEW k, Travelling(a, b, k)
        PROVE  Travelling(a, b, k)'
    BY <1>2, <1>11, <2>1 DEF Travelling, Arrived, Message, Held
  <2>2. ASSUME NEW k \in emitted, peers[k].at \in Offering
        PROVE  Travelling(peers[k].local, peers[k].remote, k)'
    <3>1. PICK a \in Clients, b \in Clients : a = peers[k].local /\ b = peers[k].remote
      BY PeerFacts DEF IInv, ConnectionsTyped
    <3>2. Travelling(a, b, k)
      BY <2>2, <3>1 DEF IInv, CandidatesTravel
    <3>3. Travelling(a, b, k)'
      BY <2>1, <3>2
    <3> QED
      BY <1>2, <3>1, <3>3 DEF Travelling, Arrived
  <2>3. ASSUME peers[i].at \in Offering
        PROVE  Travelling(peers[i].local, peers[i].remote, i)'
    <3>1. m = Message("candidate", peers[i].local, peers[i].remote, i)
      BY <1>1, <1>7, <2>3 DEF Offering, Answering
    <3>2. m \in Held(toServer'[peers[i].local])
      BY <1>1, <1>9, <1>11
    <3> QED
      BY <1>2, <3>1, <3>2 DEF Travelling, Message, Held
  <2> QED
    BY <1>2, <2>2, <2>3 DEF CandidatesTravel
<1> QED
  BY <1>4, <1>5, <1>6, <1>10, <1>12 DEF IInv, ChannelsInv

LEMMA PairKeepsInv ==
  ASSUME IInv, NEW o \in DOMAIN objects, ondatachannel(o)
  PROVE  IInv'
<1>1. UNCHANGED <<clients, toServer, toClient, connections, queuedCandidates, peers, emitted>>
  BY DEF ondatachannel, signaling
<1>2. ChannelsInv'
  BY ChannelPaired DEF IInv, ChannelsInv, PeersInv
<1>3. SignalingTyped' /\ MessagesTrue'
  <2>1. peers \in Seq(Peers) /\ peers' \in Seq(Peers')
    BY <1>1 DEF IInv, ConnectionsTyped, Peers
  <2>2. PeersKept
    BY <1>1, <2>1 DEF PeersKept
  <2> QED
    BY <1>1, <2>1, <2>2, SignalingUntouched DEF IInv, signaling
<1>4. CandidatesTravel'
  BY <1>1 DEF IInv, CandidatesTravel, Travelling, Arrived, Held
<1>5. ConnectionsTyped' /\ PeersKnown' /\ DescriptionsAgree' /\ QueuesDrained'
  BY <1>1 DEF IInv, ConnectionsTyped, Peers, PeersKnown, DescriptionsAgree, Described,
              QueuesDrained
<1> QED
  BY <1>2, <1>3, <1>4, <1>5 DEF IInv, ChannelsInv

----
(***************************************************************************)
(* The theorems                                                            *)
(***************************************************************************)
LEMMA InitHolds ==
  Init => IInv
<1> SUFFICES ASSUME Init PROVE IInv
  OBVIOUS
<1>1. /\ clients = {} /\ peers = <<>> /\ objects = <<>> /\ emitted = {}
      /\ Len(peers) = 0 /\ Len(objects) = 0 /\ DOMAIN peers = {} /\ DOMAIN objects = {}
  BY DEF Init
<1>2. SignalingTyped /\ MessagesTrue
  <2>1. \A c \in Clients : toServer[c] = <<>> /\ toClient[c] = <<>>
    BY DEF Init
  <2>2. Held(<<>>) = {}
    BY DEF Held
  <2>3. SignalingTyped
    BY <1>1 DEF Init, SignalingTyped
  <2> QED
    BY <2>1, <2>2, <2>3 DEF MessagesTrue
<1>3. \A p \in Pages, r \in Clients : connections[p][r] = 0 /\ queuedCandidates[p][r] = {}
  BY DEF Init
<1>4. ConnectionsTyped
  BY <1>1 DEF Init, ConnectionsTyped
<1>5. PeersKnown /\ DescriptionsAgree /\ CandidatesTravel /\ QueuesDrained
  BY <1>1, <1>3 DEF PeersKnown, DescriptionsAgree, CandidatesTravel, QueuesDrained
<1>6. ChannelsTyped /\ ChannelsLabelled /\ ChannelsPaired
  BY <1>1 DEF Init, ChannelsTyped, ChannelsLabelled, ChannelsPaired
<1> QED
  BY <1>2, <1>4, <1>5, <1>6 DEF IInv

LEMMA StutterKeepsInv ==
  ASSUME IInv, UNCHANGED vars
  PROVE  IInv'
<1>1. /\ UNCHANGED signaling
      /\ UNCHANGED <<clients, toServer, toClient>>
      /\ UNCHANGED <<connections, channels, queuedCandidates, peers, objects, emitted>>
  BY DEF vars, signaling, transporters
<1>2. peers \in Seq(Peers) /\ peers' \in Seq(Peers')
  BY <1>1 DEF IInv, ConnectionsTyped, Peers
<1>3. PeersKept
  BY <1>1, <1>2 DEF PeersKept
<1>4. SignalingTyped' /\ MessagesTrue'
  BY <1>1, <1>2, <1>3, SignalingUntouched DEF IInv
<1>5. ConnectionsTyped' /\ PeersKnown' /\ DescriptionsAgree' /\ QueuesDrained'
  BY <1>1 DEF IInv, ConnectionsTyped, Peers, PeersKnown, DescriptionsAgree, Described,
              QueuesDrained
<1>6. CandidatesTravel'
  BY <1>1 DEF IInv, CandidatesTravel, Travelling, Arrived, Held
<1>7. ChannelsInv'
  BY <1>1, <1>2, <1>3, ChannelsUntouched DEF IInv, ChannelsInv
<1> QED
  BY <1>4, <1>5, <1>6, <1>7 DEF IInv, ChannelsInv

LEMMA StepKeepsInv ==
  IInv /\ [Next]_vars => IInv'
<1> SUFFICES ASSUME IInv, [Next]_vars PROVE IInv'
  OBVIOUS
<1>1. CASE \E c \in Clients : relay(c)
  BY <1>1, RelayKeepsInv
<1>2. CASE \E c \in Clients : Receive(c)
  BY <1>2, ReceiveKeepsInv
<1>3. CASE \E i \in DOMAIN peers :
             offer(i) \/ setRemoteDescription(i) \/ answer(i) \/ acceptAnswer(i)
  BY <1>3, AwaitedKeepsInv
<1>4. CASE \E o \in DOMAIN objects : ondatachannel(o)
  BY <1>4, PairKeepsInv
<1>5. CASE \E c \in Clients : Join(c)
  BY <1>5, JoinKeepsInv
<1>6. CASE \E i \in DOMAIN peers : onicecandidate(i)
  BY <1>6, CandidateKeepsInv
<1>7. CASE UNCHANGED vars
  BY <1>7, StutterKeepsInv
<1> QED
  BY <1>1, <1>2, <1>3, <1>4, <1>5, <1>6, <1>7 DEF Next, Progress

\* What the parts of the invariant say together holds in every state of every
\* behaviour.
THEOREM Invariance == Spec => []IInv
<1> QED
  BY InitHolds, StepKeepsInv, PTL DEF Spec

\* Every variable keeps its type: among others, the maps of a transporter only
\* name connections and channels that were made.
THEOREM TypeCorrect == Spec => []TypeOK
<1>1. IInv => TypeOK
  BY DEF IInv, SignalingTyped, ConnectionsTyped, ChannelsTyped, TypeOK
<1> QED
  BY <1>1, Invariance, PTL

\* The two ends of a channel are held under the same two ids, each on the page of
\* its own client (transporter.ts, ondatachannel and the label of a channel).
THEOREM TwinsAgree == Spec => []ChannelsPaired
<1>1. IInv => ChannelsPaired
  BY DEF IInv
<1> QED
  BY <1>1, Invariance, PTL

\* When nothing is under way, the candidates of a client that made an offer have
\* been added to the other end of its connection, however early they came
\* (transporter.ts, queuedCandidates).
THEOREM OffererIsHeard == Spec => []OffererHeard
<1>1. ASSUME IInv, settled, NEW i \in emitted, peers[i].at = "accepted", connected(i)
      PROVE  Reached(i)
  <2>1. i \in DOMAIN peers
    BY <1>1 DEF IInv, ConnectionsTyped
  <2>2. PICK j : j = peers[i].description
    OBVIOUS
  <2>3. /\ j \in DOMAIN peers /\ peers[j].at = "answered"
        /\ peers[j].local = peers[i].remote /\ peers[j].remote = peers[i].local
    BY <1>1, <2>1, <2>2 DEF IInv, DescriptionsAgree, Described, connected
  <2>4. PICK a \in Clients, b \in Clients : a = peers[i].local /\ b = peers[i].remote
    BY <1>1, <2>1, PeerFacts DEF IInv
  <2>5. page[b] \in Pages /\ connections[page[b]][a] = j /\ j # 0
    <3>1. connections[peers[j].page][peers[j].remote] = j /\ peers[j].page = page[peers[j].local]
      BY <1>1, <2>3 DEF IInv, PeersKnown
    <3>2. j \in 1 .. Len(peers)
      BY <1>1, <2>3 DEF IInv, ConnectionsTyped
    <3> QED
      BY <2>3, <2>4, <3>1, <3>2, MeshAssumption
  <2>6. queuedCandidates[page[b]][a] = {}
    BY <1>1, <2>3, <2>4, <2>5 DEF IInv, QueuesDrained
  <2>7. Travelling(a, b, i)
    BY <1>1, <2>4 DEF IInv, CandidatesTravel, Offering
  <2>8. Held(toServer[a]) = {} /\ Held(toClient[b]) = {}
    BY <1>1, <2>4 DEF settled, Held
  <2>9. i \in peers[j].added
    BY <2>5, <2>6, <2>7, <2>8 DEF Travelling, Arrived
  <2> QED
    BY <2>2, <2>9 DEF Reached
<1>2. IInv => OffererHeard
  BY <1>1 DEF OffererHeard
<1> QED
  BY <1>2, Invariance, PTL

====
