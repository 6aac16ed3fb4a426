---- MODULE TransporterProofs ----
(***************************************************************************)
(* What the methods and the event handlers of the transporter keep true,   *)
(* for any number of clients, connections, channels and calls under way,   *)
(* and that its receiving side is the first-in-first-out inbox it is meant *)
(* to be.                                                                  *)
(***************************************************************************)
EXTENDS Transporter, TLAPS

PeerStates ==
  [state : {"unused", "open", "closed"}, remote : Remotes \cup {None},
   remoteDescription : BOOLEAN, localId : Locals \cup {None}, reported : BOOLEAN]

CallStates ==
  {Idle} \cup [at : {"offer", "describe", "answer", "accept"}, remote : Remotes,
               local : Locals \cup {None}, conn : Connections]

Objects == [key : Keys, conn : Connections, readyState : {"connecting", "open", "closed"}]

SenderStates == {Idle} \cup [at : {"waiting", "woken"}, key : Keys]

ReceiverStates ==
  {Idle} \cup [at : {"waiting"}, key : Keys] \cup [at : {"woken"}, key : Keys, msg : Messages]

NegotiationTyped ==
  /\ connections \in [Remotes -> Connections \cup {None}]
  /\ peers \in [Connections -> PeerStates]
  /\ queuedCandidates \in [Remotes -> SUBSET Candidates]
  /\ added \in [Connections -> SUBSET Candidates]
  /\ calls \in [Calls -> CallStates]

ChannelsTyped ==
  /\ objects \in Seq(Objects)
  /\ channels \in [Keys -> 0 .. Len(objects)]

InboxTyped ==
  /\ queuedMessages \in [Keys -> Seq(Messages)]
  /\ arriving \subseteq Keys \X Messages
  /\ arrived \in 0 .. MaxMessages
  /\ received \in [Keys -> Seq(Messages)]
  /\ receivers \in [Receivers -> ReceiverStates]

SendersTyped == senders \in [Senders -> SenderStates]

\* A connection that was used belongs to a remote client; one that was not has
\* no description.
PeersUsed ==
  \A c \in Connections : IF peers[c].state = "unused" THEN ~ peers[c].remoteDescription
                                                      ELSE peers[c].remote \in Remotes

\* The map leads to a connection with the client it is asked for.
MapAgrees ==
  \A r \in Remotes : connections[r] # None =>
    /\ peers[connections[r]].state # "unused"
    /\ peers[connections[r]].remote = r

\* A call keeps the connection it started with, which is one of its client. The
\* connection that an offer from elsewhere is answered on is only closed by a
\* shutdown, which takes it out of the map.
CallsAgree ==
  \A k \in Calls : calls[k].at # "idle" =>
    LET c == calls[k].conn IN
    /\ peers[c].state # "unused" /\ peers[c].remote = calls[k].remote
    /\ calls[k].at \in {"describe", "answer"} =>
         /\ connections[calls[k].remote] = c => peers[c].state = "open"
         /\ \A j \in Calls : calls[j].at = "offer" => calls[j].conn # c

\* A data channel is found under the pair that its open event will wake.
ChannelsKeyed ==
  \A key \in Keys : channels[key] # 0 => objects[channels[key]].key = key

SendersWait ==
  \A s \in Senders : senders[s].at = "waiting" => ~ isOpen(senders[s].key)

\* A receiver waits for an empty queue; the message that wakes it is alone there
\* until it goes on.
ReceiversWait ==
  \A c \in Receivers :
    /\ receivers[c].at # "idle" => receivers[c].key[2] = c
    /\ receivers[c].at = "waiting" => queuedMessages[receivers[c].key] = <<>>
    /\ receivers[c].at = "woken" =>
         queuedMessages[receivers[c].key] = <<receivers[c].msg>>

NegotiationInv ==
  /\ NegotiationTyped /\ PeersUsed /\ MapAgrees /\ CallsAgree
  /\ NoConnectionLeaked /\ NoCandidateForgotten

IInv ==
  /\ NegotiationInv
  /\ ChannelsTyped /\ ChannelsKeyed /\ SendersTyped /\ SendersWait
  /\ InboxTyped /\ ReceiversWait

----
(***************************************************************************)
(* Negotiation                                                             *)
(***************************************************************************)
\* A connection that is made for a remote client takes the place of one that
\* was closed, or of none.
LEMMA ConnectKeepsInv ==
  ASSUME NegotiationInv, NEW k \in Calls, NEW r \in Remotes, NEW l \in Locals,
         NEW c \in Connections, NEW at \in {"offer", "describe"}, connect(k, r, l, c, at),
         calls[k] = Idle,
         peers' \in [Connections -> PeerStates],
         \A d \in Connections \ {c} : peers'[d] = peers[d],
         peers'[c].state = "open", peers'[c].remote = r,
         peers'[c].remoteDescription = peers[c].remoteDescription
  PROVE  NegotiationInv'
<1> DEFINE call == [at |-> at, remote |-> r, local |-> l, conn |-> c]
<1>1. /\ ~ live(r) /\ peers[c].state = "unused" /\ c # None
      /\ connections' = [connections EXCEPT ![r] = c]
      /\ calls' = [calls EXCEPT ![k] = call]
      /\ queuedCandidates' = queuedCandidates /\ added' = added
  BY TransporterAssumption DEF connect
<1>2. call \in CallStates /\ call.at = at /\ call.remote = r /\ call.conn = c
  BY DEF CallStates
<1> HIDE DEF call
<1>3. NegotiationTyped'
  BY <1>1, <1>2 DEF NegotiationInv, NegotiationTyped
<1>4. PeersUsed'
  BY DEF NegotiationInv, PeersUsed
<1>5. \A q \in Remotes : connections[q] # None => connections[q] # c
  BY <1>1 DEF NegotiationInv, MapAgrees
<1>6. MapAgrees'
  BY <1>1, <1>5 DEF NegotiationInv, MapAgrees, NegotiationTyped
<1>7. \A j \in Calls : calls[j].at # "idle" => calls[j].conn # c /\ calls[j].conn \in Connections
  BY <1>1 DEF NegotiationInv, CallsAgree, NegotiationTyped, CallStates, Idle
<1>8. CallsAgree'
  <2>1. ASSUME NEW j \in Calls, calls'[j].at # "idle"
        PROVE  LET d == calls'[j].conn IN
               /\ peers'[d].state # "unused" /\ peers'[d].remote = calls'[j].remote
               /\ calls'[j].at \in {"describe", "answer"} =>
                    /\ connections'[calls'[j].remote] = d => peers'[d].state = "open"
                    /\ \A i \in Calls : calls'[i].at = "offer" => calls'[i].conn # d
    <3>1. CASE j = k
      <4>1. calls'[j] = call
        BY <1>1, <3>1 DEF NegotiationInv, NegotiationTyped
      <4>2. \A i \in Calls : i # k => calls'[i] = calls[i]
        BY <1>1 DEF NegotiationInv, NegotiationTyped
      <4> QED
        BY <1>2, <1>7, <3>1, <4>1, <4>2
    <3>2. CASE j # k
      <4>1. calls'[j] = calls[j]
        BY <1>1, <3>2 DEF NegotiationInv, NegotiationTyped
      <4>2. peers'[calls[j].conn] = peers[calls[j].conn]
        BY <1>7, <2>1, <4>1
      <4>3. \A i \in Calls : calls'[i] = calls[i] \/ calls'[i].conn = c
        BY <1>1, <1>2 DEF NegotiationInv, NegotiationTyped
      <4>4. connections'[calls[j].remote] = calls[j].conn =>
              connections[calls[j].remote] = calls[j].conn
        BY <1>1, <1>7, <2>1, <4>1 DEF NegotiationInv, NegotiationTyped
      <4> QED
        BY <1>7, <2>1, <4>1, <4>2, <4>3, <4>4 DEF NegotiationInv, CallsAgree
    <3> QED
      BY <3>1, <3>2
  <2> QED
    BY <2>1 DEF CallsAgree
<1>9. NoConnectionLeaked'
  <2>1. ASSUME NEW d \in Connections, peers'[d].state = "open"
        PROVE  connections'[peers'[d].remote] = d
    <3>1. CASE d = c
      BY <1>1, <3>1 DEF NegotiationInv, NegotiationTyped
    <3>2. CASE d # c
      <4>1. peers[d].state = "open" /\ connections[peers[d].remote] = d
        BY <2>1, <3>2 DEF NegotiationInv, NoConnectionLeaked
      <4>2. peers[d].remote # r /\ peers[d].remote \in Remotes
        BY <1>1, <4>1, TransporterAssumption DEF live, NegotiationInv, PeersUsed
      <4> QED
        BY <1>1, <3>2, <4>1, <4>2 DEF NegotiationInv, NegotiationTyped
    <3> QED
      BY <3>1, <3>2
  <2> QED
    BY <2>1 DEF NoConnectionLeaked
<1>10. NoCandidateForgotten'
  <2>1. ASSUME NEW q \in Remotes, described(q)',
               ~ \E j \in Calls : calls'[j].at = "answer" /\ calls'[j].conn = connections'[q]
        PROVE  queuedCandidates'[q] = {}
    <3>1. q # r
      BY <1>1, <2>1 DEF described, NegotiationInv, PeersUsed, NegotiationTyped
    <3>2. connections'[q] = connections[q] /\ connections[q] # c /\ described(q)
      BY <1>1, <1>5, <2>1, <3>1 DEF described, NegotiationInv, NegotiationTyped
    <3>3. ~ \E j \in Calls : calls[j].at = "answer" /\ calls[j].conn = connections[q]
      <4>1. ASSUME NEW j \in Calls, calls[j].at = "answer", calls[j].conn = connections[q]
            PROVE  FALSE
        <5>1. j # k
          BY <4>1 DEF Idle
        <5> QED
          BY <1>1, <2>1, <3>2, <4>1, <5>1 DEF NegotiationInv, NegotiationTyped
      <4> QED
        BY <4>1
    <3> QED
      BY <1>1, <2>1, <3>2, <3>3 DEF NegotiationInv, NoCandidateForgotten
  <2> QED
    BY <2>1 DEF NoCandidateForgotten
<1> QED
  BY <1>3, <1>4, <1>6, <1>8, <1>9, <1>10 DEF NegotiationInv

\* What is known of a call that is under way.
LEMMA CallFacts ==
  ASSUME NegotiationInv, NEW k \in Calls, calls[k].at # "idle"
  PROVE  /\ calls[k].at \in {"offer", "describe", "answer", "accept"}
         /\ calls[k].conn \in Connections /\ calls[k].conn # None
         /\ calls[k].remote \in Remotes /\ calls[k].local \in Locals \cup {None}
         /\ peers[calls[k].conn].remote = calls[k].remote
         /\ peers[calls[k].conn].state = "open" =>
              connections[calls[k].remote] = calls[k].conn
  BY TransporterAssumption
  DEF NegotiationInv, NegotiationTyped, CallStates, Idle, CallsAgree, NoConnectionLeaked

\* Ending a call whose connection is not being answered, with its connection
\* closed or not.
LEMMA OfferKeepsInv ==
  ASSUME NegotiationInv, NEW k \in Calls, offer(k)
  PROVE  NegotiationInv'
<1> DEFINE c == calls[k].conn
<1>1. /\ calls[k].at = "offer" /\ calls' = [calls EXCEPT ![k] = Idle]
      /\ UNCHANGED <<connections, queuedCandidates, added>>
      /\ peers' = peers \/ peers' = [peers EXCEPT ![c].state = "closed"]
  BY DEF offer
<1>2. c \in Connections /\ peers[c].state # "unused"
  BY <1>1, CallFacts DEF NegotiationInv, CallsAgree
<1>3. NegotiationTyped'
  BY <1>1, <1>2 DEF NegotiationInv, NegotiationTyped, PeerStates, CallStates
<1>4. /\ \A d \in Connections \ {c} : peers'[d] = peers[d]
      /\ \A d \in Connections : /\ peers'[d].remote = peers[d].remote
                                /\ peers'[d].remoteDescription = peers[d].remoteDescription
                                /\ peers'[d].state = "unused" <=> peers[d].state = "unused"
                                /\ peers'[d].state = "open" => peers[d].state = "open"
  BY <1>1, <1>2 DEF NegotiationInv, NegotiationTyped, PeerStates
<1>5. calls'[k] = Idle /\ \A j \in Calls \ {k} : calls'[j] = calls[j]
  BY <1>1 DEF NegotiationInv, NegotiationTyped
<1> HIDE DEF c
<1>6. PeersUsed'
  BY <1>4 DEF NegotiationInv, PeersUsed
<1>7. MapAgrees'
  BY <1>1, <1>4 DEF NegotiationInv, MapAgrees, NegotiationTyped
<1>8. CallsAgree'
  <2>1. ASSUME NEW j \in Calls, calls'[j].at # "idle" PROVE j # k /\ calls'[j] = calls[j]
    BY <1>5, <2>1 DEF Idle
  <2>2. \A j \in Calls : calls[j].at # "idle" => calls[j].conn \in Connections
    BY CallFacts
  <2>3. \A j \in Calls : calls[j].at \in {"describe", "answer"} => calls[j].conn # c
    BY <1>1 DEF NegotiationInv, CallsAgree, c
  <2> QED
    BY <1>1, <1>4, <2>1, <2>2, <2>3 DEF NegotiationInv, CallsAgree
<1>9. NoConnectionLeaked'
  BY <1>1, <1>4 DEF NegotiationInv, NoConnectionLeaked
<1>10. NoCandidateForgotten'
  <2>1. \A r \in Remotes : described(r)' => described(r)
    BY <1>1, <1>4 DEF described, NegotiationInv, NegotiationTyped
  <2>2. \A j \in Calls : calls[j].at = "answer" => calls'[j] = calls[j]
    BY <1>1, <1>5
  <2> QED
    BY <1>1, <2>1, <2>2 DEF NegotiationInv, NoCandidateForgotten
<1> QED
  BY <1>3, <1>6, <1>7, <1>8, <1>9, <1>10 DEF NegotiationInv

\* Once the description of an offer is set, the call that set it will hand over
\* the candidates.
LEMMA DescribeKeepsInv ==
  ASSUME NegotiationInv, NEW k \in Calls, setRemoteDescription(k)
  PROVE  NegotiationInv'
<1> DEFINE c == calls[k].conn
<1>1. /\ calls[k].at = "describe" /\ peers[c].state = "open"
      /\ calls' = [calls EXCEPT ![k].at = "answer"]
      /\ peers' = [peers EXCEPT ![c].remoteDescription = TRUE]
      /\ UNCHANGED <<connections, queuedCandidates, added>>
  BY DEF setRemoteDescription
<1>2. /\ c \in Connections /\ calls[k].remote \in Remotes /\ peers[c].remote = calls[k].remote
      /\ connections[calls[k].remote] = c /\ calls[k].local \in Locals \cup {None} /\ c # None
  BY <1>1, CallFacts
<1>3. /\ calls'[k].at = "answer" /\ calls'[k].conn = c /\ calls'[k].remote = calls[k].remote
      /\ calls' \in [Calls -> CallStates]
      /\ \A j \in Calls \ {k} : calls'[j] = calls[j]
  <2> DEFINE call == [calls[k] EXCEPT !.at = "answer"]
  <2>1. calls[k] \in CallStates \ {Idle}
    BY <1>1 DEF NegotiationInv, NegotiationTyped, Idle
  <2>2. /\ call.at = "answer" /\ call.conn = c /\ call.remote = calls[k].remote
        /\ call \in CallStates
    BY <2>1 DEF CallStates
  <2>3. calls' = [calls EXCEPT ![k] = call]
    BY <1>1
  <2>4. calls \in [Calls -> CallStates]
    BY DEF NegotiationInv, NegotiationTyped
  <2> HIDE DEF call
  <2> QED
    BY <2>2, <2>3, <2>4
<1>4. NegotiationTyped'
  <2>1. peers' \in [Connections -> PeerStates]
    BY <1>1, <1>2 DEF NegotiationInv, NegotiationTyped, PeerStates
  <2> QED
    BY <1>1, <1>3, <2>1 DEF NegotiationInv, NegotiationTyped
<1>5. /\ \A d \in Connections \ {c} : peers'[d] = peers[d]
      /\ \A d \in Connections : /\ peers'[d].remote = peers[d].remote
                                /\ peers'[d].state = peers[d].state
  BY <1>1, <1>2 DEF NegotiationInv, NegotiationTyped, PeerStates
<1>6. PeersUsed'
  BY <1>1, <1>5 DEF NegotiationInv, PeersUsed
<1>7. MapAgrees'
  BY <1>1, <1>5 DEF NegotiationInv, MapAgrees, NegotiationTyped
<1>8. CallsAgree'
  <2>1. \A j \in Calls : /\ calls'[j].conn = calls[j].conn
                         /\ calls'[j].remote = calls[j].remote
                         /\ calls'[j].at \in {"describe", "answer"} =>
                              calls[j].at \in {"describe", "answer"}
                         /\ calls'[j].at = "offer" => calls[j].at = "offer"
                         /\ calls'[j].at # "idle" =>
                              calls[j].at # "idle" /\ calls[j].conn \in Connections
    BY <1>1, <1>3, CallFacts
  <2> QED
    BY <1>1, <1>5, <2>1 DEF NegotiationInv, CallsAgree
<1>9. NoConnectionLeaked'
  BY <1>1, <1>5 DEF NegotiationInv, NoConnectionLeaked
<1> HIDE DEF c
<1>10. NoCandidateForgotten'
  <2>1. ASSUME NEW r \in Remotes, described(r)', connections[r] # c
        PROVE  described(r)
    BY <1>1, <1>5, <2>1 DEF described, NegotiationInv, NegotiationTyped
  <2>2. \A j \in Calls : calls[j].at = "answer" => calls'[j].at = "answer" /\ calls'[j].conn = calls[j].conn
    BY <1>1, <1>3
  <2> QED
    BY <1>1, <1>3, <2>1, <2>2 DEF NegotiationInv, NoCandidateForgotten
<1> QED
  BY <1>4, <1>6, <1>7, <1>8, <1>9, <1>10 DEF NegotiationInv

\* A call that ends with the candidates of its client handed over, or that
\* leaves them for the connection's description to come.
LEMMA FlushKeepsInv ==
  ASSUME NegotiationInv, NEW k \in Calls, calls[k].at # "idle",
         peers[calls[k].conn].state = "open",
         flush(calls[k].remote), calls' = [calls EXCEPT ![k] = Idle],
         connections' = connections, peers' \in [Connections -> PeerStates],
         \A d \in Connections \ {calls[k].conn} : peers'[d] = peers[d],
         peers'[calls[k].conn].state = "open",
         peers'[calls[k].conn].remote = peers[calls[k].conn].remote
  PROVE  NegotiationInv'
<1> DEFINE c == calls[k].conn
           r == calls[k].remote
<1>1. /\ c \in Connections /\ c # None /\ r \in Remotes /\ peers[c].remote = r
      /\ connections[r] = c
  BY CallFacts
<1>2. /\ added' = IF peers'[c].remoteDescription
                    THEN [added EXCEPT ![c] = @ \cup queuedCandidates[r]] ELSE added
      /\ queuedCandidates' = IF peers'[c].remoteDescription
                               THEN [queuedCandidates EXCEPT ![r] = {}] ELSE queuedCandidates
  BY <1>1 DEF flush
<1>3. calls'[k] = Idle /\ \A j \in Calls \ {k} : calls'[j] = calls[j]
  BY DEF NegotiationInv, NegotiationTyped
<1>4. \A d \in Connections : /\ peers'[d].remote = peers[d].remote
                             /\ peers'[d].state = peers[d].state
  BY <1>1
<1>5. calls' \in [Calls -> CallStates]
  BY DEF NegotiationInv, NegotiationTyped, CallStates
<1> HIDE DEF c, r
<1>6. NegotiationTyped'
  BY <1>1, <1>2, <1>5 DEF NegotiationInv, NegotiationTyped
<1>7. PeersUsed'
  <2>1. \A d \in Connections \ {c} : peers'[d] = peers[d]
    BY DEF c
  <2>2. peers'[c].state = "open" /\ peers'[c].remote \in Remotes
    BY <1>1, <1>4 DEF c
  <2> QED
    BY <2>1, <2>2 DEF NegotiationInv, PeersUsed
<1>8. MapAgrees'
  BY <1>4 DEF NegotiationInv, MapAgrees, NegotiationTyped
<1>9. CallsAgree'
  <2>1. ASSUME NEW j \in Calls, calls'[j].at # "idle"
        PROVE  calls'[j] = calls[j] /\ calls[j].conn \in Connections
    BY <1>3, <2>1, CallFacts DEF Idle
  <2> QED
    BY <1>4, <2>1 DEF NegotiationInv, CallsAgree
<1>10. NoConnectionLeaked'
  BY <1>4 DEF NegotiationInv, NoConnectionLeaked
<1>11. NoCandidateForgotten'
  <2>1. ASSUME NEW q \in Remotes, described(q)',
               ~ \E j \in Calls : calls'[j].at = "answer" /\ calls'[j].conn = connections'[q]
        PROVE  queuedCandidates'[q] = {}
    <3>1. CASE q = r
      <4>1. peers'[c].remoteDescription
        BY <1>1, <2>1, <3>1 DEF described
      <4> QED
        BY <1>2, <3>1, <4>1 DEF NegotiationInv, NegotiationTyped
    <3>2. CASE q # r
      <4>1. connections[q] # c
        BY <1>1, <3>2 DEF NegotiationInv, MapAgrees
      <4>2. described(q) /\ queuedCandidates'[q] = queuedCandidates[q]
        BY <1>1, <1>2, <2>1, <3>2, <4>1
        DEF described, NegotiationInv, NegotiationTyped, c
      <4>3. ~ \E j \in Calls : calls[j].at = "answer" /\ calls[j].conn = connections[q]
        BY <1>3, <2>1, <4>1 DEF c
      <4> QED
        BY <4>2, <4>3 DEF NegotiationInv, NoCandidateForgotten
    <3> QED
      BY <3>1, <3>2
  <2> QED
    BY <2>1 DEF NoCandidateForgotten
<1> QED
  BY <1>6, <1>7, <1>8, <1>9, <1>10, <1>11 DEF NegotiationInv

\* An answer is made, or accepted: either way the description is there.
LEMMA AnswerKeepsInv ==
  ASSUME NegotiationInv, NEW k \in Calls, answer(k) \/ acceptAnswer(k)
  PROVE  NegotiationInv'
<1> DEFINE c == calls[k].conn
<1>1. /\ calls[k].at \in {"answer", "accept"} /\ peers[c].state = "open"
      /\ flush(calls[k].remote) /\ calls' = [calls EXCEPT ![k] = Idle]
      /\ connections' = connections
      /\ \/ peers' = [peers EXCEPT ![c].localId = calls[k].local]
         \/ peers' = [peers EXCEPT ![c].remoteDescription = TRUE]
  BY DEF answer, acceptAnswer, offered
<1>2. c \in Connections /\ calls[k].local \in Locals \cup {None}
  BY <1>1, CallFacts
<1>3. peers' \in [Connections -> PeerStates]
  <2>1. CASE peers' = [peers EXCEPT ![c].localId = calls[k].local]
    BY <1>2, <2>1 DEF NegotiationInv, NegotiationTyped, PeerStates
  <2>2. CASE peers' = [peers EXCEPT ![c].remoteDescription = TRUE]
    BY <1>2, <2>2 DEF NegotiationInv, NegotiationTyped, PeerStates
  <2> QED
    BY <1>1, <2>1, <2>2
<1>4. /\ \A d \in Connections \ {c} : peers'[d] = peers[d]
      /\ peers'[c].state = "open" /\ peers'[c].remote = peers[c].remote
  BY <1>1, <1>2 DEF NegotiationInv, NegotiationTyped, PeerStates
<1> QED
  BY <1>1, <1>3, <1>4, FlushKeepsInv

\* An answer that comes in starts a call on the connection it is found with.
LEMMA HandleAnswerKeepsInv ==
  ASSUME NegotiationInv, NEW k \in Calls, NEW r \in Remotes, handleAnswer(k, r)
  PROVE  NegotiationInv'
<1> DEFINE call == [at |-> "accept", remote |-> r, local |-> None, conn |-> connections[r]]
<1>1. /\ calls[k] = Idle /\ connections[r] # None /\ calls' = [calls EXCEPT ![k] = call]
      /\ UNCHANGED <<connections, peers, queuedCandidates, added>>
  BY DEF handleAnswer
<1>2. connections[r] \in Connections
  BY <1>1 DEF NegotiationInv, NegotiationTyped
<1>3. call \in CallStates
  BY <1>2 DEF CallStates
<1>4. call.at = "accept" /\ call.remote = r /\ call.conn = connections[r]
  OBVIOUS
<1> HIDE DEF call
<1>5. calls'[k] = call /\ \A j \in Calls \ {k} : calls'[j] = calls[j]
  BY <1>1 DEF NegotiationInv, NegotiationTyped
<1>6. NegotiationTyped'
  BY <1>1, <1>3 DEF NegotiationInv, NegotiationTyped
<1>7. PeersUsed' /\ MapAgrees' /\ NoConnectionLeaked'
  BY <1>1 DEF NegotiationInv, PeersUsed, MapAgrees, NoConnectionLeaked
<1>8. CallsAgree'
  BY <1>1, <1>4, <1>5 DEF NegotiationInv, CallsAgree, MapAgrees
<1>9. NoCandidateForgotten'
  <2>1. \A j \in Calls : calls[j].at = "answer" => calls'[j] = calls[j]
    BY <1>1, <1>5 DEF Idle
  <2> QED
    BY <1>1, <2>1 DEF NegotiationInv, NoCandidateForgotten, described
<1> QED
  BY <1>6, <1>7, <1>8, <1>9 DEF NegotiationInv

\* An answer that fails does so on a connection that is no longer in the map.
LEMMA RejectKeepsInv ==
  ASSUME NegotiationInv, NEW k \in Calls, reject(k)
  PROVE  NegotiationInv'
<1>1. /\ \/ calls[k].at \in {"describe", "accept"}
         \/ calls[k].at = "answer" /\ peers[calls[k].conn].state = "closed"
      /\ calls' = [calls EXCEPT ![k] = Idle]
      /\ UNCHANGED <<connections, peers, queuedCandidates, added>>
  BY DEF reject
<1>2. calls'[k] = Idle /\ \A j \in Calls \ {k} : calls'[j] = calls[j]
  BY <1>1 DEF NegotiationInv, NegotiationTyped
<1>3. NegotiationTyped'
  BY <1>1 DEF NegotiationInv, NegotiationTyped, CallStates
<1>4. PeersUsed' /\ MapAgrees' /\ NoConnectionLeaked'
  BY <1>1 DEF NegotiationInv, PeersUsed, MapAgrees, NoConnectionLeaked
<1>5. CallsAgree'
  BY <1>1, <1>2 DEF NegotiationInv, CallsAgree, Idle
<1>6. NoCandidateForgotten'
  <2>1. ASSUME NEW r \in Remotes, described(r)
        PROVE  ~ (calls[k].at = "answer" /\ calls[k].conn = connections[r])
    <3>1. connections[r] # None
      BY <2>1 DEF described
    <3> QED
      BY <1>1, <3>1 DEF NegotiationInv, MapAgrees, CallsAgree
  <2> QED
    BY <1>1, <1>2, <2>1 DEF NegotiationInv, NoCandidateForgotten, described
<1> QED
  BY <1>3, <1>4, <1>5, <1>6 DEF NegotiationInv

\* A candidate is queued only for a connection without a description.
LEMMA CandidateKeepsInv ==
  ASSUME NegotiationInv, NEW r \in Remotes, NEW candidate \in Candidates,
         handleCandidate(r, candidate)
  PROVE  NegotiationInv'
<1>1. /\ UNCHANGED <<connections, peers, calls>>
      /\ \/ /\ described(r)
            /\ added' = [added EXCEPT ![connections[r]] = @ \cup {candidate}]
            /\ queuedCandidates' = queuedCandidates
         \/ /\ ~ described(r)
            /\ queuedCandidates' = [queuedCandidates EXCEPT ![r] = @ \cup {candidate}]
            /\ added' = added
  BY DEF handleCandidate
<1>2. NegotiationTyped'
  BY <1>1 DEF NegotiationInv, NegotiationTyped
<1>3. PeersUsed' /\ MapAgrees' /\ CallsAgree' /\ NoConnectionLeaked'
  BY <1>1 DEF NegotiationInv, PeersUsed, MapAgrees, CallsAgree, NoConnectionLeaked
<1>4. NoCandidateForgotten'
  BY <1>1 DEF NegotiationInv, NegotiationTyped, NoCandidateForgotten, described
<1> QED
  BY <1>2, <1>3, <1>4 DEF NegotiationInv

\* What is forgotten of some remote clients is closed, and leaves nothing of
\* theirs behind.
LEMMA ForgetKeepsInv ==
  ASSUME NegotiationInv, NEW R \in SUBSET Remotes, forget(R),
         peers' \in [Connections -> PeerStates],
         \A c \in Connections :
           /\ peers'[c].remote = peers[c].remote
           /\ peers'[c].remoteDescription = peers[c].remoteDescription
           /\ peers'[c].state = IF \E r \in R : connections[r] = c THEN "closed"
                                                                  ELSE peers[c].state
  PROVE  NegotiationInv'
<1>1. /\ \A r \in Remotes : /\ connections'[r] = IF r \in R THEN None ELSE connections[r]
                            /\ queuedCandidates'[r] = IF r \in R THEN {} ELSE queuedCandidates[r]
      /\ added' = added /\ calls' = calls
  BY DEF forget
<1>2. NegotiationTyped'
  <2>1. connections' \in [Remotes -> Connections \cup {None}]
    BY DEF forget, NegotiationInv, NegotiationTyped
  <2>2. queuedCandidates' \in [Remotes -> SUBSET Candidates]
    BY DEF forget, NegotiationInv, NegotiationTyped
  <2>3. added' \in [Connections -> SUBSET Candidates] /\ calls' \in [Calls -> CallStates]
    BY <1>1 DEF NegotiationInv, NegotiationTyped
  <2> QED
    BY <2>1, <2>2, <2>3 DEF NegotiationTyped
<1>3. \A c \in Connections : peers'[c].state = "unused" <=> peers[c].state = "unused"
  BY TransporterAssumption DEF NegotiationInv, MapAgrees, NegotiationTyped
<1>4. PeersUsed'
  BY <1>3 DEF NegotiationInv, PeersUsed
<1>5. MapAgrees'
  BY <1>1, <1>3 DEF NegotiationInv, MapAgrees, NegotiationTyped
<1>6. \A c \in Connections, r \in Remotes :
        c # None /\ connections'[r] = c => connections[r] = c /\ r \notin R
  BY <1>1, TransporterAssumption
<1>7. \A c \in Connections, r \in Remotes :
        c # None /\ connections'[r] = c => peers'[c].state = peers[c].state
  <2>1. ASSUME NEW c \in Connections, NEW r \in Remotes, c # None, connections'[r] = c,
               NEW q \in R, connections[q] = c
        PROVE  FALSE
    <3>1. connections[r] = c /\ r \notin R
      BY <1>6, <2>1
    <3>2. peers[c].remote = r /\ peers[c].remote = q
      BY <2>1, <3>1 DEF NegotiationInv, MapAgrees
    <3> QED
      BY <3>1, <3>2
  <2> QED
    BY <2>1
<1>8. CallsAgree'
  <2>1. \A k \in Calls : calls[k].at # "idle" =>
          calls[k].conn \in Connections /\ calls[k].conn # None /\ calls[k].remote \in Remotes
    BY CallFacts
  <2>2. ASSUME NEW k \in Calls, calls[k].at \in {"describe", "answer"},
               connections'[calls[k].remote] = calls[k].conn
        PROVE  peers'[calls[k].conn].state = "open"
    <3>1. calls[k].at # "idle"
      BY <2>2
    <3>2. connections[calls[k].remote] = calls[k].conn
      BY <1>6, <2>1, <2>2, <3>1
    <3>3. peers[calls[k].conn].state = "open"
      BY <2>2, <3>1, <3>2 DEF NegotiationInv, CallsAgree
    <3> QED
      BY <1>7, <2>1, <2>2, <3>1, <3>3
  <2> QED
    BY <1>1, <1>3, <2>1, <2>2 DEF NegotiationInv, CallsAgree
<1>9. NoConnectionLeaked'
  <2>1. ASSUME NEW c \in Connections, peers'[c].state = "open"
        PROVE  connections'[peers'[c].remote] = c
    <3>1. peers[c].state = "open" /\ ~ \E r \in R : connections[r] = c
      BY <2>1
    <3>2. connections[peers[c].remote] = c /\ peers[c].remote \in Remotes
      BY <3>1 DEF NegotiationInv, NoConnectionLeaked, PeersUsed
    <3> QED
      BY <1>1, <3>1, <3>2
  <2> QED
    BY <2>1 DEF NoConnectionLeaked
<1>10. NoCandidateForgotten'
  <2>1. ASSUME NEW r \in Remotes, r \notin R, described(r)' PROVE described(r)
    BY <1>1, <2>1 DEF described, NegotiationInv, NegotiationTyped
  <2> QED
    BY <1>1, <2>1 DEF NegotiationInv, NoCandidateForgotten, described
<1> QED
  BY <1>2, <1>4, <1>5, <1>8, <1>9, <1>10 DEF NegotiationInv

\* A call of getOffer or handleOffer makes a connection, or throws.
LEMMA OpenKeepsInv ==
  ASSUME NegotiationInv, NEW k \in Calls, NEW r \in Remotes, NEW l \in Locals,
         getOffer(k, r, l) \/ handleOffer(k, r, l)
  PROVE  NegotiationInv'
<1>1. CASE extend(r, l)
  BY <1>1 DEF extend, negotiation, NegotiationInv, NegotiationTyped, PeersUsed, MapAgrees,
              CallsAgree, NoConnectionLeaked, NoCandidateForgotten, described
<1>2. ASSUME NEW c \in Connections, NEW at \in {"offer", "describe"}, connect(k, r, l, c, at),
             \/ peers' = [peers EXCEPT ![c].state = "open", ![c].remote = r, ![c].localId = l]
             \/ peers' = [peers EXCEPT ![c].state = "open", ![c].remote = r]
      PROVE  NegotiationInv'
  <2>1. /\ peers' \in [Connections -> PeerStates]
        /\ \A d \in Connections \ {c} : peers'[d] = peers[d]
        /\ peers'[c].state = "open" /\ peers'[c].remote = r
        /\ peers'[c].remoteDescription = peers[c].remoteDescription
    <3>1. peers[c] \in PeerStates /\ peers \in [Connections -> PeerStates]
      BY DEF NegotiationInv, NegotiationTyped
    <3>2. ASSUME NEW p \in PeerStates, p.state = "open", p.remote = r,
                 p.remoteDescription = peers[c].remoteDescription,
                 peers' = [peers EXCEPT ![c] = p]
          PROVE  <2>1!:
      BY <3>1, <3>2
    <3>3. CASE peers' = [peers EXCEPT ![c].state = "open", ![c].remote = r, ![c].localId = l]
      <4> DEFINE p == [peers[c] EXCEPT !.state = "open", !.remote = r, !.localId = l]
      <4>1. /\ p \in PeerStates /\ p.state = "open" /\ p.remote = r
            /\ p.remoteDescription = peers[c].remoteDescription
        BY <3>1 DEF PeerStates
      <4>2. peers' = [peers EXCEPT ![c] = p]
        BY <3>1, <3>3 DEF PeerStates
      <4> HIDE DEF p
      <4> QED
        BY <3>2, <4>1, <4>2
    <3>4. CASE peers' = [peers EXCEPT ![c].state = "open", ![c].remote = r]
      <4> DEFINE p == [peers[c] EXCEPT !.state = "open", !.remote = r]
      <4>1. /\ p \in PeerStates /\ p.state = "open" /\ p.remote = r
            /\ p.remoteDescription = peers[c].remoteDescription
        BY <3>1 DEF PeerStates
      <4>2. peers' = [peers EXCEPT ![c] = p]
        BY <3>1, <3>4 DEF PeerStates
      <4> HIDE DEF p
      <4> QED
        BY <3>2, <4>1, <4>2
    <3> QED
      BY <1>2, <3>3, <3>4
  <2>2. calls[k] = Idle
    BY DEF getOffer, handleOffer
  <2> QED
    BY <1>2, <2>1, <2>2, ConnectKeepsInv
<1> QED
  BY <1>1, <1>2 DEF getOffer, handleOffer

\* Whatever forgets clients closes the connections it takes out of the map.
LEMMA DisconnectKeepsInv ==
  ASSUME NegotiationInv, Disconnect
  PROVE  NegotiationInv'
<1>1. ASSUME NEW R \in SUBSET Remotes, NEW c \in Connections
      PROVE  /\ closing(R)[c] \in PeerStates
             /\ closing(R)[c].remote = peers[c].remote
             /\ closing(R)[c].remoteDescription = peers[c].remoteDescription
             /\ closing(R)[c].state = IF \E r \in R : connections[r] = c THEN "closed"
                                                                        ELSE peers[c].state
  <2>1. peers[c] \in PeerStates
    BY DEF NegotiationInv, NegotiationTyped
  <2>2. [peers[c] EXCEPT !.state = "closed"] \in PeerStates
    BY <2>1 DEF PeerStates
  <2> QED
    BY <2>1, <2>2 DEF closing, PeerStates
<1>2. ASSUME NEW R \in SUBSET Remotes, forget(R), peers' = closing(R)
      PROVE  NegotiationInv'
  <2>1. peers' \in [Connections -> PeerStates]
    BY <1>1, <1>2 DEF closing
  <2> QED
    BY <1>1, <1>2, <2>1, ForgetKeepsInv
<1>3. ASSUME NEW c \in Connections, connectionstatechange(c)
      PROVE  NegotiationInv'
  <2> DEFINE R == {peers[c].remote}
  <2>1. peers[c].state = "closed" /\ forget(R) /\ peers' = [closing(R) EXCEPT ![c].reported = TRUE]
    BY <1>3 DEF connectionstatechange
  <2>2. R \in SUBSET Remotes
    BY <2>1 DEF NegotiationInv, PeersUsed
  <2> HIDE DEF R
  <2>3. closing(R) \in [Connections -> PeerStates]
    BY <1>1, <2>2 DEF closing
  <2>4. \A d \in Connections : /\ peers'[d] \in PeerStates
                               /\ peers'[d].state = closing(R)[d].state
                               /\ peers'[d].remote = closing(R)[d].remote
                               /\ peers'[d].remoteDescription = closing(R)[d].remoteDescription
    BY <2>1, <2>3 DEF PeerStates
  <2>5. peers' \in [Connections -> PeerStates]
    BY <2>1, <2>3, <2>4
  <2>6. \A d \in Connections :
          /\ peers'[d].remote = peers[d].remote
          /\ peers'[d].remoteDescription = peers[d].remoteDescription
          /\ peers'[d].state = IF \E r \in R : connections[r] = d THEN "closed"
                                                                 ELSE peers[d].state
    BY <1>1, <2>2, <2>4
  <2> QED
    BY <2>1, <2>2, <2>5, <2>6, ForgetKeepsInv
<1> QED
  BY <1>2, <1>3 DEF Disconnect, shutdown, close

LEMMA NegotiationKept ==
  ASSUME NegotiationInv, Next
  PROVE  NegotiationInv'
<1>1. CASE Negotiate
  <2>1. ASSUME NEW k \in Calls, NEW r \in Remotes, handleAnswer(k, r) PROVE NegotiationInv'
    BY <2>1, HandleAnswerKeepsInv
  <2>2. ASSUME NEW k \in Calls, NEW r \in Remotes, NEW l \in Locals,
               getOffer(k, r, l) \/ handleOffer(k, r, l)
        PROVE  NegotiationInv'
    BY <2>2, OpenKeepsInv
  <2>3. ASSUME NEW k \in Calls, offer(k) PROVE NegotiationInv'
    BY <2>3, OfferKeepsInv
  <2>4. ASSUME NEW k \in Calls, setRemoteDescription(k) PROVE NegotiationInv'
    BY <2>4, DescribeKeepsInv
  <2>5. ASSUME NEW k \in Calls, answer(k) \/ acceptAnswer(k) PROVE NegotiationInv'
    BY <2>5, AnswerKeepsInv
  <2>6. ASSUME NEW k \in Calls, reject(k) PROVE NegotiationInv'
    BY <2>6, RejectKeepsInv
  <2> QED
    BY <1>1, <2>1, <2>2, <2>3, <2>4, <2>5, <2>6 DEF Negotiate
<1>2. CASE \E r \in Remotes, candidate \in Candidates : handleCandidate(r, candidate)
  BY <1>2, CandidateKeepsInv
<1>3. CASE Disconnect
  BY <1>3, DisconnectKeepsInv
<1>4. CASE UNCHANGED negotiation
  BY <1>4 DEF negotiation, NegotiationInv, NegotiationTyped, PeersUsed, MapAgrees,
              CallsAgree, NoConnectionLeaked, NoCandidateForgotten, described
<1>5. CASE Channel
  BY <1>4, <1>5 DEF Channel, onopen, onclose, onmessage, ondatachannel, queueAndEmitMessage
<1>6. CASE \E s \in Senders : resumeSend(s) \/ \E key \in Keys : send(s, key)
  BY <1>4, <1>6 DEF resumeSend, send
<1>7. CASE \E c \in Receivers : resumeRecv(c) \/ \E r \in Remotes : recv(c, <<r, c>>)
  BY <1>4, <1>7 DEF resumeRecv, recv
<1> QED
  BY <1>1, <1>2, <1>3, <1>5, <1>6, <1>7 DEF Next

----
(***************************************************************************)
(* Data channels                                                           *)
(***************************************************************************)
ChannelsInv == ChannelsTyped /\ ChannelsKeyed /\ SendersTyped /\ SendersWait

\* A new channel is connecting, so no send may go on with it.
LEMMA ConfigureKeepsChannels ==
  ASSUME ChannelsInv, NEW key \in Keys, NEW c \in Connections, configure(key, c),
         senders' = senders
  PROVE  ChannelsInv'
<1> DEFINE object == [key |-> key, conn |-> c, readyState |-> "connecting"]
           n == Len(objects)
<1>1. /\ objects' = Append(objects, object)
      /\ channels' = [channels EXCEPT ![key] = n + 1]
  BY DEF configure
<1>2. object \in Objects /\ object.key = key /\ object.readyState # "open"
  BY DEF Objects
<1>3. objects \in Seq(Objects) /\ n \in Nat /\ channels \in [Keys -> 0 .. n]
  BY DEF ChannelsInv, ChannelsTyped
<1> HIDE DEF object
<1>4. /\ objects' \in Seq(Objects) /\ Len(objects') = n + 1
      /\ objects'[n + 1] = object
      /\ \A o \in 1 .. n : objects'[o] = objects[o]
  BY <1>1, <1>2, <1>3
<1> HIDE DEF n
<1>5. ChannelsTyped'
  BY <1>1, <1>3, <1>4 DEF ChannelsTyped
<1>6. ChannelsKeyed'
  BY <1>1, <1>2, <1>3, <1>4 DEF ChannelsInv, ChannelsKeyed
<1>7. ASSUME NEW k \in Keys, isOpen(k)' PROVE isOpen(k)
  BY <1>1, <1>2, <1>3, <1>4, <1>7 DEF isOpen
<1>8. SendersTyped' /\ SendersWait'
  <2>1. \A s \in Senders : senders[s].at = "waiting" => senders[s].key \in Keys
    BY DEF ChannelsInv, SendersTyped, SenderStates, Idle
  <2> QED
    BY <1>7, <2>1 DEF ChannelsInv, SendersTyped, SendersWait
<1> QED
  BY <1>5, <1>6, <1>8 DEF ChannelsInv

\* Channels that stay as they are, are closed, or are taken out of the map.
LEMMA ClosingKeepsChannels ==
  ASSUME ChannelsInv, DOMAIN objects' = DOMAIN objects, objects' \in Seq(Objects),
         \A o \in DOMAIN objects :
           /\ objects'[o].key = objects[o].key
           /\ objects'[o].readyState = "open" => objects[o].readyState = "open",
         channels' \in [Keys -> 0 .. Len(objects)],
         \A key \in Keys : channels'[key] \in {0, channels[key]},
         senders' = senders
  PROVE  ChannelsInv'
<1>1. DOMAIN objects = 1 .. Len(objects) /\ Len(objects') = Len(objects)
  BY DEF ChannelsInv, ChannelsTyped
<1>2. ChannelsTyped'
  BY <1>1 DEF ChannelsTyped
<1>3. ChannelsKeyed'
  BY <1>1 DEF ChannelsInv, ChannelsTyped, ChannelsKeyed
<1>4. ASSUME NEW k \in Keys, isOpen(k)' PROVE isOpen(k)
  BY <1>1, <1>4 DEF isOpen, ChannelsInv, ChannelsTyped
<1>5. SendersTyped' /\ SendersWait'
  <2>1. \A s \in Senders : senders[s].at = "waiting" => senders[s].key \in Keys
    BY DEF ChannelsInv, SendersTyped, SenderStates, Idle
  <2> QED
    BY <1>4, <2>1 DEF ChannelsInv, SendersTyped, SendersWait
<1> QED
  BY <1>2, <1>3, <1>5 DEF ChannelsInv

\* Every send that waits for the channel that opens is woken.
LEMMA OpenKeepsChannels ==
  ASSUME ChannelsInv, NEW o \in DOMAIN objects, onopen(o)
  PROVE  ChannelsInv'
<1>1. /\ objects' = [objects EXCEPT ![o].readyState = "open"]
      /\ channels' = channels
      /\ senders' = [s \in Senders |->
           IF senders[s] = [at |-> "waiting", key |-> objects[o].key]
             THEN [senders[s] EXCEPT !.at = "woken"]
             ELSE senders[s]]
  BY DEF onopen
<1>2. /\ objects \in Seq(Objects) /\ channels \in [Keys -> 0 .. Len(objects)]
      /\ objects[o] \in Objects
      /\ senders \in [Senders -> SenderStates]
  BY DEF ChannelsInv, ChannelsTyped, SendersTyped
<1> DEFINE object == [objects[o] EXCEPT !.readyState = "open"]
<1>3. object \in Objects /\ object.key = objects[o].key /\ objects' = [objects EXCEPT ![o] = object]
  BY <1>1, <1>2 DEF Objects
<1> HIDE DEF object
<1>4. /\ objects' \in Seq(Objects) /\ Len(objects') = Len(objects)
      /\ \A p \in DOMAIN objects : objects'[p] = IF p = o THEN object ELSE objects[p]
  BY <1>2, <1>3
<1>5. ChannelsTyped'
  BY <1>1, <1>2, <1>4 DEF ChannelsTyped
<1>6. ChannelsKeyed'
  BY <1>1, <1>2, <1>3, <1>4 DEF ChannelsInv, ChannelsKeyed
<1>7. SendersTyped'
  <2>1. ASSUME NEW s \in Senders PROVE senders'[s] \in SenderStates
    BY <1>1, <1>2 DEF SenderStates, Idle
  <2> QED
    BY <1>1, <2>1 DEF SendersTyped
<1>8. SendersWait'
  <2>1. ASSUME NEW s \in Senders, senders'[s].at = "waiting"
        PROVE  /\ senders'[s] = senders[s] /\ senders[s].key \in Keys
               /\ senders[s].key # objects[o].key
    BY <1>1, <1>2, <2>1 DEF SenderStates, Idle
  <2>2. ASSUME NEW k \in Keys, k # objects[o].key, isOpen(k)' PROVE isOpen(k)
    BY <1>1, <1>2, <1>4, <2>2 DEF isOpen, ChannelsInv, ChannelsKeyed
  <2> QED
    BY <2>1, <2>2 DEF ChannelsInv, SendersWait
<1> QED
  BY <1>5, <1>6, <1>7, <1>8 DEF ChannelsInv

\* A send only waits for a channel that it has found not to be open.
LEMMA SendKeepsChannels ==
  ASSUME ChannelsInv, NEW s \in Senders, resumeSend(s) \/ \E key \in Keys : send(s, key)
  PROVE  ChannelsInv'
<1>1. objects' = objects /\ channels' = channels
  BY DEF resumeSend, send
<1>2. senders \in [Senders -> SenderStates]
  BY DEF ChannelsInv, SendersTyped
<1>3. \/ senders' = senders
      \/ senders' = [senders EXCEPT ![s] = Idle]
      \/ \E key \in Keys : /\ ~ isOpen(key)
                           /\ senders' = [senders EXCEPT ![s] = [at |-> "waiting", key |-> key]]
  <2>1. CASE resumeSend(s)
    <3>1. senders[s].key \in Keys
      BY <1>2, <2>1 DEF resumeSend, SenderStates, Idle
    <3> QED
      BY <2>1, <3>1 DEF resumeSend
  <2>2. CASE \E key \in Keys : send(s, key)
    BY <2>2 DEF send
  <2> QED
    BY <2>1, <2>2
<1>4. ASSUME NEW state \in SenderStates, senders' = [senders EXCEPT ![s] = state],
             state.at = "waiting" => ~ isOpen(state.key)
      PROVE  SendersTyped' /\ SendersWait'
  BY <1>1, <1>2, <1>4 DEF ChannelsInv, SendersTyped, SendersWait, isOpen
<1>5. SendersTyped' /\ SendersWait'
  <2>1. CASE senders' = senders
    BY <1>1, <2>1 DEF ChannelsInv, SendersTyped, SendersWait, isOpen
  <2>2. CASE senders' = [senders EXCEPT ![s] = Idle]
    BY <1>4, <2>2 DEF SenderStates, Idle
  <2>3. ASSUME NEW key \in Keys, ~ isOpen(key),
               senders' = [senders EXCEPT ![s] = [at |-> "waiting", key |-> key]]
        PROVE  SendersTyped' /\ SendersWait'
    BY <1>4, <2>3 DEF SenderStates
  <2> QED
    BY <1>3, <2>1, <2>2, <2>3
<1> QED
  BY <1>1, <1>5 DEF ChannelsInv, ChannelsTyped, ChannelsKeyed

\* The same of channels that an action closes together.
LEMMA ClosedKeepsChannels ==
  ASSUME ChannelsInv, NEW S,
         objects' = [o \in DOMAIN objects |->
                       IF o \in S THEN [objects[o] EXCEPT !.readyState = "closed"]
                                  ELSE objects[o]],
         channels' \in [Keys -> 0 .. Len(objects)],
         \A key \in Keys : channels'[key] \in {0, channels[key]},
         senders' = senders
  PROVE  ChannelsInv'
<1>1. objects \in Seq(Objects) /\ \A o \in DOMAIN objects : objects[o] \in Objects
  BY DEF ChannelsInv, ChannelsTyped
<1>2. ASSUME NEW object \in Objects
      PROVE  LET closed == [object EXCEPT !.readyState = "closed"] IN
             closed \in Objects /\ closed.key = object.key /\ closed.readyState # "open"
  BY DEF Objects
<1>3. ASSUME NEW o \in DOMAIN objects
      PROVE  /\ objects'[o] \in Objects /\ objects'[o].key = objects[o].key
             /\ objects'[o].readyState = "open" => objects[o].readyState = "open"
  BY <1>1, <1>2
<1>4. DOMAIN objects' = DOMAIN objects /\ objects' \in Seq(Objects)
  BY <1>1, <1>3
<1> QED
  BY <1>3, <1>4, ClosingKeepsChannels

\* Forgetting clients closes their channels, and no others open.
LEMMA ForgetKeepsChannels ==
  ASSUME ChannelsInv, NEW R \in SUBSET Remotes, forget(R)
  PROVE  ChannelsInv'
<1> DEFINE S == {o \in DOMAIN objects : \/ objects[o].conn \in {connections[r] : r \in R}
                                        \/ \E k \in R \X Locals : channels[k] = o}
<1>1. /\ objects' = [o \in DOMAIN objects |->
                       IF o \in S THEN [objects[o] EXCEPT !.readyState = "closed"]
                                  ELSE objects[o]]
      /\ channels' = [k \in Keys |-> IF k \in R \X Locals THEN 0 ELSE channels[k]]
      /\ senders' = senders
  BY DEF forget
<1>2. /\ channels' \in [Keys -> 0 .. Len(objects)]
      /\ \A key \in Keys : channels'[key] \in {0, channels[key]}
  BY <1>1 DEF ChannelsInv, ChannelsTyped
<1> HIDE DEF S
<1> QED
  BY <1>1, <1>2, ClosedKeepsChannels

\* An offer that comes to nothing closes the channels of its connection.
LEMMA OfferKeepsChannels ==
  ASSUME ChannelsInv, NEW k \in Calls, offer(k)
  PROVE  ChannelsInv'
<1> DEFINE S == {o \in DOMAIN objects : objects[o].conn = calls[k].conn}
<1>1. /\ \/ objects' = objects
         \/ objects' = [o \in DOMAIN objects |->
                          IF o \in S THEN [objects[o] EXCEPT !.readyState = "closed"]
                                     ELSE objects[o]]
      /\ channels' = channels /\ senders' = senders
  BY DEF offer
<1>2. channels \in [Keys -> 0 .. Len(objects)] /\ objects \in Seq(Objects)
  BY DEF ChannelsInv, ChannelsTyped
<1> HIDE DEF S
<1> QED
  BY <1>1, <1>2, ClosingKeepsChannels, ClosedKeepsChannels

LEMMA CloseKeepsChannels ==
  ASSUME ChannelsInv, NEW o \in DOMAIN objects, onclose(o)
  PROVE  ChannelsInv'
<1>1. /\ objects' = [p \in DOMAIN objects |->
                       IF p \in {o} THEN [objects[p] EXCEPT !.readyState = "closed"]
                                    ELSE objects[p]]
      /\ channels' = channels /\ senders' = senders
  BY DEF onclose
<1>2. channels \in [Keys -> 0 .. Len(objects)]
  BY DEF ChannelsInv, ChannelsTyped
<1> QED
  BY <1>1, <1>2, ClosedKeepsChannels

LEMMA ChannelsKept ==
  ASSUME NegotiationInv, ChannelsInv, Next
  PROVE  ChannelsInv'
<1>1. CASE UNCHANGED <<objects, channels, senders>>
  BY <1>1 DEF ChannelsInv, ChannelsTyped, ChannelsKeyed, SendersTyped, SendersWait, isOpen
<1>2. CASE Negotiate
  <2>1. ASSUME NEW k \in Calls, NEW r \in Remotes, NEW l \in Locals,
               getOffer(k, r, l) \/ handleOffer(k, r, l)
        PROVE  ChannelsInv'
    <3>1. senders' = senders
      BY <2>1 DEF getOffer, handleOffer
    <3>2. <<r, l>> \in Keys
      BY DEF Keys
    <3>3. live(r) => connections[r] \in Connections
      BY DEF live, NegotiationInv, NegotiationTyped
    <3>4. \/ \E c \in Connections : configure(<<r, l>>, c)
          \/ UNCHANGED <<objects, channels>>
      BY <2>1, <3>3 DEF getOffer, handleOffer, extend
    <3> QED
      BY <1>1, <3>1, <3>2, <3>4, ConfigureKeepsChannels
  <2>2. ASSUME NEW k \in Calls, offer(k) PROVE ChannelsInv'
    BY <2>2, OfferKeepsChannels
  <2>3. ASSUME NEW k \in Calls,
               \/ \E r \in Remotes : handleAnswer(k, r)
               \/ setRemoteDescription(k) \/ answer(k) \/ acceptAnswer(k) \/ reject(k)
        PROVE  ChannelsInv'
    BY <1>1, <2>3 DEF handleAnswer, setRemoteDescription, answer, acceptAnswer, reject
  <2> QED
    BY <1>2, <2>1, <2>2, <2>3 DEF Negotiate
<1>3. CASE \E r \in Remotes, candidate \in Candidates : handleCandidate(r, candidate)
  BY <1>1, <1>3 DEF handleCandidate
<1>4. CASE Disconnect
  <2>1. ASSUME NEW c \in Connections, connectionstatechange(c)
        PROVE  {peers[c].remote} \in SUBSET Remotes /\ forget({peers[c].remote})
    BY <2>1 DEF connectionstatechange, NegotiationInv, PeersUsed
  <2>2. \E R \in SUBSET Remotes : forget(R)
    BY <1>4, <2>1 DEF Disconnect, shutdown, close
  <2> QED
    BY <2>2, ForgetKeepsChannels
<1>5. CASE Channel
  <2>1. ASSUME NEW c \in Connections, NEW label \in Remotes, ondatachannel(c, label)
        PROVE  ChannelsInv'
    <3>1. <<label, peers[c].localId>> \in Keys
      BY <2>1 DEF ondatachannel, Keys, NegotiationInv, NegotiationTyped, PeerStates
    <3> QED
      BY <2>1, <3>1, ConfigureKeepsChannels DEF ondatachannel
  <2>2. ASSUME NEW o \in DOMAIN objects, onopen(o) \/ onclose(o) \/ onmessage(o)
        PROVE  ChannelsInv'
    BY <1>1, <2>2, OpenKeepsChannels, CloseKeepsChannels DEF onmessage
  <2>3. ASSUME NEW key \in Keys, NEW msg \in Messages, queueAndEmitMessage(key, msg)
        PROVE  ChannelsInv'
    BY <1>1, <2>3 DEF queueAndEmitMessage
  <2> QED
    BY <1>5, <2>1, <2>2, <2>3 DEF Channel
<1>6. CASE \E s \in Senders : resumeSend(s) \/ \E key \in Keys : send(s, key)
  BY <1>6, SendKeepsChannels
<1>7. CASE \E c \in Receivers : resumeRecv(c) \/ \E r \in Remotes : recv(c, <<r, c>>)
  BY <1>1, <1>7 DEF resumeRecv, recv
<1> QED
  BY <1>2, <1>3, <1>4, <1>5, <1>6, <1>7 DEF Next

----
(***************************************************************************)
(* The inbox                                                               *)
(***************************************************************************)
InboxInv == InboxTyped /\ ReceiversWait

\* What is known of a receiver that is not idle.
LEMMA ReceiverFacts ==
  ASSUME InboxInv, NEW c \in Receivers, receivers[c] # Idle
  PROVE  /\ receivers[c].key \in Keys /\ receivers[c].key[2] = c
         /\ receivers[c].at \in {"waiting", "woken"}
         /\ receivers[c].at = "waiting" =>
              /\ receivers[c] = [at |-> "waiting", key |-> receivers[c].key]
              /\ queuedMessages[receivers[c].key] = <<>>
         /\ receivers[c].at = "woken" =>
              /\ receivers[c].msg \in Messages
              /\ queuedMessages[receivers[c].key] = <<receivers[c].msg>>
  BY DEF InboxInv, InboxTyped, ReceiversWait, ReceiverStates, Idle

\* A message that comes for a receiver is put in its queue, which was empty.
LEMMA QueueKeepsInbox ==
  ASSUME InboxInv, NEW key \in Keys, NEW msg \in Messages, queueAndEmitMessage(key, msg)
  PROVE  /\ InboxInv'
         /\ FIFO!Put(key, msg) \/ UNCHANGED <<queuedMessages, received>>
<1> DEFINE woken == [at |-> "woken", key |-> key, msg |-> msg]
<1>1. /\ arriving' = arriving \ {<<key, msg>>} /\ arrived' = arrived /\ received' = received
      /\ quiet
      /\ \/ /\ queuedMessages' = [queuedMessages EXCEPT ![key] = Append(@, msg)]
            /\ receivers' = [c \in Receivers |->
                 IF receivers[c] = [at |-> "waiting", key |-> key] THEN woken ELSE receivers[c]]
         \/ UNCHANGED <<queuedMessages, receivers>>
  BY DEF queueAndEmitMessage
<1>2. FIFO!Put(key, msg) \/ UNCHANGED <<queuedMessages, received>>
  BY <1>1 DEF FIFO!Put
<1>3. CASE UNCHANGED <<queuedMessages, receivers>>
  BY <1>1, <1>2, <1>3 DEF InboxInv, InboxTyped, ReceiversWait
<1>4. CASE /\ queuedMessages' = [queuedMessages EXCEPT ![key] = Append(@, msg)]
           /\ receivers' = [c \in Receivers |->
                IF receivers[c] = [at |-> "waiting", key |-> key] THEN woken ELSE receivers[c]]
  <2>1. queuedMessages \in [Keys -> Seq(Messages)] /\ receivers \in [Receivers -> ReceiverStates]
    BY DEF InboxInv, InboxTyped
  <2>2. /\ queuedMessages' \in [Keys -> Seq(Messages)]
        /\ queuedMessages'[key] = Append(queuedMessages[key], msg)
        /\ \A k \in Keys : k # key => queuedMessages'[k] = queuedMessages[k]
    BY <1>4, <2>1
  <2>3. woken \in ReceiverStates /\ woken.at = "woken" /\ woken.key = key /\ woken.msg = msg
    BY DEF ReceiverStates
  <2>4. Idle.at = "idle"
    BY DEF Idle
  <2> HIDE DEF woken
  <2>5. receivers' \in [Receivers -> ReceiverStates]
    BY <1>4, <2>1, <2>3
  <2>6. ASSUME NEW c \in Receivers
        PROVE  /\ receivers'[c].at # "idle" => receivers'[c].key[2] = c
               /\ receivers'[c].at = "waiting" => queuedMessages'[receivers'[c].key] = <<>>
               /\ receivers'[c].at = "woken" =>
                    queuedMessages'[receivers'[c].key] = <<receivers'[c].msg>>
    <3>1. receivers[c].at # "woken"
      BY <1>1 DEF quiet
    <3>2. CASE receivers[c] = [at |-> "waiting", key |-> key]
      <4>1. receivers[c] # Idle /\ receivers[c].key = key
        BY <2>4, <3>2
      <4>2. queuedMessages[key] = <<>> /\ key[2] = c
        BY <3>1, <4>1, ReceiverFacts
      <4>3. receivers'[c] = woken
        BY <1>4, <3>2
      <4>4. Append(<<>>, msg) = <<msg>>
        OBVIOUS
      <4> QED
        BY <2>2, <2>3, <4>2, <4>3, <4>4
    <3>3. CASE receivers[c] # [at |-> "waiting", key |-> key]
      <4>1. receivers'[c] = receivers[c]
        BY <1>4, <3>3
      <4>2. CASE receivers[c] = Idle
        BY <2>4, <4>1, <4>2
      <4>3. CASE receivers[c] # Idle
        <5>1. /\ receivers[c].key \in Keys /\ receivers[c].key # key
              /\ receivers[c].key[2] = c /\ receivers[c].at = "waiting"
              /\ queuedMessages[receivers[c].key] = <<>>
          BY <3>1, <3>3, <4>3, ReceiverFacts
        <5> QED
          BY <2>2, <4>1, <5>1
      <4> QED
        BY <4>2, <4>3
    <3> QED
      BY <3>2, <3>3
  <2>7. arriving' \subseteq Keys \X Messages
    BY <1>1 DEF InboxInv, InboxTyped
  <2> QED
    BY <1>1, <1>2, <2>2, <2>5, <2>6, <2>7 DEF InboxInv, InboxTyped, ReceiversWait
<1> QED
  BY <1>1, <1>3, <1>4

\* A recv takes the message at the head of the queue, or waits for an empty one.
LEMMA RecvKeepsInbox ==
  ASSUME InboxInv, NEW c \in Receivers, NEW r \in Remotes, recv(c, <<r, c>>)
  PROVE  /\ InboxInv'
         /\ FIFO!Take(<<r, c>>) \/ UNCHANGED <<queuedMessages, received>>
<1> DEFINE key == <<r, c>>
           waiting == [at |-> "waiting", key |-> key]
<1>1. key \in Keys /\ key[2] = c
  BY TransporterAssumption DEF Keys
<1>2. waiting \in ReceiverStates /\ waiting.at = "waiting" /\ waiting.key = key
  BY <1>1 DEF ReceiverStates
<1>3. /\ quiet /\ arriving' = arriving /\ arrived' = arrived
      /\ \/ /\ queuedMessages[key] # <<>>
            /\ received' = [received EXCEPT ![key] = Append(@, Head(queuedMessages[key]))]
            /\ queuedMessages' = [queuedMessages EXCEPT ![key] = Tail(@)]
            /\ receivers' = receivers
         \/ /\ queuedMessages[key] = <<>>
            /\ receivers' = [receivers EXCEPT ![c] = waiting]
            /\ queuedMessages' = queuedMessages /\ received' = received
  BY DEF recv
<1>4. \A d \in Receivers : receivers[d].at # "woken"
  BY <1>3 DEF quiet
<1>5. /\ queuedMessages \in [Keys -> Seq(Messages)] /\ received \in [Keys -> Seq(Messages)]
      /\ receivers \in [Receivers -> ReceiverStates]
  BY DEF InboxInv, InboxTyped
<1> HIDE DEF key, waiting
<1>6. CASE /\ queuedMessages[key] # <<>>
           /\ received' = [received EXCEPT ![key] = Append(@, Head(queuedMessages[key]))]
           /\ queuedMessages' = [queuedMessages EXCEPT ![key] = Tail(@)]
           /\ receivers' = receivers
  <2>1. FIFO!Take(key)
    BY <1>6 DEF FIFO!Take
  <2>2. Head(queuedMessages[key]) \in Messages /\ Tail(queuedMessages[key]) \in Seq(Messages)
    BY <1>1, <1>5, <1>6
  <2>3. /\ queuedMessages' \in [Keys -> Seq(Messages)]
        /\ received' \in [Keys -> Seq(Messages)]
    BY <1>1, <1>5, <1>6, <2>2
  <2>4. ReceiversWait'
    <3>1. ASSUME NEW d \in Receivers, receivers[d].at = "waiting"
          PROVE  queuedMessages'[receivers[d].key] = <<>>
      <4>1. receivers[d] # Idle
        BY <3>1 DEF Idle
      <4>2. receivers[d].key \in Keys /\ queuedMessages[receivers[d].key] = <<>>
        BY <1>4, <4>1, ReceiverFacts
      <4> QED
        BY <1>5, <1>6, <4>2
    <3> QED
      BY <1>4, <1>6, <3>1 DEF InboxInv, ReceiversWait
  <2> QED
    BY <1>3, <1>5, <1>6, <2>1, <2>3, <2>4 DEF InboxInv, InboxTyped, key
<1>7. CASE /\ queuedMessages[key] = <<>>
           /\ receivers' = [receivers EXCEPT ![c] = waiting]
           /\ queuedMessages' = queuedMessages /\ received' = received
  <2>1. receivers' \in [Receivers -> ReceiverStates]
    BY <1>2, <1>5, <1>7
  <2>2. ReceiversWait'
    BY <1>1, <1>2, <1>5, <1>7 DEF InboxInv, ReceiversWait
  <2> QED
    BY <1>3, <1>5, <1>7, <2>1, <2>2 DEF InboxInv, InboxTyped
<1> QED
  BY <1>3, <1>6, <1>7

\* A receiver that goes on takes the message it was given out of the queue.
LEMMA ResumeKeepsInbox ==
  ASSUME InboxInv, NEW c \in Receivers, resumeRecv(c)
  PROVE  InboxInv' /\ FIFO!Take(receivers[c].key)
<1> DEFINE key == receivers[c].key
           msg == receivers[c].msg
<1>1. /\ arriving' = arriving /\ arrived' = arrived
      /\ received' = [received EXCEPT ![key] = Append(@, msg)]
      /\ queuedMessages' = [queuedMessages EXCEPT ![key] = IF @ = <<>> THEN @ ELSE Tail(@)]
      /\ receivers' = [receivers EXCEPT ![c] = Idle]
      /\ receivers[c].at = "woken" /\ receivers[c] # Idle
  BY DEF resumeRecv, Idle
<1>2. /\ key \in Keys /\ key[2] = c /\ msg \in Messages
      /\ queuedMessages[key] = <<msg>>
  BY <1>1, ReceiverFacts
<1>3. /\ queuedMessages \in [Keys -> Seq(Messages)] /\ received \in [Keys -> Seq(Messages)]
      /\ receivers \in [Receivers -> ReceiverStates]
  BY DEF InboxInv, InboxTyped
<1>4. \A d \in Receivers : receivers[d] # Idle =>
        receivers[d].key \in Keys /\ receivers[d].key[2] = d
  BY ReceiverFacts
<1>5. Idle \in ReceiverStates /\ Idle.at = "idle"
  BY DEF ReceiverStates, Idle
<1> HIDE DEF key, msg
<1>6. <<msg>> # <<>> /\ Head(<<msg>>) = msg /\ Tail(<<msg>>) = <<>>
  OBVIOUS
<1>7. FIFO!Take(key)
  BY <1>1, <1>2, <1>3, <1>6 DEF FIFO!Take
<1>8. queuedMessages' = [queuedMessages EXCEPT ![key] = <<>>]
  BY <1>1, <1>2, <1>6
<1>9. InboxTyped'
  BY <1>1, <1>2, <1>3, <1>5, <1>8 DEF InboxInv, InboxTyped
<1>10. ReceiversWait'
  <2>1. ASSUME NEW d \in Receivers, d # c, receivers[d] # Idle
        PROVE  receivers'[d] = receivers[d] /\ receivers[d].key # key
    BY <1>1, <1>2, <1>3, <1>4, <2>1
  <2>2. ASSUME NEW d \in Receivers, receivers'[d].at # "idle"
        PROVE  d # c /\ receivers[d] # Idle /\ receivers'[d] = receivers[d]
    BY <1>1, <1>3, <1>5, <2>2
  <2>3. \A k \in Keys : k # key => queuedMessages'[k] = queuedMessages[k]
    BY <1>3, <1>8
  <2>4. ASSUME NEW d \in Receivers, receivers'[d].at # "idle"
        PROVE  /\ receivers'[d] = receivers[d] /\ receivers[d].at # "idle"
               /\ queuedMessages'[receivers[d].key] = queuedMessages[receivers[d].key]
    BY <1>4, <2>1, <2>2, <2>3, <2>4
  <2> QED
    BY <2>4 DEF InboxInv, ReceiversWait
<1> QED
  BY <1>7, <1>9, <1>10 DEF InboxInv, key

\* What is forgotten of some remote clients is dropped from the queues; no
\* receiver is being given a message at that time.
LEMMA ForgetKeepsInbox ==
  ASSUME InboxInv, NEW R \in SUBSET Remotes, forget(R), quiet
  PROVE  InboxInv' /\ FIFO!Drop(R \X Locals)
<1>1. /\ queuedMessages' = [k \in Keys |-> IF k \in R \X Locals THEN <<>> ELSE queuedMessages[k]]
      /\ UNCHANGED <<arriving, arrived, received, receivers>>
  BY DEF forget
<1>2. FIFO!Drop(R \X Locals)
  BY <1>1 DEF FIFO!Drop
<1>3. InboxTyped'
  BY <1>1 DEF InboxInv, InboxTyped
<1>4. ReceiversWait'
  <2>1. ASSUME NEW c \in Receivers, receivers[c].at # "idle"
        PROVE  /\ receivers[c].at = "waiting" /\ receivers[c].key \in Keys
               /\ receivers[c].key[2] = c
               /\ queuedMessages'[receivers[c].key] = <<>>
    <3>1. receivers[c] # Idle /\ receivers[c].at # "woken"
      BY <2>1 DEF Idle, quiet
    <3> QED
      BY <1>1, <3>1, ReceiverFacts
  <2> QED
    BY <1>1, <2>1 DEF ReceiversWait
<1> QED
  BY <1>2, <1>3, <1>4 DEF InboxInv

\* Every step of the transporter keeps the inbox and is a step of it, or is not
\* seen by it.
LEMMA InboxKept ==
  ASSUME NegotiationInv, ChannelsTyped, InboxInv, Next
  PROVE  InboxInv' /\ [FIFO!Next]_<<queuedMessages, received>>
<1>1. ASSUME UNCHANGED inbox
      PROVE  InboxInv' /\ UNCHANGED <<queuedMessages, received>>
  BY <1>1 DEF inbox, InboxInv, InboxTyped, ReceiversWait
<1>2. CASE Negotiate
  BY <1>1, <1>2 DEF Negotiate, handleAnswer, getOffer, handleOffer, offer,
                    setRemoteDescription, answer, acceptAnswer, reject
<1>3. CASE \E r \in Remotes, candidate \in Candidates : handleCandidate(r, candidate)
  BY <1>1, <1>3 DEF handleCandidate
<1>4. CASE Disconnect
  <2>1. ASSUME NEW c \in Connections, connectionstatechange(c)
        PROVE  {peers[c].remote} \in SUBSET Remotes /\ forget({peers[c].remote})
    BY <2>1 DEF connectionstatechange, NegotiationInv, PeersUsed
  <2>2. PICK R \in SUBSET Remotes : forget(R)
    BY <1>4, <2>1 DEF Disconnect, shutdown, close
  <2>3. quiet
    BY <1>4 DEF Disconnect, shutdown, close, connectionstatechange
  <2>4. R \X Locals \in SUBSET Keys
    BY DEF Keys
  <2> QED
    BY <2>2, <2>3, <2>4, ForgetKeepsInbox DEF FIFO!Next
<1>5. CASE Channel
  <2>1. ASSUME NEW c \in Connections, NEW label \in Remotes, ondatachannel(c, label)
        PROVE  UNCHANGED inbox
    BY <2>1 DEF ondatachannel
  <2>2. ASSUME NEW o \in DOMAIN objects, onopen(o) \/ onclose(o)
        PROVE  UNCHANGED inbox
    BY <2>2 DEF onopen, onclose
  <2>3. ASSUME NEW o \in DOMAIN objects, onmessage(o)
        PROVE  InboxInv' /\ UNCHANGED <<queuedMessages, received>>
    <3>1. /\ UNCHANGED <<queuedMessages, received, receivers>>
          /\ arrived < MaxMessages /\ arrived' = arrived + 1
          /\ arriving' = arriving \cup {<<objects[o].key, arrived + 1>>}
      BY <2>3 DEF onmessage
    <3>2. objects[o] \in Objects
      BY DEF ChannelsTyped
    <3>3. objects[o].key \in Keys
      BY <3>2 DEF Objects
    <3>4. arrived + 1 \in Messages
      BY <3>1, TransporterAssumption DEF InboxInv, InboxTyped, Messages
    <3> QED
      BY <3>1, <3>3, <3>4, TransporterAssumption DEF InboxInv, InboxTyped, ReceiversWait, Messages
  <2>4. ASSUME NEW key \in Keys, NEW msg \in Messages, queueAndEmitMessage(key, msg)
        PROVE  InboxInv' /\ [FIFO!Next]_<<queuedMessages, received>>
    BY <2>4, QueueKeepsInbox DEF FIFO!Next
  <2> QED
    BY <1>1, <1>5, <2>1, <2>2, <2>3, <2>4 DEF Channel
<1>6. CASE \E s \in Senders : resumeSend(s) \/ \E key \in Keys : send(s, key)
  BY <1>1, <1>6 DEF resumeSend, send
<1>7. CASE \E c \in Receivers : resumeRecv(c) \/ \E r \in Remotes : recv(c, <<r, c>>)
  <2>1. ASSUME NEW c \in Receivers, resumeRecv(c)
        PROVE  InboxInv' /\ [FIFO!Next]_<<queuedMessages, received>>
    <3>1. receivers[c] # Idle
      BY <2>1 DEF resumeRecv, Idle
    <3>2. receivers[c].key \in Keys
      BY <3>1, ReceiverFacts
    <3> QED
      BY <2>1, <3>2, ResumeKeepsInbox DEF FIFO!Next
  <2>2. ASSUME NEW c \in Receivers, NEW r \in Remotes, recv(c, <<r, c>>)
        PROVE  InboxInv' /\ [FIFO!Next]_<<queuedMessages, received>>
    <3>1. <<r, c>> \in Keys
      BY TransporterAssumption DEF Keys
    <3> QED
      BY <2>2, <3>1, RecvKeepsInbox DEF FIFO!Next
  <2> QED
    BY <1>7, <2>1, <2>2
<1> QED
  BY <1>2, <1>3, <1>4, <1>5, <1>6, <1>7 DEF Next

----
(***************************************************************************)
(* The theorems                                                            *)
(***************************************************************************)
LEMMA InitHolds ==
  ASSUME Init
  PROVE  IInv
<1>1. NegotiationInv
  <2>1. NegotiationTyped
    BY DEF Init, NegotiationTyped, PeerStates, CallStates
  <2>2. PeersUsed /\ MapAgrees /\ CallsAgree /\ NoConnectionLeaked /\ NoCandidateForgotten
    BY DEF Init, PeersUsed, MapAgrees, CallsAgree, NoConnectionLeaked, NoCandidateForgotten,
           described, Idle
  <2> QED
    BY <2>1, <2>2 DEF NegotiationInv
<1>2. ChannelsTyped /\ ChannelsKeyed /\ SendersTyped /\ SendersWait
  BY DEF Init, ChannelsTyped, ChannelsKeyed, SendersTyped, SendersWait, SenderStates, Idle
<1>3. InboxTyped /\ ReceiversWait
  BY TransporterAssumption DEF Init, InboxTyped, ReceiversWait, ReceiverStates, Idle
<1> QED
  BY <1>1, <1>2, <1>3 DEF IInv

LEMMA StepKeepsInv ==
  ASSUME IInv, [Next]_vars
  PROVE  IInv'
<1>1. CASE Next
  BY <1>1, NegotiationKept, ChannelsKept, InboxKept DEF IInv, ChannelsInv, InboxInv
<1>2. CASE UNCHANGED vars
  <2>1. NegotiationInv'
    BY <1>2 DEF vars, negotiation, IInv, NegotiationInv, NegotiationTyped, PeersUsed,
                MapAgrees, CallsAgree, NoConnectionLeaked, NoCandidateForgotten, described
  <2>2. ChannelsTyped' /\ ChannelsKeyed' /\ SendersTyped' /\ SendersWait'
    BY <1>2 DEF vars, IInv, ChannelsTyped, ChannelsKeyed, SendersTyped, SendersWait, isOpen
  <2>3. InboxTyped' /\ ReceiversWait'
    BY <1>2 DEF vars, inbox, IInv, InboxTyped, ReceiversWait
  <2> QED
    BY <2>1, <2>2, <2>3 DEF IInv
<1> QED
  BY <1>1, <1>2

\* THEOREM Invariance: IInv is an inductive invariant of the transporter.
THEOREM Invariance == Spec => []IInv
  BY InitHolds, StepKeepsInv, PTL DEF Spec

\* THEOREM TypeCorrect: each connection, channel, queue and call of the
\* transporter only ever holds what Transporter.tla says it does.
THEOREM TypeCorrect == Spec => []TypeOK
<1>1. IInv => TypeOK
  BY DEF IInv, NegotiationInv, NegotiationTyped, ChannelsTyped, InboxTyped, SendersTyped,
         TypeOK, PeerStates, CallStates, Objects, SenderStates, ReceiverStates
<1> QED
  BY <1>1, Invariance, PTL

\* THEOREM EveryOpenConnectionIsKnown: a connection that was not closed is in
\* the map, however the offers of both sides, shutdowns and late events meet.
THEOREM EveryOpenConnectionIsKnown == Spec => []NoConnectionLeaked
<1>1. IInv => NoConnectionLeaked
  BY DEF IInv, NegotiationInv
<1> QED
  BY <1>1, Invariance, PTL

\* THEOREM EarlyCandidatesAreAdded: candidates that came too early are handed
\* over with the remote description, in every order of the calls.
THEOREM EarlyCandidatesAreAdded == Spec => []NoCandidateForgotten
<1>1. IInv => NoCandidateForgotten
  BY DEF IInv, NegotiationInv
<1> QED
  BY <1>1, Invariance, PTL

\* THEOREM EverySenderIsWoken: no send goes on waiting for a channel that is
\* open, whichever channel has taken the place of the one it asked for.
THEOREM EverySenderIsWoken == Spec => []NoSendForgotten
<1>1. IInv => NoSendForgotten
  BY DEF IInv, SendersWait, NoSendForgotten
<1> QED
  BY <1>1, Invariance, PTL

\* THEOREM EveryReceiverIsWoken: no recv goes on waiting beside a message that
\* is queued for its pair.
THEOREM EveryReceiverIsWoken == Spec => []NoRecvForgotten
<1>1. IInv => NoRecvForgotten
  BY DEF IInv, ReceiversWait, NoRecvForgotten
<1> QED
  BY <1>1, Invariance, PTL

\* THEOREM ReceivesInOrder: the receiving side implements the inbox, each step
\* of it one operation of the inbox or none: messages are received in the order
\* they were queued, each of them once.
THEOREM ReceivesInOrder == Spec => FirstInFirstOut
<1>1. Init => FIFO!Init
  BY DEF Init, FIFO!Init
<1>2. ASSUME IInv, [Next]_vars
      PROVE  [FIFO!Next]_<<queuedMessages, received>>
  <2>1. CASE Next
    BY <1>2, <2>1, InboxKept DEF IInv, InboxInv
  <2>2. CASE UNCHANGED vars
    BY <2>2 DEF vars, inbox
  <2> QED
    BY <1>2, <2>1, <2>2
<1> QED
  BY <1>1, <1>2, Invariance, PTL DEF Spec, FirstInFirstOut, FIFO!Spec

====
