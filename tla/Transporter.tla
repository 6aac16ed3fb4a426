---- MODULE Transporter ----
(***************************************************************************)
(* The transporter: the peer connections of a page, the data channels on   *)
(* them, and the calls that negotiate, send and receive.                   *)
(*                                                                         *)
(* Its methods await two kinds of promises. Those of WebRTC and of Blob    *)
(* are resolved by the browser, in a task of their own: anything may       *)
(* happen meanwhile, so the code on either side is an action each. Those   *)
(* of Emittery are resolved by an emit: it calls the listeners that were   *)
(* registered when it began, and the calls that awaited them go on in the  *)
(* same turn of the event loop. A call so woken is "woken", and no other   *)
(* turn starts until it has gone on.                                       *)
(*                                                                         *)
(* WebRTC itself is external: a description may be refused, a channel of a *)
(* negotiated connection may open and close, the other end may create one, *)
(* and each may deliver messages.                                          *)
(***************************************************************************)
EXTENDS Naturals, Sequences

CONSTANTS Remotes,      \* ids of clients elsewhere
          Locals,       \* ids of the clients of this page
          Connections,  \* bound: the RTCPeerConnections ever made
          Candidates,   \* ICE candidates
          Calls,        \* negotiations that can be under way at once
          Senders,      \* calls of send
          Receivers,    \* the local ids that are received for, by one recv at a time
          None,         \* undefined
          MaxChannels,  \* bound: the RTCDataChannels ever made
          MaxMessages   \* bound: the messages that ever arrive

ASSUME TransporterAssumption ==
  /\ None \notin Connections /\ None \notin Locals
  /\ Receivers \subseteq Locals
  /\ MaxChannels \in Nat /\ MaxMessages \in Nat

VARIABLES
  connections,        \* remote id -> connection
  peers,              \* the state of each connection
  queuedCandidates,   \* remote id -> candidates that came too early
  added,              \* connection -> candidates given to it
  calls,              \* getOffer, handleOffer and handleAnswer under way
  objects,            \* the data channels, in the order they were made
  channels,           \* remote and local id -> data channel, 0 for none
  queuedMessages,     \* remote and local id -> messages
  arriving,           \* messages whose Blob is being read
  arrived,            \* the number of messages that arrived so far
  received,           \* remote and local id -> what recv returned, in order
  senders, receivers  \* send and recv under way

negotiation == <<connections, peers, queuedCandidates, added, calls>>
inbox == <<queuedMessages, arriving, arrived, received, receivers>>
vars == <<negotiation, objects, channels, inbox, senders>>

Keys == Remotes \X Locals
Messages == 1 .. MaxMessages

FIFO == INSTANCE Inbox WITH queue <- queuedMessages

Idle == [at |-> "idle"]

TypeOK ==
  /\ connections \in [Remotes -> Connections \cup {None}]
  /\ peers \in [Connections ->
       [state : {"unused", "open", "closed"}, remote : Remotes \cup {None},
        remoteDescription : BOOLEAN,
        localId : Locals \cup {None},   \* the label ondatachannel uses
        reported : BOOLEAN]]            \* whether "closed" was reported
  /\ queuedCandidates \in [Remotes -> SUBSET Candidates]
  /\ added \in [Connections -> SUBSET Candidates]
  /\ \A k \in Calls : calls[k] \in {Idle} \cup
       [at : {"offer", "describe", "answer", "accept"}, remote : Remotes,
        local : Locals \cup {None}, conn : Connections]
  /\ objects \in Seq([key : Keys, conn : Connections,
                      readyState : {"connecting", "open", "closed"}])
  /\ channels \in [Keys -> 0 .. Len(objects)]
  /\ queuedMessages \in [Keys -> Seq(Messages)]
  /\ arriving \subseteq Keys \X Messages
  /\ arrived \in 0 .. MaxMessages
  /\ received \in [Keys -> Seq(Messages)]
  /\ \A s \in Senders : senders[s] \in {Idle} \cup [at : {"waiting", "woken"}, key : Keys]
  /\ \A c \in Receivers : receivers[c] \in
       {Idle} \cup [at : {"waiting"}, key : Keys] \cup [at : {"woken"}, key : Keys, msg : Messages]

Init ==
  /\ connections = [r \in Remotes |-> None]
  /\ peers = [c \in Connections |-> [state |-> "unused", remote |-> None,
                remoteDescription |-> FALSE, localId |-> None, reported |-> FALSE]]
  /\ queuedCandidates = [r \in Remotes |-> {}]
  /\ added = [c \in Connections |-> {}]
  /\ calls = [k \in Calls |-> Idle]
  /\ objects = <<>>
  /\ channels = [k \in Keys |-> 0]
  /\ queuedMessages = [k \in Keys |-> <<>>]
  /\ arriving = {} /\ arrived = 0
  /\ received = [k \in Keys |-> <<>>]
  /\ senders = [s \in Senders |-> Idle]
  /\ receivers = [c \in Receivers |-> Idle]

\* The turn is over: every call that an event woke has gone on.
quiet ==
  /\ \A s \in Senders : senders[s].at # "woken"
  /\ \A c \in Receivers : receivers[c].at # "woken"

isOpen(key) == channels[key] # 0 /\ objects[channels[key]].readyState = "open"

live_Unchecked(r) == FALSE   \* mutant: a connection is made in any case

live(r) == connections[r] # None /\ peers[connections[r]].state # "closed"

\* dataChannelConfiguration: a new channel takes the place of an older one, and
\* the messages that are queued for the pair stay.
configure(key, c) ==
  /\ Len(objects) < MaxChannels
  /\ objects' = Append(objects, [key |-> key, conn |-> c, readyState |-> "connecting"])
  /\ channels' = [channels EXCEPT ![key] = Len(objects) + 1]

----
(***************************************************************************)
(* getOffer, handleOffer and handleAnswer                                  *)
(***************************************************************************)

\* The connection exists: both calls throw, and so make no description, but
\* first create the channel of this local id on it.
extend(r, l) ==
  /\ live(r)
  /\ \/ channels[<<r, l>>] = 0 /\ configure(<<r, l>>, connections[r])
     \/ channels[<<r, l>>] # 0 /\ UNCHANGED <<objects, channels>>
  /\ UNCHANGED negotiation

connect(k, r, l, c, at) ==
  /\ ~ live(r)
  /\ peers[c].state = "unused"
  /\ connections' = [connections EXCEPT ![r] = c]
  /\ calls' = [calls EXCEPT ![k] = [at |-> at, remote |-> r, local |-> l, conn |-> c]]
  /\ UNCHANGED <<queuedCandidates, added>>

getOffer(k, r, l) ==
  /\ quiet
  /\ calls[k] = Idle
  /\ \/ extend(r, l)
     \/ \E c \in Connections :
          /\ connect(k, r, l, c, "offer")
          /\ peers' = [peers EXCEPT ![c].state = "open", ![c].remote = r, ![c].localId = l]
          /\ configure(<<r, l>>, c)
  /\ UNCHANGED <<inbox, senders>>

\* The offer is made, or the promise rejected; an offer without a text closes
\* the connection, which stays in the map.
offer(k) ==
  LET c == calls[k].conn IN
  /\ quiet
  /\ calls[k].at = "offer"
  /\ calls' = [calls EXCEPT ![k] = Idle]
  /\ \/ UNCHANGED <<peers, objects>>
     \/ /\ peers' = [peers EXCEPT ![c].state = "closed"]
        /\ objects' = [o \in DOMAIN objects |->
             IF objects[o].conn = c THEN [objects[o] EXCEPT !.readyState = "closed"]
                                    ELSE objects[o]]
  /\ UNCHANGED <<connections, queuedCandidates, added, channels, inbox, senders>>

handleOffer(k, r, l) ==
  /\ quiet
  /\ calls[k] = Idle
  /\ \/ extend(r, l)
     \/ \E c \in Connections :
          /\ connect(k, r, l, c, "describe")
          /\ peers' = [peers EXCEPT ![c].state = "open", ![c].remote = r]
          /\ UNCHANGED <<objects, channels>>
  /\ UNCHANGED <<inbox, senders>>

setRemoteDescription(k) ==
  LET c == calls[k].conn IN
  /\ quiet
  /\ calls[k].at = "describe"
  /\ peers[c].state = "open"
  /\ peers' = [peers EXCEPT ![c].remoteDescription = TRUE]
  /\ calls' = [calls EXCEPT ![k].at = "answer"]
  /\ UNCHANGED <<connections, queuedCandidates, added, objects, channels, inbox, senders>>

\* addQueuedCandidates hands each candidate to handleCandidate again, which
\* queues it once more while the connection has no remote description.
flush(r) ==
  LET c == connections[r]
      ready == c # None /\ peers'[c].remoteDescription
  IN
  /\ added' = IF ready THEN [added EXCEPT ![c] = @ \cup queuedCandidates[r]] ELSE added
  /\ queuedCandidates' = IF ready THEN [queuedCandidates EXCEPT ![r] = {}]
                                  ELSE queuedCandidates

answer(k) ==
  LET c == calls[k].conn IN
  /\ quiet
  /\ calls[k].at = "answer"
  /\ peers[c].state = "open"
  /\ peers' = [peers EXCEPT ![c].localId = calls[k].local]
  /\ flush(calls[k].remote)
  /\ calls' = [calls EXCEPT ![k] = Idle]
  /\ UNCHANGED <<connections, objects, channels, inbox, senders>>

handleAnswer_Unchecked(k, r) ==   \* mutant: without `.has`
  /\ quiet
  /\ calls[k] = Idle
  /\ calls' = [calls EXCEPT ![k] = [at |-> "accept", remote |-> r, local |-> None,
                                    conn |-> connections[r]]]
  /\ UNCHANGED <<connections, peers, queuedCandidates, added, objects, channels, inbox, senders>>

\* Without a connection it throws, and changes nothing.
handleAnswer(k, r) ==
  /\ quiet
  /\ calls[k] = Idle
  /\ connections[r] # None
  /\ calls' = [calls EXCEPT ![k] = [at |-> "accept", remote |-> r, local |-> None,
                                    conn |-> connections[r]]]
  /\ UNCHANGED <<connections, peers, queuedCandidates, added, objects, channels, inbox, senders>>

\* WebRTC takes an answer for an offer that was made, and takes only one.
offered(c) ==
  /\ peers[c].state = "open" /\ ~ peers[c].remoteDescription
  /\ peers[c].localId # None
  /\ \A k \in Calls : calls[k].at = "offer" => calls[k].conn # c

acceptAnswer_NoFlush(k) ==   \* mutant: early candidates are forgotten
  LET c == calls[k].conn IN
  /\ quiet
  /\ calls[k].at = "accept"
  /\ offered(c)
  /\ peers' = [peers EXCEPT ![c].remoteDescription = TRUE]
  /\ calls' = [calls EXCEPT ![k] = Idle]
  /\ UNCHANGED <<connections, queuedCandidates, added, objects, channels, inbox, senders>>

acceptAnswer(k) ==
  LET c == calls[k].conn IN
  /\ quiet
  /\ calls[k].at = "accept"
  /\ offered(c)
  /\ peers' = [peers EXCEPT ![c].remoteDescription = TRUE]
  /\ flush(calls[k].remote)
  /\ calls' = [calls EXCEPT ![k] = Idle]
  /\ UNCHANGED <<connections, objects, channels, inbox, senders>>

\* WebRTC refuses a description, or the connection was closed meanwhile.
reject(k) ==
  /\ quiet
  /\ \/ calls[k].at \in {"describe", "accept"}
     \/ calls[k].at = "answer" /\ peers[calls[k].conn].state = "closed"
  /\ calls' = [calls EXCEPT ![k] = Idle]
  /\ UNCHANGED <<connections, peers, queuedCandidates, added, objects, channels, inbox, senders>>

described(r) == connections[r] # None /\ peers[connections[r]].remoteDescription

handleCandidate(r, candidate) ==
  /\ quiet
  /\ \/ /\ described(r)
        /\ added' = [added EXCEPT ![connections[r]] = @ \cup {candidate}]
        /\ UNCHANGED queuedCandidates
     \/ /\ ~ described(r)
        /\ queuedCandidates' = [queuedCandidates EXCEPT ![r] = @ \cup {candidate}]
        /\ UNCHANGED added
  /\ UNCHANGED <<connections, peers, calls, objects, channels, inbox, senders>>

----
(***************************************************************************)
(* shutdown, close, and the closed event of a connection                   *)
(***************************************************************************)
forget(R) ==
  LET gone == {connections[r] : r \in R}
      keys == R \X Locals
  IN
  /\ connections' = [r \in Remotes |-> IF r \in R THEN None ELSE connections[r]]
  /\ objects' = [o \in DOMAIN objects |->
       IF objects[o].conn \in gone \/ \E k \in keys : channels[k] = o
         THEN [objects[o] EXCEPT !.readyState = "closed"]
         ELSE objects[o]]
  /\ channels' = [k \in Keys |-> IF k \in keys THEN 0 ELSE channels[k]]
  /\ queuedCandidates' = [r \in Remotes |-> IF r \in R THEN {} ELSE queuedCandidates[r]]
  /\ queuedMessages' = [k \in Keys |-> IF k \in keys THEN <<>> ELSE queuedMessages[k]]
  /\ UNCHANGED <<added, calls, arriving, arrived, received, receivers, senders>>

closing(R) ==
  [c \in Connections |-> IF \E r \in R : connections[r] = c
                           THEN [peers[c] EXCEPT !.state = "closed"]
                           ELSE peers[c]]

shutdown(r) ==
  /\ quiet
  /\ forget({r})
  /\ peers' = closing({r})

close ==
  LET R == {r \in Remotes : connections[r] # None} IN
  /\ quiet
  /\ forget(R)
  /\ peers' = closing(R)

\* handleConnectionStatusChange, for an implementation that reports the close,
\* some time later: the handler knows the remote id, not whether the connection
\* it was set on is still the one in the map.
connectionstatechange(c) ==
  LET r == peers[c].remote IN
  /\ quiet
  /\ peers[c].state = "closed" /\ ~ peers[c].reported
  /\ forget({r})
  /\ peers' = [closing({r}) EXCEPT ![c].reported = TRUE]

----
(***************************************************************************)
(* The events of data channels                                             *)
(***************************************************************************)
onopen_Silent(o) ==   \* mutant: the calls that wait are not told
  /\ quiet
  /\ objects[o].readyState = "connecting"
  /\ peers[objects[o].conn].remoteDescription
  /\ objects' = [objects EXCEPT ![o].readyState = "open"]
  /\ UNCHANGED <<negotiation, channels, inbox, senders>>

onopen(o) ==
  /\ quiet
  /\ objects[o].readyState = "connecting"
  /\ peers[objects[o].conn].remoteDescription
  /\ objects' = [objects EXCEPT ![o].readyState = "open"]
  /\ senders' = [s \in Senders |->
       IF senders[s] = [at |-> "waiting", key |-> objects[o].key]
         THEN [senders[s] EXCEPT !.at = "woken"]
         ELSE senders[s]]
  /\ UNCHANGED <<negotiation, channels, inbox>>

\* The label of a channel that the other end created is its own id.
ondatachannel(c, label) ==
  /\ quiet
  /\ peers[c].state = "open" /\ peers[c].remoteDescription
  /\ peers[c].localId # None
  /\ configure(<<label, peers[c].localId>>, c)
  /\ UNCHANGED <<negotiation, inbox, senders>>

\* The other end closes a channel: onclose changes nothing here.
onclose(o) ==
  /\ quiet
  /\ objects[o].readyState = "open"
  /\ objects' = [objects EXCEPT ![o].readyState = "closed"]
  /\ UNCHANGED <<negotiation, channels, inbox, senders>>

\* A message is a Blob, whose bytes are read in the background.
onmessage(o) ==
  /\ quiet
  /\ objects[o].readyState = "open"
  /\ arrived < MaxMessages
  /\ arrived' = arrived + 1
  /\ arriving' = arriving \cup {<<objects[o].key, arrived + 1>>}
  /\ UNCHANGED <<negotiation, objects, channels, queuedMessages, received, receivers, senders>>

queueAndEmitMessage_Silent(key, msg) ==   \* mutant: the message is only queued
  /\ quiet
  /\ <<key, msg>> \in arriving
  /\ arriving' = arriving \ {<<key, msg>>}
  /\ queuedMessages' = [queuedMessages EXCEPT ![key] =
                          IF channels[key] # 0 THEN Append(@, msg) ELSE @]
  /\ UNCHANGED <<negotiation, objects, channels, arrived, received, receivers, senders>>

\* Every receiver that waits for the pair is given the message, which is queued
\* as well. Without a channel for the pair it throws: the message is lost.
queueAndEmitMessage(key, msg) ==
  /\ quiet
  /\ <<key, msg>> \in arriving
  /\ arriving' = arriving \ {<<key, msg>>}
  /\ \/ /\ channels[key] # 0
        /\ queuedMessages' = [queuedMessages EXCEPT ![key] = Append(@, msg)]
        /\ receivers' = [c \in Receivers |->
             IF receivers[c] = [at |-> "waiting", key |-> key]
               THEN [at |-> "woken", key |-> key, msg |-> msg]
               ELSE receivers[c]]
     \/ channels[key] = 0 /\ UNCHANGED <<queuedMessages, receivers>>
  /\ UNCHANGED <<negotiation, objects, channels, arrived, received, senders>>

----
(***************************************************************************)
(* send and recv                                                           *)
(***************************************************************************)
send(s, key) ==
  /\ quiet
  /\ senders[s] = Idle
  /\ \/ isOpen(key) /\ UNCHANGED senders
     \/ ~ isOpen(key) /\ senders' = [senders EXCEPT ![s] = [at |-> "waiting", key |-> key]]
  /\ UNCHANGED <<negotiation, objects, channels, inbox>>

\* The channel is looked up again: it may be another one, not open yet. Without
\* any channel of the remote id the lookup throws.
resumeSend(s) ==
  LET key == senders[s].key
      known == \E l \in Locals : channels[<<key[1], l>>] # 0
  IN
  /\ senders[s].at = "woken"
  /\ senders' = [senders EXCEPT ![s] = IF isOpen(key) \/ ~ known
                                         THEN Idle
                                         ELSE [at |-> "waiting", key |-> key]]
  /\ UNCHANGED <<negotiation, objects, channels, inbox>>

recv(c, key) ==
  /\ quiet
  /\ receivers[c] = Idle
  /\ \/ /\ queuedMessages[key] # <<>>
        /\ received' = [received EXCEPT ![key] = Append(@, Head(queuedMessages[key]))]
        /\ queuedMessages' = [queuedMessages EXCEPT ![key] = Tail(@)]
        /\ UNCHANGED receivers
     \/ /\ queuedMessages[key] = <<>>
        /\ receivers' = [receivers EXCEPT ![c] = [at |-> "waiting", key |-> key]]
        /\ UNCHANGED <<queuedMessages, received>>
  /\ UNCHANGED <<negotiation, objects, channels, arriving, arrived, senders>>

resumeRecv_Keeps(c) ==   \* mutant: the message stays in the queue
  LET key == receivers[c].key IN
  /\ receivers[c].at = "woken"
  /\ received' = [received EXCEPT ![key] = Append(@, receivers[c].msg)]
  /\ receivers' = [receivers EXCEPT ![c] = Idle]
  /\ UNCHANGED <<negotiation, objects, channels, queuedMessages, arriving, arrived, senders>>

\* The event brought the message; the queue gives up whatever is at its head.
resumeRecv(c) ==
  LET key == receivers[c].key IN
  /\ receivers[c].at = "woken"
  /\ received' = [received EXCEPT ![key] = Append(@, receivers[c].msg)]
  /\ queuedMessages' = [queuedMessages EXCEPT ![key] = IF @ = <<>> THEN @ ELSE Tail(@)]
  /\ receivers' = [receivers EXCEPT ![c] = Idle]
  /\ UNCHANGED <<negotiation, objects, channels, arriving, arrived, senders>>

----
Negotiate == \E k \in Calls :
  \/ \E r \in Remotes : \/ handleAnswer(k, r)
                        \/ \E l \in Locals : getOffer(k, r, l) \/ handleOffer(k, r, l)
  \/ offer(k) \/ setRemoteDescription(k) \/ answer(k) \/ acceptAnswer(k) \/ reject(k)

Disconnect == \/ \E r \in Remotes : shutdown(r)
              \/ \E c \in Connections : connectionstatechange(c)
              \/ close

Channel == \/ \E o \in DOMAIN objects : onopen(o) \/ onclose(o) \/ onmessage(o)
           \/ \E c \in Connections, label \in Remotes : ondatachannel(c, label)
           \/ \E key \in Keys, msg \in Messages : queueAndEmitMessage(key, msg)

Next == \/ Negotiate
        \/ \E r \in Remotes, candidate \in Candidates : handleCandidate(r, candidate)
        \/ Disconnect
        \/ Channel
        \/ \E s \in Senders : resumeSend(s) \/ \E key \in Keys : send(s, key)
        \/ \E c \in Receivers : resumeRecv(c) \/ \E r \in Remotes : recv(c, <<r, c>>)

Spec == Init /\ [][Next]_vars

----
(***************************************************************************)
(* Properties                                                              *)
(***************************************************************************)

\* No send keeps waiting for an event that has already passed: when the channel
\* of its pair is open, whichever object that is by then, it has been sent.
NoSendForgotten ==
  quiet => \A s \in Senders : senders[s].at = "waiting" => ~ isOpen(senders[s].key)

\* No recv keeps waiting beside a message that is queued for its pair.
NoRecvForgotten ==
  quiet => \A c \in Receivers :
    receivers[c].at = "waiting" => queuedMessages[receivers[c].key] = <<>>

\* A connection that was not closed is in the map, so that a shutdown finds it:
\* none is overwritten by a later offer for the same remote id.
NoConnectionLeaked ==
  \A c \in Connections : peers[c].state = "open" => connections[peers[c].remote] = c

\* However early candidates come, and whatever was shut down before, none stays
\* in the queue once the connection has its remote description.
NoCandidateForgotten ==
  \A r \in Remotes :
    LET answering == \E k \in Calls : /\ calls[k].at = "answer"
                                      /\ calls[k].conn = connections[r]
    IN  described(r) /\ ~ answering => queuedCandidates[r] = {}

\* Messages are received in the order they were queued, each of them once,
\* although the recv that waits gets its message by an event and only then takes
\* one from the queue. (With one recv at a time for each local id: two that wait
\* for one pair are both given one message.)
FirstInFirstOut == FIFO!Spec

====
