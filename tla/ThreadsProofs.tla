---- MODULE ThreadsProofs ----
(***************************************************************************)
(* What the threads of a page wait for, and know of descriptors and of     *)
(* aliases, for any number of threads, whatever overtakes what on the way  *)
(* between workers.                                                        *)
(***************************************************************************)
EXTENDS Threads, TLAPS, FiniteSetTheorems, SequenceTheorems

\* The messages in a queue.
Held(queue) == {queue[k] : k \in DOMAIN queue}

\* At most one message of S is in the queue.
Once(queue, S) == \A j, k \in DOMAIN queue : queue[j] \in S /\ queue[k] \in S => j = k

----
(***************************************************************************)
(* The messages: those that a call waits for, and the others.              *)
(***************************************************************************)
Descriptors == 1 .. MaxDescriptors

WorkerBinds == Binds \cup {STUB}

Maps(S) == UNION {[D -> S] : D \in SUBSET Descriptors}

Updates == [cmd : {"bindUpdate"}, fd : Descriptors, bind : Binds]
             \cup [cmd : {"aliasUpdate"}, alias : Aliases, id : Ids, isDelete : BOOLEAN]
Requests == [cmd : {"fetchBinds", "socketDescriptor"}]
              \cup [cmd : {"wrtcSend"}, remoteId : Ids, localId : Threads]

Notices == [cmd : {"notifyBindAdd"}, fd : Descriptors, bind : Binds]
             \cup [cmd : {"notifyAliasAdd"}, alias : Aliases, id : Ids, isDelete : BOOLEAN]
Answers == [cmd : {"onFetchBinds"}, binds : Maps(Binds), aliases : Tables]
             \cup [cmd : {"onSocketDescriptor"}, fd : Descriptors]
             \cup [cmd : {"onWrtcSendCallback"}]

Broadcasts == [op : {"alias"}, alias : Aliases, id : Ids, set : BOOLEAN]
Endings == [op : {"returns"}, alias : Aliases] \cup [op : {"fails"}]

MainMessages == Updates \cup Requests
WorkerMessages == Notices \cup Answers
News == Broadcasts \cup Endings

Transports == [thread : Threads, remoteId : Ids, localId : Threads]

Typed ==
  /\ aliases \in Tables /\ used \subseteq Aliases
  /\ isConnected \in [Threads -> BOOLEAN]
  /\ aliasesHolder \in [Threads -> Tables] /\ socketAliases \in Tables
  /\ call \in [Threads -> Calls]
  /\ socketDescriptors \in 0 .. MaxDescriptors
  /\ socketBinds \in Maps(Binds)
  /\ binds \in [Threads -> Maps(WorkerBinds)]
  /\ clientAliases \in [Threads -> Maps(Aliases)]
  /\ news \in [Threads -> Seq(News)]
  /\ toMain \in [Threads -> Seq(MainMessages)]
  /\ toWorker \in [Threads -> Seq(WorkerMessages)]
  /\ transporter \subseteq Transports

----
(***************************************************************************)
(* A call, and what it waits for.                                          *)
(***************************************************************************)
requested(t) == Held(toMain[t]) \cap Requests
answered(t) == Held(toWorker[t]) \cap Answers
ended(t) == Held(news[t]) \cap Endings
carried(t) == {w \in transporter : w.thread = t}

\* Whatever a thread waits for is under way once, and is what the call needs.
Awaited(t) ==
  /\ Once(toMain[t], Requests) /\ Once(toWorker[t], Answers) /\ Once(news[t], Endings)
  /\ \A w, v \in carried(t) : w = v
  /\ requested(t) # {} => answered(t) = {} /\ carried(t) = {}
  /\ answered(t) # {} => carried(t) = {}
  /\ \A m \in requested(t) \cup answered(t) :
       /\ m.cmd \in {"socketDescriptor", "onSocketDescriptor"} => call[t].at = "descriptor"
       /\ m.cmd \in {"fetchBinds", "onFetchBinds"} => call[t].at = "binds"
       /\ m.cmd \in {"wrtcSend", "onWrtcSendCallback"} => call[t].at = "transporter"
  /\ carried(t) # {} => call[t].at = "transporter"
  /\ ended(t) # {} => call[t].at = "client"

\* A call waits for what its kind of call needs. While it waits, nothing happens
\* to its descriptor.
CallTrue(t, c, its) ==
  /\ c.at = "ready" => c.op = "socket"
  /\ c.at = "descriptor" =>
       /\ c.op \in {"socket", "accept"}
       /\ c.op = "accept" => c.fd \in DOMAIN its /\ its[c.fd] # STUB
  /\ c.at = "binds" => c.op = "send" /\ t \in Sharing
  /\ c.at = "transporter" => c.op = "send"
  /\ c.at = "client" =>
       /\ c.op \in {"bind", "accept", "connect"} /\ c.fd \in DOMAIN its
       /\ c.op \in {"bind", "accept"} => its[c.fd] = STUB
       /\ c.op = "connect" => its[c.fd] = Bind(c.alias, t)
       /\ c.op = "bind" => c.alias \in BindAliases
       /\ c.op = "connect" => c.alias \in BindAliases \cup RemoteAliases

\* The threads that are still to be given a descriptor.
due == {t \in Threads : \/ call[t].at = "ready"
                        \/ [cmd |-> "socketDescriptor"] \in Held(toMain[t])}

DescriptorsLeft == socketDescriptors + Cardinality(due) <= MaxDescriptors

CallsInv ==
  /\ Typed
  /\ \A t \in Threads : Awaited(t) /\ CallTrue(t, call[t], binds[t])
  /\ DescriptorsLeft

----
(***************************************************************************)
(* Descriptors.                                                            *)
(***************************************************************************)

\* The thread whose descriptor this is.
Holds(t, fd) ==
  fd \in DOMAIN binds[t] /\ (binds[t][fd] = STUB \/ binds[t][fd].connectorId = t)

\* Somebody has this bind for the descriptor, or is about to be told.
Claimed(fd, bind) ==
  \/ \E t \in Threads : fd \in DOMAIN binds[t] /\ binds[t][fd] = bind /\ bind # STUB
  \/ fd \in DOMAIN socketBinds /\ socketBinds[fd] = bind
  \/ \E t \in Threads : \E m \in Held(toMain[t]) :
       m.cmd = "bindUpdate" /\ m.fd = fd /\ m.bind = bind
  \/ \E t \in Threads : \E m \in Held(toWorker[t]) :
       \/ m.cmd = "notifyBindAdd" /\ m.fd = fd /\ m.bind = bind
       \/ m.cmd = "onFetchBinds" /\ fd \in DOMAIN m.binds /\ m.binds[fd] = bind

\* It is what the thread has whose descriptor it is.
ClaimsTrue ==
  \A fd \in Descriptors, bind \in Binds : Claimed(fd, bind) =>
    fd \in DOMAIN binds[bind.connectorId] /\ binds[bind.connectorId][fd] = bind

OneHolder ==
  \A fd \in Descriptors : \A t, u \in Threads : Holds(t, fd) /\ Holds(u, fd) => t = u

Given(t, fd) == [cmd |-> "onSocketDescriptor", fd |-> fd] \in Held(toWorker[t])

\* A descriptor that is handed out is new to everybody.
GivenNew ==
  \A fd \in Descriptors : \A t \in Threads : Given(t, fd) =>
    /\ fd <= socketDescriptors
    /\ \A u \in Threads : ~ Holds(u, fd) /\ (Given(u, fd) => t = u)

DescriptorsCounted ==
  \A t \in Threads :
    DOMAIN binds[t] \subseteq 1 .. socketDescriptors /\ DOMAIN clientAliases[t] \subseteq DOMAIN binds[t]

\* The main thread has a bind, or is about to be told.
Arrives(fd) ==
  \/ fd \in DOMAIN socketBinds
  \/ \E u \in Threads : \E m \in Held(toMain[u]) : m.cmd = "bindUpdate" /\ m.fd = fd

BindsArrive ==
  \A t \in Threads : \A fd \in DOMAIN binds[t] : binds[t][fd] # STUB => Arrives(fd)

BindsInv == ClaimsTrue /\ OneHolder /\ GivenNew /\ DescriptorsCounted /\ BindsArrive

----
(***************************************************************************)
(* Queues and maps                                                         *)
(***************************************************************************)
LEMMA SeqFacts ==
  ASSUME NEW S, NEW q \in Seq(S)
  PROVE  /\ Len(q) \in Nat /\ DOMAIN q = 1 .. Len(q)
         /\ \A k \in DOMAIN q : q[k] \in S /\ q[k] \in Held(q)
         /\ Held(q) \subseteq S
<1>1. Len(q) \in Nat /\ DOMAIN q = 1 .. Len(q) /\ \A k \in DOMAIN q : q[k] \in S
  OBVIOUS
<1> QED
  BY <1>1 DEF Held

LEMMA ConcatFacts ==
  ASSUME NEW S, NEW q \in Seq(S), NEW r \in Seq(S)
  PROVE  /\ q \o r \in Seq(S)
         /\ DOMAIN (q \o r) = 1 .. (Len(q) + Len(r))
         /\ \A k \in 1 .. Len(q) : (q \o r)[k] = q[k]
         /\ \A k \in 1 .. Len(r) : (q \o r)[Len(q) + k] = r[k]
         /\ \A k \in DOMAIN (q \o r) :
              k \in DOMAIN q \/ (k - Len(q) \in DOMAIN r /\ (q \o r)[k] = r[k - Len(q)])
         /\ Held(q \o r) = Held(q) \cup Held(r)
<1>1. /\ q \o r \in Seq(S)
      /\ DOMAIN (q \o r) = 1 .. (Len(q) + Len(r))
      /\ DOMAIN q = 1 .. Len(q) /\ DOMAIN r = 1 .. Len(r) /\ Len(q) \in Nat /\ Len(r) \in Nat
      /\ \A k \in 1 .. Len(q) : (q \o r)[k] = q[k]
      /\ \A k \in 1 .. Len(r) : (q \o r)[Len(q) + k] = r[k]
  OBVIOUS
<1>2. \A k \in DOMAIN (q \o r) :
        k \in DOMAIN q \/ (k - Len(q) \in DOMAIN r /\ (q \o r)[k] = r[k - Len(q)])
  <2> SUFFICES ASSUME NEW k \in 1 .. (Len(q) + Len(r)), k \notin 1 .. Len(q)
               PROVE  k - Len(q) \in 1 .. Len(r) /\ (q \o r)[k] = r[k - Len(q)]
    BY <1>1
  <2>1. k - Len(q) \in 1 .. Len(r) /\ Len(q) + (k - Len(q)) = k
    BY <1>1
  <2> QED
    BY <1>1, <2>1
<1>3. Held(q \o r) \subseteq Held(q) \cup Held(r)
  BY <1>1, <1>2 DEF Held
<1>4. \A k \in DOMAIN r : Len(q) + k \in DOMAIN (q \o r)
  BY <1>1
<1>5. \A k \in DOMAIN q : k \in DOMAIN (q \o r)
  BY <1>1
<1>6. Held(q) \cup Held(r) \subseteq Held(q \o r)
  BY <1>1, <1>4, <1>5 DEF Held
<1> QED
  BY <1>1, <1>2, <1>3, <1>6

LEMMA TailFacts ==
  ASSUME NEW S, NEW q \in Seq(S), q # <<>>
  PROVE  /\ Head(q) \in S /\ Head(q) \in Held(q) /\ Head(q) = q[1] /\ 1 \in DOMAIN q
         /\ Tail(q) \in Seq(S) /\ DOMAIN Tail(q) = 1 .. (Len(q) - 1)
         /\ \A k \in DOMAIN Tail(q) : k + 1 \in DOMAIN q /\ Tail(q)[k] = q[k + 1]
         /\ \A k \in DOMAIN q : k # 1 => k - 1 \in DOMAIN Tail(q) /\ Tail(q)[k - 1] = q[k]
         /\ Held(q) = Held(Tail(q)) \cup {Head(q)}
<1>1. /\ Head(q) \in S /\ Tail(q) \in Seq(S) /\ Len(q) \in Nat \ {0}
      /\ DOMAIN q = 1 .. Len(q) /\ DOMAIN Tail(q) = 1 .. (Len(q) - 1)
      /\ Head(q) = q[1] /\ \A k \in 1 .. (Len(q) - 1) : Tail(q)[k] = q[k + 1]
  OBVIOUS
<1>2. \A k \in DOMAIN q : k # 1 => k - 1 \in DOMAIN Tail(q) /\ Tail(q)[k - 1] = q[k]
  BY <1>1
<1>3. \A k \in DOMAIN Tail(q) : k + 1 \in DOMAIN q /\ Tail(q)[k] = q[k + 1]
  BY <1>1
<1>4. 1 \in DOMAIN q
  BY <1>1
<1>5. Held(Tail(q)) \cup {Head(q)} \subseteq Held(q)
  BY <1>1, <1>3, <1>4 DEF Held
<1>6. ASSUME NEW k \in DOMAIN q PROVE q[k] \in Held(Tail(q)) \cup {Head(q)}
  <2>1. CASE k = 1
    BY <1>1, <2>1
  <2>2. CASE k # 1
    BY <1>2, <2>2 DEF Held
  <2> QED
    BY <2>1, <2>2
<1>7. Held(q) = Held(Tail(q)) \cup {Head(q)}
  BY <1>5, <1>6 DEF Held
<1> QED
  BY <1>1, <1>2, <1>3, <1>4, <1>5, <1>7

LEMMA Single ==
  ASSUME NEW S, NEW x \in S
  PROVE  /\ <<x>> \in Seq(S) /\ Held(<<x>>) = {x} /\ Len(<<x>>) = 1 /\ <<x>>[1] = x
         /\ \A T : Once(<<x>>, T)
<1>1. DOMAIN <<x>> = {1}
  OBVIOUS
<1> QED
  BY <1>1 DEF Held, Once

LEMMA Double ==
  ASSUME NEW S, NEW x \in S, NEW y \in S
  PROVE  /\ <<x, y>> \in Seq(S) /\ Held(<<x, y>>) = {x, y}
         /\ Len(<<x, y>>) = 2 /\ <<x, y>>[1] = x /\ <<x, y>>[2] = y
         /\ DOMAIN <<x, y>> = {1, 2}
<1>1. DOMAIN <<x, y>> = {1, 2}
  OBVIOUS
<1>2. Held(<<x, y>>) = {x, y}
  BY <1>1 DEF Held
<1> QED
  BY <1>1, <1>2

LEMMA Triple ==
  ASSUME NEW S, NEW x \in S, NEW y \in S, NEW z \in S
  PROVE  /\ <<x, y, z>> \in Seq(S) /\ Held(<<x, y, z>>) = {x, y, z}
         /\ Len(<<x, y, z>>) = 3
         /\ <<x, y, z>>[1] = x /\ <<x, y, z>>[2] = y /\ <<x, y, z>>[3] = z
         /\ DOMAIN <<x, y, z>> = {1, 2, 3}
<1>1. DOMAIN <<x, y, z>> = {1, 2, 3}
  OBVIOUS
<1>2. Held(<<x, y, z>>) = {x, y, z}
  BY <1>1 DEF Held
<1> QED
  BY <1>1, <1>2

LEMMA AppendToOne ==
  ASSUME NEW S, NEW x \in S, NEW y \in S
  PROVE  Append(<<x>>, y) = <<x, y>>
<1>1. <<x>> \in Seq(S) /\ Len(<<x>>) = 1 /\ <<x>>[1] = x
  BY Single
<1>2. <<x, y>> \in Seq(S) /\ Len(<<x, y>>) = 2 /\ <<x, y>>[1] = x /\ <<x, y>>[2] = y
  BY Double
<1>3. PICK o \in Seq(S) : o = <<x>> /\ Len(o) = 1 /\ o[1] = x
  BY <1>1
<1>4. PICK p : p = <<x, y>> /\ p \in Seq(S) /\ Len(p) = 2 /\ p[1] = x /\ p[2] = y
  BY <1>2
<1>5. /\ Append(o, y) \in Seq(S) /\ Len(Append(o, y)) = Len(o) + 1
      /\ \A i \in 1 .. Len(o) : Append(o, y)[i] = o[i]
      /\ Append(o, y)[Len(o) + 1] = y
  BY AppendProperties
<1>6. Len(Append(o, y)) = 2 /\ Append(o, y)[1] = x /\ Append(o, y)[2] = y
  BY <1>3, <1>5
<1>7. Append(o, y) = p
  <2>1. Len(Append(o, y)) = Len(p) /\ \A i \in 1 .. Len(Append(o, y)) : Append(o, y)[i] = p[i]
    BY <1>4, <1>6
  <2> QED
    BY <1>4, <1>5, <2>1, SeqEqual
<1> QED
  BY <1>3, <1>4, <1>7

LEMMA OneMore ==
  ASSUME NEW S, NEW q \in Seq(S), NEW m \in S
  PROVE  q \o <<m>> \in Seq(S) /\ Held(q \o <<m>>) = Held(q) \cup {m}
<1>1. PICK r \in Seq(S) : r = <<m>> /\ Held(r) = {m}
  BY Single
<1>2. q \o r \in Seq(S) /\ Held(q \o r) = Held(q) \cup Held(r)
  BY ConcatFacts
<1> QED
  BY <1>1, <1>2

\* The messages of S in the second queue are among those in the first.
Lighter(q, r, S) == (Once(q, S) => Once(r, S)) /\ Held(r) \cap S \subseteq Held(q)

LEMMA LighterConcat ==
  ASSUME NEW M, NEW S, NEW q \in Seq(M), NEW r \in Seq(M), Held(r) \cap S = {}
  PROVE  Lighter(q, q \o r, S) /\ q \o r \in Seq(M)
<1>1. \A k \in DOMAIN (q \o r) : (q \o r)[k] \in S => k \in DOMAIN q /\ (q \o r)[k] = q[k]
  <2>1. \A k \in DOMAIN r : r[k] \notin S
    BY DEF Held
  <2> QED
    BY <2>1, ConcatFacts
<1>2. Once(q, S) => Once(q \o r, S)
  BY <1>1 DEF Once
<1> QED
  BY <1>2, ConcatFacts DEF Lighter

LEMMA LighterTail ==
  ASSUME NEW M, NEW S, NEW q \in Seq(M), q # <<>>
  PROVE  /\ Lighter(q, Tail(q), S) /\ Tail(q) \in Seq(M)
         /\ Once(q, S) /\ Head(q) \in S => Held(Tail(q)) \cap S = {}
<1>1. Once(q, S) => Once(Tail(q), S)
  <2> SUFFICES ASSUME Once(q, S), NEW j \in DOMAIN Tail(q), NEW k \in DOMAIN Tail(q),
                      Tail(q)[j] \in S, Tail(q)[k] \in S
               PROVE  j = k
    BY DEF Once
  <2>1. j + 1 = k + 1
    BY TailFacts DEF Once
  <2> QED
    BY <2>1, TailFacts
<1>2. ASSUME Once(q, S), Head(q) \in S, NEW k \in DOMAIN Tail(q), Tail(q)[k] \in S
      PROVE  FALSE
  <2>1. k + 1 = 1
    BY <1>2, TailFacts DEF Once
  <2> QED
    BY <2>1, TailFacts
<1>3. Once(q, S) /\ Head(q) \in S => Held(Tail(q)) \cap S = {}
  BY <1>2 DEF Held
<1> QED
  BY <1>1, <1>3, TailFacts DEF Lighter

LEMMA OnceConcat ==
  ASSUME NEW M, NEW S, NEW q \in Seq(M), NEW r \in Seq(M), Held(q) \cap S = {}, Once(r, S)
  PROVE  Once(q \o r, S)
<1>1. \A k \in DOMAIN (q \o r) : (q \o r)[k] \in S =>
        k - Len(q) \in DOMAIN r /\ r[k - Len(q)] \in S
  <2>1. \A k \in DOMAIN q : q[k] \notin S
    BY DEF Held
  <2>2. \A k \in DOMAIN q : (q \o r)[k] = q[k]
    BY ConcatFacts, SeqFacts
  <2> QED
    BY <2>1, <2>2, ConcatFacts
<1>2. SUFFICES ASSUME NEW j \in DOMAIN (q \o r), NEW k \in DOMAIN (q \o r),
                      (q \o r)[j] \in S, (q \o r)[k] \in S
               PROVE  j = k
  BY DEF Once
<1>3. j - Len(q) = k - Len(q)
  BY <1>1, <1>2 DEF Once
<1> QED
  BY <1>3, ConcatFacts, SeqFacts

LEMMA MapFacts ==
  ASSUME NEW S, NEW f \in Maps(S)
  PROVE  DOMAIN f \subseteq Descriptors /\ f \in [DOMAIN f -> S]
  BY DEF Maps

LEMMA PutFacts ==
  ASSUME NEW S, NEW f \in Maps(S), NEW k \in Descriptors, NEW v \in S
  PROVE  /\ Put(f, k, v) \in Maps(S)
         /\ DOMAIN Put(f, k, v) = DOMAIN f \cup {k}
         /\ \A x \in DOMAIN f \cup {k} : Put(f, k, v)[x] = IF x = k THEN v ELSE f[x]
<1>1. DOMAIN f \subseteq Descriptors /\ f \in [DOMAIN f -> S]
  BY MapFacts
<1>2. DOMAIN f \cup {k} \in SUBSET Descriptors /\ Put(f, k, v) \in [DOMAIN f \cup {k} -> S]
  BY <1>1 DEF Put
<1> QED
  BY <1>2 DEF Maps, Put

----
(***************************************************************************)
(* What calls wait for                                                     *)
(***************************************************************************)
LEMMA MessageKinds ==
  /\ \A m \in Updates : m.cmd \in {"bindUpdate", "aliasUpdate"}
  /\ \A m \in Requests : m.cmd \in {"fetchBinds", "socketDescriptor", "wrtcSend"}
  /\ \A m \in Notices : m.cmd \in {"notifyBindAdd", "notifyAliasAdd"}
  /\ \A m \in Answers : m.cmd \in {"onFetchBinds", "onSocketDescriptor", "onWrtcSendCallback"}
  /\ \A m \in Broadcasts : m.op = "alias"
  /\ \A m \in Endings : m.op \in {"returns", "fails"}
  /\ Updates \cap Requests = {} /\ Notices \cap Answers = {} /\ Broadcasts \cap Endings = {}
<1>1. \A m \in Updates : m.cmd \in {"bindUpdate", "aliasUpdate"}
  BY DEF Updates
<1>2. \A m \in Requests : m.cmd \in {"fetchBinds", "socketDescriptor", "wrtcSend"}
  BY DEF Requests
<1>3. \A m \in Notices : m.cmd \in {"notifyBindAdd", "notifyAliasAdd"}
  BY DEF Notices
<1>4. \A m \in Answers : m.cmd \in {"onFetchBinds", "onSocketDescriptor", "onWrtcSendCallback"}
  BY DEF Answers
<1>5. \A m \in Broadcasts : m.op = "alias"
  BY DEF Broadcasts
<1>6. \A m \in Endings : m.op \in {"returns", "fails"}
  BY DEF Endings
<1>7. Updates \cap Requests = {} /\ Notices \cap Answers = {} /\ Broadcasts \cap Endings = {}
  BY <1>1, <1>2, <1>3, <1>4, <1>5, <1>6
<1> QED
  BY <1>1, <1>2, <1>3, <1>4, <1>5, <1>6, <1>7

LEMMA AwaitedKept ==
  ASSUME NEW t \in Threads, Awaited(t), call'[t].at = call[t].at,
         Lighter(toMain[t], toMain'[t], Requests), Lighter(toWorker[t], toWorker'[t], Answers),
         Lighter(news[t], news'[t], Endings), carried(t)' \subseteq carried(t)
  PROVE  Awaited(t)'
<1>1. /\ requested(t)' \subseteq requested(t) /\ answered(t)' \subseteq answered(t)
      /\ ended(t)' \subseteq ended(t)
  BY DEF Lighter, requested, answered, ended, Held
<1> QED
  BY <1>1 DEF Awaited, Lighter

LEMMA DueKept ==
  ASSUME ThreadsAssumption, DescriptorsLeft, socketDescriptors \in 0 .. MaxDescriptors,
         due' \subseteq due, socketDescriptors' = socketDescriptors
  PROVE  DescriptorsLeft'
<1>1. IsFiniteSet(due)
  BY FS_Subset DEF due, ThreadsAssumption
<1>2. IsFiniteSet(due') /\ Cardinality(due') <= Cardinality(due)
  BY <1>1, FS_Subset
<1>3. Cardinality(due) \in Nat /\ Cardinality(due') \in Nat
  BY <1>1, <1>2, FS_CardinalityType
<1> QED
  BY <1>2, <1>3 DEF DescriptorsLeft, ThreadsAssumption

\* Other threads are told.
LEMMA NotifyFacts ==
  ASSUME toWorker \in [Threads -> Seq(WorkerMessages)], NEW t \in Threads, NEW m \in Notices,
         notifyAllThreads(t, m)
  PROVE  /\ toWorker' \in [Threads -> Seq(WorkerMessages)]
         /\ \A u \in Threads : toWorker'[u] = IF u \in notified(t) THEN toWorker[u] \o <<m>>
                                                                  ELSE toWorker[u]
         /\ \A u \in Threads : Lighter(toWorker[u], toWorker'[u], Answers)
         /\ \A u \in Threads : Held(toWorker'[u]) = IF u \in notified(t) THEN Held(toWorker[u]) \cup {m}
                                                                        ELSE Held(toWorker[u])
<1>1. \A u \in Threads : toWorker'[u] = IF u \in notified(t) THEN toWorker[u] \o <<m>>
                                                             ELSE toWorker[u]
  <2>1. \A u \in Threads : Append(toWorker[u], m) = toWorker[u] \o <<m>>
    BY AppendIsConcat DEF WorkerMessages
  <2> QED
    BY <2>1 DEF notifyAllThreads
<1>2. \A u \in Threads : /\ Lighter(toWorker[u], toWorker'[u], Answers)
                         /\ toWorker'[u] \in Seq(WorkerMessages)
  <2> TAKE u \in Threads
  <2>1. <<m>> \in Seq(WorkerMessages) /\ Held(<<m>>) \cap Answers = {}
    BY Single, MessageKinds DEF WorkerMessages
  <2>2. /\ Lighter(toWorker[u], toWorker[u] \o <<m>>, Answers)
        /\ toWorker[u] \o <<m>> \in Seq(WorkerMessages)
    BY <2>1, LighterConcat
  <2>3. Lighter(toWorker[u], toWorker[u], Answers)
    BY DEF Lighter
  <2> QED
    BY <1>1, <2>2, <2>3
<1>3. toWorker' \in [Threads -> Seq(WorkerMessages)]
  BY <1>2 DEF notifyAllThreads
<1>4. \A u \in Threads : Held(toWorker[u] \o <<m>>) = Held(toWorker[u]) \cup {m}
  BY OneMore DEF WorkerMessages
<1> QED
  BY <1>1, <1>2, <1>3, <1>4

\* A thread is given what it waits for.
LEMMA AnswerFacts ==
  ASSUME toWorker \in [Threads -> Seq(WorkerMessages)], NEW t \in Threads, NEW m \in Answers,
         answer(t, m)
  PROVE  /\ toWorker' \in [Threads -> Seq(WorkerMessages)]
         /\ \A u \in Threads : toWorker'[u] = IF u = t THEN toWorker[u] \o <<m>> ELSE toWorker[u]
         /\ \A u \in Threads : Held(toWorker'[u]) = IF u = t THEN Held(toWorker[u]) \cup {m}
                                                            ELSE Held(toWorker[u])
<1>1. toWorker' = [toWorker EXCEPT ![t] = toWorker[t] \o <<m>>]
  <2>1. Append(toWorker[t], m) = toWorker[t] \o <<m>>
    BY AppendIsConcat DEF WorkerMessages
  <2> QED
    BY <2>1 DEF answer, getThread
<1>2. toWorker[t] \o <<m>> \in Seq(WorkerMessages)
  <2>1. <<m>> \in Seq(WorkerMessages)
    BY Single DEF WorkerMessages
  <2> QED
    BY <2>1, ConcatFacts
<1>3. Held(toWorker[t] \o <<m>>) = Held(toWorker[t]) \cup {m}
  BY OneMore DEF WorkerMessages
<1> QED
  BY <1>1, <1>2, <1>3

LEMMA RequestAnswered ==
  ASSUME toWorker \in [Threads -> Seq(WorkerMessages)], NEW t \in Threads, NEW m \in Answers,
         answer(t, m), Awaited(t), Once(toMain'[t], Requests), requested(t)' = {},
         answered(t) = {}, carried(t)' = {}, news' = news, call' = call,
         m.cmd = "onSocketDescriptor" => call[t].at = "descriptor",
         m.cmd = "onFetchBinds" => call[t].at = "binds",
         m.cmd = "onWrtcSendCallback" => call[t].at = "transporter"
  PROVE  Awaited(t)'
<1>1. toWorker'[t] = toWorker[t] \o <<m>> /\ toWorker[t] \in Seq(WorkerMessages)
  BY AnswerFacts
<1>2. <<m>> \in Seq(WorkerMessages) /\ Held(<<m>>) = {m} /\ Once(<<m>>, Answers)
  BY Single DEF WorkerMessages
<1>3. Once(toWorker'[t], Answers)
  BY <1>1, <1>2, OnceConcat DEF answered
<1>4. answered(t)' = {m}
  <2>1. Held(toWorker'[t]) = Held(toWorker[t]) \cup {m}
    BY <1>1, OneMore DEF WorkerMessages
  <2>2. answered(t)' = Held(toWorker'[t]) \cap Answers
    BY DEF answered, Held
  <2>3. Held(toWorker[t]) \cap Answers = {}
    BY DEF answered
  <2> QED
    BY <2>1, <2>2, <2>3
<1> QED
  BY <1>3, <1>4, MessageKinds DEF Awaited, ended, Held

\* The main thread takes a message.
LEMMA TakenFromMain ==
  ASSUME Typed, NEW t \in Threads, toMain[t] # <<>>, toMain' = [toMain EXCEPT ![t] = Tail(@)]
  PROVE  /\ toMain' \in [Threads -> Seq(MainMessages)]
         /\ Head(toMain[t]) \in MainMessages /\ Head(toMain[t]) \in Held(toMain[t])
         /\ \A u \in Threads : /\ Lighter(toMain[u], toMain'[u], Requests)
                               /\ Held(toMain'[u]) \subseteq Held(toMain[u])
         /\ Held(toMain[t]) = Held(toMain'[t]) \cup {Head(toMain[t])}
         /\ \A u \in Threads \ {t} : toMain'[u] = toMain[u]
         /\ Once(toMain[t], Requests) /\ Head(toMain[t]) \in Requests =>
              Held(toMain'[t]) \cap Requests = {}
<1>1. toMain \in [Threads -> Seq(MainMessages)] /\ toMain[t] \in Seq(MainMessages)
  BY DEF Typed
<1>2. /\ Lighter(toMain[t], Tail(toMain[t]), Requests) /\ Tail(toMain[t]) \in Seq(MainMessages)
      /\ Once(toMain[t], Requests) /\ Head(toMain[t]) \in Requests =>
           Held(Tail(toMain[t])) \cap Requests = {}
  BY <1>1, LighterTail
<1>3. /\ Head(toMain[t]) \in MainMessages
      /\ Held(toMain[t]) = Held(Tail(toMain[t])) \cup {Head(toMain[t])}
  BY <1>1, TailFacts
<1>4. \A u \in Threads : toMain'[u] = IF u = t THEN Tail(toMain[t]) ELSE toMain[u]
  BY <1>1
<1>5. \A u \in Threads : Lighter(toMain[u], toMain[u], Requests)
  BY DEF Lighter
<1>6. toMain' \in [Threads -> Seq(MainMessages)]
  BY <1>1, <1>2
<1> QED
  BY <1>2, <1>3, <1>4, <1>5, <1>6

LEMMA MainKeepsCalls ==
  ASSUME CallsInv, NEW t \in Threads, handleMessage(t)
  PROVE  CallsInv'
<1>1. PICK m : /\ m = Head(toMain[t]) /\ toMain[t] # <<>>
               /\ toMain' = [toMain EXCEPT ![t] = Tail(@)]
               /\ \/ m.cmd = "bindUpdate" /\ handleBindUpdate(t, m)
                  \/ m.cmd = "aliasUpdate" /\ handleAliasUpdate(t, m)
                  \/ m.cmd = "fetchBinds" /\ handleFetchBinds(t)
                  \/ m.cmd = "socketDescriptor" /\ handleSocketDescriptor(t)
                  \/ m.cmd = "wrtcSend" /\ handleWrtcSend(t, m)
               /\ UNCHANGED <<server, news, workers>>
  BY DEF handleMessage
<1>2. UNCHANGED <<aliases, used, news, isConnected, aliasesHolder, binds, clientAliases, call>>
  BY <1>1 DEF server, workers
<1>3. /\ toMain' \in [Threads -> Seq(MainMessages)]
      /\ m \in MainMessages /\ m \in Held(toMain[t])
      /\ \A u \in Threads : /\ Lighter(toMain[u], toMain'[u], Requests)
                            /\ Held(toMain'[u]) \subseteq Held(toMain[u])
      /\ m \in Requests => Held(toMain'[t]) \cap Requests = {}
  <2>1. Once(toMain[t], Requests)
    BY DEF CallsInv, Awaited
  <2> QED
    BY <1>1, <2>1, TakenFromMain DEF CallsInv
<1>4. \A u \in Threads : CallTrue(u, call[u], binds[u])'
  BY <1>2 DEF CallsInv, CallTrue
<1>5. \A u \in Threads : Awaited(u) /\ Lighter(news[u], news'[u], Endings)
  BY <1>2 DEF CallsInv, Lighter
<1>6. due' \subseteq due
  <2>1. \A u \in Threads : Held(toMain[u])' = Held(toMain'[u])
    BY DEF Held
  <2> QED
    BY <1>2, <1>3, <2>1 DEF due
<1>7. m \in Requests => /\ requested(t)' = {} /\ m \in requested(t)
                        /\ Once(toMain'[t], Requests)
  <2>1. requested(t)' = Held(toMain'[t]) \cap Requests
    BY DEF requested, Held
  <2>2. Once(toMain[t], Requests)
    BY <1>5 DEF Awaited
  <2> QED
    BY <1>3, <2>1, <2>2 DEF requested, Lighter
<1>8. socketDescriptors \in 0 .. MaxDescriptors /\ MaxDescriptors \in Nat
  BY ThreadsAssumption DEF CallsInv, Typed, ThreadsAssumption
<1>9. CASE m.cmd = "bindUpdate" /\ handleBindUpdate(t, m)
  <2>1. m.fd \in Descriptors /\ m.bind \in Binds
    BY <1>3, <1>9 DEF MainMessages, Updates, Requests
  <2>2. PICK n \in Notices : n = [cmd |-> "notifyBindAdd", fd |-> m.fd, bind |-> m.bind]
    BY <2>1 DEF Notices
  <2>3. /\ socketBinds' = Put(socketBinds, m.fd, m.bind) /\ notifyAllThreads(t, n)
        /\ UNCHANGED <<socketAliases, socketDescriptors, transporter>>
    BY <1>9, <2>2 DEF handleBindUpdate
  <2>4. socketBinds' \in Maps(Binds)
    BY <2>1, <2>3, PutFacts DEF CallsInv, Typed
  <2>5. /\ toWorker' \in [Threads -> Seq(WorkerMessages)]
        /\ \A u \in Threads : Lighter(toWorker[u], toWorker'[u], Answers)
    BY <2>3, NotifyFacts DEF CallsInv, Typed
  <2>6. Typed'
    BY <1>2, <1>3, <2>3, <2>4, <2>5 DEF CallsInv, Typed
  <2>7. \A u \in Threads : Awaited(u)'
    <3> TAKE u \in Threads
    <3>1. carried(u)' \subseteq carried(u)
      BY <2>3 DEF carried
    <3> QED
      BY <1>2, <1>3, <1>5, <2>5, <3>1, AwaitedKept
  <2>8. DescriptorsLeft'
    BY <1>6, <1>8, <2>3, DueKept, ThreadsAssumption DEF CallsInv
  <2> QED
    BY <1>4, <2>6, <2>7, <2>8 DEF CallsInv
<1>10. CASE m.cmd = "aliasUpdate" /\ handleAliasUpdate(t, m)
  <2>1. m.alias \in Aliases /\ m.id \in Ids /\ m.isDelete \in BOOLEAN
    BY <1>3, <1>10 DEF MainMessages, Updates, Requests
  <2>2. PICK n \in Notices : n = [cmd |-> "notifyAliasAdd", alias |-> m.alias, id |-> m.id,
                                  isDelete |-> m.isDelete]
    BY <2>1 DEF Notices
  <2>3. /\ socketAliases' = [socketAliases EXCEPT ![m.alias] = IF m.isDelete THEN NoOne ELSE m.id]
        /\ notifyAllThreads(t, n)
        /\ UNCHANGED <<socketBinds, socketDescriptors, transporter>>
    BY <1>10, <2>2 DEF handleAliasUpdate
  <2>4. socketAliases' \in Tables
    BY <2>1, <2>3 DEF CallsInv, Typed, Tables
  <2>5. /\ toWorker' \in [Threads -> Seq(WorkerMessages)]
        /\ \A u \in Threads : Lighter(toWorker[u], toWorker'[u], Answers)
    BY <2>3, NotifyFacts DEF CallsInv, Typed
  <2>6. Typed'
    BY <1>2, <1>3, <2>3, <2>4, <2>5 DEF CallsInv, Typed
  <2>7. \A u \in Threads : Awaited(u)'
    <3> TAKE u \in Threads
    <3>1. carried(u)' \subseteq carried(u)
      BY <2>3 DEF carried
    <3> QED
      BY <1>2, <1>3, <1>5, <2>5, <3>1, AwaitedKept
  <2>8. DescriptorsLeft'
    BY <1>6, <1>8, <2>3, DueKept, ThreadsAssumption DEF CallsInv
  <2> QED
    BY <1>4, <2>6, <2>7, <2>8 DEF CallsInv
<1>11. ASSUME NEW n \in Answers, answer(t, n), transporter' = transporter, m \in Requests,
              n.cmd = "onSocketDescriptor" => m.cmd = "socketDescriptor",
              n.cmd = "onFetchBinds" => m.cmd = "fetchBinds", n.cmd # "onWrtcSendCallback"
       PROVE  /\ toWorker' \in [Threads -> Seq(WorkerMessages)]
              /\ \A u \in Threads : Awaited(u)'
  <2>1. toWorker \in [Threads -> Seq(WorkerMessages)]
    BY DEF CallsInv, Typed
  <2>2. /\ toWorker' \in [Threads -> Seq(WorkerMessages)]
        /\ \A u \in Threads \ {t} : toWorker'[u] = toWorker[u]
    BY <1>11, <2>1, AnswerFacts
  <2>3. answered(t) = {} /\ carried(t) = {}
    BY <1>5, <1>7, <1>11 DEF Awaited
  <2>4. carried(t)' = {}
    BY <1>11, <2>3 DEF carried
  <2>5. /\ m.cmd = "socketDescriptor" => call[t].at = "descriptor"
        /\ m.cmd = "fetchBinds" => call[t].at = "binds"
    BY <1>5, <1>7, <1>11 DEF Awaited
  <2>6. Awaited(t)'
    BY <1>2, <1>5, <1>7, <1>11, <2>1, <2>3, <2>4, <2>5, RequestAnswered
  <2>7. ASSUME NEW u \in Threads \ {t} PROVE Awaited(u)'
    <3>1. Lighter(toWorker[u], toWorker'[u], Answers) /\ carried(u)' \subseteq carried(u)
      BY <1>11, <2>2 DEF Lighter, carried
    <3> QED
      BY <1>2, <1>3, <1>5, <3>1, AwaitedKept
  <2> QED
    BY <2>2, <2>6, <2>7
<1>12. CASE m.cmd = "fetchBinds" /\ handleFetchBinds(t)
  <2>1. m \in Requests
    BY <1>3, <1>12, MessageKinds DEF MainMessages
  <2>2. PICK n \in Answers : n = [cmd |-> "onFetchBinds", binds |-> socketBinds,
                                  aliases |-> socketAliases]
    BY DEF Answers, CallsInv, Typed
  <2>3. answer(t, n) /\ UNCHANGED <<socketBinds, socketAliases, socketDescriptors, transporter>>
    BY <1>12, <2>2 DEF handleFetchBinds, main
  <2>4. toWorker' \in [Threads -> Seq(WorkerMessages)] /\ \A u \in Threads : Awaited(u)'
    BY <1>11, <1>12, <2>1, <2>2, <2>3
  <2>5. Typed'
    BY <1>2, <1>3, <2>3, <2>4 DEF CallsInv, Typed
  <2>6. DescriptorsLeft'
    BY <1>6, <1>8, <2>3, DueKept, ThreadsAssumption DEF CallsInv
  <2> QED
    BY <1>4, <2>4, <2>5, <2>6 DEF CallsInv
<1>13. CASE m.cmd = "socketDescriptor" /\ handleSocketDescriptor(t)
  <2>1. m \in Requests /\ m = [cmd |-> "socketDescriptor"]
    <3>1. m \in Requests
      BY <1>3, <1>13, MessageKinds DEF MainMessages
    <3> QED
      BY <1>13, <3>1 DEF Requests
  <2>2. t \in due
    BY <1>3, <2>1 DEF due
  <2>3. t \notin due'
    <3>1. call'[t].at # "ready"
      BY <1>2, <1>5, <1>7, <1>13, <2>1 DEF Awaited
    <3>2. m \notin Held(toMain[t])'
      BY <1>7, <2>1 DEF requested
    <3> QED
      BY <2>1, <3>1, <3>2 DEF due
  <2>4. /\ IsFiniteSet(due) /\ IsFiniteSet(due')
        /\ Cardinality(due') + 1 <= Cardinality(due)
        /\ Cardinality(due) \in Nat /\ Cardinality(due') \in Nat
    <3>1. IsFiniteSet(due)
      BY ThreadsAssumption, FS_Subset DEF due, ThreadsAssumption
    <3>2. IsFiniteSet(due \ {t}) /\ Cardinality(due \ {t}) = Cardinality(due) - 1
      BY <2>2, <3>1, FS_RemoveElement
    <3>3. due' \subseteq due \ {t}
      BY <1>6, <2>3
    <3>4. IsFiniteSet(due') /\ Cardinality(due') <= Cardinality(due \ {t})
      BY <3>2, <3>3, FS_Subset
    <3>5. Cardinality(due) \in Nat /\ Cardinality(due') \in Nat
      BY <3>1, <3>4, FS_CardinalityType
    <3> QED
      BY <3>1, <3>2, <3>4, <3>5
  <2>5. /\ socketDescriptors' = socketDescriptors + 1
        /\ answer(t, [cmd |-> "onSocketDescriptor", fd |-> socketDescriptors'])
        /\ UNCHANGED <<socketBinds, socketAliases, transporter>>
    BY <1>13 DEF handleSocketDescriptor
  <2>6. /\ socketDescriptors' \in 1 .. MaxDescriptors /\ socketDescriptors' \in 0 .. MaxDescriptors
        /\ DescriptorsLeft'
    BY <1>8, <2>4, <2>5 DEF CallsInv, DescriptorsLeft
  <2>7. PICK n \in Answers : n = [cmd |-> "onSocketDescriptor", fd |-> socketDescriptors']
    BY <2>6 DEF Answers, Descriptors
  <2>8. toWorker' \in [Threads -> Seq(WorkerMessages)] /\ \A u \in Threads : Awaited(u)'
    BY <1>11, <1>13, <2>1, <2>5, <2>7
  <2>9. Typed'
    BY <1>2, <1>3, <2>5, <2>6, <2>8 DEF CallsInv, Typed
  <2> QED
    BY <1>4, <2>6, <2>8, <2>9 DEF CallsInv
<1>14. CASE m.cmd = "wrtcSend" /\ handleWrtcSend(t, m)
  <2>1. m \in Requests /\ m.remoteId \in Ids /\ m.localId \in Threads
    <3>1. m \in Requests
      BY <1>3, <1>14, MessageKinds DEF MainMessages
    <3> QED
      BY <1>14, <3>1 DEF Requests
  <2>2. PICK w \in Transports : w = [thread |-> t, remoteId |-> m.remoteId, localId |-> m.localId]
    BY <2>1 DEF Transports
  <2>3. /\ transporter' = transporter \cup {w} /\ w.thread = t
        /\ UNCHANGED <<socketBinds, socketAliases, socketDescriptors, toWorker>>
    BY <1>14, <2>2 DEF handleWrtcSend
  <2>4. Typed'
    BY <1>2, <1>3, <2>3 DEF CallsInv, Typed
  <2>5. answered(t) = {} /\ carried(t) = {} /\ call[t].at = "transporter"
    BY <1>5, <1>7, <1>14, <2>1 DEF Awaited
  <2>6. carried(t)' = {w} /\ \A u \in Threads \ {t} : carried(u)' = carried(u)
    BY <2>3, <2>5 DEF carried
  <2>7. Awaited(t)'
    BY <1>2, <1>5, <1>7, <2>1, <2>3, <2>5, <2>6 DEF Awaited, answered, ended, Held
  <2>8. ASSUME NEW u \in Threads \ {t} PROVE Awaited(u)'
    <3>1. Lighter(toWorker[u], toWorker'[u], Answers)
      BY <2>3 DEF Lighter
    <3> QED
      BY <1>2, <1>3, <1>5, <2>6, <3>1, AwaitedKept
  <2>9. DescriptorsLeft'
    BY <1>6, <1>8, <2>3, DueKept, ThreadsAssumption DEF CallsInv
  <2> QED
    BY <1>4, <2>4, <2>7, <2>8, <2>9 DEF CallsInv
<1> QED
  BY <1>1, <1>9, <1>10, <1>12, <1>13, <1>14

\* A thread posts a message, its call being c from now on; or posts nothing.
Posting(t, c, m) ==
  /\ call' = [call EXCEPT ![t] = c]
  /\ toMain' = [toMain EXCEPT ![t] = @ \o <<m>>]

Calling(t, c) == call' = [call EXCEPT ![t] = c] /\ UNCHANGED toMain

LEMMA PostFacts ==
  ASSUME toMain \in [Threads -> Seq(MainMessages)], NEW t \in Threads, NEW m \in MainMessages,
         toMain' = [toMain EXCEPT ![t] = @ \o <<m>>]
  PROVE  /\ toMain' \in [Threads -> Seq(MainMessages)]
         /\ \A u \in Threads :
              /\ toMain'[u] = IF u = t THEN toMain[u] \o <<m>> ELSE toMain[u]
              /\ Held(toMain'[u]) = IF u = t THEN Held(toMain[u]) \cup {m} ELSE Held(toMain[u])
         /\ m \in Updates => Lighter(toMain[t], toMain'[t], Requests)
         /\ Held(toMain[t]) \cap Requests = {} => Once(toMain'[t], Requests)
<1>1. /\ toMain[t] \o <<m>> \in Seq(MainMessages)
      /\ Held(toMain[t] \o <<m>>) = Held(toMain[t]) \cup {m}
  BY OneMore
<1>2. \A u \in Threads : toMain'[u] = IF u = t THEN toMain[u] \o <<m>> ELSE toMain[u]
  OBVIOUS
<1>3. PICK r \in Seq(MainMessages) : r = <<m>> /\ Held(r) = {m} /\ Once(r, Requests)
  BY Single
<1>4. m \in Updates => Lighter(toMain[t], toMain[t] \o r, Requests)
  BY <1>3, LighterConcat, MessageKinds
<1>5. Held(toMain[t]) \cap Requests = {} => Once(toMain[t] \o r, Requests)
  BY <1>3, OnceConcat
<1>6. toMain' \in [Threads -> Seq(MainMessages)]
  BY <1>1
<1> QED
  BY <1>1, <1>2, <1>3, <1>4, <1>5, <1>6

\* A call that waits for nothing, or nothing any more, goes on.
LEMMA CallGoesOn ==
  ASSUME Typed, NEW t \in Threads, NEW c \in Calls, NEW m,
         \/ Calling(t, c)
         \/ /\ Posting(t, c, m) /\ m \in MainMessages
            /\ m.cmd = "socketDescriptor" => c.at = "descriptor"
            /\ m.cmd = "fetchBinds" => c.at = "binds"
            /\ m.cmd = "wrtcSend" => c.at = "transporter",
         Once(toMain[t], Requests), requested(t) = {},
         Once(toWorker'[t], Answers), answered(t)' = {}, carried(t)' = {},
         Once(news'[t], Endings), ended(t)' = {}
  PROVE  /\ toMain' \in [Threads -> Seq(MainMessages)] /\ call' \in [Threads -> Calls]
         /\ Awaited(t)' /\ call'[t] = c
         /\ \A u \in Threads \ {t} : toMain'[u] = toMain[u] /\ call'[u] = call[u]
<1>1. call' \in [Threads -> Calls] /\ call'[t] = c /\ \A u \in Threads \ {t} : call'[u] = call[u]
  BY DEF Posting, Calling, Typed
<1>2. toMain \in [Threads -> Seq(MainMessages)]
  BY DEF Typed
<1>3. requested(t)' = Held(toMain'[t]) \cap Requests /\ requested(t) = Held(toMain[t]) \cap Requests
  BY DEF requested, Held
<1>4. CASE Calling(t, c)
  <2>1. requested(t)' = {} /\ Once(toMain'[t], Requests)
    BY <1>3, <1>4 DEF Calling
  <2> QED
    BY <1>1, <1>2, <1>4, <2>1 DEF Awaited, Calling
<1>5. CASE /\ Posting(t, c, m) /\ m \in MainMessages
           /\ m.cmd = "socketDescriptor" => c.at = "descriptor"
           /\ m.cmd = "fetchBinds" => c.at = "binds"
           /\ m.cmd = "wrtcSend" => c.at = "transporter"
  <2>1. /\ toMain' \in [Threads -> Seq(MainMessages)]
        /\ Held(toMain'[t]) = Held(toMain[t]) \cup {m} /\ Once(toMain'[t], Requests)
        /\ \A u \in Threads \ {t} : toMain'[u] = toMain[u]
    BY <1>2, <1>3, <1>5, PostFacts DEF Posting
  <2>2. requested(t)' \subseteq {m}
    BY <1>3, <2>1
  <2>3. Awaited(t)'
    BY <1>1, <1>5, <2>1, <2>2, MessageKinds DEF Awaited, requested
  <2> QED
    BY <1>1, <2>1, <2>3
<1> QED
  BY <1>4, <1>5

\* Nothing is under way for a thread that waits for nothing.
LEMMA NothingAwaited ==
  ASSUME NEW t \in Threads, Awaited(t)
  PROVE  /\ call[t].at \in {"idle", "ready"} =>
              requested(t) = {} /\ answered(t) = {} /\ carried(t) = {} /\ ended(t) = {}
         /\ call[t].at = "client" => requested(t) = {} /\ answered(t) = {} /\ carried(t) = {}
         /\ call[t].at # "client" => ended(t) = {}
<1>1. /\ requested(t) # {} => call[t].at \in {"descriptor", "binds", "transporter"}
      /\ answered(t) # {} => call[t].at \in {"descriptor", "binds", "transporter"}
  BY MessageKinds DEF Awaited, requested, answered
<1> QED
  BY <1>1 DEF Awaited

LEMMA OthersAwait ==
  ASSUME CallsInv, NEW t \in Threads, news' = news \/ \A u \in Threads \ {t} : news'[u] = news[u],
         \A u \in Threads \ {t} :
           /\ toMain'[u] = toMain[u] /\ call'[u] = call[u] /\ binds'[u] = binds[u]
           /\ toWorker'[u] = toWorker[u] /\ carried(u)' \subseteq carried(u)
  PROVE  \A u \in Threads \ {t} : Awaited(u)' /\ CallTrue(u, call[u], binds[u])'
<1> TAKE u \in Threads \ {t}
<1>1. /\ Lighter(toMain[u], toMain'[u], Requests) /\ Lighter(toWorker[u], toWorker'[u], Answers)
      /\ Lighter(news[u], news'[u], Endings)
  BY DEF Lighter
<1>2. Awaited(u) /\ CallTrue(u, call[u], binds[u])
  BY DEF CallsInv
<1>3. Awaited(u)'
  BY <1>1, <1>2, AwaitedKept
<1>4. CallTrue(u, call[u], binds[u])'
  BY <1>2 DEF CallTrue
<1> QED
  BY <1>3, <1>4

LEMMA TransportedKeepsCalls ==
  ASSUME CallsInv, NEW w \in transporter, transported(w)
  PROVE  CallsInv'
<1>1. PICK t \in Threads : t = w.thread
  BY DEF CallsInv, Typed, Transports
<1>2. PICK n \in Answers : n = [cmd |-> "onWrtcSendCallback"]
  BY DEF Answers
<1>3. /\ transporter' = transporter \ {w} /\ answer(t, n)
      /\ UNCHANGED <<aliases, used, news, isConnected, aliasesHolder, binds, clientAliases,
                     call, toMain, socketBinds, socketAliases, socketDescriptors>>
  BY <1>1, <1>2 DEF transported, server, workers
<1>4. /\ toWorker' \in [Threads -> Seq(WorkerMessages)]
      /\ \A u \in Threads \ {t} : toWorker'[u] = toWorker[u]
  BY <1>3, AnswerFacts DEF CallsInv, Typed
<1>5. Awaited(t) /\ w \in carried(t)
  BY <1>1 DEF CallsInv, carried
<1>6. requested(t) = {} /\ answered(t) = {} /\ call[t].at = "transporter" /\ carried(t) = {w}
  BY <1>5 DEF Awaited
<1>7. carried(t)' = {} /\ \A u \in Threads : carried(u)' \subseteq carried(u)
  BY <1>3, <1>6 DEF carried
<1>8. requested(t)' = {} /\ Once(toMain'[t], Requests)
  BY <1>3, <1>5, <1>6 DEF requested, Held, Awaited
<1>9. Awaited(t)'
  BY <1>2, <1>3, <1>5, <1>6, <1>7, <1>8, RequestAnswered DEF CallsInv, Typed
<1>10. \A u \in Threads \ {t} : Awaited(u)' /\ CallTrue(u, call[u], binds[u])'
  BY <1>3, <1>4, <1>7, OthersAwait
<1>11. CallTrue(t, call[t], binds[t])'
  BY <1>3 DEF CallsInv, CallTrue
<1>12. Typed'
  BY <1>3, <1>4 DEF CallsInv, Typed
<1>13. DescriptorsLeft'
  BY <1>3 DEF CallsInv, DescriptorsLeft, due, Held
<1> QED
  BY <1>9, <1>10, <1>11, <1>12, <1>13 DEF CallsInv

\* A worker takes a message.
LEMMA TakenByWorker ==
  ASSUME Typed, NEW t \in Threads, toWorker[t] # <<>>, toWorker' = [toWorker EXCEPT ![t] = Tail(@)]
  PROVE  /\ toWorker' \in [Threads -> Seq(WorkerMessages)]
         /\ Head(toWorker[t]) \in WorkerMessages /\ Head(toWorker[t]) \in Held(toWorker[t])
         /\ Held(toWorker[t]) = Held(toWorker'[t]) \cup {Head(toWorker[t])}
         /\ \A u \in Threads \ {t} : toWorker'[u] = toWorker[u]
         /\ Lighter(toWorker[t], toWorker'[t], Answers)
         /\ Once(toWorker[t], Answers) /\ Head(toWorker[t]) \in Answers =>
              Held(toWorker'[t]) \cap Answers = {}
<1>1. toWorker \in [Threads -> Seq(WorkerMessages)] /\ toWorker[t] \in Seq(WorkerMessages)
  BY DEF Typed
<1>2. /\ Lighter(toWorker[t], Tail(toWorker[t]), Answers)
      /\ Tail(toWorker[t]) \in Seq(WorkerMessages)
      /\ Once(toWorker[t], Answers) /\ Head(toWorker[t]) \in Answers =>
           Held(Tail(toWorker[t])) \cap Answers = {}
  BY <1>1, LighterTail
<1>3. /\ Head(toWorker[t]) \in WorkerMessages
      /\ Held(toWorker[t]) = Held(Tail(toWorker[t])) \cup {Head(toWorker[t])}
  BY <1>1, TailFacts
<1>4. \A u \in Threads : toWorker'[u] = IF u = t THEN Tail(toWorker[t]) ELSE toWorker[u]
  BY <1>1
<1>5. toWorker' \in [Threads -> Seq(WorkerMessages)]
  BY <1>1, <1>2
<1> QED
  BY <1>2, <1>3, <1>4, <1>5

\* What a fetch makes of the tables of a worker.
fetched(t, m) ==
  [fd \in DOMAIN m.binds \cup DOMAIN binds[t] |->
     IF fd \in DOMAIN m.binds THEN m.binds[fd] ELSE binds[t][fd]]
known(t, m) ==
  [a \in Aliases |-> IF m.aliases[a] # NoOne THEN m.aliases[a] ELSE aliasesHolder[t][a]]

LEMMA FetchFacts ==
  ASSUME Typed, NEW t \in Threads, NEW m \in Answers, m.cmd = "onFetchBinds"
  PROVE  /\ m.binds \in Maps(Binds) /\ m.aliases \in Tables
         /\ fetched(t, m) \in Maps(WorkerBinds) /\ known(t, m) \in Tables
         /\ DOMAIN fetched(t, m) = DOMAIN m.binds \cup DOMAIN binds[t]
<1>1. m.binds \in Maps(Binds) /\ m.aliases \in Tables
  BY DEF Answers
<1>2. /\ DOMAIN m.binds \subseteq Descriptors /\ m.binds \in [DOMAIN m.binds -> Binds]
      /\ DOMAIN binds[t] \subseteq Descriptors
      /\ binds[t] \in [DOMAIN binds[t] -> WorkerBinds]
  BY <1>1, MapFacts DEF Typed
<1>3. /\ DOMAIN fetched(t, m) = DOMAIN m.binds \cup DOMAIN binds[t]
      /\ fetched(t, m) \in [DOMAIN m.binds \cup DOMAIN binds[t] -> WorkerBinds]
  BY <1>2 DEF fetched, WorkerBinds
<1>4. fetched(t, m) \in Maps(WorkerBinds)
  BY <1>2, <1>3 DEF Maps
<1>5. aliasesHolder[t] \in Tables
  BY DEF Typed
<1>6. known(t, m) \in Tables
  BY <1>1, <1>5 DEF known, Tables
<1> QED
  BY <1>1, <1>3, <1>4, <1>6

LEMMA StubIsNoBind ==
  /\ ThreadsAssumption => STUB \notin Binds
  /\ \A b \in Binds : b.alias \in Aliases /\ b.connectorId \in Threads
  /\ \A a \in Aliases, t \in Threads : Bind(a, t) \in Binds
  /\ STUB \in WorkerBinds /\ \A b \in Binds : b \in WorkerBinds
  BY DEF STUB, Binds, Bind, ThreadsAssumption, WorkerBinds

\* A send whose tables are known goes to the transporter, or is over.
LEMMA SendGoesOn ==
  ASSUME ThreadsAssumption, Typed, NEW t \in Threads, NEW c \in Calls, c.op = "send",
         NEW its \in Maps(WorkerBinds), NEW holder \in Tables, c.fd \in DOMAIN its,
         body(t, c, its, holder)
  PROVE  /\ aliasesHolder' = [aliasesHolder EXCEPT ![t] = holder]
         /\ binds' = [binds EXCEPT ![t] = its]
         /\ \/ Calling(t, idle)
            \/ /\ waiting(c, "transporter") \in Calls
               /\ waiting(c, "transporter") = [c EXCEPT !.at = "transporter"]
               /\ \E m \in Requests : m.cmd = "wrtcSend" /\ Posting(t, waiting(c, "transporter"), m)
<1>1. /\ aliasesHolder' = [aliasesHolder EXCEPT ![t] = holder]
      /\ binds' = [binds EXCEPT ![t] = its]
      /\ LET bind == its[c.fd] IN
         IF bind # STUB /\ holder[bind.alias] # NoOne
           THEN /\ call' = [call EXCEPT ![t] = waiting(c, "transporter")]
                /\ postMessage(t, <<[cmd |-> "wrtcSend", remoteId |-> holder[bind.alias],
                                     localId |-> bind.connectorId]>>)
           ELSE call' = [call EXCEPT ![t] = idle] /\ UNCHANGED toMain
  BY DEF body
<1>2. PICK bind \in WorkerBinds : bind = its[c.fd]
  BY MapFacts
<1>3. CASE ~ (bind # STUB /\ holder[bind.alias] # NoOne)
  BY <1>1, <1>2, <1>3 DEF Calling
<1>4. CASE bind # STUB /\ holder[bind.alias] # NoOne
  <2>1. bind.connectorId \in Threads /\ holder[bind.alias] \in Ids
    BY <1>2, <1>4, StubIsNoBind DEF Tables, WorkerBinds
  <2>2. PICK m \in Requests : m = [cmd |-> "wrtcSend", remoteId |-> holder[bind.alias],
                                   localId |-> bind.connectorId]
    BY <2>1 DEF Requests
  <2>3. waiting(c, "transporter") \in Calls
    BY DEF waiting, Calls
  <2> QED
    BY <1>1, <1>2, <1>4, <2>2, <2>3 DEF Posting, postMessage, waiting
<1> QED
  BY <1>1, <1>3, <1>4

LEMMA CallFacts ==
  ASSUME ThreadsAssumption
  PROVE  /\ idle \in Calls /\ idle.at = "idle" /\ idle.op = "none" /\ idle.fd = 0 /\ idle.alias = NoOne
         /\ \A its : \A t \in Threads : CallTrue(t, idle, its)
         /\ 0 \in 0 .. MaxDescriptors /\ Descriptors \subseteq 0 .. MaxDescriptors
         /\ \A c \in Calls : /\ c.fd \in 0 .. MaxDescriptors /\ c.alias \in Aliases \cup {NoOne}
                             /\ \A at \in {"idle", "ready", "descriptor", "binds", "client", "transporter"} :
                                  /\ waiting(c, at) \in Calls /\ waiting(c, at).at = at
                                  /\ waiting(c, at).op = c.op /\ waiting(c, at).fd = c.fd
                                  /\ waiting(c, at).alias = c.alias
<1>1. 0 \in 0 .. MaxDescriptors /\ Descriptors \subseteq 0 .. MaxDescriptors
  BY DEF ThreadsAssumption, Descriptors
<1>2. idle \in Calls /\ idle.at = "idle" /\ idle.op = "none" /\ idle.fd = 0 /\ idle.alias = NoOne
  BY <1>1 DEF idle, Calls
<1>3. \A its : \A t \in Threads : CallTrue(t, idle, its)
  BY <1>2 DEF CallTrue
<1> QED
  BY <1>1, <1>2, <1>3 DEF waiting, Calls

\* A step of one worker gives descriptors to no other.
LEMMA DueOfOthers ==
  ASSUME Typed, NEW t \in Threads, NEW c, call' = [call EXCEPT ![t] = c],
         \A u \in Threads \ {t} : toMain'[u] = toMain[u]
  PROVE  (t \in due' => t \in due) => due' \subseteq due
<1>1. \A u \in Threads : Held(toMain[u])' = Held(toMain'[u])
  BY DEF Held
<1>2. \A u \in Threads \ {t} : call'[u] = call[u]
  BY DEF Typed
<1> QED
  BY <1>1, <1>2 DEF due

LEMMA WorkerStep ==
  ASSUME CallsInv, NEW t \in Threads, NEW c \in Calls, NEW its \in Maps(WorkerBinds),
         call' = [call EXCEPT ![t] = c], binds' = [binds EXCEPT ![t] = its],
         aliasesHolder' \in [Threads -> Tables], clientAliases' \in [Threads -> Maps(Aliases)],
         isConnected' \in [Threads -> BOOLEAN],
         toMain' \in [Threads -> Seq(MainMessages)],
         toWorker' \in [Threads -> Seq(WorkerMessages)], news' \in [Threads -> Seq(News)],
         \A u \in Threads \ {t} :
           toMain'[u] = toMain[u] /\ toWorker'[u] = toWorker[u] /\ news'[u] = news[u],
         UNCHANGED <<aliases, used, socketBinds, socketAliases, socketDescriptors, transporter>>,
         Awaited(t)', CallTrue(t, c, its), DescriptorsLeft'
  PROVE  CallsInv'
<1>1. /\ call'[t] = c /\ binds'[t] = its
      /\ \A u \in Threads \ {t} : call'[u] = call[u] /\ binds'[u] = binds[u]
      /\ call' \in [Threads -> Calls] /\ binds' \in [Threads -> Maps(WorkerBinds)]
  BY DEF CallsInv, Typed
<1>2. Typed'
  BY <1>1 DEF CallsInv, Typed
<1>3. \A u \in Threads : carried(u)' = carried(u)
  BY DEF carried
<1>4. \A u \in Threads \ {t} : Awaited(u)' /\ CallTrue(u, call[u], binds[u])'
  <2>1. \A u \in Threads \ {t} :
          /\ toMain'[u] = toMain[u] /\ call'[u] = call[u] /\ binds'[u] = binds[u]
          /\ toWorker'[u] = toWorker[u] /\ carried(u)' \subseteq carried(u)
    BY <1>1, <1>3
  <2>2. news' = news \/ \A u \in Threads \ {t} : news'[u] = news[u]
    OBVIOUS
  <2> QED
    BY <2>1, <2>2, OthersAwait
<1>5. CallTrue(t, call[t], binds[t])'
  BY <1>1 DEF CallTrue
<1> QED
  BY <1>2, <1>4, <1>5 DEF CallsInv

LEMMA MessageKeepsCalls ==
  ASSUME CallsInv, NEW t \in Threads, onmessage(t)
  PROVE  CallsInv'
<1>1. PICK m : /\ m = Head(toWorker[t]) /\ toWorker[t] # <<>>
               /\ toWorker' = [toWorker EXCEPT ![t] = Tail(@)]
               /\ \/ m.cmd = "notifyBindAdd" /\ onNotifyBindAdd(t, m)
                  \/ m.cmd = "notifyAliasAdd" /\ onNotifyAliasAdd(t, m)
                  \/ m.cmd = "onFetchBinds" /\ onFetchBinds(t, m)
                  \/ m.cmd = "onSocketDescriptor" /\ onSocketDescriptor(t, m)
                  \/ m.cmd = "onWrtcSendCallback" /\ onWrtcSendCallback(t)
               /\ UNCHANGED <<server, news, isConnected, sends, main>>
  BY DEF onmessage
<1>2. UNCHANGED <<aliases, used, news, isConnected, socketBinds, socketAliases,
                  socketDescriptors, transporter>>
  BY <1>1 DEF server, main
<1>3. /\ toWorker' \in [Threads -> Seq(WorkerMessages)]
      /\ m \in WorkerMessages /\ m \in Held(toWorker[t])
      /\ \A u \in Threads \ {t} : toWorker'[u] = toWorker[u]
      /\ Lighter(toWorker[t], toWorker'[t], Answers)
      /\ m \in Answers => Held(toWorker'[t]) \cap Answers = {}
  <2>1. Once(toWorker[t], Answers)
    BY DEF CallsInv, Awaited
  <2> QED
    BY <1>1, <2>1, TakenByWorker DEF CallsInv
<1>4. \A u \in Threads : carried(u)' = carried(u)
  BY <1>2 DEF carried
<1>5. /\ Awaited(t) /\ CallTrue(t, call[t], binds[t]) /\ call[t] \in Calls
      /\ binds[t] \in Maps(WorkerBinds) /\ DOMAIN binds[t] \subseteq Descriptors
      /\ binds[t] \in [DOMAIN binds[t] -> WorkerBinds]
      /\ aliasesHolder[t] \in Tables /\ ThreadsAssumption
  BY ThreadsAssumption, MapFacts DEF CallsInv, Typed
<1>6. ASSUME NEW c \in Calls, NEW its \in Maps(WorkerBinds), NEW holder \in Tables,
             call' = [call EXCEPT ![t] = c], binds' = [binds EXCEPT ![t] = its],
             aliasesHolder' = [aliasesHolder EXCEPT ![t] = holder], clientAliases' = clientAliases,
             toMain' \in [Threads -> Seq(MainMessages)],
             \A u \in Threads \ {t} : toMain'[u] = toMain[u],
             Awaited(t)', CallTrue(t, c, its),
             c.at = "ready" => call[t].at = "ready",
             [cmd |-> "socketDescriptor"] \in Held(toMain'[t]) =>
               [cmd |-> "socketDescriptor"] \in Held(toMain[t])
      PROVE  CallsInv'
  <2>1. /\ aliasesHolder' \in [Threads -> Tables] /\ clientAliases' \in [Threads -> Maps(Aliases)]
        /\ isConnected' \in [Threads -> BOOLEAN] /\ news' \in [Threads -> Seq(News)]
    BY <1>2, <1>6 DEF CallsInv, Typed
  <2>2. t \in due' => t \in due
    <3>1. Held(toMain[t])' = Held(toMain'[t]) /\ call'[t] = c
      BY <1>6 DEF Held, CallsInv, Typed
    <3> QED
      BY <1>6, <3>1 DEF due
  <2>3. DescriptorsLeft'
    <3>1. due' \subseteq due
      BY <1>6, <2>2, DueOfOthers DEF CallsInv
    <3> QED
      BY <1>2, <1>5, <3>1, DueKept DEF CallsInv, Typed
  <2> QED
    BY <1>2, <1>3, <1>4, <1>6, <2>1, <2>3, WorkerStep
<1>7. /\ call = [call EXCEPT ![t] = call[t]] /\ binds = [binds EXCEPT ![t] = binds[t]]
      /\ aliasesHolder = [aliasesHolder EXCEPT ![t] = aliasesHolder[t]]
  BY DEF CallsInv, Typed
<1>8. CASE m.cmd = "notifyBindAdd" /\ onNotifyBindAdd(t, m)
  <2>1. m.fd \in Descriptors /\ m.bind \in Binds
    BY <1>3, <1>8, MessageKinds DEF WorkerMessages, Notices
  <2>2. UNCHANGED <<toMain, call, aliasesHolder, clientAliases>>
    BY <1>8 DEF onNotifyBindAdd
  <2>3. Awaited(t)'
    <3>1. Lighter(toMain[t], toMain'[t], Requests) /\ Lighter(news[t], news'[t], Endings)
      BY <1>2, <2>2 DEF Lighter
    <3> QED
      BY <1>3, <1>4, <1>5, <2>2, <3>1, AwaitedKept
  <2>4. CASE m.fd \in DOMAIN binds[t]
    <3>1. binds' = binds
      BY <1>8, <2>4 DEF onNotifyBindAdd
    <3> QED
      BY <1>5, <1>6, <1>7, <2>2, <2>3, <3>1 DEF CallsInv, Typed
  <2>5. CASE m.fd \notin DOMAIN binds[t]
    <3>1. binds' = [binds EXCEPT ![t] = Put(binds[t], m.fd, m.bind)]
      BY <1>8, <2>5 DEF onNotifyBindAdd
    <3>2. /\ Put(binds[t], m.fd, m.bind) \in Maps(WorkerBinds)
          /\ DOMAIN Put(binds[t], m.fd, m.bind) = DOMAIN binds[t] \cup {m.fd}
          /\ \A x \in DOMAIN binds[t] : Put(binds[t], m.fd, m.bind)[x] = binds[t][x]
      <4>1. Put(binds[t], m.fd, m.bind) \in Maps(WorkerBinds)
        BY <1>5, <2>1, PutFacts, StubIsNoBind
      <4> QED
        BY <1>5, <2>1, <2>5, <4>1 DEF Put
    <3>3. CallTrue(t, call[t], Put(binds[t], m.fd, m.bind))
      BY <1>5, <3>2 DEF CallTrue
    <3> QED
      BY <1>5, <1>6, <1>7, <2>2, <2>3, <3>1, <3>2, <3>3 DEF CallsInv, Typed
  <2> QED
    BY <2>4, <2>5
<1>9. CASE m.cmd = "notifyAliasAdd" /\ onNotifyAliasAdd(t, m)
  <2>1. m.alias \in Aliases /\ m.id \in Ids
    BY <1>3, <1>9, MessageKinds DEF WorkerMessages, Notices
  <2>2. UNCHANGED <<toMain, call, binds, clientAliases>>
    BY <1>9 DEF onNotifyAliasAdd
  <2>3. Awaited(t)'
    <3>1. Lighter(toMain[t], toMain'[t], Requests) /\ Lighter(news[t], news'[t], Endings)
      BY <1>2, <2>2 DEF Lighter
    <3> QED
      BY <1>3, <1>4, <1>5, <2>2, <3>1, AwaitedKept
  <2>4. PICK holder \in Tables : aliasesHolder' = [aliasesHolder EXCEPT ![t] = holder]
    <3>1. CASE ~ m.isDelete /\ aliasesHolder[t][m.alias] # NoOne
      BY <1>5, <1>7, <1>9, <3>1 DEF onNotifyAliasAdd
    <3>2. CASE ~ (~ m.isDelete /\ aliasesHolder[t][m.alias] # NoOne)
      <4>1. aliasesHolder' = [aliasesHolder EXCEPT ![t] =
              [aliasesHolder[t] EXCEPT ![m.alias] = IF m.isDelete THEN NoOne ELSE m.id]]
        BY <1>9, <3>2 DEF onNotifyAliasAdd
      <4>2. [aliasesHolder[t] EXCEPT ![m.alias] = IF m.isDelete THEN NoOne ELSE m.id] \in Tables
        BY <1>5, <2>1 DEF Tables
      <4> QED
        BY <4>1, <4>2
    <3> QED
      BY <3>1, <3>2
  <2> QED
    BY <1>5, <1>6, <1>7, <2>2, <2>3, <2>4 DEF CallsInv, Typed
<1>10. ASSUME m \in Answers, UNCHANGED toMain, call'[t].at \in {"idle", "client"}
       PROVE  Awaited(t)'
  <2>1. answered(t)' = {}
    BY <1>3, <1>10 DEF answered, Held
  <2>2. m \in answered(t)
    BY <1>3, <1>10 DEF answered
  <2>3. requested(t) = {} /\ carried(t) = {} /\ call[t].at \in {"binds", "descriptor", "transporter"}
    BY <1>5, <1>10, <2>2, MessageKinds DEF Awaited
  <2>4. ended(t) = {}
    BY <1>5, <2>3 DEF Awaited
  <2>5. requested(t)' = {} /\ ended(t)' = {} /\ carried(t)' = {}
    BY <1>2, <1>4, <1>10, <2>3, <2>4 DEF requested, ended, Held
  <2> QED
    BY <1>2, <1>3, <1>5, <1>10, <2>1, <2>5 DEF Awaited, Lighter
<1>11. CASE m.cmd = "onWrtcSendCallback" /\ onWrtcSendCallback(t)
  <2>1. m \in Answers
    BY <1>3, <1>11, MessageKinds DEF WorkerMessages
  <2>2. call' = [call EXCEPT ![t] = idle] /\ UNCHANGED <<toMain, aliasesHolder, binds, clientAliases>>
    BY <1>11 DEF onWrtcSendCallback
  <2>3. call'[t] = idle
    BY <2>2 DEF CallsInv, Typed
  <2>4. Awaited(t)'
    BY <1>5, <1>10, <2>1, <2>2, <2>3, CallFacts
  <2>5. idle \in Calls /\ idle.at # "ready" /\ CallTrue(t, idle, binds[t])
    BY <1>5, CallFacts
  <2>6. toMain' \in [Threads -> Seq(MainMessages)]
    BY <2>2 DEF CallsInv, Typed
  <2> QED
    BY <1>5, <1>6, <1>7, <2>2, <2>4, <2>5, <2>6
<1>12. CASE m.cmd = "onSocketDescriptor" /\ onSocketDescriptor(t, m)
  <2>1. m \in Answers /\ m.fd \in Descriptors
    <3>1. m \in Answers
      BY <1>3, <1>12, MessageKinds DEF WorkerMessages
    <3> QED
      BY <1>12, <3>1 DEF Answers
  <2>2. call[t].at = "descriptor"
    BY <1>3, <1>5, <1>12, <2>1 DEF Awaited, answered
  <2>3. /\ Put(binds[t], m.fd, STUB) \in Maps(WorkerBinds)
        /\ m.fd \in DOMAIN Put(binds[t], m.fd, STUB) /\ Put(binds[t], m.fd, STUB)[m.fd] = STUB
    <3>1. Put(binds[t], m.fd, STUB) \in Maps(WorkerBinds)
      BY <1>5, <2>1, PutFacts, StubIsNoBind
    <3> QED
      BY <1>5, <2>1, <3>1 DEF Put
  <2>4. PICK c \in Calls : /\ call' = [call EXCEPT ![t] = c]
                           /\ c.at \in {"idle", "client"}
                           /\ CallTrue(t, c, Put(binds[t], m.fd, STUB))
    <3>1. CASE call[t].op = "accept"
      <4>1. call[t].fd \in DOMAIN binds[t] /\ binds[t][call[t].fd] \in Binds
        BY <1>5, <2>2, <3>1 DEF CallTrue, WorkerBinds
      <4>2. PICK a \in Aliases : a = binds[t][call[t].fd].alias
        BY <4>1, StubIsNoBind
      <4>3. PICK c : c = [call[t] EXCEPT !.at = "client", !.alias = a, !.fd = m.fd]
        OBVIOUS
      <4>4. c \in Calls /\ c.at = "client" /\ c.fd = m.fd /\ c.op = "accept"
        BY <1>5, <2>1, <3>1, <4>3, CallFacts DEF Calls
      <4>5. CallTrue(t, c, Put(binds[t], m.fd, STUB))
        BY <2>3, <4>4 DEF CallTrue
      <4>6. call' = [call EXCEPT ![t] = c]
        BY <1>12, <3>1, <4>2, <4>3 DEF onSocketDescriptor
      <4> QED
        BY <4>4, <4>5, <4>6
    <3>2. CASE call[t].op # "accept"
      <4>1. call' = [call EXCEPT ![t] = idle]
        BY <1>12, <3>2 DEF onSocketDescriptor
      <4> QED
        BY <1>5, <4>1, CallFacts
    <3> QED
      BY <3>1, <3>2
  <2>5. /\ binds' = [binds EXCEPT ![t] = Put(binds[t], m.fd, STUB)]
        /\ UNCHANGED <<toMain, aliasesHolder, clientAliases>>
    BY <1>12 DEF onSocketDescriptor
  <2>6. call'[t] = c
    BY <2>4 DEF CallsInv, Typed
  <2>7. Awaited(t)'
    BY <1>10, <2>1, <2>4, <2>5, <2>6
  <2> QED
    BY <1>5, <1>6, <1>7, <2>3, <2>4, <2>5, <2>7 DEF CallsInv, Typed
<1>13. CASE m.cmd = "onFetchBinds" /\ onFetchBinds(t, m)
  <2>1. m \in Answers
    BY <1>3, <1>13, MessageKinds DEF WorkerMessages
  <2>2. call[t].at = "binds" /\ call[t].op = "send" /\ m \in answered(t)
    BY <1>3, <1>5, <1>13, <2>1 DEF Awaited, answered, CallTrue
  <2>3. /\ fetched(t, m) \in Maps(WorkerBinds) /\ known(t, m) \in Tables
    BY <1>13, <2>1, FetchFacts DEF CallsInv
  <2>4. PICK its \in Maps(WorkerBinds) : its = fetched(t, m)
    BY <2>3
  <2>5. PICK holder \in Tables : holder = known(t, m)
    BY <2>3
  <2>6. /\ \/ call[t].fd \in DOMAIN its /\ body(t, call[t], its, holder)
           \/ /\ Calling(t, idle)
              /\ binds' = [binds EXCEPT ![t] = its]
              /\ aliasesHolder' = [aliasesHolder EXCEPT ![t] = holder]
        /\ clientAliases' = clientAliases
    BY <1>13, <2>4, <2>5 DEF onFetchBinds, fetched, known, Calling
  <2>7. /\ Once(toMain[t], Requests) /\ requested(t) = {} /\ answered(t)' = {} /\ carried(t)' = {}
        /\ Once(toWorker'[t], Answers) /\ Once(news'[t], Endings) /\ ended(t)' = {}
    <3>1. requested(t) = {} /\ carried(t) = {} /\ ended(t) = {}
      BY <1>5, <2>2 DEF Awaited
    <3>2. answered(t)' = {} /\ ended(t)' = {} /\ carried(t)' = {}
      BY <1>2, <1>3, <1>4, <2>1, <3>1 DEF answered, ended, Held
    <3> QED
      BY <1>2, <1>3, <1>5, <3>1, <3>2 DEF Awaited, Lighter
  <2>8. \/ Calling(t, idle)
        \/ /\ waiting(call[t], "transporter") \in Calls
           /\ \E n \in Requests : n.cmd = "wrtcSend" /\ Posting(t, waiting(call[t], "transporter"), n)
    BY <1>5, <2>2, <2>6, SendGoesOn DEF CallsInv
  <2>9. /\ binds' = [binds EXCEPT ![t] = its]
        /\ aliasesHolder' = [aliasesHolder EXCEPT ![t] = holder]
    BY <1>5, <2>2, <2>6, SendGoesOn DEF CallsInv
  <2>10. CASE Calling(t, idle)
    <3>1. idle \in Calls /\ idle.at = "idle" /\ CallTrue(t, idle, its)
      BY <1>5, CallFacts
    <3>2. call' = [call EXCEPT ![t] = idle] /\ toMain' = toMain
      BY <2>10 DEF Calling
    <3>3. call'[t] = idle
      BY <3>2 DEF CallsInv, Typed
    <3>4. Awaited(t)'
      BY <1>10, <2>1, <3>1, <3>2, <3>3
    <3>5. toMain' \in [Threads -> Seq(MainMessages)]
      BY <3>2 DEF CallsInv, Typed
    <3> QED
      BY <1>6, <2>6, <2>9, <3>1, <3>2, <3>4, <3>5
  <2>11. ASSUME NEW n \in Requests, n.cmd = "wrtcSend",
                waiting(call[t], "transporter") \in Calls,
                Posting(t, waiting(call[t], "transporter"), n)
         PROVE  CallsInv'
    <3>1. PICK c \in Calls : c = waiting(call[t], "transporter")
      BY <2>11
    <3>2. c.at = "transporter" /\ c.op = "send"
      BY <1>5, <2>2, <3>1, CallFacts
    <3>3. n \in MainMessages /\ Posting(t, c, n)
      BY <2>11, <3>1 DEF MainMessages
    <3>4. /\ toMain' \in [Threads -> Seq(MainMessages)] /\ call' \in [Threads -> Calls]
          /\ Awaited(t)' /\ call'[t] = c
          /\ \A u \in Threads \ {t} : toMain'[u] = toMain[u] /\ call'[u] = call[u]
      BY <2>7, <2>11, <3>2, <3>3, CallGoesOn DEF CallsInv
    <3>5. Held(toMain'[t]) = Held(toMain[t]) \cup {n}
      BY <3>3, PostFacts DEF CallsInv, Typed, Posting
    <3>6. n # [cmd |-> "socketDescriptor"]
      BY <2>11
    <3>7. CallTrue(t, c, its)
      BY <3>2 DEF CallTrue
    <3>8. call' = [call EXCEPT ![t] = c]
      BY <3>3 DEF Posting
    <3> QED
      BY <1>6, <2>6, <2>9, <3>2, <3>4, <3>5, <3>6, <3>7, <3>8
  <2> QED
    BY <2>8, <2>10, <2>11
<1> QED
  BY <1>1, <1>8, <1>9, <1>11, <1>12, <1>13

\* A worker takes what its signaling client has for it.
LEMMA TakenNews ==
  ASSUME Typed, NEW t \in Threads, news[t] # <<>>, news' = [news EXCEPT ![t] = Tail(@)]
  PROVE  /\ news' \in [Threads -> Seq(News)]
         /\ Head(news[t]) \in News /\ Head(news[t]) \in Held(news[t])
         /\ \A u \in Threads \ {t} : news'[u] = news[u]
         /\ news'[t] = Tail(news[t])
         /\ Lighter(news[t], news'[t], Endings)
         /\ Once(news[t], Endings) /\ Head(news[t]) \in Endings => Held(news'[t]) \cap Endings = {}
<1>1. news \in [Threads -> Seq(News)] /\ news[t] \in Seq(News)
  BY DEF Typed
<1>2. /\ Lighter(news[t], Tail(news[t]), Endings) /\ Tail(news[t]) \in Seq(News)
      /\ Once(news[t], Endings) /\ Head(news[t]) \in Endings =>
           Held(Tail(news[t])) \cap Endings = {}
  BY <1>1, LighterTail
<1>3. Head(news[t]) \in News /\ Head(news[t]) \in Held(news[t])
  BY <1>1, TailFacts
<1>4. \A u \in Threads : news'[u] = IF u = t THEN Tail(news[t]) ELSE news[u]
  BY <1>1
<1>5. news' \in [Threads -> Seq(News)]
  BY <1>1, <1>2
<1> QED
  BY <1>2, <1>3, <1>4, <1>5

LEMMA OperationKeepsCalls ==
  ASSUME CallsInv, NEW t \in Threads, handleOperation(t)
  PROVE  CallsInv'
<1>1. PICK m : /\ m = Head(news[t]) /\ news[t] # <<>> /\ news' = [news EXCEPT ![t] = Tail(@)]
               /\ \/ m.op = "alias" /\ handleAlias(t, m)
                  \/ m.op = "returns" /\ returns(t, m)
                  \/ m.op = "fails" /\ fails(t)
               /\ UNCHANGED <<server, isConnected, sends, toWorker, main>>
  BY DEF handleOperation
<1>2. UNCHANGED <<aliases, used, isConnected, toWorker, socketBinds, socketAliases,
                  socketDescriptors, transporter>>
  BY <1>1 DEF server, main
<1>3. /\ news' \in [Threads -> Seq(News)]
      /\ m \in News /\ m \in Held(news[t])
      /\ \A u \in Threads \ {t} : news'[u] = news[u]
      /\ Lighter(news[t], news'[t], Endings)
      /\ m \in Endings => Held(news'[t]) \cap Endings = {}
  <2>1. Once(news[t], Endings)
    BY DEF CallsInv, Awaited
  <2> QED
    BY <1>1, <2>1, TakenNews DEF CallsInv
<1>4. \A u \in Threads : carried(u)' = carried(u)
  BY <1>2 DEF carried
<1>5. /\ Awaited(t) /\ CallTrue(t, call[t], binds[t]) /\ call[t] \in Calls
      /\ binds[t] \in Maps(WorkerBinds) /\ DOMAIN binds[t] \subseteq Descriptors
      /\ clientAliases[t] \in Maps(Aliases)
      /\ aliasesHolder[t] \in Tables /\ ThreadsAssumption /\ Typed
      /\ isConnected' \in [Threads -> BOOLEAN] /\ toWorker' \in [Threads -> Seq(WorkerMessages)]
  BY <1>2, ThreadsAssumption, MapFacts DEF CallsInv, Typed
<1>6. ASSUME NEW c \in Calls, NEW its \in Maps(WorkerBinds),
             call' = [call EXCEPT ![t] = c], binds' = [binds EXCEPT ![t] = its],
             aliasesHolder' \in [Threads -> Tables], clientAliases' \in [Threads -> Maps(Aliases)],
             toMain' \in [Threads -> Seq(MainMessages)],
             \A u \in Threads \ {t} : toMain'[u] = toMain[u],
             Held(toMain'[t]) \subseteq Held(toMain[t]) \cup Updates,
             Awaited(t)', CallTrue(t, c, its), c.at = "ready" => call[t].at = "ready"
      PROVE  CallsInv'
  <2>1. t \in due' => t \in due
    <3>1. Held(toMain[t])' = Held(toMain'[t]) /\ call'[t] = c
      BY <1>5, <1>6 DEF Held, Typed
    <3>2. [cmd |-> "socketDescriptor"] \notin Updates
      BY MessageKinds
    <3> QED
      BY <1>6, <3>1, <3>2 DEF due
  <2>2. due' \subseteq due
    BY <1>5, <1>6, <2>1, DueOfOthers
  <2>3. DescriptorsLeft'
    BY <1>2, <1>5, <2>2, DueKept DEF CallsInv, Typed
  <2> QED
    BY <1>2, <1>3, <1>5, <1>6, <2>3, WorkerStep
<1>7. /\ call = [call EXCEPT ![t] = call[t]] /\ binds = [binds EXCEPT ![t] = binds[t]]
      /\ aliasesHolder \in [Threads -> Tables] /\ clientAliases \in [Threads -> Maps(Aliases)]
      /\ toMain \in [Threads -> Seq(MainMessages)]
  BY <1>5 DEF Typed
<1>8. CASE m.op = "alias" /\ handleAlias(t, m)
  <2>1. m.alias \in Aliases /\ m.id \in Ids /\ m.set \in BOOLEAN
    BY <1>3, <1>8, MessageKinds DEF News, Broadcasts
  <2>2. PICK n \in Updates : n = aliasUpdate(t, m)
    <3>1. PICK b \in BOOLEAN : b = ~ m.set
      OBVIOUS
    <3>2. [cmd |-> "aliasUpdate", alias |-> m.alias, id |-> m.id, isDelete |-> b] \in Updates
      BY <2>1, <3>1 DEF Updates
    <3> QED
      BY <3>1, <3>2 DEF aliasUpdate
  <2>3. /\ toMain' = [toMain EXCEPT ![t] = @ \o <<n>>]
        /\ aliasesHolder' = [aliasesHolder EXCEPT ![t][m.alias] = IF m.set THEN m.id ELSE NoOne]
        /\ UNCHANGED <<call, binds, clientAliases>>
    BY <1>8, <2>2 DEF handleAlias, postMessage
  <2>4. n \in MainMessages
    BY DEF MainMessages
  <2>5. /\ toMain' \in [Threads -> Seq(MainMessages)]
        /\ Lighter(toMain[t], toMain'[t], Requests)
        /\ Held(toMain'[t]) = Held(toMain[t]) \cup {n}
        /\ \A u \in Threads \ {t} : toMain'[u] = toMain[u]
    BY <1>7, <2>3, <2>4, PostFacts
  <2>6. aliasesHolder' \in [Threads -> Tables]
    BY <1>7, <2>1, <2>3 DEF Tables
  <2>7. Awaited(t)'
    <3>1. Lighter(toWorker[t], toWorker'[t], Answers) /\ call'[t].at = call[t].at
      BY <1>2, <2>3 DEF Lighter
    <3> QED
      BY <1>3, <1>4, <1>5, <2>5, <3>1, AwaitedKept
  <2> QED
    BY <1>5, <1>6, <1>7, <2>3, <2>5, <2>6, <2>7
<1>9. ASSUME m \in Endings
      PROVE  /\ call[t].at = "client"
             /\ Once(toMain[t], Requests) /\ requested(t) = {} /\ answered(t)' = {} /\ carried(t)' = {}
             /\ Once(toWorker'[t], Answers) /\ Once(news'[t], Endings) /\ ended(t)' = {}
  <2>1. m \in ended(t)
    BY <1>3, <1>9 DEF ended
  <2>2. call[t].at = "client" /\ requested(t) = {} /\ answered(t) = {} /\ carried(t) = {}
    BY <1>5, <2>1, NothingAwaited DEF Awaited
  <2>3. answered(t)' = {} /\ ended(t)' = {} /\ carried(t)' = {}
    BY <1>2, <1>3, <1>4, <1>9, <2>2 DEF answered, ended, Held
  <2> QED
    BY <1>2, <1>3, <1>5, <2>2, <2>3 DEF Awaited, Lighter
<1>10. idle \in Calls /\ idle.at = "idle" /\ \A its : CallTrue(t, idle, its)
  BY <1>5, CallFacts
<1>11. ASSUME m \in Endings, NEW its \in Maps(WorkerBinds), NEW n,
              Calling(t, idle) \/ (Posting(t, idle, n) /\ n \in Updates),
              binds' = [binds EXCEPT ![t] = its],
              clientAliases' \in [Threads -> Maps(Aliases)], aliasesHolder' = aliasesHolder
       PROVE  CallsInv'
  <2>1. n \in Updates =>
          n \in MainMessages /\ n.cmd \notin {"socketDescriptor", "fetchBinds", "wrtcSend"}
    BY MessageKinds DEF MainMessages
  <2>2. /\ toMain' \in [Threads -> Seq(MainMessages)] /\ Awaited(t)'
        /\ \A u \in Threads \ {t} : toMain'[u] = toMain[u]
    BY <1>5, <1>9, <1>10, <1>11, <2>1, CallGoesOn
  <2>3. Held(toMain'[t]) \subseteq Held(toMain[t]) \cup Updates
    <3>1. CASE Calling(t, idle)
      BY <3>1 DEF Calling
    <3>2. CASE Posting(t, idle, n) /\ n \in Updates
      <4>1. Held(toMain'[t]) = Held(toMain[t]) \cup {n}
        BY <1>7, <2>1, <3>2, PostFacts DEF Posting
      <4> QED
        BY <3>2, <4>1
    <3> QED
      BY <1>11, <3>1, <3>2
  <2>4. call' = [call EXCEPT ![t] = idle]
    BY <1>11 DEF Posting, Calling
  <2> QED
    BY <1>6, <1>7, <1>10, <1>11, <2>2, <2>3, <2>4
<1>12. CASE m.op = "fails" /\ fails(t)
  <2>1. m \in Endings
    BY <1>3, <1>12, MessageKinds DEF News
  <2>2. Calling(t, idle) /\ UNCHANGED <<aliasesHolder, binds, clientAliases>>
    BY <1>12 DEF fails, Calling
  <2> QED
    BY <1>5, <1>7, <1>11, <2>1, <2>2
<1>13. CASE m.op = "returns" /\ returns(t, m)
  <2>1. m \in Endings /\ m.alias \in Aliases
    <3>1. m \in Endings
      BY <1>3, <1>13, MessageKinds DEF News
    <3> QED
      BY <1>13, <3>1 DEF Endings
  <2>2. call[t].fd \in DOMAIN binds[t] /\ call[t].fd \in Descriptors
    BY <1>5, <1>9, <2>1 DEF CallTrue
  <2>3. PICK n \in Updates : n = [cmd |-> "bindUpdate", fd |-> call[t].fd, bind |-> Bind(m.alias, t)]
    BY <2>1, <2>2, StubIsNoBind DEF Updates
  <2>4. aliasesHolder' = aliasesHolder
    BY <1>13 DEF returns
  <2>5. CASE call[t].op \in {"bind", "accept"}
    <3>1. /\ Posting(t, idle, n)
          /\ binds' = [binds EXCEPT ![t] = Put(binds[t], call[t].fd, Bind(m.alias, t))]
          /\ clientAliases' = clientAliases
      BY <1>13, <2>3, <2>5 DEF returns, setBind, postMessage, Posting
    <3>2. Put(binds[t], call[t].fd, Bind(m.alias, t)) \in Maps(WorkerBinds)
      BY <1>5, <2>1, <2>2, PutFacts, StubIsNoBind
    <3> QED
      BY <1>7, <1>11, <2>1, <2>4, <3>1, <3>2
  <2>6. CASE call[t].op = "connect"
    <3>1. /\ Calling(t, idle) /\ binds' = binds
          /\ clientAliases' = [clientAliases EXCEPT ![t] = Put(clientAliases[t], call[t].fd, m.alias)]
      BY <1>13, <2>6 DEF returns, Calling
    <3>2. Put(clientAliases[t], call[t].fd, m.alias) \in Maps(Aliases)
      BY <1>5, <2>1, <2>2, PutFacts
    <3>3. clientAliases' \in [Threads -> Maps(Aliases)]
      BY <1>7, <3>1, <3>2
    <3> QED
      BY <1>5, <1>7, <1>11, <2>1, <2>4, <3>1, <3>3
  <2> QED
    BY <1>13, <2>5, <2>6 DEF returns
<1> QED
  BY <1>1, <1>8, <1>12, <1>13

\* What a program does, as one step: it posts a request, or its bind, or nothing.
Step(t, c, n, its) ==
  /\ \/ Calling(t, c)
     \/ /\ Posting(t, c, n) /\ n \in MainMessages
        /\ n.cmd = "socketDescriptor" => c.at = "descriptor"
        /\ n.cmd = "fetchBinds" => c.at = "binds"
        /\ n.cmd = "wrtcSend" => c.at = "transporter"
  /\ binds' = [binds EXCEPT ![t] = its] /\ CallTrue(t, c, its)
  /\ c.at = "ready" \/ n.cmd = "socketDescriptor" => mayAsk
  /\ \/ its = binds[t] /\ n \in Requests
     \/ /\ Posting(t, c, n)
        /\ \E fd \in DOMAIN binds[t], a \in BindAliases \cup RemoteAliases :
             /\ binds[t][fd] = STUB
             /\ its = Put(binds[t], fd, Bind(a, t))
             /\ n = [cmd |-> "bindUpdate", fd |-> fd, bind |-> Bind(a, t)]

LEMMA BoundCall ==
  ASSUME Typed, NEW t \in Threads, NEW c, c.fd \in DOMAIN binds[t], ensureBound(t, c)
  PROVE  /\ body(t, c, binds[t], aliasesHolder[t]) /\ aliasesHolder' = aliasesHolder
         /\ c.op # "connect" => binds' = [binds EXCEPT ![t] = binds[t]]
<1>1. body(t, c, binds[t], aliasesHolder[t])
  BY DEF ensureBound
<1>2. aliasesHolder' = aliasesHolder
  BY <1>1 DEF body, Typed
<1> QED
  BY <1>1, <1>2 DEF body

LEMMA ProgramSteps ==
  ASSUME ThreadsAssumption, CallsInv, NEW t \in Threads, Program(t)
  PROVE  /\ call[t] = idle
         /\ UNCHANGED <<aliases, used, news, isConnected, aliasesHolder, clientAliases, toWorker,
                        socketBinds, socketAliases, socketDescriptors, transporter>>
         /\ \E n, its : \E c \in Calls : Step(t, c, n, its)
<1>1. /\ UNCHANGED <<aliases, used, news, isConnected, clientAliases, toWorker,
                     socketBinds, socketAliases, socketDescriptors, transporter>>
      /\ call[t] = idle
  BY DEF Program, server, main
<1>2. /\ Typed /\ binds[t] \in Maps(WorkerBinds) /\ DOMAIN binds[t] \subseteq Descriptors
      /\ binds[t] \in [DOMAIN binds[t] -> WorkerBinds]
      /\ binds = [binds EXCEPT ![t] = binds[t]]
      /\ aliasesHolder[t] \in Tables
      /\ aliasesHolder = [aliasesHolder EXCEPT ![t] = aliasesHolder[t]]
  BY MapFacts DEF CallsInv, Typed
<1>3. SUFFICES aliasesHolder' = aliasesHolder /\ \E n, its : \E c \in Calls : Step(t, c, n, its)
  BY <1>1
<1>4. PICK p \in Requests : p = [cmd |-> "socketDescriptor"]
  BY DEF Requests
<1>5. PICK q \in Requests : q = [cmd |-> "fetchBinds"]
  BY DEF Requests
<1>6. p \in MainMessages /\ q \in MainMessages
  BY DEF MainMessages
<1>7. \A op \in {"bind", "accept", "connect", "send"}, fd \in Descriptors, a \in Aliases \cup {NoOne} :
        /\ Call(op, fd, a) \in Calls /\ Call(op, fd, a).op = op /\ Call(op, fd, a).fd = fd
        /\ Call(op, fd, a).alias = a
  BY CallFacts DEF Call, Calls
<1>8. CASE socket(t)
  <2>1. UNCHANGED <<binds, aliasesHolder>> /\ mayAsk
    BY <1>8 DEF socket
  <2>2. CASE isConnected[t]
    <3>1. PICK c \in Calls : c = [idle EXCEPT !.op = "socket", !.at = "descriptor"]
      BY CallFacts DEF Calls
    <3>2. c.at = "descriptor" /\ c.op = "socket"
      BY <3>1, CallFacts DEF Calls
    <3>3. Posting(t, c, p)
      BY <1>4, <1>8, <2>2, <3>1 DEF socket, postMessage, Posting
    <3>4. CallTrue(t, c, binds[t])
      BY <3>2 DEF CallTrue
    <3>5. Step(t, c, p, binds[t])
      BY <1>2, <1>4, <1>6, <2>1, <3>2, <3>3, <3>4 DEF Step
    <3> QED
      BY <2>1, <3>5
  <2>3. CASE ~ isConnected[t]
    <3>1. PICK c \in Calls : c = [idle EXCEPT !.op = "socket", !.at = "ready"]
      BY CallFacts DEF Calls
    <3>2. c.at = "ready" /\ c.op = "socket"
      BY <3>1, CallFacts DEF Calls
    <3>3. Calling(t, c)
      BY <1>8, <2>3, <3>1 DEF socket, Calling
    <3>4. CallTrue(t, c, binds[t])
      BY <3>2 DEF CallTrue
    <3>5. Step(t, c, q, binds[t])
      BY <1>2, <1>5, <2>1, <3>2, <3>3, <3>4 DEF Step
    <3> QED
      BY <2>1, <3>5
  <2> QED
    BY <2>2, <2>3
<1>9. ASSUME NEW fd \in DOMAIN binds[t], binds[t][fd] = STUB, NEW a \in BindAliases,
             ensureBound(t, Call("bind", fd, a))
      PROVE  aliasesHolder' = aliasesHolder /\ \E n, its : \E c \in Calls : Step(t, c, n, its)
  <2>1. PICK d \in Calls : d = Call("bind", fd, a) /\ d.op = "bind" /\ d.fd = fd /\ d.alias = a
    BY <1>2, <1>7, <1>9 DEF Aliases
  <2>2. PICK c \in Calls : c = waiting(d, "client") /\ c.at = "client" /\ c.op = "bind"
                           /\ c.fd = fd /\ c.alias = a
    BY <2>1, CallFacts
  <2>3. /\ body(t, d, binds[t], aliasesHolder[t]) /\ aliasesHolder' = aliasesHolder
        /\ binds' = [binds EXCEPT ![t] = binds[t]]
    BY <1>2, <1>9, <2>1, BoundCall
  <2>4. Calling(t, c)
    BY <2>1, <2>2, <2>3 DEF body, Calling
  <2>5. CallTrue(t, c, binds[t])
    BY <1>9, <2>2 DEF CallTrue
  <2>6. Step(t, c, q, binds[t])
    BY <1>5, <2>2, <2>3, <2>4, <2>5 DEF Step
  <2> QED
    BY <2>3, <2>6
<1>10. ASSUME NEW fd \in DOMAIN binds[t], binds[t][fd] = STUB, NEW a \in BindAliases \cup RemoteAliases,
              ensureBound(t, Call("connect", fd, a))
       PROVE  aliasesHolder' = aliasesHolder /\ \E n, its : \E c \in Calls : Step(t, c, n, its)
  <2>1. PICK d \in Calls : d = Call("connect", fd, a) /\ d.op = "connect" /\ d.fd = fd /\ d.alias = a
    BY <1>2, <1>7, <1>10 DEF Aliases
  <2>2. PICK c \in Calls : c = waiting(d, "client") /\ c.at = "client" /\ c.op = "connect"
                           /\ c.fd = fd /\ c.alias = a
    BY <2>1, CallFacts
  <2>3. body(t, d, binds[t], aliasesHolder[t]) /\ aliasesHolder' = aliasesHolder
    BY <1>2, <1>10, <2>1, BoundCall
  <2>4. fd \in Descriptors /\ Bind(a, t) \in Binds /\ Bind(a, t) \in WorkerBinds
    BY <1>2, StubIsNoBind DEF Aliases
  <2>5. PICK n \in Updates : n = [cmd |-> "bindUpdate", fd |-> fd, bind |-> Bind(a, t)]
    BY <2>4 DEF Updates
  <2>6. PICK its : its = Put(binds[t], fd, Bind(a, t))
    OBVIOUS
  <2>7. Posting(t, c, n) /\ binds' = [binds EXCEPT ![t] = its]
    BY <2>1, <2>2, <2>3, <2>5, <2>6 DEF body, setBind, postMessage, Posting
  <2>8. fd \in DOMAIN its /\ its[fd] = Bind(a, t)
    BY <2>6 DEF Put
  <2>9. CallTrue(t, c, its)
    BY <1>10, <2>2, <2>8 DEF CallTrue
  <2>10. n \in MainMessages /\ n.cmd = "bindUpdate"
    BY <2>5 DEF MainMessages
  <2>11. Step(t, c, n, its)
    BY <1>10, <2>2, <2>5, <2>6, <2>7, <2>9, <2>10 DEF Step
  <2> QED
    BY <2>3, <2>11
<1>11. ASSUME NEW fd \in DOMAIN binds[t], listening(t, fd), mayAsk,
              ensureBound(t, Call("accept", fd, NoOne))
       PROVE  aliasesHolder' = aliasesHolder /\ \E n, its : \E c \in Calls : Step(t, c, n, its)
  <2>1. PICK d \in Calls : d = Call("accept", fd, NoOne) /\ d.op = "accept" /\ d.fd = fd
    BY <1>2, <1>7
  <2>2. PICK c \in Calls : c = waiting(d, "descriptor") /\ c.at = "descriptor" /\ c.op = "accept"
                           /\ c.fd = fd
    BY <2>1, CallFacts
  <2>3. /\ body(t, d, binds[t], aliasesHolder[t]) /\ aliasesHolder' = aliasesHolder
        /\ binds' = [binds EXCEPT ![t] = binds[t]]
    BY <1>2, <1>11, <2>1, BoundCall
  <2>4. Posting(t, c, p)
    BY <1>4, <2>1, <2>2, <2>3 DEF body, postMessage, Posting
  <2>5. CallTrue(t, c, binds[t])
    BY <1>11, <2>2 DEF CallTrue, listening
  <2>6. Step(t, c, p, binds[t])
    BY <1>4, <1>6, <1>11, <2>2, <2>3, <2>4, <2>5 DEF Step
  <2> QED
    BY <2>3, <2>6
<1>12. ASSUME NEW fd \in 1 .. socketDescriptors, t \in Sharing,
              ensureBound(t, Call("send", fd, NoOne))
       PROVE  aliasesHolder' = aliasesHolder /\ \E n, its : \E c \in Calls : Step(t, c, n, its)
  <2>1. fd \in Descriptors
    <3>1. socketDescriptors \in 0 .. MaxDescriptors /\ MaxDescriptors \in Nat
      BY <1>2 DEF Typed, ThreadsAssumption
    <3> QED
      BY <3>1 DEF Descriptors
  <2>2. PICK d \in Calls : d = Call("send", fd, NoOne) /\ d.op = "send" /\ d.fd = fd
    BY <1>7, <2>1
  <2>3. CASE fd \in DOMAIN binds[t]
    <3>1. /\ body(t, d, binds[t], aliasesHolder[t]) /\ aliasesHolder' = aliasesHolder
          /\ binds' = [binds EXCEPT ![t] = binds[t]]
      BY <1>2, <1>12, <2>2, <2>3, BoundCall
    <3>2. \/ Calling(t, idle)
          \/ /\ waiting(d, "transporter") \in Calls
             /\ \E n \in Requests : n.cmd = "wrtcSend" /\ Posting(t, waiting(d, "transporter"), n)
      BY <1>2, <2>2, <2>3, <3>1, SendGoesOn
    <3>3. CASE Calling(t, idle)
      <4>1. idle \in Calls /\ idle.at = "idle" /\ CallTrue(t, idle, binds[t])
        BY CallFacts
      <4>2. Step(t, idle, q, binds[t])
        BY <1>5, <3>1, <3>3, <4>1 DEF Step
      <4> QED
        BY <3>1, <4>1, <4>2
    <3>4. ASSUME NEW n \in Requests, n.cmd = "wrtcSend", Posting(t, waiting(d, "transporter"), n)
          PROVE  \E k, its : \E c \in Calls : Step(t, c, k, its)
      <4>1. PICK c \in Calls : c = waiting(d, "transporter") /\ c.at = "transporter" /\ c.op = "send"
        BY <2>2, CallFacts
      <4>2. CallTrue(t, c, binds[t])
        BY <4>1 DEF CallTrue
      <4>3. n \in MainMessages
        BY DEF MainMessages
      <4>4. Step(t, c, n, binds[t])
        BY <3>1, <3>4, <4>1, <4>2, <4>3 DEF Step
      <4> QED
        BY <4>4
    <3> QED
      BY <3>1, <3>2, <3>3, <3>4
  <2>4. CASE fd \notin DOMAIN binds[t]
    <3>1. PICK c \in Calls : c = waiting(d, "binds") /\ c.at = "binds" /\ c.op = "send"
      BY <2>2, CallFacts
    <3>2. Posting(t, c, q) /\ UNCHANGED <<binds, aliasesHolder>>
      BY <1>5, <1>12, <2>2, <2>4, <3>1 DEF ensureBound, postMessage, Posting
    <3>3. CallTrue(t, c, binds[t])
      BY <1>12, <3>1 DEF CallTrue
    <3>4. Step(t, c, q, binds[t])
      BY <1>2, <1>5, <1>6, <3>1, <3>2, <3>3 DEF Step
    <3> QED
      BY <3>2, <3>4
  <2> QED
    BY <2>3, <2>4
<1> QED
  BY <1>8, <1>9, <1>10, <1>11, <1>12 DEF Program

LEMMA ProgramKeepsCalls ==
  ASSUME ThreadsAssumption, CallsInv, NEW t \in Threads, Program(t)
  PROVE  CallsInv'
<1>1. /\ call[t] = idle
      /\ UNCHANGED <<aliases, used, news, isConnected, aliasesHolder, clientAliases, toWorker,
                     socketBinds, socketAliases, socketDescriptors, transporter>>
      /\ \E n, its : \E c \in Calls : Step(t, c, n, its)
  BY ProgramSteps
<1>2. PICK n, its : \E c \in Calls : Step(t, c, n, its)
  BY <1>1
<1>3. PICK c \in Calls : Step(t, c, n, its)
  BY <1>2
<1>4. /\ Typed /\ Awaited(t) /\ binds[t] \in Maps(WorkerBinds) /\ DOMAIN binds[t] \subseteq Descriptors
      /\ aliasesHolder' \in [Threads -> Tables] /\ clientAliases' \in [Threads -> Maps(Aliases)]
      /\ isConnected' \in [Threads -> BOOLEAN] /\ toWorker' \in [Threads -> Seq(WorkerMessages)]
      /\ news' \in [Threads -> Seq(News)]
  BY <1>1, MapFacts DEF CallsInv, Typed
<1>5. requested(t) = {} /\ answered(t) = {} /\ carried(t) = {} /\ ended(t) = {}
  BY <1>1, <1>4, CallFacts, NothingAwaited
<1>6. /\ Once(toMain[t], Requests) /\ requested(t) = {} /\ answered(t)' = {} /\ carried(t)' = {}
      /\ Once(toWorker'[t], Answers) /\ Once(news'[t], Endings) /\ ended(t)' = {}
  BY <1>1, <1>4, <1>5 DEF Awaited, answered, carried, ended, Held
<1>7. /\ toMain' \in [Threads -> Seq(MainMessages)] /\ call' \in [Threads -> Calls]
      /\ Awaited(t)' /\ call'[t] = c
      /\ \A u \in Threads \ {t} : toMain'[u] = toMain[u] /\ call'[u] = call[u]
  BY <1>3, <1>4, <1>6, CallGoesOn DEF Step
<1>8. its \in Maps(WorkerBinds)
  <2>1. ASSUME NEW fd \in DOMAIN binds[t], NEW a \in BindAliases \cup RemoteAliases
        PROVE  Put(binds[t], fd, Bind(a, t)) \in Maps(WorkerBinds)
    <3>1. fd \in Descriptors /\ Bind(a, t) \in WorkerBinds
      BY <1>4, StubIsNoBind DEF Aliases
    <3> QED
      BY <1>4, <3>1, PutFacts
  <2> QED
    BY <1>3, <1>4, <2>1 DEF Step
<1>9. call' = [call EXCEPT ![t] = c] /\ binds' = [binds EXCEPT ![t] = its] /\ CallTrue(t, c, its)
  BY <1>3 DEF Step, Posting, Calling
<1>10. t \notin due
  <2>1. [cmd |-> "socketDescriptor"] \in Requests
    BY DEF Requests
  <2> QED
    BY <1>1, <1>5, <2>1, CallFacts DEF due, requested
<1>11. t \in due' => c.at = "ready" \/ n.cmd = "socketDescriptor"
  <2>1. Held(toMain[t])' = Held(toMain'[t])
    BY DEF Held
  <2>2. Calling(t, c) => Held(toMain'[t]) = Held(toMain[t])
    BY DEF Calling
  <2>3. Posting(t, c, n) /\ n \in MainMessages => Held(toMain'[t]) = Held(toMain[t]) \cup {n}
    BY <1>4, PostFacts DEF Posting, Typed
  <2> QED
    BY <1>3, <1>7, <1>10, <2>1, <2>2, <2>3 DEF Step, due
<1>12. due' \subseteq due \cup {t}
  <2>1. \A u \in Threads : Held(toMain[u])' = Held(toMain'[u])
    BY DEF Held
  <2> QED
    BY <1>7, <2>1 DEF due
<1>13. DescriptorsLeft'
  <2>1. CASE t \notin due'
    BY <1>1, <1>4, <1>12, <2>1, DueKept DEF CallsInv, Typed
  <2>2. CASE t \in due'
    <3>1. mayAsk
      BY <1>3, <1>11, <2>2 DEF Step
    <3>2. due \subseteq asked
      <4> SUFFICES ASSUME NEW u \in Threads, u \in due PROVE u \in asked
        BY DEF due
      <4>1. Awaited(u) /\ CallTrue(u, call[u], binds[u])
        BY DEF CallsInv
      <4>2. CASE call[u].at = "ready"
        BY <4>1, <4>2 DEF CallTrue, asked
      <4>3. CASE [cmd |-> "socketDescriptor"] \in Held(toMain[u])
        <5>1. PICK p \in Requests : p = [cmd |-> "socketDescriptor"]
          BY DEF Requests
        <5>2. p \in requested(u) /\ p.cmd = "socketDescriptor"
          BY <4>3, <5>1 DEF requested
        <5> QED
          BY <4>1, <5>2 DEF Awaited, asked
      <4> QED
        BY <4>2, <4>3 DEF due
    <3>3. IsFiniteSet(asked) /\ Cardinality(asked) \in Nat
      BY FS_Subset, FS_CardinalityType DEF asked, ThreadsAssumption
    <3>4. /\ IsFiniteSet(asked \cup {t})
          /\ Cardinality(asked \cup {t}) \in {Cardinality(asked), Cardinality(asked) + 1}
      BY <3>3, FS_AddElement
    <3>5. due' \subseteq asked \cup {t}
      BY <1>12, <3>2
    <3>6. /\ Cardinality(due') <= Cardinality(asked \cup {t}) /\ Cardinality(due') \in Nat
      BY <3>4, <3>5, FS_Subset, FS_CardinalityType
    <3>7. socketDescriptors \in Nat /\ MaxDescriptors \in Nat
      BY <1>4 DEF Typed, ThreadsAssumption
    <3>8. socketDescriptors + Cardinality(asked) < MaxDescriptors
      BY <3>1 DEF mayAsk
    <3>9. socketDescriptors + Cardinality(due') <= MaxDescriptors
      BY <3>3, <3>4, <3>6, <3>7, <3>8
    <3> QED
      BY <1>1, <3>9 DEF DescriptorsLeft
  <2> QED
    BY <2>1, <2>2
<1>14. \A u \in Threads \ {t} : toWorker'[u] = toWorker[u] /\ news'[u] = news[u]
  BY <1>1
<1> QED
  BY <1>1, <1>4, <1>7, <1>8, <1>9, <1>13, <1>14, WorkerStep

LEMMA ReadyKeepsCalls ==
  ASSUME ThreadsAssumption, CallsInv, NEW t \in Threads, ready(t)
  PROVE  CallsInv'
<1>1. /\ call[t].at = "ready"
      /\ isConnected' = [isConnected EXCEPT ![t] = TRUE]
      /\ call' = [call EXCEPT ![t].at = "descriptor"]
      /\ postMessage(t, <<[cmd |-> "socketDescriptor"]>>)
      /\ UNCHANGED <<aliases, used, news, aliasesHolder, binds, clientAliases, toWorker,
                     socketBinds, socketAliases, socketDescriptors, transporter>>
  BY DEF ready, server, main
<1>2. /\ Typed /\ Awaited(t) /\ binds[t] \in Maps(WorkerBinds) /\ call[t] \in Calls
      /\ binds' = [binds EXCEPT ![t] = binds[t]] /\ CallTrue(t, call[t], binds[t])
      /\ aliasesHolder' \in [Threads -> Tables] /\ clientAliases' \in [Threads -> Maps(Aliases)]
      /\ isConnected' \in [Threads -> BOOLEAN] /\ toWorker' \in [Threads -> Seq(WorkerMessages)]
      /\ news' \in [Threads -> Seq(News)]
  BY <1>1 DEF CallsInv, Typed
<1>3. PICK c \in Calls : c = [call[t] EXCEPT !.at = "descriptor"]
  BY <1>2 DEF Calls
<1>4. c.at = "descriptor" /\ c.op = "socket"
  BY <1>1, <1>2, <1>3 DEF CallTrue, Calls
<1>5. PICK p \in Requests : p = [cmd |-> "socketDescriptor"]
  BY DEF Requests
<1>6. /\ call' = [call EXCEPT ![t] = c] /\ Posting(t, c, p)
      /\ p \in MainMessages /\ p.cmd = "socketDescriptor"
  BY <1>1, <1>3, <1>5 DEF Posting, postMessage, MainMessages
<1>7. requested(t) = {} /\ answered(t) = {} /\ carried(t) = {} /\ ended(t) = {}
  BY <1>1, <1>2, NothingAwaited
<1>8. /\ Once(toMain[t], Requests) /\ requested(t) = {} /\ answered(t)' = {} /\ carried(t)' = {}
      /\ Once(toWorker'[t], Answers) /\ Once(news'[t], Endings) /\ ended(t)' = {}
  BY <1>1, <1>2, <1>7 DEF Awaited, answered, carried, ended, Held
<1>9. /\ toMain' \in [Threads -> Seq(MainMessages)]
      /\ Awaited(t)' /\ \A u \in Threads \ {t} : toMain'[u] = toMain[u]
  BY <1>2, <1>4, <1>6, <1>8, CallGoesOn
<1>10. CallTrue(t, c, binds[t])
  BY <1>4 DEF CallTrue
<1>11. due' \subseteq due
  <2>1. t \in due
    BY <1>1 DEF due
  <2> QED
    BY <1>2, <1>6, <1>9, <2>1, DueOfOthers
<1>12. DescriptorsLeft'
  BY <1>1, <1>2, <1>11, DueKept DEF CallsInv, Typed
<1>13. \A u \in Threads \ {t} : toWorker'[u] = toWorker[u] /\ news'[u] = news[u]
  BY <1>1
<1> QED
  BY <1>1, <1>2, <1>6, <1>9, <1>10, <1>12, <1>13, WorkerStep

LEMMA NewsFacts ==
  /\ \A a \in Aliases, id \in Ids, set \in BOOLEAN :
       Alias(a, id, set) \in Broadcasts /\ Alias(a, id, set) \in News
  /\ \A a \in Aliases : Returns(a) \in Endings /\ Returns(a) \in News
  /\ Fails \in Endings /\ Fails \in News
  BY DEF Alias, Returns, Fails, Broadcasts, Endings, News

\* The server tells a thread something: how its call ends, if its call waits for that.
LEMMA NewsAwaited ==
  ASSUME CallsInv, NEW t \in Threads, NEW r \in Seq(News), news'[t] = news[t] \o r,
         Held(r) \cap Endings = {} \/ (Once(r, Endings) /\ call[t].at = "client" /\ Len(news[t]) = 0),
         UNCHANGED <<toMain, toWorker, call, transporter>>
  PROVE  Awaited(t)'
<1>1. Awaited(t) /\ news[t] \in Seq(News)
  BY DEF CallsInv, Typed
<1>2. /\ Lighter(toMain[t], toMain'[t], Requests) /\ Lighter(toWorker[t], toWorker'[t], Answers)
      /\ carried(t)' \subseteq carried(t) /\ call'[t].at = call[t].at
  BY DEF Lighter, carried
<1>3. CASE Held(r) \cap Endings = {}
  <2>1. Lighter(news[t], news'[t], Endings)
    BY <1>1, <1>3, LighterConcat
  <2> QED
    BY <1>1, <1>2, <2>1, AwaitedKept
<1>4. CASE Once(r, Endings) /\ call[t].at = "client" /\ Len(news[t]) = 0
  <2>1. Held(news[t]) = {}
    BY <1>1, <1>4, SeqFacts DEF Held
  <2>2. Once(news'[t], Endings)
    BY <1>1, <1>4, <2>1, OnceConcat
  <2>3. requested(t)' = requested(t) /\ answered(t)' = answered(t) /\ carried(t)' = carried(t)
    BY DEF requested, answered, carried, Held
  <2> QED
    BY <1>1, <1>4, <2>2, <2>3 DEF Awaited
<1> QED
  BY <1>3, <1>4

LEMMA ToldFacts ==
  ASSUME Typed, NEW messages \in [Threads -> Seq(News)], tell(messages)
  PROVE  /\ news' \in [Threads -> Seq(News)]
         /\ \A t \in Threads : news'[t] = IF isConnected[t] THEN news[t] \o messages[t] ELSE news[t]
<1>1. \A t \in Threads : news[t] \in Seq(News) /\ messages[t] \in Seq(News)
  BY DEF Typed
<1>2. \A t \in Threads : news[t] \o messages[t] \in Seq(News)
  BY <1>1
<1> QED
  BY <1>1, <1>2 DEF tell

LEMMA ServerStep ==
  ASSUME CallsInv, aliases' \in Tables, used' \subseteq Aliases, news' \in [Threads -> Seq(News)],
         UNCHANGED <<workers, toMain, toWorker, main>>,
         \A t \in Threads : Awaited(t)'
  PROVE  CallsInv'
<1>1. UNCHANGED <<isConnected, aliasesHolder, binds, clientAliases, call, toMain, toWorker,
                  socketBinds, socketAliases, socketDescriptors, transporter>>
  BY DEF workers, main
<1>2. Typed'
  BY <1>1 DEF CallsInv, Typed
<1>3. \A t \in Threads : CallTrue(t, call[t], binds[t])'
  BY <1>1 DEF CallsInv, CallTrue
<1>4. DescriptorsLeft'
  BY <1>1 DEF CallsInv, DescriptorsLeft, due, Held
<1> QED
  BY <1>2, <1>3, <1>4 DEF CallsInv

LEMMA TellingKeepsCalls ==
  ASSUME CallsInv, aliases' \in Tables, used' \subseteq Aliases,
         UNCHANGED <<workers, toMain, toWorker, main>>,
         NEW messages \in [Threads -> Seq(News)], tell(messages),
         \A t \in Threads : \/ Held(messages[t]) \cap Endings = {}
                            \/ /\ Once(messages[t], Endings)
                               /\ call[t].at = "client" /\ Len(news[t]) = 0
  PROVE  CallsInv'
<1>1. /\ news' \in [Threads -> Seq(News)]
      /\ \A t \in Threads : news'[t] = IF isConnected[t] THEN news[t] \o messages[t] ELSE news[t]
  BY ToldFacts DEF CallsInv
<1>2. UNCHANGED <<toMain, toWorker, call, transporter>>
  BY DEF workers, main
<1>3. ASSUME NEW t \in Threads PROVE Awaited(t)'
  <2>1. CASE isConnected[t]
    <3>1. news'[t] = news[t] \o messages[t] /\ messages[t] \in Seq(News)
      BY <1>1, <2>1
    <3> QED
      BY <1>2, <3>1, NewsAwaited
  <2>2. CASE ~ isConnected[t]
    <3>1. /\ Lighter(news[t], news'[t], Endings) /\ Lighter(toMain[t], toMain'[t], Requests)
          /\ Lighter(toWorker[t], toWorker'[t], Answers)
          /\ carried(t)' \subseteq carried(t) /\ call'[t].at = call[t].at
      BY <1>1, <1>2, <2>2 DEF Lighter, carried
    <3>2. Awaited(t)
      BY DEF CallsInv
    <3> QED
      BY <3>1, <3>2, AwaitedKept
  <2> QED
    BY <2>1, <2>2
<1> QED
  BY <1>1, <1>3, ServerStep

\* One broadcast, then how the call ends: a call waits for one ending.
LEMMA EndingFacts ==
  ASSUME NEW m \in Broadcasts, NEW k \in Broadcasts, NEW e \in Endings
  PROVE  /\ <<m>> \in Seq(News) /\ Held(<<m>>) = {m} /\ Held(<<m>>) \cap Endings = {}
         /\ <<m, e>> \in Seq(News) /\ Held(<<m, e>>) = {m, e} /\ Once(<<m, e>>, Endings)
         /\ <<m, k, e>> \in Seq(News) /\ Held(<<m, k, e>>) = {m, k, e}
         /\ Once(<<m, k, e>>, Endings)
<1>1. m \in News /\ k \in News /\ e \in News /\ m \notin Endings /\ k \notin Endings
  BY MessageKinds DEF News
<1>2. <<m>> \in Seq(News) /\ Held(<<m>>) = {m}
  BY <1>1, Single
<1>3. /\ <<m, e>> \in Seq(News) /\ Held(<<m, e>>) = {m, e} /\ DOMAIN <<m, e>> = {1, 2}
      /\ <<m, e>>[1] = m /\ <<m, e>>[2] = e
  BY <1>1, Double
<1>4. /\ <<m, k, e>> \in Seq(News) /\ Held(<<m, k, e>>) = {m, k, e}
      /\ DOMAIN <<m, k, e>> = {1, 2, 3}
      /\ <<m, k, e>>[1] = m /\ <<m, k, e>>[2] = k /\ <<m, k, e>>[3] = e
  BY <1>1, Triple
<1>5. Once(<<m, e>>, Endings)
  BY <1>1, <1>3 DEF Once
<1>6. Once(<<m, k, e>>, Endings)
  BY <1>1, <1>4 DEF Once
<1> QED
  BY <1>1, <1>2, <1>3, <1>4, <1>5, <1>6

\* What the server tells the threads when it registers an alias, and when it
\* introduces two clients.
registerNews(t, a) ==
  [u \in Threads |-> IF u = t THEN <<Alias(a, t, TRUE), Returns(a)>> ELSE <<Alias(a, t, TRUE)>>]
introduceNews(id, a, x) ==
  [t \in Threads |->
     CASE t = aliases[a] -> <<Alias(x, id, TRUE), Returns(x)>>
       [] t = id         -> <<Alias(x, id, TRUE), Alias(a, aliases[a], TRUE), Returns(x)>>
       [] OTHER          -> <<>>]

LEMMA RegisterFacts ==
  ASSUME CallsInv, NEW t \in Threads, register(t)
  PROVE  \E a \in BindAliases :
           /\ a \in Aliases /\ a = call[t].alias /\ waitsAtServer(t, "bind")
           /\ fresh(a) /\ registered(a, t) /\ tell(registerNews(t, a))
           /\ registerNews(t, a) \in [Threads -> Seq(News)]
<1>1. PICK a : a = call[t].alias
  OBVIOUS
<1>2. /\ waitsAtServer(t, "bind") /\ fresh(a) /\ registered(a, t)
      /\ tell([broadcast(Alias(a, t, TRUE)) EXCEPT ![t] = Append(@, Returns(a))])
  BY <1>1 DEF register
<1>3. a \in BindAliases /\ a \in Aliases
  BY <1>1, <1>2 DEF CallsInv, CallTrue, waitsAtServer, Aliases
<1>4. PICK m \in Broadcasts : m = Alias(a, t, TRUE)
  BY <1>3, NewsFacts DEF Ids
<1>5. PICK e \in Endings : e = Returns(a)
  BY <1>3, NewsFacts
<1>6. PICK one \in Seq(News) : one = <<m>> /\ Append(one, e) = <<m, e>>
  <2>1. m \in News /\ e \in News
    BY DEF News
  <2> QED
    BY <2>1, AppendToOne, EndingFacts
<1>7. PICK two \in Seq(News) : two = <<m, e>>
  BY EndingFacts
<1>8. PICK f : f = [u \in Threads |-> IF u = t THEN two ELSE one]
  OBVIOUS
<1>9. [broadcast(m) EXCEPT ![t] = Append(@, e)] = f
  <2>1. broadcast(m) = [u \in Threads |-> one]
    BY <1>6 DEF broadcast
  <2>2. Append(one, e) = two
    BY <1>6, <1>7
  <2>3. [[u \in Threads |-> one] EXCEPT ![t] = Append(@, e)]
          = [u \in Threads |-> IF u = t THEN Append(one, e) ELSE one]
    OBVIOUS
  <2> QED
    BY <1>8, <2>1, <2>2, <2>3
<1>10. f \in [Threads -> Seq(News)] /\ f = registerNews(t, a)
  BY <1>4, <1>5, <1>6, <1>7, <1>8 DEF registerNews
<1>11. tell(f)
  BY <1>2, <1>4, <1>5, <1>9
<1> QED
  BY <1>1, <1>2, <1>3, <1>10, <1>11

LEMMA IntroduceFacts ==
  ASSUME ThreadsAssumption, CallsInv, NEW id \in Ids, NEW x \in ConnectAliases, NEW a \in Aliases,
         introduce(id, a, x)
  PROVE  /\ aliases[a] \in Ids /\ aliases[a] # id /\ x \in Aliases
         /\ accepts(aliases[a], a) /\ connects(id, a) /\ fresh(x) /\ registered(x, id)
         /\ tell(introduceNews(id, a, x))
         /\ introduceNews(id, a, x) \in [Threads -> Seq(News)]
<1>1. /\ aliases[a] # id /\ accepts(aliases[a], a) /\ connects(id, a) /\ fresh(x)
      /\ registered(x, id) /\ tell(introduceNews(id, a, x))
  BY DEF introduce, introduceNews
<1>2. aliases[a] \in Ids /\ x \in Aliases
  BY <1>1 DEF accepts, Ids, Aliases
<1>4. PICK m \in Broadcasts : m = Alias(x, id, TRUE)
  BY <1>2, NewsFacts
<1>5. PICK k \in Broadcasts : k = Alias(a, aliases[a], TRUE)
  BY <1>2, NewsFacts
<1>6. PICK e \in Endings : e = Returns(x)
  BY <1>2, NewsFacts
<1>7. <<>> \in Seq(News) /\ <<m, e>> \in Seq(News) /\ <<m, k, e>> \in Seq(News)
  <2>1. <<>> \in Seq(News)
    OBVIOUS
  <2> QED
    BY <2>1, EndingFacts
<1>8. \A t \in Threads : introduceNews(id, a, x)[t] \in Seq(News)
  BY <1>1, <1>4, <1>5, <1>6, <1>7 DEF introduceNews
<1>9. introduceNews(id, a, x) \in [Threads -> Seq(News)]
  BY <1>8 DEF introduceNews
<1> QED
  BY <1>1, <1>2, <1>9

LEMMA RegisteredFacts ==
  ASSUME Typed, NEW a \in Aliases, NEW id \in Ids, registered(a, id)
  PROVE  /\ aliases' \in Tables /\ used' \subseteq Aliases
         /\ aliases'[a] = id /\ \A b \in Aliases \ {a} : aliases'[b] = aliases[b]
  BY DEF Typed, Tables, registered

LEMMA BroadcastFacts ==
  ASSUME NEW m \in Broadcasts
  PROVE  /\ broadcast(m) \in [Threads -> Seq(News)]
         /\ \A t \in Threads : broadcast(m)[t] = <<m>> /\ Held(broadcast(m)[t]) = {m}
         /\ \A t \in Threads : Held(broadcast(m)[t]) \cap Endings = {}
<1>1. <<m>> \in Seq(News) /\ Held(<<m>>) = {m} /\ m \notin Endings
  BY Single, MessageKinds DEF News
<1> QED
  BY <1>1 DEF broadcast

LEMMA ServerKeepsCalls ==
  ASSUME ThreadsAssumption, CallsInv, Server
  PROVE  CallsInv'
<1>1. UNCHANGED <<workers, toMain, toWorker, main>>
  BY DEF Server
<1>2. ASSUME NEW t \in Threads, register(t) PROVE CallsInv'
  <2>1. PICK a \in BindAliases :
           /\ a \in Aliases /\ a = call[t].alias /\ waitsAtServer(t, "bind")
           /\ fresh(a) /\ registered(a, t) /\ tell(registerNews(t, a))
           /\ registerNews(t, a) \in [Threads -> Seq(News)]
    BY <1>2, RegisterFacts
  <2>2. aliases' \in Tables /\ used' \subseteq Aliases
    BY <2>1, RegisteredFacts DEF CallsInv, Ids
  <2>3. PICK m \in Broadcasts : m = Alias(a, t, TRUE)
    BY <2>1, NewsFacts DEF Ids
  <2>4. PICK e \in Endings : e = Returns(a)
    BY <2>1, NewsFacts
  <2>5. Held(<<m>>) \cap Endings = {} /\ Once(<<m, e>>, Endings)
    BY EndingFacts
  <2>6. \A u \in Threads : \/ Held(registerNews(t, a)[u]) \cap Endings = {}
                           \/ /\ Once(registerNews(t, a)[u], Endings)
                              /\ call[u].at = "client" /\ Len(news[u]) = 0
    BY <2>1, <2>3, <2>4, <2>5 DEF registerNews, waitsAtServer
  <2>7. PICK messages \in [Threads -> Seq(News)] : messages = registerNews(t, a)
    BY <2>1
  <2> QED
    BY <1>1, <2>1, <2>2, <2>6, <2>7, TellingKeepsCalls
<1>3. ASSUME NEW t \in Threads, NEW x \in Aliases, refuse(t, x) PROVE CallsInv'
  <2>1. /\ call[t].at = "client" /\ Len(news[t]) = 0
        /\ news' = [news EXCEPT ![t] = @ \o <<Alias(x, t, FALSE), Fails>>]
        /\ used' = used \cup {x} /\ UNCHANGED aliases
    BY <1>3 DEF refuse, waitsAtServer
  <2>2. PICK m \in Broadcasts : m = Alias(x, t, FALSE)
    BY NewsFacts DEF Ids
  <2>3. PICK e \in Endings : e = Fails
    BY NewsFacts
  <2>4. PICK r \in Seq(News) : r = <<m, e>> /\ Once(r, Endings)
    BY EndingFacts
  <2>5. /\ news' = [news EXCEPT ![t] = @ \o r]
        /\ news \in [Threads -> Seq(News)] /\ news[t] \o r \in Seq(News)
    <3>1. news' = [news EXCEPT ![t] = @ \o <<m, e>>]
      BY <2>1, <2>2, <2>3
    <3>2. news \in [Threads -> Seq(News)] /\ news[t] \in Seq(News)
      BY DEF CallsInv, Typed
    <3>3. news[t] \o r \in Seq(News)
      BY <3>2, ConcatFacts
    <3> QED
      BY <2>4, <3>1, <3>2, <3>3
  <2>6. /\ news' \in [Threads -> Seq(News)] /\ news'[t] = news[t] \o r
        /\ \A u \in Threads \ {t} : news'[u] = news[u]
    BY <2>5
  <2>7. UNCHANGED <<toMain, toWorker, call, transporter>>
    BY <1>1 DEF workers, main
  <2>8. Awaited(t)'
    BY <2>1, <2>4, <2>6, <2>7, NewsAwaited
  <2>9. \A u \in Threads \ {t} : Awaited(u)'
    <3> TAKE u \in Threads \ {t}
    <3>1. /\ Lighter(news[u], news'[u], Endings) /\ Lighter(toMain[u], toMain'[u], Requests)
          /\ Lighter(toWorker[u], toWorker'[u], Answers)
          /\ carried(u)' \subseteq carried(u) /\ call'[u].at = call[u].at
      BY <2>6, <2>7 DEF Lighter, carried
    <3>2. Awaited(u)
      BY DEF CallsInv
    <3> QED
      BY <3>1, <3>2, AwaitedKept
  <2>10. aliases' \in Tables /\ used' \subseteq Aliases
    BY <2>1 DEF CallsInv, Typed
  <2> QED
    BY <1>1, <2>6, <2>8, <2>9, <2>10, ServerStep
<1>4. ASSUME NEW a \in RemoteAliases, registerRemote(a) PROVE CallsInv'
  <2>1. PICK m \in Broadcasts : m = Alias(a, Remote, TRUE)
    BY NewsFacts DEF Ids, Aliases
  <2>2. registered(a, Remote) /\ tell(broadcast(m)) /\ a \in Aliases /\ Remote \in Ids
    BY <1>4, <2>1 DEF registerRemote, Aliases, Ids
  <2>3. PICK messages \in [Threads -> Seq(News)] :
          /\ tell(messages) /\ \A t \in Threads : Held(messages[t]) \cap Endings = {}
    BY <2>2, BroadcastFacts
  <2>4. aliases' \in Tables /\ used' \subseteq Aliases
    BY <2>2, RegisteredFacts DEF CallsInv
  <2> QED
    BY <1>1, <2>3, <2>4, TellingKeepsCalls
<1>5. ASSUME NEW id \in Ids, NEW x \in ConnectAliases, NEW a \in Aliases, introduce(id, a, x)
      PROVE  CallsInv'
  <2>1. /\ aliases[a] \in Ids /\ aliases[a] # id /\ x \in Aliases
        /\ accepts(aliases[a], a) /\ connects(id, a) /\ fresh(x) /\ registered(x, id)
        /\ tell(introduceNews(id, a, x))
        /\ introduceNews(id, a, x) \in [Threads -> Seq(News)]
    BY <1>5, IntroduceFacts
  <2>2. aliases' \in Tables /\ used' \subseteq Aliases
    BY <2>1, RegisteredFacts DEF CallsInv
  <2>3. PICK m \in Broadcasts : m = Alias(x, id, TRUE)
    BY <2>1, NewsFacts
  <2>4. PICK k \in Broadcasts : k = Alias(a, aliases[a], TRUE)
    BY <2>1, NewsFacts
  <2>5. PICK e \in Endings : e = Returns(x)
    BY <2>1, NewsFacts
  <2>6. Held(<<>>) \cap Endings = {} /\ Once(<<m, e>>, Endings) /\ Once(<<m, k, e>>, Endings)
    <3>1. Held(<<>>) = {}
      BY DEF Held
    <3> QED
      BY <3>1, EndingFacts
  <2>7. PICK messages \in [Threads -> Seq(News)] : messages = introduceNews(id, a, x)
    BY <2>1
  <2>8. \A u \in Threads : \/ Held(messages[u]) \cap Endings = {}
                           \/ /\ Once(messages[u], Endings)
                              /\ call[u].at = "client" /\ Len(news[u]) = 0
    <3> TAKE u \in Threads
    <3>1. CASE u = aliases[a]
      <4>1. u # Remote
        BY DEF ThreadsAssumption
      <4>2. call[u].at = "client" /\ Len(news[u]) = 0
        BY <2>1, <3>1, <4>1 DEF accepts, waitsAtServer
      <4> QED
        BY <2>1, <2>3, <2>5, <2>6, <2>7, <3>1, <4>2 DEF introduceNews
    <3>2. CASE u # aliases[a] /\ u = id
      <4>1. u # Remote
        BY DEF ThreadsAssumption
      <4>2. call[u].at = "client" /\ Len(news[u]) = 0
        BY <2>1, <3>2, <4>1 DEF connects, waitsAtServer
      <4> QED
        BY <2>1, <2>3, <2>4, <2>5, <2>6, <2>7, <3>2, <4>2 DEF introduceNews
    <3>3. CASE u # aliases[a] /\ u # id
      BY <2>1, <2>6, <2>7, <3>3 DEF introduceNews
    <3> QED
      BY <3>1, <3>2, <3>3
  <2> QED
    BY <1>1, <2>1, <2>2, <2>7, <2>8, TellingKeepsCalls
<1>6. ASSUME NEW a \in Aliases, retract(a) PROVE CallsInv'
  <2>1. /\ aliases[a] \in Ids /\ aliases' = [aliases EXCEPT ![a] = NoOne] /\ used' = used
        /\ tell(broadcast(Alias(a, aliases[a], FALSE)))
    BY <1>6 DEF retract, CallsInv, Typed, Tables, Ids
  <2>2. PICK m \in Broadcasts : m = Alias(a, aliases[a], FALSE)
    BY <2>1, NewsFacts
  <2>3. PICK messages \in [Threads -> Seq(News)] :
          /\ tell(messages) /\ \A t \in Threads : Held(messages[t]) \cap Endings = {}
    BY <2>1, <2>2, BroadcastFacts
  <2>4. aliases' \in Tables /\ used' \subseteq Aliases
    BY <2>1 DEF CallsInv, Typed, Tables
  <2> QED
    BY <1>1, <2>3, <2>4, TellingKeepsCalls
<1> QED
  BY <1>2, <1>3, <1>4, <1>5, <1>6 DEF Server

----
(***************************************************************************)
(* The invariant of the calls                                              *)
(***************************************************************************)
LEMMA InitCalls ==
  ASSUME ThreadsAssumption, Init
  PROVE  CallsInv
<1>1. Typed
  <2>1. empty \in Maps(Binds) /\ empty \in Maps(WorkerBinds) /\ empty \in Maps(Aliases)
    <3>1. DOMAIN empty = {} /\ empty = [x \in {} |-> NoOne]
      BY DEF empty
    <3>2. \A S : empty \in [{} -> S]
      BY <3>1
    <3>3. {} \in SUBSET Descriptors
      OBVIOUS
    <3> QED
      BY <3>2, <3>3 DEF Maps
  <2>2. [a \in Aliases |-> NoOne] \in Tables
    BY DEF Tables
  <2>3. idle \in Calls /\ 0 \in 0 .. MaxDescriptors
    BY CallFacts
  <2> QED
    BY <2>1, <2>2, <2>3 DEF Init, Typed
<1>2. ASSUME NEW t \in Threads PROVE Awaited(t) /\ CallTrue(t, call[t], binds[t])
  <2>1. news[t] = <<>> /\ toMain[t] = <<>> /\ toWorker[t] = <<>> /\ call[t] = idle /\ transporter = {}
    BY DEF Init
  <2>2. Held(<<>>) = {} /\ \A S : Once(<<>>, S)
    BY DEF Held, Once
  <2>3. requested(t) = {} /\ answered(t) = {} /\ ended(t) = {} /\ carried(t) = {}
    BY <2>1, <2>2 DEF requested, answered, ended, carried
  <2>4. Awaited(t)
    BY <2>1, <2>2, <2>3 DEF Awaited
  <2> QED
    BY <2>1, <2>4, CallFacts
<1>3. DescriptorsLeft
  <2>1. due = {}
    BY CallFacts DEF due, Init, Held
  <2>2. Cardinality({}) = 0
    BY FS_EmptySet
  <2> QED
    BY <2>1, <2>2 DEF DescriptorsLeft, Init, ThreadsAssumption
<1> QED
  BY <1>1, <1>2, <1>3 DEF CallsInv

LEMMA NextKeepsCalls ==
  ASSUME CallsInv, [Next]_vars
  PROVE  CallsInv'
<1>1. CASE Next
  BY <1>1, ThreadsAssumption, MainKeepsCalls, MessageKeepsCalls, OperationKeepsCalls,
     ReadyKeepsCalls, ProgramKeepsCalls, TransportedKeepsCalls, ServerKeepsCalls DEF Next
<1>2. CASE UNCHANGED vars
  <2>1. UNCHANGED <<aliases, used, workers, toMain, toWorker, main, news, transporter, call>>
    BY <1>2 DEF vars, server, workers, main
  <2>2. aliases' \in Tables /\ used' \subseteq Aliases /\ news' \in [Threads -> Seq(News)]
    BY <2>1 DEF CallsInv, Typed
  <2>3. \A t \in Threads : Awaited(t)'
    BY <2>1, AwaitedKept DEF CallsInv, Lighter, carried
  <2> QED
    BY <2>1, <2>2, <2>3, ServerStep
<1> QED
  BY <1>1, <1>2

\* Whatever a thread waits for is under way, once: the request, the main thread's
\* answer to it, the send the transporter has, or the news from the server that
\* ends the call. No answer finds a worker that waits for something else.
THEOREM CallsInvariance == Spec => []CallsInv
<1>1. Init => CallsInv
  BY InitCalls, ThreadsAssumption
<1>2. CallsInv /\ [Next]_vars => CallsInv'
  BY NextKeepsCalls
<1> QED
  BY <1>1, <1>2, PTL DEF Spec

----
(***************************************************************************)
(* Descriptors                                                             *)
(***************************************************************************)

\* The messages that make somebody have a bind, or a descriptor.
boundOf(u) == {m \in Held(toMain[u]) : m.cmd = "bindUpdate"}
givenTo(u) ==
  {m \in Held(toWorker[u]) : m.cmd \in {"notifyBindAdd", "onFetchBinds", "onSocketDescriptor"}}

\* Nobody claims what is not true.
LEMMA ClaimsHeld ==
  ASSUME ThreadsAssumption, BindsInv, NEW fd \in Descriptors, NEW bind \in Binds, Claimed(fd, bind)
  PROVE  /\ bind.connectorId \in Threads /\ fd \in DOMAIN binds[bind.connectorId]
         /\ binds[bind.connectorId][fd] = bind /\ bind # STUB
         /\ Holds(bind.connectorId, fd)
         /\ \A t \in Threads : Holds(t, fd) => t = bind.connectorId
  BY StubIsNoBind DEF BindsInv, ClaimsTrue, OneHolder, Holds

LEMMA BindsKept ==
  ASSUME Typed, BindsInv, binds' = binds, socketDescriptors' = socketDescriptors,
         \A t \in Threads : DOMAIN clientAliases'[t] \subseteq DOMAIN binds[t],
         \A fd \in Descriptors, bind \in Binds : Claimed(fd, bind)' => Claimed(fd, bind),
         \A fd \in Descriptors, t \in Threads : Given(t, fd)' => Given(t, fd),
         \A fd \in Descriptors : Arrives(fd) => Arrives(fd)'
  PROVE  BindsInv'
<1>1. ClaimsTrue'
  BY DEF BindsInv, ClaimsTrue
<1>2. OneHolder'
  BY DEF BindsInv, OneHolder, Holds
<1>3. GivenNew'
  BY DEF BindsInv, GivenNew, Holds
<1>4. DescriptorsCounted'
  BY DEF BindsInv, DescriptorsCounted
<1>5. BindsArrive'
  <2>1. \A t \in Threads : DOMAIN binds[t] \subseteq Descriptors
    BY MapFacts DEF Typed
  <2> QED
    BY <2>1 DEF BindsInv, BindsArrive
<1> QED
  BY <1>1, <1>2, <1>3, <1>4, <1>5 DEF BindsInv

LEMMA NoNewBinds ==
  ASSUME Typed, BindsInv, binds' = binds, socketDescriptors' = socketDescriptors,
         socketBinds' = socketBinds,
         \A t \in Threads : DOMAIN clientAliases'[t] \subseteq DOMAIN binds[t],
         \A u \in Threads : boundOf(u)' = boundOf(u),
         \A u \in Threads : \A m \in givenTo(u)' :
           m \in givenTo(u) \/ (m.cmd = "onFetchBinds" /\ m.binds = socketBinds)
  PROVE  BindsInv'
<1>1. \A fd, bind : Claimed(fd, bind)' => Claimed(fd, bind)
  BY DEF Claimed, boundOf, givenTo
<1>2. \A fd \in Descriptors, t \in Threads : Given(t, fd)' => Given(t, fd)
  BY DEF Given, givenTo
<1>3. \A fd : Arrives(fd) => Arrives(fd)'
  BY DEF Arrives, boundOf
<1> QED
  BY <1>1, <1>2, <1>3, BindsKept

\* A thread has an address for its descriptor, and tells the main thread.
LEMMA BindSet ==
  ASSUME ThreadsAssumption, Typed, BindsInv, NEW t \in Threads, NEW fd \in DOMAIN binds[t],
         binds[t][fd] = STUB,
         NEW bind \in Binds, bind.connectorId = t,
         binds' = [binds EXCEPT ![t] = Put(binds[t], fd, bind)],
         boundOf(t)' = boundOf(t) \cup {[cmd |-> "bindUpdate", fd |-> fd, bind |-> bind]},
         \A u \in Threads \ {t} : boundOf(u)' = boundOf(u),
         \A u \in Threads : givenTo(u)' \subseteq givenTo(u),
         UNCHANGED <<socketBinds, socketDescriptors, clientAliases>>
  PROVE  BindsInv'
<1>1. /\ DOMAIN binds'[t] = DOMAIN binds[t] /\ binds'[t][fd] = bind
      /\ \A x \in DOMAIN binds[t] : x # fd => binds'[t][x] = binds[t][x]
      /\ \A u \in Threads \ {t} : binds'[u] = binds[u]
  <2>1. binds'[t] = Put(binds[t], fd, bind) /\ \A u \in Threads \ {t} : binds'[u] = binds[u]
    BY DEF Typed
  <2>2. DOMAIN binds[t] \cup {fd} = DOMAIN binds[t]
    OBVIOUS
  <2> QED
    BY <2>1, <2>2 DEF Put
<1>2. fd \in Descriptors /\ \A u \in Threads : DOMAIN binds[u] \subseteq Descriptors
  BY MapFacts DEF Typed
<1>3. \A b \in Binds : ~ Claimed(fd, b)
  <2> SUFFICES ASSUME NEW b \in Binds, Claimed(fd, b) PROVE FALSE
    OBVIOUS
  <2>1. Holds(t, fd)
    BY DEF Holds
  <2> QED
    BY <1>2, <2>1, ClaimsHeld
<1>4. \A x \in Descriptors, b \in Binds : Claimed(x, b)' => Claimed(x, b) \/ (x = fd /\ b = bind)
  <2> SUFFICES ASSUME NEW x \in Descriptors, NEW b \in Binds, Claimed(x, b)'
               PROVE  Claimed(x, b) \/ (x = fd /\ b = bind)
    OBVIOUS
  <2>1. CASE \E u \in Threads : x \in DOMAIN binds'[u] /\ binds'[u][x] = b /\ b # STUB
    BY <1>1, <2>1 DEF Claimed
  <2>2. CASE x \in DOMAIN socketBinds' /\ socketBinds'[x] = b
    BY <2>2 DEF Claimed
  <2>3. CASE \E u \in Threads : \E m \in Held(toMain[u])' :
               m.cmd = "bindUpdate" /\ m.fd = x /\ m.bind = b
    BY <2>3 DEF Claimed, boundOf
  <2>4. CASE \E u \in Threads : \E m \in Held(toWorker[u])' :
               \/ m.cmd = "notifyBindAdd" /\ m.fd = x /\ m.bind = b
               \/ m.cmd = "onFetchBinds" /\ x \in DOMAIN m.binds /\ m.binds[x] = b
    BY <2>4 DEF Claimed, givenTo
  <2> QED
    BY <2>1, <2>2, <2>3, <2>4 DEF Claimed
<1>5. ClaimsTrue'
  <2> SUFFICES ASSUME NEW x \in Descriptors, NEW b \in Binds, Claimed(x, b)'
               PROVE  x \in DOMAIN binds'[b.connectorId] /\ binds'[b.connectorId][x] = b
    BY DEF ClaimsTrue
  <2>1. CASE x = fd /\ b = bind
    BY <1>1, <2>1
  <2>2. CASE Claimed(x, b)
    <3>1. /\ b.connectorId \in Threads /\ x \in DOMAIN binds[b.connectorId]
          /\ binds[b.connectorId][x] = b
      BY <2>2, ClaimsHeld
    <3>2. x # fd
      BY <1>3, <2>2
    <3> QED
      BY <1>1, <3>1, <3>2
  <2> QED
    BY <1>4, <2>1, <2>2
<1>6. \A u \in Threads, x \in Descriptors : Holds(u, x)' <=> Holds(u, x)
  BY <1>1 DEF Holds
<1>7. OneHolder'
  BY <1>6 DEF BindsInv, OneHolder
<1>8. GivenNew'
  <2>1. \A u \in Threads, x \in Descriptors : Given(u, x)' => Given(u, x)
    BY DEF Given, givenTo
  <2> QED
    BY <1>6, <2>1 DEF BindsInv, GivenNew
<1>9. DescriptorsCounted'
  BY <1>1 DEF BindsInv, DescriptorsCounted
<1>10. BindsArrive'
  <2>1. Arrives(fd)'
    <3>1. PICK m \in boundOf(t)' : m = [cmd |-> "bindUpdate", fd |-> fd, bind |-> bind]
      OBVIOUS
    <3>2. m.fd = fd
      BY <3>1
    <3> QED
      BY <3>1, <3>2 DEF Arrives, boundOf
  <2>2. \A x : Arrives(x) => Arrives(x)'
    BY DEF Arrives, boundOf
  <2> QED
    BY <1>1, <2>1, <2>2 DEF BindsInv, BindsArrive
<1> QED
  BY <1>5, <1>7, <1>8, <1>9, <1>10 DEF BindsInv

\* A thread is told of binds that others claim.
LEMMA BindsLearnt ==
  ASSUME ThreadsAssumption, Typed, BindsInv, NEW t \in Threads, NEW its \in Maps(WorkerBinds),
         DOMAIN binds[t] \subseteq DOMAIN its,
         \A fd \in DOMAIN binds[t] : its[fd] = binds[t][fd],
         \A fd \in DOMAIN its \ DOMAIN binds[t] : its[fd] \in Binds /\ Claimed(fd, its[fd]),
         binds' = [binds EXCEPT ![t] = its],
         \A u \in Threads : boundOf(u)' = boundOf(u) /\ givenTo(u)' \subseteq givenTo(u),
         UNCHANGED <<socketBinds, socketDescriptors, clientAliases>>
  PROVE  BindsInv'
<1>1. binds'[t] = its /\ \A u \in Threads \ {t} : binds'[u] = binds[u]
  BY DEF Typed
<1>2. DOMAIN its \subseteq Descriptors /\ \A u \in Threads : DOMAIN binds[u] \subseteq Descriptors
  BY MapFacts DEF Typed
<1>3. \A fd \in Descriptors, bind \in Binds : Claimed(fd, bind)' => Claimed(fd, bind)
  <2> SUFFICES ASSUME NEW fd \in Descriptors, NEW bind \in Binds, Claimed(fd, bind)'
               PROVE  Claimed(fd, bind)
    OBVIOUS
  <2>1. CASE \E u \in Threads : fd \in DOMAIN binds'[u] /\ binds'[u][fd] = bind /\ bind # STUB
    BY <1>1, <2>1 DEF Claimed
  <2>2. CASE ~ \E u \in Threads : fd \in DOMAIN binds'[u] /\ binds'[u][fd] = bind /\ bind # STUB
    BY <2>2 DEF Claimed, boundOf, givenTo
  <2> QED
    BY <2>1, <2>2
<1>4. \A u \in Threads : DOMAIN binds[u] \subseteq DOMAIN binds'[u]
                         /\ \A x \in DOMAIN binds[u] : binds'[u][x] = binds[u][x]
  BY <1>1
<1>5. ClaimsTrue'
  <2> SUFFICES ASSUME NEW x \in Descriptors, NEW b \in Binds, Claimed(x, b)'
               PROVE  x \in DOMAIN binds'[b.connectorId] /\ binds'[b.connectorId][x] = b
    BY DEF ClaimsTrue
  <2> QED
    BY <1>3, <1>4, ClaimsHeld
<1>6. \A u \in Threads, x \in Descriptors : Holds(u, x)' <=> Holds(u, x)
  <2> TAKE u \in Threads, x \in Descriptors
  <2>1. CASE x \in DOMAIN binds[u]
    BY <1>4, <2>1 DEF Holds
  <2>2. CASE x \notin DOMAIN binds[u]
    <3>1. ~ Holds(u, x)
      BY <2>2 DEF Holds
    <3>2. ASSUME Holds(u, x)' PROVE FALSE
      <4>1. u = t /\ x \in DOMAIN its
        BY <1>1, <2>2, <3>2 DEF Holds
      <4>2. PICK b \in Binds : b = its[x] /\ Claimed(x, b)
        BY <2>2, <4>1
      <4>3. b.connectorId = t
        BY <1>1, <3>2, <4>1, <4>2, StubIsNoBind DEF Holds
      <4> QED
        BY <2>2, <4>1, <4>2, <4>3, ClaimsHeld
    <3> QED
      BY <3>1, <3>2
  <2> QED
    BY <2>1, <2>2
<1>7. OneHolder'
  BY <1>6 DEF BindsInv, OneHolder
<1>8. GivenNew'
  <2>1. \A u \in Threads, x \in Descriptors : Given(u, x)' => Given(u, x)
    BY DEF Given, givenTo
  <2> QED
    BY <1>6, <2>1 DEF BindsInv, GivenNew
<1>9. \A x \in DOMAIN its \ DOMAIN binds[t] :
        \E u \in Threads : x \in DOMAIN binds[u] /\ binds[u][x] # STUB
  BY <1>2, ClaimsHeld
<1>10. DescriptorsCounted'
  BY <1>1, <1>4, <1>9 DEF BindsInv, DescriptorsCounted
<1>11. BindsArrive'
  <2>1. \A x : Arrives(x) => Arrives(x)'
    BY DEF Arrives, boundOf
  <2> QED
    BY <1>1, <1>9, <2>1 DEF BindsInv, BindsArrive
<1> QED
  BY <1>5, <1>7, <1>8, <1>10, <1>11 DEF BindsInv

\* A thread is given a descriptor, which no other thread has.
LEMMA BindGiven ==
  ASSUME ThreadsAssumption, Typed, BindsInv, NEW t \in Threads, NEW fd \in Descriptors, Given(t, fd),
         binds' = [binds EXCEPT ![t] = Put(binds[t], fd, STUB)],
         \A u \in Threads : boundOf(u)' = boundOf(u) /\ givenTo(u)' \subseteq givenTo(u),
         ~ Given(t, fd)',
         UNCHANGED <<socketBinds, socketDescriptors, clientAliases>>
  PROVE  BindsInv'
<1>1. fd <= socketDescriptors /\ \A u \in Threads : ~ Holds(u, fd) /\ (Given(u, fd) => u = t)
  BY DEF BindsInv, GivenNew
<1>2. \A b \in Binds : ~ Claimed(fd, b)
  BY <1>1, ClaimsHeld
<1>3. /\ DOMAIN binds'[t] = DOMAIN binds[t] \cup {fd} /\ binds'[t][fd] = STUB
      /\ \A x \in DOMAIN binds[t] : x # fd => binds'[t][x] = binds[t][x]
      /\ \A u \in Threads \ {t} : binds'[u] = binds[u]
  BY DEF Put, Typed
<1>4. \A x \in Descriptors, b \in Binds : Claimed(x, b)' => Claimed(x, b)
  <2> SUFFICES ASSUME NEW x \in Descriptors, NEW b \in Binds, Claimed(x, b)'
               PROVE  Claimed(x, b)
    OBVIOUS
  <2>1. CASE \E u \in Threads : x \in DOMAIN binds'[u] /\ binds'[u][x] = b /\ b # STUB
    BY <1>3, <2>1 DEF Claimed
  <2>2. CASE ~ \E u \in Threads : x \in DOMAIN binds'[u] /\ binds'[u][x] = b /\ b # STUB
    BY <2>2 DEF Claimed, boundOf, givenTo
  <2> QED
    BY <2>1, <2>2
<1>5. ClaimsTrue'
  <2> SUFFICES ASSUME NEW x \in Descriptors, NEW b \in Binds, Claimed(x, b)'
               PROVE  x \in DOMAIN binds'[b.connectorId] /\ binds'[b.connectorId][x] = b
    BY DEF ClaimsTrue
  <2>1. /\ b.connectorId \in Threads /\ x \in DOMAIN binds[b.connectorId]
        /\ binds[b.connectorId][x] = b /\ x # fd
    BY <1>2, <1>4, ClaimsHeld
  <2> QED
    BY <1>3, <2>1
<1>6. \A u \in Threads, x \in Descriptors : Holds(u, x)' => Holds(u, x) \/ (u = t /\ x = fd)
  BY <1>3 DEF Holds
<1>7. OneHolder'
  BY <1>1, <1>6 DEF BindsInv, OneHolder
<1>8. GivenNew'
  <2>1. \A u \in Threads, x \in Descriptors : Given(u, x)' => Given(u, x) /\ x # fd
    <3>1. \A u \in Threads, x \in Descriptors : Given(u, x)' => Given(u, x)
      BY DEF Given, givenTo
    <3> QED
      BY <1>1, <3>1
  <2> QED
    BY <1>6, <2>1 DEF BindsInv, GivenNew
<1>9. DescriptorsCounted'
  <2>1. socketDescriptors \in Nat
    BY DEF Typed, ThreadsAssumption
  <2>2. fd \in 1 .. socketDescriptors
    BY <1>1, <2>1 DEF Descriptors
  <2> QED
    BY <1>3, <2>2 DEF BindsInv, DescriptorsCounted
<1>10. BindsArrive'
  <2>1. \A x : Arrives(x) => Arrives(x)'
    BY DEF Arrives, boundOf
  <2> QED
    BY <1>3, <2>1 DEF BindsInv, BindsArrive
<1> QED
  BY <1>5, <1>7, <1>8, <1>9, <1>10 DEF BindsInv

LEMMA MainKeepsBinds ==
  ASSUME ThreadsAssumption, CallsInv, BindsInv, NEW t \in Threads, handleMessage(t)
  PROVE  BindsInv'
<1>1. PICK m : /\ m = Head(toMain[t]) /\ toMain[t] # <<>>
               /\ toMain' = [toMain EXCEPT ![t] = Tail(@)]
               /\ \/ m.cmd = "bindUpdate" /\ handleBindUpdate(t, m)
                  \/ m.cmd = "aliasUpdate" /\ handleAliasUpdate(t, m)
                  \/ m.cmd = "fetchBinds" /\ handleFetchBinds(t)
                  \/ m.cmd = "socketDescriptor" /\ handleSocketDescriptor(t)
                  \/ m.cmd = "wrtcSend" /\ handleWrtcSend(t, m)
               /\ UNCHANGED <<server, news, workers>>
  BY DEF handleMessage
<1>2. UNCHANGED <<aliases, used, news, isConnected, aliasesHolder, binds, clientAliases, call>>
  BY <1>1 DEF server, workers
<1>3. /\ m \in MainMessages /\ m \in Held(toMain[t])
      /\ Held(toMain[t]) = Held(toMain'[t]) \cup {m}
      /\ \A u \in Threads \ {t} : toMain'[u] = toMain[u]
  BY <1>1, TakenFromMain DEF CallsInv
<1>4. \A u \in Threads : /\ Held(toMain[u])' = Held(toMain'[u])
                         /\ Held(toWorker[u])' = Held(toWorker'[u])
  BY DEF Held
<1>5. \A u \in Threads : boundOf(u)' \subseteq boundOf(u)
  BY <1>3, <1>4 DEF boundOf
<1>6. m.cmd # "bindUpdate" => \A u \in Threads : boundOf(u)' = boundOf(u)
  BY <1>3, <1>4 DEF boundOf
<1>7. /\ Typed /\ \A u \in Threads : DOMAIN clientAliases'[u] \subseteq DOMAIN binds[u]
      /\ toWorker \in [Threads -> Seq(WorkerMessages)]
  BY <1>2 DEF CallsInv, Typed, BindsInv, DescriptorsCounted
<1>8. CASE m.cmd = "bindUpdate" /\ handleBindUpdate(t, m)
  <2>1. m.fd \in Descriptors /\ m.bind \in Binds
    BY <1>3, <1>8, MessageKinds DEF MainMessages, Updates
  <2>2. PICK n \in Notices : n = [cmd |-> "notifyBindAdd", fd |-> m.fd, bind |-> m.bind]
    BY <2>1 DEF Notices
  <2>3. /\ socketBinds' = Put(socketBinds, m.fd, m.bind) /\ notifyAllThreads(t, n)
        /\ UNCHANGED <<socketAliases, socketDescriptors, transporter>>
    BY <1>8, <2>2 DEF handleBindUpdate
  <2>4. \A u \in Threads : Held(toWorker'[u]) \subseteq Held(toWorker[u]) \cup {n}
    BY <1>7, <2>3, NotifyFacts
  <2>5. n.cmd = "notifyBindAdd" /\ n.fd = m.fd /\ n.bind = m.bind
    BY <2>2
  <2>6. Claimed(m.fd, m.bind)
    BY <1>3, <1>8 DEF Claimed
  <2>7. \A fd \in Descriptors, bind \in Binds : Claimed(fd, bind)' => Claimed(fd, bind)
    <3> SUFFICES ASSUME NEW fd \in Descriptors, NEW bind \in Binds, Claimed(fd, bind)'
                 PROVE  Claimed(fd, bind)
      OBVIOUS
    <3>1. CASE \E u \in Threads : fd \in DOMAIN binds'[u] /\ binds'[u][fd] = bind /\ bind # STUB
      BY <1>2, <3>1 DEF Claimed
    <3>2. CASE fd \in DOMAIN socketBinds' /\ socketBinds'[fd] = bind
      <4>1. CASE fd = m.fd
        BY <2>3, <2>6, <3>2, <4>1 DEF Put
      <4>2. CASE fd # m.fd
        BY <2>3, <3>2, <4>2 DEF Put, Claimed
      <4> QED
        BY <4>1, <4>2
    <3>3. CASE \E u \in Threads : \E k \in Held(toMain[u])' :
                 k.cmd = "bindUpdate" /\ k.fd = fd /\ k.bind = bind
      BY <1>5, <3>3 DEF Claimed, boundOf
    <3>4. CASE \E u \in Threads : \E k \in Held(toWorker[u])' :
                 \/ k.cmd = "notifyBindAdd" /\ k.fd = fd /\ k.bind = bind
                 \/ k.cmd = "onFetchBinds" /\ fd \in DOMAIN k.binds /\ k.binds[fd] = bind
      <4>0. PICK u \in Threads : \E k \in Held(toWorker[u])' :
                 \/ k.cmd = "notifyBindAdd" /\ k.fd = fd /\ k.bind = bind
                 \/ k.cmd = "onFetchBinds" /\ fd \in DOMAIN k.binds /\ k.binds[fd] = bind
        BY <3>4
      <4>1. PICK k \in Held(toWorker'[u]) :
                 \/ k.cmd = "notifyBindAdd" /\ k.fd = fd /\ k.bind = bind
                 \/ k.cmd = "onFetchBinds" /\ fd \in DOMAIN k.binds /\ k.binds[fd] = bind
        BY <1>4, <4>0
      <4>2. CASE k = n
        BY <2>5, <2>6, <4>1, <4>2
      <4>3. CASE k # n
        BY <2>4, <4>1, <4>3 DEF Claimed
      <4> QED
        BY <4>2, <4>3
    <3> QED
      BY <3>1, <3>2, <3>3, <3>4 DEF Claimed
  <2>8. \A fd \in Descriptors, u \in Threads : Given(u, fd)' => Given(u, fd)
    <3> SUFFICES ASSUME NEW fd \in Descriptors, NEW u \in Threads, Given(u, fd)' PROVE Given(u, fd)
      OBVIOUS
    <3>1. PICK k : k = [cmd |-> "onSocketDescriptor", fd |-> fd]
      OBVIOUS
    <3>2. k \in Held(toWorker'[u]) /\ k # n
      BY <1>4, <2>5, <3>1 DEF Given
    <3> QED
      BY <2>4, <3>1, <3>2 DEF Given
  <2>9. \A fd \in Descriptors : Arrives(fd) => Arrives(fd)'
    <3> SUFFICES ASSUME NEW fd \in Descriptors, Arrives(fd) PROVE Arrives(fd)'
      OBVIOUS
    <3>1. DOMAIN socketBinds' = DOMAIN socketBinds \cup {m.fd}
      BY <2>3 DEF Put
    <3>2. CASE fd \in DOMAIN socketBinds'
      BY <3>2 DEF Arrives
    <3>3. CASE fd \notin DOMAIN socketBinds'
      BY <1>3, <1>4, <3>1, <3>3 DEF Arrives
    <3> QED
      BY <3>2, <3>3
  <2> QED
    BY <1>2, <1>7, <2>3, <2>7, <2>8, <2>9, BindsKept
<1>9. CASE m.cmd = "aliasUpdate" /\ handleAliasUpdate(t, m)
  <2>1. m.alias \in Aliases /\ m.id \in Ids /\ m.isDelete \in BOOLEAN
    BY <1>3, <1>9, MessageKinds DEF MainMessages, Updates
  <2>2. PICK n \in Notices : n = [cmd |-> "notifyAliasAdd", alias |-> m.alias, id |-> m.id,
                                  isDelete |-> m.isDelete]
    BY <2>1 DEF Notices
  <2>3. notifyAllThreads(t, n) /\ UNCHANGED <<socketBinds, socketDescriptors>>
    BY <1>9, <2>2 DEF handleAliasUpdate
  <2>4. n.cmd = "notifyAliasAdd"
    BY <2>2
  <2>5. \A u \in Threads : givenTo(u)' \subseteq givenTo(u)
    <3>1. \A u \in Threads : Held(toWorker'[u]) \subseteq Held(toWorker[u]) \cup {n}
      BY <1>7, <2>3, NotifyFacts
    <3> QED
      BY <1>4, <2>4, <3>1 DEF givenTo
  <2> QED
    BY <1>2, <1>6, <1>7, <1>9, <2>3, <2>5, NoNewBinds
<1>10. CASE m.cmd = "fetchBinds" /\ handleFetchBinds(t)
  <2>1. PICK n \in Answers : n = [cmd |-> "onFetchBinds", binds |-> socketBinds,
                                  aliases |-> socketAliases]
    BY DEF Answers, CallsInv, Typed
  <2>2. answer(t, n) /\ UNCHANGED <<socketBinds, socketDescriptors>>
    BY <1>10, <2>1 DEF handleFetchBinds, main
  <2>3. n.cmd = "onFetchBinds" /\ n.binds = socketBinds
    BY <2>1
  <2>4. \A u \in Threads : \A k \in givenTo(u)' :
          k \in givenTo(u) \/ (k.cmd = "onFetchBinds" /\ k.binds = socketBinds)
    <3>1. \A u \in Threads : Held(toWorker'[u]) \subseteq Held(toWorker[u]) \cup {n}
      BY <1>7, <2>2, AnswerFacts
    <3> QED
      BY <1>4, <2>3, <3>1 DEF givenTo
  <2> QED
    BY <1>2, <1>6, <1>7, <1>10, <2>2, <2>4, NoNewBinds
<1>11. CASE m.cmd = "wrtcSend" /\ handleWrtcSend(t, m)
  <2>1. UNCHANGED <<socketBinds, socketDescriptors, toWorker>>
    BY <1>11 DEF handleWrtcSend
  <2>2. \A u \in Threads : givenTo(u)' = givenTo(u)
    BY <2>1 DEF givenTo, Held
  <2> QED
    BY <1>2, <1>6, <1>7, <1>11, <2>1, <2>2, NoNewBinds
<1>12. CASE m.cmd = "socketDescriptor" /\ handleSocketDescriptor(t)
  <2>1. /\ socketDescriptors' = socketDescriptors + 1 /\ socketBinds' = socketBinds
        /\ answer(t, [cmd |-> "onSocketDescriptor", fd |-> socketDescriptors'])
    BY <1>12 DEF handleSocketDescriptor
  <2>2. socketDescriptors \in Nat /\ socketDescriptors' \in Descriptors
    <3>1. CallsInv'
      BY MainKeepsCalls
    <3>2. socketDescriptors' \in 0 .. MaxDescriptors /\ socketDescriptors \in 0 .. MaxDescriptors
      BY <3>1 DEF CallsInv, Typed
    <3> QED
      BY <2>1, <3>2 DEF Descriptors, ThreadsAssumption
  <2>3. PICK f \in Descriptors : f = socketDescriptors'
    BY <2>2
  <2>4. PICK n \in Answers : n = [cmd |-> "onSocketDescriptor", fd |-> f]
    BY DEF Answers
  <2>5. \A u \in Threads : Held(toWorker'[u]) = IF u = t THEN Held(toWorker[u]) \cup {n}
                                                         ELSE Held(toWorker[u])
    <3>1. answer(t, n)
      BY <2>1, <2>3, <2>4
    <3> QED
      BY <1>7, <3>1, AnswerFacts
  <2>6. n.cmd = "onSocketDescriptor" /\ n.fd = f
    BY <2>4
  <2>7. \A u \in Threads, x \in Descriptors : Given(u, x)' => Given(u, x) \/ (u = t /\ x = f)
    <3> SUFFICES ASSUME NEW u \in Threads, NEW x \in Descriptors, Given(u, x)'
                 PROVE  Given(u, x) \/ (u = t /\ x = f)
      OBVIOUS
    <3>1. PICK k : k = [cmd |-> "onSocketDescriptor", fd |-> x]
      OBVIOUS
    <3>2. k \in Held(toWorker'[u]) /\ k.fd = x
      BY <1>4, <3>1 DEF Given
    <3> QED
      BY <2>5, <2>6, <3>1, <3>2 DEF Given
  <2>8. \A u \in Threads : DOMAIN binds[u] \subseteq 1 .. socketDescriptors
    BY DEF BindsInv, DescriptorsCounted
  <2>9. \A u \in Threads : ~ Holds(u, f) /\ ~ Given(u, f)
    BY <2>1, <2>2, <2>3, <2>8 DEF Holds, BindsInv, GivenNew
  <2>10. GivenNew'
    <3> SUFFICES ASSUME NEW x \in Descriptors, NEW u \in Threads, Given(u, x)'
                 PROVE  /\ x <= socketDescriptors'
                        /\ \A v \in Threads : ~ Holds(v, x)' /\ (Given(v, x)' => u = v)
      BY DEF GivenNew
    <3>1. \A v \in Threads : Holds(v, x)' => Holds(v, x)
      BY <1>2 DEF Holds
    <3>2. CASE x = f
      BY <2>2, <2>3, <2>7, <2>9, <3>1, <3>2 DEF Descriptors
    <3>3. CASE x # f
      <4>1. Given(u, x)
        BY <2>7, <3>3
      <4>2. /\ x <= socketDescriptors
            /\ \A v \in Threads : ~ Holds(v, x) /\ (Given(v, x) => u = v)
        BY <4>1 DEF BindsInv, GivenNew
      <4>3. x <= socketDescriptors'
        BY <2>1, <2>2, <4>2 DEF Descriptors
      <4> QED
        BY <2>7, <3>1, <3>3, <4>2, <4>3
    <3> QED
      BY <3>2, <3>3
  <2>11. ClaimsTrue'
    <3>1. \A fd, bind : Claimed(fd, bind)' => Claimed(fd, bind)
      BY <1>2, <1>4, <1>5, <2>1, <2>5, <2>6 DEF Claimed, boundOf
    <3> QED
      BY <1>2, <3>1 DEF BindsInv, ClaimsTrue
  <2>12. OneHolder'
    BY <1>2 DEF BindsInv, OneHolder, Holds
  <2>13. DescriptorsCounted'
    BY <1>2, <1>7, <2>1, <2>2, <2>8 DEF DescriptorsCounted
  <2>14. BindsArrive'
    <3>1. \A x : Arrives(x) => Arrives(x)'
      BY <1>6, <1>12, <2>1 DEF Arrives, boundOf
    <3> QED
      BY <1>2, <3>1 DEF BindsInv, BindsArrive
  <2> QED
    BY <2>10, <2>11, <2>12, <2>13, <2>14 DEF BindsInv
<1> QED
  BY <1>1, <1>8, <1>9, <1>10, <1>11, <1>12

\* What a thread posts that is no bind tells nobody of one.
LEMMA PostedNoBind ==
  ASSUME Typed, NEW t \in Threads, NEW n \in MainMessages, n.cmd # "bindUpdate",
         toMain' = [toMain EXCEPT ![t] = @ \o <<n>>]
  PROVE  \A u \in Threads : boundOf(u)' = boundOf(u)
<1>1. \A u \in Threads : Held(toMain'[u]) = IF u = t THEN Held(toMain[u]) \cup {n} ELSE Held(toMain[u])
  BY PostFacts DEF Typed
<1>2. \A u \in Threads : Held(toMain[u])' = Held(toMain'[u])
  BY DEF Held
<1> SUFFICES ASSUME NEW u \in Threads PROVE boundOf(u)' = boundOf(u)
  OBVIOUS
<1>3. Held(toMain'[u]) = Held(toMain[u]) \/ Held(toMain'[u]) = Held(toMain[u]) \cup {n}
  BY <1>1
<1>4. PICK old, new : old = Held(toMain[u]) /\ new = Held(toMain'[u])
  OBVIOUS
<1>5. boundOf(u) = {m \in old : m.cmd = "bindUpdate"} /\ boundOf(u)' = {m \in new : m.cmd = "bindUpdate"}
  BY <1>2, <1>4 DEF boundOf
<1>6. \A m : m \in new /\ m.cmd = "bindUpdate" <=> m \in old /\ m.cmd = "bindUpdate"
  BY <1>3, <1>4
<1> QED
  BY <1>5, <1>6

LEMMA MessageKeepsBinds ==
  ASSUME ThreadsAssumption, CallsInv, BindsInv, NEW t \in Threads, onmessage(t)
  PROVE  BindsInv'
<1>1. PICK m : /\ m = Head(toWorker[t]) /\ toWorker[t] # <<>>
               /\ toWorker' = [toWorker EXCEPT ![t] = Tail(@)]
               /\ \/ m.cmd = "notifyBindAdd" /\ onNotifyBindAdd(t, m)
                  \/ m.cmd = "notifyAliasAdd" /\ onNotifyAliasAdd(t, m)
                  \/ m.cmd = "onFetchBinds" /\ onFetchBinds(t, m)
                  \/ m.cmd = "onSocketDescriptor" /\ onSocketDescriptor(t, m)
                  \/ m.cmd = "onWrtcSendCallback" /\ onWrtcSendCallback(t)
               /\ UNCHANGED <<server, news, isConnected, sends, main>>
  BY DEF onmessage
<1>2. UNCHANGED <<socketBinds, socketDescriptors>>
  BY <1>1 DEF main
<1>3. /\ m \in WorkerMessages /\ m \in Held(toWorker[t])
      /\ Held(toWorker[t]) = Held(toWorker'[t]) \cup {m}
      /\ \A u \in Threads \ {t} : toWorker'[u] = toWorker[u]
      /\ m \in Answers => Held(toWorker'[t]) \cap Answers = {}
  <2>1. Once(toWorker[t], Answers)
    BY DEF CallsInv, Awaited
  <2> QED
    BY <1>1, <2>1, TakenByWorker DEF CallsInv
<1>4. \A u \in Threads : /\ Held(toMain[u])' = Held(toMain'[u])
                         /\ Held(toWorker[u])' = Held(toWorker'[u])
  BY DEF Held
<1>5. \A u \in Threads : givenTo(u)' \subseteq givenTo(u)
  BY <1>3, <1>4 DEF givenTo
<1>6. toMain' = toMain => \A u \in Threads : boundOf(u)' = boundOf(u)
  BY DEF boundOf, Held
<1>7. /\ Typed /\ binds[t] \in Maps(WorkerBinds) /\ DOMAIN binds[t] \subseteq Descriptors
      /\ binds[t] \in [DOMAIN binds[t] -> WorkerBinds]
      /\ \A u \in Threads : DOMAIN clientAliases[u] \subseteq DOMAIN binds[u]
      /\ Awaited(t) /\ CallTrue(t, call[t], binds[t]) /\ call[t] \in Calls
  BY MapFacts DEF CallsInv, Typed, BindsInv, DescriptorsCounted
<1>8. CASE m.cmd = "notifyBindAdd" /\ onNotifyBindAdd(t, m)
  <2>1. m.fd \in Descriptors /\ m.bind \in Binds
    BY <1>3, <1>8, MessageKinds DEF WorkerMessages, Notices
  <2>2. UNCHANGED <<toMain, clientAliases>>
    BY <1>8 DEF onNotifyBindAdd
  <2>3. CASE m.fd \in DOMAIN binds[t]
    <3>1. binds' = binds
      BY <1>8, <2>3 DEF onNotifyBindAdd
    <3> QED
      BY <1>2, <1>5, <1>6, <1>7, <2>2, <3>1, NoNewBinds
  <2>4. CASE m.fd \notin DOMAIN binds[t]
    <3>1. PICK its : its = Put(binds[t], m.fd, m.bind)
      OBVIOUS
    <3>2. binds' = [binds EXCEPT ![t] = its]
      BY <1>8, <2>4, <3>1 DEF onNotifyBindAdd
    <3>3. its \in Maps(WorkerBinds)
      BY <1>7, <2>1, <3>1, PutFacts, StubIsNoBind
    <3>4. /\ DOMAIN its = DOMAIN binds[t] \cup {m.fd} /\ its[m.fd] = m.bind
          /\ \A fd \in DOMAIN binds[t] : its[fd] = binds[t][fd]
      BY <2>4, <3>1 DEF Put
    <3>5. Claimed(m.fd, m.bind)
      BY <1>3, <1>8 DEF Claimed
    <3>6. \A fd \in DOMAIN its \ DOMAIN binds[t] : its[fd] \in Binds /\ Claimed(fd, its[fd])
      BY <2>1, <3>4, <3>5
    <3> QED
      BY <1>2, <1>5, <1>6, <1>7, <2>2, <3>2, <3>3, <3>4, <3>6, BindsLearnt
  <2> QED
    BY <2>3, <2>4
<1>9. CASE m.cmd = "notifyAliasAdd" /\ onNotifyAliasAdd(t, m)
  <2>1. UNCHANGED <<toMain, binds, clientAliases>>
    BY <1>9 DEF onNotifyAliasAdd
  <2> QED
    BY <1>2, <1>5, <1>6, <1>7, <2>1, NoNewBinds
<1>10. CASE m.cmd = "onWrtcSendCallback" /\ onWrtcSendCallback(t)
  <2>1. UNCHANGED <<toMain, binds, clientAliases>>
    BY <1>10 DEF onWrtcSendCallback
  <2> QED
    BY <1>2, <1>5, <1>6, <1>7, <2>1, NoNewBinds
<1>11. CASE m.cmd = "onSocketDescriptor" /\ onSocketDescriptor(t, m)
  <2>1. m \in Answers /\ m.fd \in Descriptors /\ m = [cmd |-> "onSocketDescriptor", fd |-> m.fd]
    <3>1. m \in Answers
      BY <1>3, <1>11, MessageKinds DEF WorkerMessages
    <3> QED
      BY <1>11, <3>1 DEF Answers
  <2>2. Given(t, m.fd)
    BY <1>3, <2>1 DEF Given
  <2>3. ~ Given(t, m.fd)'
    BY <1>3, <1>4, <2>1 DEF Given
  <2>4. /\ binds' = [binds EXCEPT ![t] = Put(binds[t], m.fd, STUB)]
        /\ UNCHANGED <<toMain, clientAliases>>
    BY <1>11 DEF onSocketDescriptor
  <2>5. PICK f \in Descriptors : f = m.fd
    BY <2>1
  <2>6. Given(t, f) /\ ~ Given(t, f)' /\ binds' = [binds EXCEPT ![t] = Put(binds[t], f, STUB)]
    <3>1. m = [cmd |-> "onSocketDescriptor", fd |-> f]
      BY <2>1, <2>5
    <3> QED
      BY <1>3, <1>4, <2>1, <2>4, <2>5, <3>1 DEF Given
  <2> QED
    BY <1>2, <1>5, <1>6, <1>7, <2>4, <2>6, BindGiven
<1>12. CASE m.cmd = "onFetchBinds" /\ onFetchBinds(t, m)
  <2>1. m \in Answers
    BY <1>3, <1>12, MessageKinds DEF WorkerMessages
  <2>2. call[t].op = "send"
    BY <1>3, <1>7, <1>12, <2>1 DEF Awaited, answered, CallTrue
  <2>3. /\ fetched(t, m) \in Maps(WorkerBinds) /\ known(t, m) \in Tables /\ m.binds \in Maps(Binds)
        /\ DOMAIN fetched(t, m) = DOMAIN m.binds \cup DOMAIN binds[t]
    BY <1>7, <1>12, <2>1, FetchFacts
  <2>4. PICK its \in Maps(WorkerBinds) : its = fetched(t, m)
    BY <2>3
  <2>5. PICK holder \in Tables : holder = known(t, m)
    BY <2>3
  <2>6. /\ \/ call[t].fd \in DOMAIN its /\ body(t, call[t], its, holder)
           \/ /\ Calling(t, idle)
              /\ binds' = [binds EXCEPT ![t] = its]
        /\ clientAliases' = clientAliases
    BY <1>12, <2>4, <2>5 DEF onFetchBinds, fetched, known, Calling
  <2>7. /\ binds' = [binds EXCEPT ![t] = its]
        /\ \/ toMain' = toMain
           \/ \E n \in MainMessages : n.cmd = "wrtcSend" /\ toMain' = [toMain EXCEPT ![t] = @ \o <<n>>]
    <3>1. CASE call[t].fd \in DOMAIN its /\ body(t, call[t], its, holder)
      <4>1. /\ binds' = [binds EXCEPT ![t] = its]
            /\ \/ Calling(t, idle)
               \/ \E n \in Requests : n.cmd = "wrtcSend" /\ Posting(t, waiting(call[t], "transporter"), n)
        BY <1>7, <2>2, <3>1, SendGoesOn
      <4>2. CASE Calling(t, idle)
        BY <4>1, <4>2 DEF Calling
      <4>3. ASSUME NEW n \in Requests, n.cmd = "wrtcSend",
                   Posting(t, waiting(call[t], "transporter"), n)
            PROVE  \E k \in MainMessages : k.cmd = "wrtcSend" /\ toMain' = [toMain EXCEPT ![t] = @ \o <<k>>]
        <5>1. n \in MainMessages
          BY DEF MainMessages
        <5>2. toMain' = [toMain EXCEPT ![t] = @ \o <<n>>]
          BY <4>3 DEF Posting
        <5> QED
          BY <4>3, <5>1, <5>2
      <4> QED
        BY <4>1, <4>2, <4>3
    <3>2. CASE Calling(t, idle) /\ binds' = [binds EXCEPT ![t] = its]
      BY <3>2 DEF Calling
    <3> QED
      BY <2>6, <3>1, <3>2
  <2>8. \A u \in Threads : boundOf(u)' = boundOf(u)
    BY <1>6, <1>7, <2>7, PostedNoBind
  <2>9. \A fd \in DOMAIN m.binds : fd \in Descriptors /\ m.binds[fd] \in Binds
    BY <2>3, MapFacts
  <2>10. \A fd \in DOMAIN m.binds : its[fd] = m.binds[fd] /\ Claimed(fd, m.binds[fd])
    BY <1>3, <1>12, <2>4 DEF fetched, Claimed
  <2>11. \A fd \in DOMAIN binds[t] : its[fd] = binds[t][fd]
    <3> SUFFICES ASSUME NEW fd \in DOMAIN binds[t] PROVE its[fd] = binds[t][fd]
      OBVIOUS
    <3>1. CASE fd \notin DOMAIN m.binds
      BY <2>4, <3>1 DEF fetched
    <3>2. CASE fd \in DOMAIN m.binds
      <4>1. PICK b \in Binds : b = m.binds[fd] /\ its[fd] = b /\ Claimed(fd, b)
        BY <2>9, <2>10, <3>2
      <4>2. /\ b.connectorId \in Threads /\ binds[b.connectorId][fd] = b
            /\ \A u \in Threads : Holds(u, fd) => u = b.connectorId
        BY <2>9, <3>2, <4>1, ClaimsHeld
      <4>3. CASE binds[t][fd] = STUB
        BY <4>1, <4>2, <4>3 DEF Holds
      <4>4. CASE binds[t][fd] # STUB
        <5>1. PICK c \in Binds : c = binds[t][fd]
          BY <1>7, <4>4 DEF WorkerBinds
        <5>2. Claimed(fd, c)
          BY <4>4, <5>1 DEF Claimed
        <5>3. /\ c.connectorId \in Threads /\ binds[c.connectorId][fd] = c
              /\ Holds(c.connectorId, fd)
          BY <2>9, <3>2, <5>2, ClaimsHeld
        <5> QED
          BY <4>1, <4>2, <5>1, <5>3
      <4> QED
        BY <4>3, <4>4
    <3> QED
      BY <3>1, <3>2
  <2>12. /\ DOMAIN binds[t] \subseteq DOMAIN its
         /\ \A fd \in DOMAIN its \ DOMAIN binds[t] : its[fd] \in Binds /\ Claimed(fd, its[fd])
    BY <2>3, <2>4, <2>9, <2>10
  <2> QED
    BY <1>2, <1>5, <1>7, <2>6, <2>7, <2>8, <2>11, <2>12, BindsLearnt
<1> QED
  BY <1>1, <1>8, <1>9, <1>10, <1>11, <1>12

LEMMA OperationKeepsBinds ==
  ASSUME ThreadsAssumption, CallsInv, BindsInv, NEW t \in Threads, handleOperation(t)
  PROVE  BindsInv'
<1>1. PICK m : /\ m = Head(news[t]) /\ news[t] # <<>> /\ news' = [news EXCEPT ![t] = Tail(@)]
               /\ \/ m.op = "alias" /\ handleAlias(t, m)
                  \/ m.op = "returns" /\ returns(t, m)
                  \/ m.op = "fails" /\ fails(t)
               /\ UNCHANGED <<server, isConnected, sends, toWorker, main>>
  BY DEF handleOperation
<1>2. UNCHANGED <<toWorker, socketBinds, socketDescriptors>>
  BY <1>1 DEF main
<1>3. m \in News /\ m \in Held(news[t])
  BY <1>1, TakenNews DEF CallsInv
<1>4. /\ Typed /\ Awaited(t) /\ CallTrue(t, call[t], binds[t]) /\ call[t] \in Calls
      /\ DOMAIN binds[t] \subseteq Descriptors
      /\ \A u \in Threads : DOMAIN clientAliases[u] \subseteq DOMAIN binds[u]
  BY MapFacts DEF CallsInv, Typed, BindsInv, DescriptorsCounted
<1>5. \A u \in Threads : givenTo(u)' = givenTo(u)
  BY <1>2 DEF givenTo, Held
<1>6. toMain' = toMain => \A u \in Threads : boundOf(u)' = boundOf(u)
  BY DEF boundOf, Held
<1>7. m \in Endings => call[t].at = "client"
  BY <1>3, <1>4 DEF Awaited, ended
<1>8. CASE m.op = "alias" /\ handleAlias(t, m)
  <2>1. m.alias \in Aliases /\ m.id \in Ids /\ m.set \in BOOLEAN
    BY <1>3, <1>8, MessageKinds DEF News, Broadcasts
  <2>2. PICK n \in Updates : n = aliasUpdate(t, m)
    <3>1. PICK b \in BOOLEAN : b = ~ m.set
      OBVIOUS
    <3>2. [cmd |-> "aliasUpdate", alias |-> m.alias, id |-> m.id, isDelete |-> b] \in Updates
      BY <2>1, <3>1 DEF Updates
    <3> QED
      BY <3>1, <3>2 DEF aliasUpdate
  <2>3. /\ toMain' = [toMain EXCEPT ![t] = @ \o <<n>>]
        /\ UNCHANGED <<call, binds, clientAliases>>
    BY <1>8, <2>2 DEF handleAlias, postMessage
  <2>4. n \in MainMessages /\ n.cmd = "aliasUpdate"
    BY <2>2 DEF MainMessages, aliasUpdate
  <2>5. \A u \in Threads : boundOf(u)' = boundOf(u)
    BY <1>4, <2>3, <2>4, PostedNoBind
  <2> QED
    BY <1>2, <1>4, <1>5, <2>3, <2>5, NoNewBinds
<1>9. CASE m.op = "fails" /\ fails(t)
  <2>1. UNCHANGED <<binds, clientAliases, toMain>>
    BY <1>9 DEF fails
  <2> QED
    BY <1>2, <1>4, <1>5, <1>6, <2>1, NoNewBinds
<1>10. CASE m.op = "returns" /\ returns(t, m)
  <2>1. m \in Endings /\ m.alias \in Aliases
    <3>1. m \in Endings
      BY <1>3, <1>10, MessageKinds DEF News
    <3> QED
      BY <1>10, <3>1 DEF Endings
  <2>2. PICK fd \in DOMAIN binds[t] : fd = call[t].fd
    BY <1>4, <1>7, <2>1 DEF CallTrue
  <2>3. CASE call[t].op \in {"bind", "accept"}
    <3>1. binds[t][fd] = STUB
      BY <1>4, <1>7, <2>1, <2>2, <2>3 DEF CallTrue
    <3>2. PICK b \in Binds : b = Bind(m.alias, t) /\ b.connectorId = t
      BY <2>1, StubIsNoBind DEF Bind
    <3>3. PICK n \in Updates : n = [cmd |-> "bindUpdate", fd |-> fd, bind |-> b]
      BY <1>4, <2>2 DEF Updates
    <3>4. /\ binds' = [binds EXCEPT ![t] = Put(binds[t], fd, b)]
          /\ toMain' = [toMain EXCEPT ![t] = @ \o <<n>>]
          /\ clientAliases' = clientAliases
      BY <1>10, <2>2, <2>3, <3>2, <3>3 DEF returns, setBind, postMessage
    <3>5. n \in MainMessages /\ n.cmd = "bindUpdate"
      BY <3>3 DEF MainMessages
    <3>6. \A u \in Threads : Held(toMain'[u]) = IF u = t THEN Held(toMain[u]) \cup {n}
                                                         ELSE Held(toMain[u])
      BY <1>4, <3>4, <3>5, PostFacts DEF Typed
    <3>7. \A u \in Threads : Held(toMain[u])' = Held(toMain'[u])
      BY DEF Held
    <3>8. /\ boundOf(t)' = boundOf(t) \cup {n}
          /\ \A u \in Threads \ {t} : boundOf(u)' = boundOf(u)
      BY <3>5, <3>6, <3>7 DEF boundOf
    <3> QED
      BY <1>2, <1>4, <1>5, <3>1, <3>2, <3>3, <3>4, <3>8, BindSet
  <2>4. CASE call[t].op = "connect"
    <3>1. /\ UNCHANGED <<binds, toMain>>
          /\ clientAliases' = [clientAliases EXCEPT ![t] = Put(clientAliases[t], fd, m.alias)]
      BY <1>10, <2>2, <2>4 DEF returns
    <3>2. \A u \in Threads : DOMAIN clientAliases'[u] \subseteq DOMAIN binds[u]
      BY <1>4, <3>1 DEF Put, Typed
    <3> QED
      BY <1>2, <1>4, <1>5, <1>6, <3>1, <3>2, NoNewBinds
  <2> QED
    BY <1>10, <2>3, <2>4 DEF returns
<1> QED
  BY <1>1, <1>8, <1>9, <1>10

LEMMA ProgramKeepsBinds ==
  ASSUME ThreadsAssumption, CallsInv, BindsInv, NEW t \in Threads, Program(t)
  PROVE  BindsInv'
<1>1. /\ UNCHANGED <<clientAliases, toWorker, socketBinds, socketDescriptors>>
      /\ \E n, its : \E c \in Calls : Step(t, c, n, its)
  BY ProgramSteps
<1>2. PICK n, its : \E c \in Calls : Step(t, c, n, its)
  BY <1>1
<1>3. PICK c \in Calls : Step(t, c, n, its)
  BY <1>2
<1>4. /\ Typed /\ DOMAIN binds[t] \subseteq Descriptors /\ binds = [binds EXCEPT ![t] = binds[t]]
      /\ \A u \in Threads : DOMAIN clientAliases[u] \subseteq DOMAIN binds[u]
  BY MapFacts DEF CallsInv, Typed, BindsInv, DescriptorsCounted
<1>5. \A u \in Threads : givenTo(u)' = givenTo(u)
  BY <1>1 DEF givenTo, Held
<1>6. CASE its = binds[t] /\ n \in Requests
  <2>1. binds' = binds /\ n.cmd # "bindUpdate" /\ n \in MainMessages
    BY <1>3, <1>4, <1>6, MessageKinds DEF Step, MainMessages
  <2>2. \A u \in Threads : boundOf(u)' = boundOf(u)
    <3>1. CASE Calling(t, c)
      BY <3>1 DEF Calling, boundOf, Held
    <3>2. CASE Posting(t, c, n)
      BY <1>4, <2>1, <3>2, PostedNoBind DEF Posting
    <3> QED
      BY <1>3, <3>1, <3>2 DEF Step
  <2> QED
    BY <1>1, <1>4, <1>5, <2>1, <2>2, NoNewBinds
<1>7. ASSUME NEW fd \in DOMAIN binds[t], NEW a \in BindAliases \cup RemoteAliases,
             Posting(t, c, n), binds[t][fd] = STUB, its = Put(binds[t], fd, Bind(a, t)),
             n = [cmd |-> "bindUpdate", fd |-> fd, bind |-> Bind(a, t)]
      PROVE  BindsInv'
  <2>1. PICK b \in Binds : b = Bind(a, t) /\ b.connectorId = t
    <3>1. a \in Aliases
      BY DEF Aliases
    <3>2. Bind(a, t) \in Binds
      BY <3>1, StubIsNoBind
    <3>3. Bind(a, t).connectorId = t
      BY DEF Bind
    <3> QED
      BY <3>2, <3>3
  <2>2. PICK k \in Updates : k = [cmd |-> "bindUpdate", fd |-> fd, bind |-> b]
    BY <1>4 DEF Updates
  <2>3. /\ binds' = [binds EXCEPT ![t] = Put(binds[t], fd, b)]
        /\ toMain' = [toMain EXCEPT ![t] = @ \o <<k>>]
    BY <1>3, <1>7, <2>1, <2>2 DEF Step, Posting
  <2>4. k \in MainMessages /\ k.cmd = "bindUpdate"
    BY <2>2 DEF MainMessages
  <2>5. \A u \in Threads : Held(toMain'[u]) = IF u = t THEN Held(toMain[u]) \cup {k}
                                                       ELSE Held(toMain[u])
    BY <1>4, <2>3, <2>4, PostFacts DEF Typed
  <2>6. \A u \in Threads : Held(toMain[u])' = Held(toMain'[u])
    BY DEF Held
  <2>7. /\ boundOf(t)' = boundOf(t) \cup {k}
        /\ \A u \in Threads \ {t} : boundOf(u)' = boundOf(u)
    BY <2>4, <2>5, <2>6 DEF boundOf
  <2> QED
    BY <1>1, <1>4, <1>5, <1>7, <2>1, <2>2, <2>3, <2>7, BindSet
<1> QED
  BY <1>3, <1>6, <1>7 DEF Step

LEMMA NextKeepsBinds ==
  ASSUME ThreadsAssumption, CallsInv, BindsInv, [Next]_vars
  PROVE  BindsInv'
<1>1. Typed /\ \A u \in Threads : DOMAIN clientAliases[u] \subseteq DOMAIN binds[u]
  BY DEF CallsInv, BindsInv, DescriptorsCounted
<1>2. ASSUME NEW t \in Threads, ready(t) PROVE BindsInv'
  <2>1. PICK p \in Requests : p = [cmd |-> "socketDescriptor"]
    BY DEF Requests
  <2>2. p \in MainMessages /\ p.cmd = "socketDescriptor"
    BY <2>1 DEF MainMessages
  <2>3. /\ toMain' = [toMain EXCEPT ![t] = @ \o <<p>>]
        /\ UNCHANGED <<binds, clientAliases, toWorker, socketBinds, socketDescriptors>>
    BY <1>2, <2>1 DEF ready, postMessage, main
  <2>4. \A u \in Threads : boundOf(u)' = boundOf(u)
    BY <1>1, <2>2, <2>3, PostedNoBind
  <2>5. \A u \in Threads : givenTo(u)' = givenTo(u)
    BY <2>3 DEF givenTo, Held
  <2> QED
    BY <1>1, <2>3, <2>4, <2>5, NoNewBinds
<1>3. ASSUME NEW w \in transporter, transported(w) PROVE BindsInv'
  <2>1. PICK t \in Threads : t = w.thread
    BY <1>1 DEF Typed, Transports
  <2>2. PICK n \in Answers : n = [cmd |-> "onWrtcSendCallback"]
    BY DEF Answers
  <2>3. answer(t, n) /\ UNCHANGED <<binds, clientAliases, toMain, socketBinds, socketDescriptors>>
    BY <1>3, <2>1, <2>2 DEF transported, workers
  <2>4. \A u \in Threads : Held(toWorker'[u]) \subseteq Held(toWorker[u]) \cup {n}
    BY <1>1, <2>3, AnswerFacts DEF Typed
  <2>5. n.cmd = "onWrtcSendCallback"
    BY <2>2
  <2>6. \A u \in Threads : Held(toWorker[u])' = Held(toWorker'[u])
    BY DEF Held
  <2>7. \A u \in Threads : givenTo(u)' \subseteq givenTo(u) /\ boundOf(u)' = boundOf(u)
    BY <2>3, <2>4, <2>5, <2>6 DEF givenTo, boundOf, Held
  <2> QED
    BY <1>1, <2>3, <2>7, NoNewBinds
<1>4. ASSUME UNCHANGED <<binds, clientAliases, toMain, toWorker, socketBinds, socketDescriptors>>
      PROVE  BindsInv'
  <2>1. \A u \in Threads : givenTo(u)' = givenTo(u) /\ boundOf(u)' = boundOf(u)
    BY <1>4 DEF givenTo, boundOf, Held
  <2> QED
    BY <1>1, <1>4, <2>1, NoNewBinds
<1>5. CASE Server
  BY <1>4, <1>5 DEF Server, workers, main
<1>6. CASE UNCHANGED vars
  BY <1>4, <1>6 DEF vars, workers, main
<1>7. CASE Next
  BY <1>2, <1>3, <1>5, <1>7, MainKeepsBinds, MessageKeepsBinds, OperationKeepsBinds,
     ProgramKeepsBinds DEF Next
<1> QED
  BY <1>6, <1>7

LEMMA InitBinds ==
  ASSUME ThreadsAssumption, Init
  PROVE  BindsInv
<1>1. /\ DOMAIN socketBinds = {}
      /\ \A t \in Threads : /\ DOMAIN binds[t] = {} /\ DOMAIN clientAliases[t] = {}
                            /\ Held(toMain[t]) = {} /\ Held(toWorker[t]) = {}
  BY DEF Init, empty, Held
<1>2. \A fd, bind : ~ Claimed(fd, bind)
  BY <1>1 DEF Claimed
<1>3. \A fd, t : t \in Threads => ~ Holds(t, fd) /\ ~ Given(t, fd)
  BY <1>1 DEF Holds, Given
<1> QED
  BY <1>1, <1>2, <1>3 DEF BindsInv, ClaimsTrue, OneHolder, GivenNew, DescriptorsCounted, BindsArrive

\* What threads wait for, and what they know of descriptors, is consistent always.
THEOREM Invariance == Spec => [](CallsInv /\ BindsInv)
<1>1. Init => CallsInv /\ BindsInv
  BY InitCalls, InitBinds, ThreadsAssumption
<1>2. CallsInv /\ BindsInv /\ [Next]_vars => CallsInv' /\ BindsInv'
  BY NextKeepsCalls, NextKeepsBinds, ThreadsAssumption
<1> QED
  BY <1>1, <1>2, PTL DEF Spec

\* Tables, calls and descriptors are what the sockets and the main thread of the
\* runner (sockets.ts, main.ts) take them for: no descriptor that is known or bound
\* was never handed out.
THEOREM TypeCorrect == Spec => []TypeOK
<1>1. ASSUME CallsInv, BindsInv PROVE TypeOK
  <2>1. Typed /\ \A t \in Threads : DOMAIN binds[t] \subseteq 1 .. socketDescriptors
    BY <1>1 DEF CallsInv, BindsInv, DescriptorsCounted
  <2>2. /\ socketBinds \in [DOMAIN socketBinds -> Binds] /\ DOMAIN socketBinds \subseteq Descriptors
        /\ \A t \in Threads : binds[t] \in [DOMAIN binds[t] -> WorkerBinds]
    BY <2>1, MapFacts DEF Typed
  <2>3. ASSUME NEW fd \in DOMAIN socketBinds PROVE fd \in 1 .. socketDescriptors
    <3>1. PICK b \in Binds : b = socketBinds[fd]
      BY <2>2
    <3>2. Claimed(fd, b)
      BY <3>1 DEF Claimed
    <3>3. b.connectorId \in Threads /\ fd \in DOMAIN binds[b.connectorId]
      BY <1>1, <2>2, <3>2, ClaimsHeld, ThreadsAssumption
    <3> QED
      BY <2>1, <3>3
  <2> QED
    BY <1>1, <2>1, <2>2, <2>3 DEF TypeOK, Typed, WorkerBinds, BindsInv, DescriptorsCounted
<1> QED
  BY <1>1, Invariance, PTL

\* Once nothing is under way on the page, every thread that knows a descriptor has
\* the same address and the same channel for it, and the main thread has them
\* (setBind of sockets.ts, handleBindUpdate of main.ts, notifyBindAdd of worker.ts).
THEOREM DescriptorsAgree == Spec => []BindsAgree
<1>1. ASSUME CallsInv, BindsInv PROVE BindsAgree
  <2> SUFFICES ASSUME quiet, NEW t \in Threads, NEW fd \in DOMAIN binds[t], binds[t][fd] # STUB
               PROVE  fd \in DOMAIN socketBinds /\ binds[t][fd] = socketBinds[fd]
    BY DEF BindsAgree
  <2>1. /\ Typed /\ fd \in Descriptors /\ binds[t] \in [DOMAIN binds[t] -> WorkerBinds]
        /\ socketBinds \in [DOMAIN socketBinds -> Binds]
    BY <1>1, MapFacts DEF CallsInv, Typed
  <2>2. \A u \in Threads : Held(toMain[u]) = {}
    BY DEF quiet, Held
  <2>3. fd \in DOMAIN socketBinds
    BY <1>1, <2>2 DEF BindsInv, BindsArrive, Arrives
  <2>4. PICK b \in Binds : b = binds[t][fd]
    BY <2>1 DEF WorkerBinds
  <2>5. PICK c \in Binds : c = socketBinds[fd]
    BY <2>1, <2>3
  <2>6. Claimed(fd, b) /\ Claimed(fd, c)
    BY <2>3, <2>4, <2>5 DEF Claimed
  <2>7. /\ b.connectorId \in Threads /\ binds[b.connectorId][fd] = b /\ Holds(b.connectorId, fd)
        /\ c.connectorId \in Threads /\ binds[c.connectorId][fd] = c
        /\ \A u \in Threads : Holds(u, fd) => u = c.connectorId
    BY <1>1, <2>1, <2>6, ClaimsHeld, ThreadsAssumption
  <2> QED
    BY <2>3, <2>4, <2>5, <2>7
<1> QED
  BY <1>1, Invariance, PTL

----
(***************************************************************************)
(* What threads know of aliases: each hears of them from its own signaling *)
(* client and, through the main thread, from other workers, whose news     *)
(* overtake each other. First that none keeps an alias that is gone, then  *)
(* that none loses the other end of a connection it has.                   *)
(***************************************************************************)
AliasUpdates == {m \in Updates : m.cmd = "aliasUpdate"}
AliasNotices == {m \in Notices : m.cmd = "notifyAliasAdd"}

\* What is said of an alias on its way from the server, from a worker, and from
\* the main thread: that a client has it, or that it is gone.
Told(a) == {m \in Broadcasts : m.alias = a /\ m.set}
Posted(a) == {m \in AliasUpdates : m.alias = a /\ ~ m.isDelete}
Notified(a) == {m \in AliasNotices : m.alias = a /\ ~ m.isDelete}

ToldGone(a) == {m \in Broadcasts : m.alias = a /\ ~ m.set}
PostedGone(a) == {m \in AliasUpdates : m.alias = a /\ m.isDelete}
NotifiedGone(a) == {m \in AliasNotices : m.alias = a /\ m.isDelete}

\* Of those messages, the ones that name a client the alias does not belong to.
Stale(messages, a) == {m \in messages : m.id # aliases[a]}

\* Each message of S in the queue is followed by one of T, or something else comes.
Followed(queue, S, T, otherwise) ==
  \A k \in DOMAIN queue : queue[k] \in S =>
    otherwise \/ \E j \in DOMAIN queue : j > k /\ queue[j] \in T

\* A retraction of the alias is on its way to, or through, the worker of a thread,
\* or on its way to a thread through another worker.
Hearing(t, a) == Held(news[t]) \cap ToldGone(a) # {}
Leaving(u, a) == Hearing(u, a) \/ Held(toMain[u]) \cap PostedGone(a) # {}
Relayed(t, a) == \E u \in Threads : t \in notified(u) /\ Leaving(u, a)

\* Whoever is told of an alias is told when it is gone.
StaleFollowed ==
  \A t \in Threads, a \in Aliases :
    /\ Followed(news[t], Stale(Told(a), a), ToldGone(a), FALSE)
    /\ Followed(toMain[t], Stale(Posted(a), a), PostedGone(a), Hearing(t, a))
    /\ Followed(toWorker[t], Stale(Notified(a), a), NotifiedGone(a), Relayed(t, a))

\* A thread that does not fetch is about to be told that what it has is gone.
HoldersTold ==
  \A t \in Threads \ Sharing, a \in Aliases :
    aliasesHolder[t][a] \notin {NoOne, aliases[a]} =>
      Hearing(t, a) \/ Held(toWorker[t]) \cap NotifiedGone(a) # {} \/ Relayed(t, a)

\* Somebody tells a thread of aliases only if its worker is connected.
Hears(t) == isConnected[t] \/ \E u \in Threads : t \in notified(u) /\ isConnected[u]

HearsFromConnected ==
  \A t \in Threads :
    /\ Held(news[t]) \cap Broadcasts # {} \/ Held(toMain[t]) \cap AliasUpdates # {} => isConnected[t]
    /\ Held(toWorker[t]) \cap AliasNotices # {} =>
         \E u \in Threads : t \in notified(u) /\ isConnected[u]
    /\ t \notin Sharing => \A a \in Aliases : aliasesHolder[t][a] # NoOne => Hears(t)

AliasesInv == StaleFollowed /\ HoldersTold /\ HearsFromConnected

\* A thread that the server knows, or will answer, has connected before.
ConnectedFirst ==
  \A t \in Threads : ~ isConnected[t] =>
    /\ call[t].at \notin {"descriptor", "client"}
    /\ \A a \in Aliases : aliases[a] # t
    /\ \A fd \in DOMAIN binds[t] : binds[t][fd] # STUB

----
(***************************************************************************)
(* Queues                                                                  *)
(***************************************************************************)
LEMMA FollowedConcat ==
  ASSUME NEW M, NEW q \in Seq(M), NEW r \in Seq(M), NEW S, NEW T, NEW o, Followed(q, S, T, o),
         NEW P, P \subseteq S, NEW p, o => p, Held(r) \cap P = {} \/ p
  PROVE  Followed(q \o r, P, T, p)
<1> SUFFICES ASSUME NEW k \in DOMAIN (q \o r), (q \o r)[k] \in P, ~ p
             PROVE  \E j \in DOMAIN (q \o r) : j > k /\ (q \o r)[j] \in T
  BY DEF Followed
<1>1. /\ DOMAIN q = 1 .. Len(q) /\ DOMAIN r = 1 .. Len(r) /\ Len(q) \in Nat /\ Len(r) \in Nat
      /\ DOMAIN (q \o r) = 1 .. (Len(q) + Len(r))
      /\ \A i \in 1 .. Len(q) : (q \o r)[i] = q[i]
      /\ k \in DOMAIN q \/ (k - Len(q) \in DOMAIN r /\ (q \o r)[k] = r[k - Len(q)])
  BY ConcatFacts, SeqFacts
<1>2. k \in DOMAIN q
  BY <1>1 DEF Held
<1>3. PICK j \in DOMAIN q : j > k /\ q[j] \in T
  BY <1>1, <1>2 DEF Followed
<1> QED
  BY <1>1, <1>3

\* The last message says that the alias is gone.
LEMMA FollowedByLast ==
  ASSUME NEW M, NEW q \in Seq(M), NEW n \in M, NEW S, NEW T, n \notin S, n \in T, NEW p
  PROVE  Followed(q \o <<n>>, S, T, p)
<1>1. PICK r \in Seq(M) : r = <<n>> /\ r[1] = n /\ Len(r) = 1
  BY Single
<1>2. /\ DOMAIN r = 1 .. 1
      /\ DOMAIN q = 1 .. Len(q) /\ Len(q) \in Nat
      /\ DOMAIN (q \o r) = 1 .. (Len(q) + 1)
      /\ \A i \in 1 .. 1 : (q \o r)[Len(q) + i] = r[i]
      /\ \A k \in DOMAIN (q \o r) :
           k \in DOMAIN q \/ (k - Len(q) \in DOMAIN r /\ (q \o r)[k] = r[k - Len(q)])
  BY <1>1, ConcatFacts, SeqFacts
<1>3. (q \o r)[Len(q) + 1] = n
  BY <1>1, <1>2
<1>4. \A k \in DOMAIN (q \o r) : (q \o r)[k] \in S => k \in DOMAIN q
  BY <1>1, <1>2
<1> QED
  BY <1>1, <1>2, <1>3, <1>4 DEF Followed

LEMMA FollowedTail ==
  ASSUME NEW M, NEW q \in Seq(M), q # <<>>, NEW S, NEW T, NEW o, Followed(q, S, T, o),
         NEW p, o => p
  PROVE  /\ Followed(Tail(q), S, T, p)
         /\ Head(q) \in S => o \/ Held(Tail(q)) \cap T # {}
<1>1. /\ Head(q) = q[1] /\ 1 \in DOMAIN q /\ DOMAIN q = 1 .. Len(q) /\ Len(q) \in Nat
      /\ DOMAIN Tail(q) = 1 .. (Len(q) - 1)
      /\ \A k \in DOMAIN Tail(q) : k + 1 \in DOMAIN q /\ Tail(q)[k] = q[k + 1]
      /\ \A k \in DOMAIN q : k # 1 => k - 1 \in DOMAIN Tail(q) /\ Tail(q)[k - 1] = q[k]
  BY TailFacts, SeqFacts
<1>2. ASSUME NEW k \in DOMAIN Tail(q), Tail(q)[k] \in S, ~ p
      PROVE  \E j \in DOMAIN Tail(q) : j > k /\ Tail(q)[j] \in T
  <2>1. k + 1 \in DOMAIN q /\ q[k + 1] \in S
    BY <1>1, <1>2
  <2>2. PICK j \in DOMAIN q : j > k + 1 /\ q[j] \in T
    BY <1>2, <2>1 DEF Followed
  <2>3. j - 1 \in DOMAIN Tail(q) /\ Tail(q)[j - 1] = q[j] /\ j - 1 > k
    BY <1>1, <2>2
  <2> QED
    BY <2>2, <2>3
<1>3. ASSUME Head(q) \in S, ~ o PROVE Held(Tail(q)) \cap T # {}
  <2>1. PICK j \in DOMAIN q : j > 1 /\ q[j] \in T
    BY <1>1, <1>3 DEF Followed
  <2>2. j - 1 \in DOMAIN Tail(q) /\ Tail(q)[j - 1] = q[j]
    BY <1>1, <2>1
  <2>3. q[j] \in Held(Tail(q))
    BY <2>2 DEF Held
  <2> QED
    BY <2>1, <2>3
<1> QED
  BY <1>2, <1>3 DEF Followed

LEMMA FollowedStill ==
  ASSUME NEW q, NEW S, NEW T, NEW o, Followed(q, S, T, o), NEW P, P \subseteq S, NEW p, o => p
  PROVE  Followed(q, P, T, p)
  BY DEF Followed

\* The queue has lost or gained one message at most, and none of S.
Same(q, r, M, S) ==
  \/ r = q
  \/ \E n \in M \ S : r = q \o <<n>>
  \/ q # <<>> /\ Head(q) \notin S /\ r = Tail(q)

LEMMA SameHeld ==
  ASSUME NEW M, NEW q \in Seq(M), NEW r, NEW S, Same(q, r, M, S)
  PROVE  Held(r) \cap S = Held(q) \cap S
<1>1. ASSUME NEW n \in M \ S, r = q \o <<n>> PROVE Held(r) \cap S = Held(q) \cap S
  BY <1>1, OneMore
<1>2. CASE q # <<>> /\ Head(q) \notin S /\ r = Tail(q)
  BY <1>2, TailFacts
<1> QED
  BY <1>1, <1>2 DEF Same

LEMMA SameFollowed ==
  ASSUME NEW M, NEW q \in Seq(M), NEW r, NEW S, Same(q, r, M, S),
         NEW P, P \subseteq S, NEW T, NEW o, Followed(q, P, T, o), NEW p, o => p
  PROVE  Followed(r, P, T, p)
<1>1. ASSUME NEW n \in M \ S, r = q \o <<n>> PROVE Followed(r, P, T, p)
  <2>1. PICK s \in Seq(M) : s = <<n>> /\ Held(s) = {n}
    BY Single
  <2>2. Held(s) \cap P = {}
    BY <1>1, <2>1
  <2>3. Followed(q \o s, P, T, p)
    BY <2>2, FollowedConcat
  <2> QED
    BY <1>1, <2>1, <2>3
<1>2. CASE q # <<>> /\ Head(q) \notin S /\ r = Tail(q)
  BY <1>2, FollowedTail
<1>3. CASE r = q
  BY <1>3, FollowedStill
<1> QED
  BY <1>1, <1>2, <1>3 DEF Same

----
(***************************************************************************)
(* Steps that say nothing of aliases                                       *)
(***************************************************************************)
LEMMA SaidSets ==
  ASSUME NEW a
  PROVE  /\ Told(a) \subseteq Broadcasts /\ ToldGone(a) \subseteq Broadcasts
         /\ Posted(a) \subseteq AliasUpdates /\ PostedGone(a) \subseteq AliasUpdates
         /\ Notified(a) \subseteq AliasNotices /\ NotifiedGone(a) \subseteq AliasNotices
         /\ Stale(Told(a), a) \subseteq Told(a) /\ Stale(Posted(a), a) \subseteq Posted(a)
         /\ Stale(Notified(a), a) \subseteq Notified(a)
  BY DEF Told, ToldGone, Posted, PostedGone, Notified, NotifiedGone, Stale

LEMMA AliasesKept ==
  ASSUME Typed, AliasesInv, aliases' = aliases,
         \A t \in Threads :
           /\ Same(news[t], news'[t], News, Broadcasts)
           /\ Same(toMain[t], toMain'[t], MainMessages, AliasUpdates)
           /\ Same(toWorker[t], toWorker'[t], WorkerMessages, AliasNotices)
           /\ isConnected[t] => isConnected'[t]
           /\ t \notin Sharing => aliasesHolder'[t] = aliasesHolder[t]
  PROVE  AliasesInv'
<1>1. ASSUME NEW t \in Threads
      PROVE  /\ Held(news[t])' \cap Broadcasts = Held(news[t]) \cap Broadcasts
             /\ Held(toMain[t])' \cap AliasUpdates = Held(toMain[t]) \cap AliasUpdates
             /\ Held(toWorker[t])' \cap AliasNotices = Held(toWorker[t]) \cap AliasNotices
  <2>1. /\ news[t] \in Seq(News) /\ toMain[t] \in Seq(MainMessages)
        /\ toWorker[t] \in Seq(WorkerMessages)
    BY DEF Typed
  <2>2. /\ Held(news[t])' = Held(news'[t]) /\ Held(toMain[t])' = Held(toMain'[t])
        /\ Held(toWorker[t])' = Held(toWorker'[t])
    BY DEF Held
  <2>3. /\ Held(news'[t]) \cap Broadcasts = Held(news[t]) \cap Broadcasts
        /\ Held(toMain'[t]) \cap AliasUpdates = Held(toMain[t]) \cap AliasUpdates
        /\ Held(toWorker'[t]) \cap AliasNotices = Held(toWorker[t]) \cap AliasNotices
    BY <2>1, SameHeld
  <2> QED
    BY <2>2, <2>3
<1>2. ASSUME NEW t \in Threads, NEW a \in Aliases
      PROVE  /\ Hearing(t, a)' <=> Hearing(t, a)
             /\ Leaving(t, a)' <=> Leaving(t, a)
             /\ Held(toWorker[t])' \cap NotifiedGone(a) = Held(toWorker[t]) \cap NotifiedGone(a)
  BY <1>1, SaidSets DEF Hearing, Leaving
<1>3. \A t \in Threads, a \in Aliases : Relayed(t, a)' <=> Relayed(t, a)
  BY <1>2 DEF Relayed
<1>4. ASSUME NEW t \in Threads, NEW a \in Aliases
      PROVE  /\ Followed(news[t], Stale(Told(a), a), ToldGone(a), FALSE)'
             /\ Followed(toMain[t], Stale(Posted(a), a), PostedGone(a), Hearing(t, a))'
             /\ Followed(toWorker[t], Stale(Notified(a), a), NotifiedGone(a), Relayed(t, a))'
  <2>1. /\ news[t] \in Seq(News) /\ toMain[t] \in Seq(MainMessages)
        /\ toWorker[t] \in Seq(WorkerMessages)
    BY DEF Typed
  <2>2. /\ Followed(news[t], Stale(Told(a), a), ToldGone(a), FALSE)
        /\ Followed(toMain[t], Stale(Posted(a), a), PostedGone(a), Hearing(t, a))
        /\ Followed(toWorker[t], Stale(Notified(a), a), NotifiedGone(a), Relayed(t, a))
    BY DEF AliasesInv, StaleFollowed
  <2>3. PICK told, posted, notices : /\ told = Stale(Told(a), a) /\ posted = Stale(Posted(a), a)
                                     /\ notices = Stale(Notified(a), a)
    OBVIOUS
  <2>4. told \subseteq Broadcasts /\ posted \subseteq AliasUpdates /\ notices \subseteq AliasNotices
    BY <2>3, SaidSets
  <2>5. /\ told = Stale(Told(a), a)' /\ posted = Stale(Posted(a), a)'
        /\ notices = Stale(Notified(a), a)'
    BY <2>3 DEF Stale
  <2>6. Followed(news'[t], told, ToldGone(a), FALSE)
    BY <2>1, <2>2, <2>3, <2>4, SameFollowed
  <2>7. Followed(toMain'[t], posted, PostedGone(a), Hearing(t, a)')
    BY <1>2, <2>1, <2>2, <2>3, <2>4, SameFollowed
  <2>8. Followed(toWorker'[t], notices, NotifiedGone(a), Relayed(t, a)')
    BY <1>3, <2>1, <2>2, <2>3, <2>4, SameFollowed
  <2> QED
    BY <2>5, <2>6, <2>7, <2>8 DEF Followed
<1>5. StaleFollowed'
  BY <1>4 DEF StaleFollowed
<1>6. HoldersTold'
  BY <1>2, <1>3 DEF HoldersTold, AliasesInv
<1>7. HearsFromConnected'
  BY <1>1 DEF HearsFromConnected, AliasesInv, Hears
<1> QED
  BY <1>5, <1>6, <1>7 DEF AliasesInv

----
(***************************************************************************)
(* What a worker, the main thread and another worker do about an alias     *)
(***************************************************************************)
LEMMA UpdateKeepsAliases ==
  ASSUME Typed, AliasesInv, NEW t \in Threads, NEW m, m = Head(toMain[t]), toMain[t] # <<>>,
         toMain' = [toMain EXCEPT ![t] = Tail(@)],
         m.cmd = "aliasUpdate", handleAliasUpdate(t, m),
         UNCHANGED <<aliases, news, isConnected, aliasesHolder>>
  PROVE  AliasesInv'
<1>1. /\ m \in MainMessages /\ m \in Held(toMain[t])
      /\ Held(toMain[t]) = Held(toMain'[t]) \cup {m}
      /\ \A u \in Threads \ {t} : toMain'[u] = toMain[u]
  BY TakenFromMain
<1>2. m \in AliasUpdates /\ m.alias \in Aliases /\ m.id \in Ids /\ m.isDelete \in BOOLEAN
  BY <1>1, MessageKinds DEF AliasUpdates, MainMessages, Updates
<1>3. PICK n \in AliasNotices : n = [cmd |-> "notifyAliasAdd", alias |-> m.alias, id |-> m.id,
                                     isDelete |-> m.isDelete]
  BY <1>2 DEF AliasNotices, Notices
<1>4. n.alias = m.alias /\ n.id = m.id /\ n.isDelete = m.isDelete
  BY <1>3
<1>5. \A u \in Threads : /\ toWorker'[u] = IF u \in notified(t) THEN toWorker[u] \o <<n>>
                                                                ELSE toWorker[u]
                         /\ Held(toWorker'[u]) = IF u \in notified(t) THEN Held(toWorker[u]) \cup {n}
                                                                      ELSE Held(toWorker[u])
  <2>1. notifyAllThreads(t, n) /\ n \in Notices
    BY <1>3 DEF handleAliasUpdate, AliasNotices
  <2> QED
    BY <2>1, NotifyFacts DEF Typed
<1>6. \A u \in Threads : /\ Held(news[u])' = Held(news[u]) /\ Held(toMain[u])' = Held(toMain'[u])
                         /\ Held(toWorker[u])' = Held(toWorker'[u])
  BY DEF Held
<1>7. /\ \A b : m \in PostedGone(b) <=> n \in NotifiedGone(b)
      /\ \A b : m \in Stale(Posted(b), b) <=> n \in Stale(Notified(b), b)
      /\ \A b : n \in NotifiedGone(b) => n \notin Stale(Notified(b), b)
  BY <1>2, <1>3, <1>4 DEF Posted, PostedGone, Notified, NotifiedGone, Stale
<1>8. \A u \in Threads, b \in Aliases : Hearing(u, b)' <=> Hearing(u, b)
  BY <1>6 DEF Hearing
<1>9. \A u \in Threads, b \in Aliases :
        Leaving(u, b) => Leaving(u, b)' \/ (u = t /\ m \in PostedGone(b))
  <2> SUFFICES ASSUME NEW u \in Threads, NEW b \in Aliases, Leaving(u, b)
               PROVE  Leaving(u, b)' \/ (u = t /\ m \in PostedGone(b))
    OBVIOUS
  <2>1. CASE u = t
    BY <1>1, <1>6, <1>8, <2>1 DEF Leaving
  <2>2. CASE u # t
    BY <1>1, <1>6, <1>8, <2>2 DEF Leaving
  <2> QED
    BY <2>1, <2>2
<1>10. \A u \in Threads, b \in Aliases :
         Relayed(u, b) => Relayed(u, b)' \/ (u \in notified(t) /\ m \in PostedGone(b))
  BY <1>9 DEF Relayed
<1>11. ASSUME NEW b \in Aliases
       PROVE  /\ Followed(Tail(toMain[t]), Stale(Posted(b), b), PostedGone(b), Hearing(t, b)')
              /\ m \in Stale(Posted(b), b) => Leaving(t, b)'
  <2>1. PICK stale : stale = Stale(Posted(b), b)
    OBVIOUS
  <2>2. Followed(toMain[t], stale, PostedGone(b), Hearing(t, b)) /\ toMain[t] \in Seq(MainMessages)
    BY <2>1 DEF AliasesInv, StaleFollowed, Typed
  <2>3. /\ Followed(Tail(toMain[t]), stale, PostedGone(b), Hearing(t, b)')
        /\ m \in stale => Hearing(t, b) \/ Held(Tail(toMain[t])) \cap PostedGone(b) # {}
    BY <1>8, <2>2, FollowedTail
  <2>4. Held(toMain[t])' = Held(Tail(toMain[t]))
    BY <1>6, <2>2 DEF Typed
  <2> QED
    BY <1>8, <2>1, <2>3, <2>4 DEF Leaving
<1>12. ASSUME NEW u \in Threads, NEW b \in Aliases
       PROVE  /\ Followed(news[u], Stale(Told(b), b), ToldGone(b), FALSE)'
              /\ Followed(toMain[u], Stale(Posted(b), b), PostedGone(b), Hearing(u, b))'
              /\ Followed(toWorker[u], Stale(Notified(b), b), NotifiedGone(b), Relayed(u, b))'
  <2>1. /\ Followed(news[u], Stale(Told(b), b), ToldGone(b), FALSE)
        /\ Followed(toMain[u], Stale(Posted(b), b), PostedGone(b), Hearing(u, b))
        /\ Followed(toWorker[u], Stale(Notified(b), b), NotifiedGone(b), Relayed(u, b))
    BY DEF AliasesInv, StaleFollowed
  <2>2. PICK told, posted, notices : /\ told = Stale(Told(b), b) /\ posted = Stale(Posted(b), b)
                                     /\ notices = Stale(Notified(b), b)
    OBVIOUS
  <2>3. /\ told = Stale(Told(b), b)' /\ posted = Stale(Posted(b), b)'
        /\ notices = Stale(Notified(b), b)'
    BY <2>2 DEF Stale
  <2>4. Followed(toMain'[u], posted, PostedGone(b), Hearing(u, b)')
    <3>1. CASE u = t
      <4>1. toMain'[u] = Tail(toMain[t])
        BY <3>1 DEF Typed
      <4> QED
        BY <1>11, <2>2, <3>1, <4>1
    <3>2. CASE u # t
      BY <1>1, <1>8, <2>1, <2>2, <3>2, FollowedStill
    <3> QED
      BY <3>1, <3>2
  <2>5. toWorker[u] \in Seq(WorkerMessages) /\ n \in WorkerMessages
    BY DEF Typed, WorkerMessages, AliasNotices
  <2>6. Followed(toWorker'[u], notices, NotifiedGone(b), Relayed(u, b)')
    <3>1. CASE u \notin notified(t)
      <4>1. toWorker'[u] = toWorker[u] /\ (Relayed(u, b) => Relayed(u, b)')
        BY <1>5, <1>10, <3>1
      <4>2. Followed(toWorker[u], notices, NotifiedGone(b), Relayed(u, b))
        BY <2>1, <2>2
      <4>3. Followed(toWorker[u], notices, NotifiedGone(b), Relayed(u, b)')
        BY <4>1, <4>2, FollowedStill
      <4> QED
        BY <4>1, <4>3
    <3>2. CASE u \in notified(t) /\ m \in PostedGone(b)
      BY <1>5, <1>7, <2>2, <2>5, <3>2, FollowedByLast
    <3>3. CASE u \in notified(t) /\ m \notin PostedGone(b)
      <4>1. PICK r \in Seq(WorkerMessages) : r = <<n>> /\ Held(r) = {n}
        BY <2>5, Single
      <4>2. Held(r) \cap notices = {} \/ Relayed(u, b)'
        BY <1>7, <1>11, <2>2, <3>3, <4>1 DEF Relayed
      <4>3. Followed(toWorker[u] \o r, notices, NotifiedGone(b), Relayed(u, b)')
        BY <1>10, <2>1, <2>2, <2>5, <3>3, <4>2, FollowedConcat
      <4> QED
        BY <1>5, <3>3, <4>1, <4>3
    <3> QED
      BY <3>1, <3>2, <3>3
  <2> QED
    BY <2>1, <2>2, <2>3, <2>4, <2>6 DEF Followed
<1>13. StaleFollowed'
  BY <1>12 DEF StaleFollowed
<1>14. HoldersTold'
  <2> SUFFICES ASSUME NEW u \in Threads \ Sharing, NEW b \in Aliases,
                      aliasesHolder[u][b] \notin {NoOne, aliases[b]}
               PROVE  \/ Hearing(u, b)' \/ Held(toWorker[u])' \cap NotifiedGone(b) # {}
                      \/ Relayed(u, b)'
    BY DEF HoldersTold
  <2>1. Hearing(u, b) \/ Held(toWorker[u]) \cap NotifiedGone(b) # {} \/ Relayed(u, b)
    BY DEF AliasesInv, HoldersTold
  <2> QED
    BY <1>5, <1>6, <1>7, <1>8, <1>10, <2>1
<1>15. HearsFromConnected'
  <2>1. isConnected[t]
    BY <1>1, <1>2 DEF AliasesInv, HearsFromConnected
  <2> QED
    BY <1>1, <1>5, <1>6, <2>1 DEF AliasesInv, HearsFromConnected, Hears
<1> QED
  BY <1>13, <1>14, <1>15 DEF AliasesInv

LEMMA NoticeKeepsAliases ==
  ASSUME ThreadsAssumption, Typed, AliasesInv, NEW t \in Threads, NEW m, m = Head(toWorker[t]),
         toWorker[t] # <<>>, toWorker' = [toWorker EXCEPT ![t] = Tail(@)],
         m.cmd = "notifyAliasAdd", onNotifyAliasAdd(t, m),
         UNCHANGED <<aliases, news, isConnected>>
  PROVE  AliasesInv'
<1>1. /\ m \in WorkerMessages /\ m \in Held(toWorker[t]) /\ toWorker[t] \in Seq(WorkerMessages)
      /\ Held(toWorker[t]) = Held(Tail(toWorker[t])) \cup {m} /\ toWorker'[t] = Tail(toWorker[t])
      /\ \A u \in Threads \ {t} : toWorker'[u] = toWorker[u]
  BY TailFacts DEF Typed
<1>2. m \in AliasNotices /\ m.alias \in Aliases /\ m.id \in Ids /\ m.isDelete \in BOOLEAN
  BY <1>1, MessageKinds DEF AliasNotices, WorkerMessages, Notices
<1>3. toMain' = toMain /\ aliasesHolder \in [Threads -> Tables] /\ NoOne \notin Ids
  BY DEF onNotifyAliasAdd, Typed, ThreadsAssumption
<1>4. \A u \in Threads : /\ Held(news[u])' = Held(news[u]) /\ Held(toMain[u])' = Held(toMain[u])
                         /\ Held(toWorker[u])' = Held(toWorker'[u])
  BY <1>3 DEF Held
<1>5. \A u \in Threads, b \in Aliases : /\ Hearing(u, b)' <=> Hearing(u, b)
                                        /\ Leaving(u, b)' <=> Leaving(u, b)
  BY <1>4 DEF Hearing, Leaving
<1>6. \A u \in Threads, b \in Aliases : Relayed(u, b)' <=> Relayed(u, b)
  BY <1>5 DEF Relayed
<1>7. ASSUME NEW u \in Threads, NEW b \in Aliases
      PROVE  /\ Followed(news[u], Stale(Told(b), b), ToldGone(b), FALSE)'
             /\ Followed(toMain[u], Stale(Posted(b), b), PostedGone(b), Hearing(u, b))'
             /\ Followed(toWorker[u], Stale(Notified(b), b), NotifiedGone(b), Relayed(u, b))'
  <2>1. /\ Followed(news[u], Stale(Told(b), b), ToldGone(b), FALSE)
        /\ Followed(toMain[u], Stale(Posted(b), b), PostedGone(b), Hearing(u, b))
        /\ Followed(toWorker[u], Stale(Notified(b), b), NotifiedGone(b), Relayed(u, b))
    BY DEF AliasesInv, StaleFollowed
  <2>2. PICK told, posted, notices : /\ told = Stale(Told(b), b) /\ posted = Stale(Posted(b), b)
                                     /\ notices = Stale(Notified(b), b)
    OBVIOUS
  <2>3. /\ told = Stale(Told(b), b)' /\ posted = Stale(Posted(b), b)'
        /\ notices = Stale(Notified(b), b)'
    BY <2>2 DEF Stale
  <2>4. Followed(toMain'[u], posted, PostedGone(b), Hearing(u, b)')
    BY <1>3, <1>5, <2>1, <2>2, FollowedStill
  <2>5. Followed(toWorker'[u], notices, NotifiedGone(b), Relayed(u, b)')
    <3>1. Followed(toWorker[u], notices, NotifiedGone(b), Relayed(u, b))
      BY <2>1, <2>2
    <3>2. CASE u = t
      BY <1>1, <1>6, <3>1, <3>2, FollowedTail
    <3>3. CASE u # t
      BY <1>1, <1>6, <3>1, <3>3, FollowedStill
    <3> QED
      BY <3>2, <3>3
  <2> QED
    BY <2>1, <2>2, <2>3, <2>4, <2>5 DEF Followed
<1>8. StaleFollowed'
  BY <1>7 DEF StaleFollowed
<1>9. m \in Stale(Notified(m.alias), m.alias) =>
        Relayed(t, m.alias) \/ Held(Tail(toWorker[t])) \cap NotifiedGone(m.alias) # {}
  <2>1. PICK b, notices : b = m.alias /\ notices = Stale(Notified(b), b)
    OBVIOUS
  <2>2. Followed(toWorker[t], notices, NotifiedGone(b), Relayed(t, b))
    BY <1>2, <2>1 DEF AliasesInv, StaleFollowed
  <2>3. /\ Followed(Tail(toWorker[t]), notices, NotifiedGone(b), Relayed(t, b))
        /\ Head(toWorker[t]) \in notices =>
             Relayed(t, b) \/ Held(Tail(toWorker[t])) \cap NotifiedGone(b) # {}
    BY <1>1, <2>2, FollowedTail
  <2> QED
    BY <2>1, <2>3
<1>10. \A u \in Threads, b \in Aliases : u # t \/ b # m.alias => aliasesHolder'[u][b] = aliasesHolder[u][b]
  BY <1>3 DEF onNotifyAliasAdd, Tables
<1>11. \/ m.isDelete /\ aliasesHolder'[t][m.alias] = NoOne
       \/ ~ m.isDelete /\ aliasesHolder'[t][m.alias] = m.id
       \/ ~ m.isDelete /\ aliasesHolder'[t][m.alias] = aliasesHolder[t][m.alias]
  BY <1>2, <1>3 DEF onNotifyAliasAdd, Tables
<1>12. HoldersTold'
  <2> SUFFICES ASSUME NEW u \in Threads \ Sharing, NEW b \in Aliases,
                      aliasesHolder'[u][b] \notin {NoOne, aliases[b]}
               PROVE  \/ Hearing(u, b)' \/ Held(toWorker[u])' \cap NotifiedGone(b) # {}
                      \/ Relayed(u, b)'
    BY DEF HoldersTold
  <2>1. aliasesHolder[u][b] \notin {NoOne, aliases[b]} =>
          Hearing(u, b) \/ Held(toWorker[u]) \cap NotifiedGone(b) # {} \/ Relayed(u, b)
    BY DEF AliasesInv, HoldersTold
  <2>2. CASE u # t
    BY <1>1, <1>4, <1>5, <1>6, <1>10, <2>1, <2>2
  <2>3. CASE u = t /\ b # m.alias
    <3>1. m \notin NotifiedGone(b)
      BY <2>3 DEF NotifiedGone
    <3> QED
      BY <1>1, <1>4, <1>5, <1>6, <1>10, <2>1, <2>3, <3>1
  <2>4. CASE u = t /\ b = m.alias
    <3>1. ~ m.isDelete /\ m \notin NotifiedGone(b)
      BY <1>11, <2>4 DEF NotifiedGone
    <3>2. CASE aliasesHolder'[t][m.alias] = aliasesHolder[t][m.alias]
      BY <1>1, <1>4, <1>5, <1>6, <2>1, <2>4, <3>1, <3>2
    <3>3. CASE aliasesHolder'[t][m.alias] = m.id
      <4>1. m \in Stale(Notified(b), b)
        BY <1>2, <2>4, <3>1, <3>3 DEF Stale, Notified
      <4> QED
        BY <1>1, <1>4, <1>6, <1>9, <2>4, <4>1
    <3> QED
      BY <1>11, <3>1, <3>2, <3>3
  <2> QED
    BY <2>2, <2>3, <2>4
<1>13. HearsFromConnected'
  <2>1. \E u \in Threads : t \in notified(u) /\ isConnected[u]
    BY <1>1, <1>2 DEF AliasesInv, HearsFromConnected
  <2>2. \A u \in Threads : Held(toWorker[u])' \subseteq Held(toWorker[u])
    BY <1>1, <1>4
  <2>3. \A u \in Threads, b \in Aliases : aliasesHolder'[u][b] # NoOne => aliasesHolder[u][b] # NoOne \/ u = t
    BY <1>10
  <2> QED
    BY <1>4, <2>1, <2>2, <2>3 DEF AliasesInv, HearsFromConnected, Hears
<1> QED
  BY <1>8, <1>12, <1>13 DEF AliasesInv

LEMMA NewsKeepsAliases ==
  ASSUME ThreadsAssumption, Typed, AliasesInv, NEW t \in Threads, NEW m, m = Head(news[t]),
         news[t] # <<>>, news' = [news EXCEPT ![t] = Tail(@)],
         m.op = "alias", handleAlias(t, m),
         UNCHANGED <<aliases, toWorker, isConnected>>
  PROVE  AliasesInv'
<1>1. /\ m \in News /\ m \in Held(news[t]) /\ news[t] \in Seq(News)
      /\ Held(news[t]) = Held(Tail(news[t])) \cup {m} /\ news'[t] = Tail(news[t])
      /\ \A u \in Threads \ {t} : news'[u] = news[u]
  BY TailFacts DEF Typed
<1>2. m \in Broadcasts /\ m.alias \in Aliases /\ m.id \in Ids /\ m.set \in BOOLEAN
  BY <1>1, MessageKinds DEF Broadcasts, News
<1>3. PICK n \in AliasUpdates : /\ n = aliasUpdate(t, m) /\ n.alias = m.alias /\ n.id = m.id
                                /\ n.isDelete \in BOOLEAN /\ (n.isDelete <=> ~ m.set)
  <2>1. PICK b \in BOOLEAN : b = ~ m.set
    OBVIOUS
  <2>2. PICK n : n = [cmd |-> "aliasUpdate", alias |-> m.alias, id |-> m.id, isDelete |-> b]
    OBVIOUS
  <2>3. n \in AliasUpdates
    BY <1>2, <2>2 DEF AliasUpdates, Updates
  <2>4. n.alias = m.alias /\ n.id = m.id /\ n.isDelete = b
    BY <2>2
  <2>5. n = aliasUpdate(t, m)
    BY <2>1, <2>2 DEF aliasUpdate
  <2> QED
    BY <2>1, <2>3, <2>4, <2>5
<1>4. \A u \in Threads : /\ toMain'[u] = IF u = t THEN toMain[u] \o <<n>> ELSE toMain[u]
                         /\ Held(toMain'[u]) = IF u = t THEN Held(toMain[u]) \cup {n}
                                                       ELSE Held(toMain[u])
  <2>1. toMain' = [toMain EXCEPT ![t] = @ \o <<n>>] /\ n \in MainMessages
    BY <1>3 DEF handleAlias, postMessage, AliasUpdates, MainMessages
  <2> QED
    BY <2>1, PostFacts DEF Typed
<1>5. \A u \in Threads : /\ Held(news[u])' = Held(news'[u]) /\ Held(toMain[u])' = Held(toMain'[u])
                         /\ Held(toWorker[u])' = Held(toWorker[u])
  BY DEF Held
<1>6. /\ \A b : m \in ToldGone(b) <=> n \in PostedGone(b)
      /\ \A b : m \in Stale(Told(b), b) <=> n \in Stale(Posted(b), b)
      /\ \A b : n \in PostedGone(b) => n \notin Stale(Posted(b), b)
  BY <1>2, <1>3 DEF Told, ToldGone, Posted, PostedGone, Stale
<1>7. \A u \in Threads, b \in Aliases :
        Hearing(u, b) => Hearing(u, b)' \/ (u = t /\ m \in ToldGone(b))
  <2> SUFFICES ASSUME NEW u \in Threads, NEW b \in Aliases, Hearing(u, b)
               PROVE  Hearing(u, b)' \/ (u = t /\ m \in ToldGone(b))
    OBVIOUS
  <2>1. CASE u = t
    BY <1>1, <1>5, <2>1 DEF Hearing
  <2>2. CASE u # t
    BY <1>1, <1>5, <2>2 DEF Hearing
  <2> QED
    BY <2>1, <2>2
<1>8. \A u \in Threads, b \in Aliases : Leaving(u, b) => Leaving(u, b)'
  BY <1>4, <1>5, <1>6, <1>7 DEF Leaving
<1>9. \A u \in Threads, b \in Aliases : Relayed(u, b) => Relayed(u, b)'
  BY <1>8 DEF Relayed
<1>10. ASSUME NEW b \in Aliases
       PROVE  /\ Followed(Tail(news[t]), Stale(Told(b), b), ToldGone(b), FALSE)
              /\ m \in Stale(Told(b), b) => Hearing(t, b)'
  <2>1. PICK stale : stale = Stale(Told(b), b)
    OBVIOUS
  <2>2. Followed(news[t], stale, ToldGone(b), FALSE)
    BY <2>1 DEF AliasesInv, StaleFollowed
  <2>3. /\ Followed(Tail(news[t]), stale, ToldGone(b), FALSE)
        /\ m \in stale => Held(Tail(news[t])) \cap ToldGone(b) # {}
    BY <1>1, <2>2, FollowedTail
  <2>4. Held(news[t])' = Held(Tail(news[t]))
    BY <1>1, <1>5
  <2> QED
    BY <2>1, <2>3, <2>4 DEF Hearing
<1>11. ASSUME NEW u \in Threads, NEW b \in Aliases
       PROVE  /\ Followed(news[u], Stale(Told(b), b), ToldGone(b), FALSE)'
              /\ Followed(toMain[u], Stale(Posted(b), b), PostedGone(b), Hearing(u, b))'
              /\ Followed(toWorker[u], Stale(Notified(b), b), NotifiedGone(b), Relayed(u, b))'
  <2>1. /\ Followed(news[u], Stale(Told(b), b), ToldGone(b), FALSE)
        /\ Followed(toMain[u], Stale(Posted(b), b), PostedGone(b), Hearing(u, b))
        /\ Followed(toWorker[u], Stale(Notified(b), b), NotifiedGone(b), Relayed(u, b))
    BY DEF AliasesInv, StaleFollowed
  <2>2. PICK told, posted, notices : /\ told = Stale(Told(b), b) /\ posted = Stale(Posted(b), b)
                                     /\ notices = Stale(Notified(b), b)
    OBVIOUS
  <2>3. /\ told = Stale(Told(b), b)' /\ posted = Stale(Posted(b), b)'
        /\ notices = Stale(Notified(b), b)'
    BY <2>2 DEF Stale
  <2>4. Followed(news'[u], told, ToldGone(b), FALSE)
    BY <1>1, <1>10, <2>1, <2>2
  <2>5. toMain[u] \in Seq(MainMessages) /\ n \in MainMessages
    BY DEF Typed, MainMessages, AliasUpdates
  <2>6. Followed(toMain'[u], posted, PostedGone(b), Hearing(u, b)')
    <3>1. Followed(toMain[u], posted, PostedGone(b), Hearing(u, b))
      BY <2>1, <2>2
    <3>2. CASE u # t
      <4>1. toMain'[u] = toMain[u] /\ (Hearing(u, b) => Hearing(u, b)')
        BY <1>4, <1>7, <3>2
      <4>2. Followed(toMain[u], posted, PostedGone(b), Hearing(u, b)')
        BY <3>1, <4>1, FollowedStill
      <4> QED
        BY <4>1, <4>2
    <3>3. CASE u = t /\ m \in ToldGone(b)
      <4>1. n \in PostedGone(b) /\ n \notin posted
        BY <1>6, <2>2, <3>3
      <4>2. Followed(toMain[u] \o <<n>>, posted, PostedGone(b), Hearing(u, b)')
        BY <2>5, <4>1, FollowedByLast
      <4> QED
        BY <1>4, <3>3, <4>2
    <3>4. CASE u = t /\ m \notin ToldGone(b)
      <4>1. PICK r \in Seq(MainMessages) : r = <<n>> /\ Held(r) = {n}
        BY <2>5, Single
      <4>2. Held(r) \cap posted = {} \/ Hearing(u, b)'
        BY <1>6, <1>10, <2>2, <3>4, <4>1
      <4>3. Hearing(u, b) => Hearing(u, b)'
        BY <1>7, <3>4
      <4>4. Followed(toMain[u] \o r, posted, PostedGone(b), Hearing(u, b)')
        BY <2>5, <3>1, <4>2, <4>3, FollowedConcat
      <4> QED
        BY <1>4, <3>4, <4>1, <4>4
    <3> QED
      BY <3>2, <3>3, <3>4
  <2>7. Followed(toWorker'[u], notices, NotifiedGone(b), Relayed(u, b)')
    <3>1. Followed(toWorker[u], notices, NotifiedGone(b), Relayed(u, b))
      BY <2>1, <2>2
    <3> QED
      BY <1>9, <3>1, FollowedStill
  <2> QED
    BY <2>3, <2>4, <2>6, <2>7 DEF Followed
<1>12. StaleFollowed'
  BY <1>11 DEF StaleFollowed
<1>13. /\ \A u \in Threads, b \in Aliases :
            u # t \/ b # m.alias => aliasesHolder'[u][b] = aliasesHolder[u][b]
       /\ aliasesHolder'[t][m.alias] = IF m.set THEN m.id ELSE NoOne
  BY <1>2 DEF handleAlias, Tables, Typed
<1>14. HoldersTold'
  <2> SUFFICES ASSUME NEW u \in Threads \ Sharing, NEW b \in Aliases,
                      aliasesHolder'[u][b] \notin {NoOne, aliases[b]}
               PROVE  \/ Hearing(u, b)' \/ Held(toWorker[u])' \cap NotifiedGone(b) # {}
                      \/ Relayed(u, b)'
    BY DEF HoldersTold
  <2>1. aliasesHolder[u][b] \notin {NoOne, aliases[b]} =>
          Hearing(u, b) \/ Held(toWorker[u]) \cap NotifiedGone(b) # {} \/ Relayed(u, b)
    BY DEF AliasesInv, HoldersTold
  <2>2. CASE u # t
    BY <1>5, <1>7, <1>9, <1>13, <2>1, <2>2
  <2>3. CASE u = t /\ b # m.alias
    <3>1. m \notin ToldGone(b)
      BY <2>3 DEF ToldGone
    <3> QED
      BY <1>5, <1>7, <1>9, <1>13, <2>1, <2>3, <3>1
  <2>4. CASE u = t /\ b = m.alias
    <3>1. m \in Stale(Told(b), b)
      BY <1>2, <1>13, <2>4 DEF Stale, Told
    <3> QED
      BY <1>10, <2>4, <3>1
  <2> QED
    BY <2>2, <2>3, <2>4
<1>15. HearsFromConnected'
  <2>1. isConnected[t]
    BY <1>1, <1>2 DEF AliasesInv, HearsFromConnected
  <2>2. \A u \in Threads : Held(news[u])' \subseteq Held(news[u])
    BY <1>1, <1>5
  <2>3. \A u \in Threads \ {t} : Held(toMain[u])' = Held(toMain[u])
    BY <1>4, <1>5
  <2>4. \A u \in Threads, b \in Aliases : aliasesHolder'[u][b] # NoOne => aliasesHolder[u][b] # NoOne \/ u = t
    BY <1>13
  <2> QED
    BY <1>5, <2>1, <2>2, <2>3, <2>4 DEF AliasesInv, HearsFromConnected, Hears
<1> QED
  BY <1>12, <1>14, <1>15 DEF AliasesInv

----
(***************************************************************************)
(* The server                                                              *)
(***************************************************************************)
\* What threads are told is so when it is said.
LEMMA TellingKeepsAliases ==
  ASSUME Typed, AliasesInv, UNCHANGED <<toMain, toWorker, isConnected, aliasesHolder>>,
         \A b \in Aliases : aliases'[b] = aliases[b] \/ aliases[b] = NoOne,
         NoOne \notin Ids,
         \A t \in Threads :
           \/ news'[t] = news[t]
           \/ /\ isConnected[t]
              /\ \E r \in Seq(News) :
                   /\ news'[t] = news[t] \o r
                   /\ \A b \in Aliases : \A m \in Held(r) \cap Told(b) : m.id = aliases'[b]
  PROVE  AliasesInv'
<1>1. \A b \in Aliases : /\ Stale(Told(b), b)' \subseteq Stale(Told(b), b)
                         /\ Stale(Posted(b), b)' \subseteq Stale(Posted(b), b)
                         /\ Stale(Notified(b), b)' \subseteq Stale(Notified(b), b)
  <2>1. \A b \in Aliases : \A m \in Told(b) \cup Posted(b) \cup Notified(b) : m.id # NoOne
    BY MessageKinds DEF Told, Posted, Notified, Broadcasts, AliasUpdates, Updates, AliasNotices, Notices
  <2> QED
    BY <2>1 DEF Stale
<1>2. \A t \in Threads : Held(toMain[t])' = Held(toMain[t]) /\ Held(toWorker[t])' = Held(toWorker[t])
  BY DEF Held
<1>3. \A t \in Threads : Held(news[t]) \subseteq Held(news[t])' /\ (Held(news[t])' = Held(news[t]) \/ isConnected[t])
  <2> SUFFICES ASSUME NEW t \in Threads
               PROVE  /\ Held(news[t]) \subseteq Held(news'[t])
                      /\ Held(news'[t]) = Held(news[t]) \/ isConnected[t]
    BY DEF Held
  <2>1. CASE news'[t] = news[t]
    BY <2>1
  <2>2. ASSUME isConnected[t], NEW r \in Seq(News), news'[t] = news[t] \o r
        PROVE  Held(news[t]) \subseteq Held(news'[t])
    <3>1. news[t] \in Seq(News)
      BY DEF Typed
    <3> QED
      BY <2>2, <3>1, ConcatFacts
  <2> QED
    BY <2>1, <2>2
<1>4. \A t \in Threads, b \in Aliases : /\ Hearing(t, b) => Hearing(t, b)'
                                        /\ Leaving(t, b) => Leaving(t, b)'
  BY <1>2, <1>3 DEF Hearing, Leaving
<1>5. \A t \in Threads, b \in Aliases : Relayed(t, b) => Relayed(t, b)'
  BY <1>4 DEF Relayed
<1>6. ASSUME NEW t \in Threads, NEW b \in Aliases
      PROVE  /\ Followed(news[t], Stale(Told(b), b), ToldGone(b), FALSE)'
             /\ Followed(toMain[t], Stale(Posted(b), b), PostedGone(b), Hearing(t, b))'
             /\ Followed(toWorker[t], Stale(Notified(b), b), NotifiedGone(b), Relayed(t, b))'
  <2>1. PICK told, posted, notices : /\ told = Stale(Told(b), b) /\ posted = Stale(Posted(b), b)
                                     /\ notices = Stale(Notified(b), b)
    OBVIOUS
  <2>2. PICK told2, posted2, notices2 : /\ told2 = Stale(Told(b), b)' /\ posted2 = Stale(Posted(b), b)'
                                        /\ notices2 = Stale(Notified(b), b)'
    OBVIOUS
  <2>3. told2 \subseteq told /\ posted2 \subseteq posted /\ notices2 \subseteq notices
    BY <1>1, <2>1, <2>2
  <2>4. /\ Followed(news[t], told, ToldGone(b), FALSE)
        /\ Followed(toMain[t], posted, PostedGone(b), Hearing(t, b))
        /\ Followed(toWorker[t], notices, NotifiedGone(b), Relayed(t, b))
    BY <2>1 DEF AliasesInv, StaleFollowed
  <2>5. Followed(news'[t], told2, ToldGone(b), FALSE)
    <3>1. CASE news'[t] = news[t]
      <4>1. Followed(news[t], told2, ToldGone(b), FALSE)
        BY <2>3, <2>4, FollowedStill
      <4> QED
        BY <3>1, <4>1
    <3>2. ASSUME NEW r \in Seq(News), news'[t] = news[t] \o r,
                 \A m \in Held(r) \cap Told(b) : m.id = aliases'[b]
          PROVE  Followed(news'[t], told2, ToldGone(b), FALSE)
      <4>1. news[t] \in Seq(News)
        BY DEF Typed
      <4>2. told2 \subseteq Told(b) /\ \A m \in told2 : m.id # aliases'[b]
        BY <2>2 DEF Stale
      <4>3. Held(r) \cap told2 = {}
        BY <3>2, <4>2
      <4>4. Followed(news[t] \o r, told2, ToldGone(b), FALSE)
        BY <2>3, <2>4, <4>1, <4>3, FollowedConcat
      <4> QED
        BY <3>2, <4>4
    <3> QED
      BY <3>1, <3>2
  <2>6. Followed(toMain'[t], posted2, PostedGone(b), Hearing(t, b)')
    <3>1. Hearing(t, b) => Hearing(t, b)'
      BY <1>4
    <3> QED
      BY <2>3, <2>4, <3>1, FollowedStill
  <2>7. Followed(toWorker'[t], notices2, NotifiedGone(b), Relayed(t, b)')
    <3>1. Relayed(t, b) => Relayed(t, b)'
      BY <1>5
    <3> QED
      BY <2>3, <2>4, <3>1, FollowedStill
  <2> QED
    BY <2>2, <2>5, <2>6, <2>7 DEF Followed
<1>7. StaleFollowed'
  BY <1>6 DEF StaleFollowed
<1>8. HoldersTold'
  BY <1>2, <1>4, <1>5 DEF HoldersTold, AliasesInv
<1>9. HearsFromConnected'
  BY <1>2, <1>3 DEF HearsFromConnected, AliasesInv, Hears
<1> QED
  BY <1>7, <1>8, <1>9 DEF AliasesInv

\* When an alias is retracted, everybody is told who has heard of it, or whoever
\* tells him.
LEMMA RetractKeepsAliases ==
  ASSUME ThreadsAssumption, Typed, AliasesInv,
         UNCHANGED <<toMain, toWorker, isConnected, aliasesHolder>>,
         NEW a \in Aliases, retract(a)
  PROVE  AliasesInv'
<1>1. /\ aliases[a] \in Ids /\ aliases' = [aliases EXCEPT ![a] = NoOne]
      /\ tell(broadcast(Alias(a, aliases[a], FALSE)))
  BY DEF retract, Typed, Tables, Ids
<1>2. PICK n \in Broadcasts : n = Alias(a, aliases[a], FALSE) /\ n \in ToldGone(a)
  <2>1. PICK n \in Broadcasts : n = Alias(a, aliases[a], FALSE)
    BY <1>1, NewsFacts
  <2>2. n.alias = a /\ n.set = FALSE
    BY <2>1 DEF Alias
  <2> QED
    BY <2>1, <2>2 DEF ToldGone
<1>3. n \in News /\ \A b \in Aliases : n \notin Told(b)
  BY <1>2 DEF News, ToldGone, Told
<1>4. \A t \in Threads : /\ news[t] \in Seq(News)
                         /\ news'[t] = IF isConnected[t] THEN news[t] \o <<n>> ELSE news[t]
  <2>1. PICK messages \in [Threads -> Seq(News)] :
          tell(messages) /\ \A t \in Threads : messages[t] = <<n>>
    BY <1>1, <1>2, BroadcastFacts
  <2> QED
    BY <2>1, ToldFacts DEF Typed
<1>5. \A t \in Threads :
        Held(news[t])' = IF isConnected[t] THEN Held(news[t]) \cup {n} ELSE Held(news[t])
  <2>1. \A t \in Threads : Held(news[t] \o <<n>>) = Held(news[t]) \cup {n}
    BY <1>3, <1>4, OneMore
  <2>2. \A t \in Threads : Held(news[t])' = Held(news'[t])
    BY DEF Held
  <2> QED
    BY <1>4, <2>1, <2>2
<1>6. \A t \in Threads : Held(toMain[t])' = Held(toMain[t]) /\ Held(toWorker[t])' = Held(toWorker[t])
  BY DEF Held
<1>7. \A t \in Threads : isConnected[t] => Hearing(t, a)' /\ Leaving(t, a)'
  BY <1>2, <1>5 DEF Hearing, Leaving
<1>8. \A t \in Threads, b \in Aliases : /\ Hearing(t, b) => Hearing(t, b)'
                                        /\ Leaving(t, b) => Leaving(t, b)'
  BY <1>5, <1>6 DEF Hearing, Leaving
<1>9. /\ \A t \in Threads, b \in Aliases : Relayed(t, b) => Relayed(t, b)'
      /\ \A t \in Threads : (\E u \in Threads : t \in notified(u) /\ isConnected[u]) => Relayed(t, a)'
  BY <1>7, <1>8 DEF Relayed
<1>10. \A b \in Aliases \ {a} : aliases'[b] = aliases[b]
  BY <1>1 DEF Typed, Tables
<1>11. ASSUME NEW t \in Threads, NEW b \in Aliases \ {a}
       PROVE  /\ Followed(news[t], Stale(Told(b), b), ToldGone(b), FALSE)'
              /\ Followed(toMain[t], Stale(Posted(b), b), PostedGone(b), Hearing(t, b))'
              /\ Followed(toWorker[t], Stale(Notified(b), b), NotifiedGone(b), Relayed(t, b))'
  <2>1. PICK told, posted, notices : /\ told = Stale(Told(b), b) /\ posted = Stale(Posted(b), b)
                                     /\ notices = Stale(Notified(b), b)
    OBVIOUS
  <2>2. /\ told = Stale(Told(b), b)' /\ posted = Stale(Posted(b), b)'
        /\ notices = Stale(Notified(b), b)'
    BY <1>10, <2>1 DEF Stale
  <2>3. /\ Followed(news[t], told, ToldGone(b), FALSE)
        /\ Followed(toMain[t], posted, PostedGone(b), Hearing(t, b))
        /\ Followed(toWorker[t], notices, NotifiedGone(b), Relayed(t, b))
    BY <2>1 DEF AliasesInv, StaleFollowed
  <2>4. Followed(news'[t], told, ToldGone(b), FALSE)
    <3>1. PICK r \in Seq(News) : r = <<n>> /\ Held(r) = {n}
      BY <1>3, Single
    <3>2. Held(r) \cap told = {}
      BY <1>3, <2>1, <3>1, SaidSets
    <3>3. Followed(news[t] \o r, told, ToldGone(b), FALSE)
      BY <1>4, <2>3, <3>2, FollowedConcat
    <3> QED
      BY <1>4, <2>3, <3>1, <3>3
  <2>5. Followed(toMain'[t], posted, PostedGone(b), Hearing(t, b)')
    BY <1>8, <2>3, FollowedStill
  <2>6. Followed(toWorker'[t], notices, NotifiedGone(b), Relayed(t, b)')
    BY <1>9, <2>3, FollowedStill
  <2> QED
    BY <2>2, <2>4, <2>5, <2>6 DEF Followed
<1>12. ASSUME NEW t \in Threads
       PROVE  /\ Followed(news[t], Stale(Told(a), a), ToldGone(a), FALSE)'
              /\ Followed(toMain[t], Stale(Posted(a), a), PostedGone(a), Hearing(t, a))'
              /\ Followed(toWorker[t], Stale(Notified(a), a), NotifiedGone(a), Relayed(t, a))'
  <2>1. PICK told, posted, notices : /\ told = Stale(Told(a), a)' /\ posted = Stale(Posted(a), a)'
                                     /\ notices = Stale(Notified(a), a)'
    OBVIOUS
  <2>2. told \subseteq Told(a) /\ posted \subseteq AliasUpdates /\ notices \subseteq AliasNotices
    BY <2>1, SaidSets DEF Stale
  <2>3. ASSUME isConnected[t] PROVE /\ Followed(news'[t], told, ToldGone(a), FALSE)
                                    /\ Followed(toMain'[t], posted, PostedGone(a), Hearing(t, a)')
    <3>1. n \notin told
      BY <1>3, <2>2
    <3>2. Followed(news[t] \o <<n>>, told, ToldGone(a), FALSE)
      BY <1>2, <1>3, <1>4, <3>1, FollowedByLast
    <3>3. Followed(toMain'[t], posted, PostedGone(a), Hearing(t, a)')
      BY <1>7, <2>3 DEF Followed
    <3> QED
      BY <1>4, <2>3, <3>2, <3>3
  <2>4. ASSUME ~ isConnected[t] PROVE /\ Followed(news'[t], told, ToldGone(a), FALSE)
                                      /\ Followed(toMain'[t], posted, PostedGone(a), Hearing(t, a)')
    <3>1. Held(news[t]) \cap Broadcasts = {} /\ Held(toMain[t]) \cap AliasUpdates = {}
      BY <2>4 DEF AliasesInv, HearsFromConnected
    <3>2. \A k \in DOMAIN news'[t] : news'[t][k] \notin Broadcasts
      BY <1>4, <2>4, <3>1 DEF Held
    <3>3. \A k \in DOMAIN toMain'[t] : toMain'[t][k] \notin AliasUpdates
      BY <3>1 DEF Held
    <3> QED
      BY <2>2, <3>2, <3>3, SaidSets DEF Followed
  <2>5. Followed(toWorker'[t], notices, NotifiedGone(a), Relayed(t, a)')
    <3>1. CASE \E u \in Threads : t \in notified(u) /\ isConnected[u]
      BY <1>9, <3>1 DEF Followed
    <3>2. CASE ~ \E u \in Threads : t \in notified(u) /\ isConnected[u]
      <4>1. Held(toWorker[t]) \cap AliasNotices = {}
        BY <3>2 DEF AliasesInv, HearsFromConnected
      <4>2. \A k \in DOMAIN toWorker'[t] : toWorker'[t][k] \notin AliasNotices
        BY <4>1 DEF Held
      <4> QED
        BY <2>2, <4>2 DEF Followed
    <3> QED
      BY <3>1, <3>2
  <2> QED
    BY <2>1, <2>3, <2>4, <2>5 DEF Followed
<1>13. StaleFollowed'
  BY <1>11, <1>12 DEF StaleFollowed
<1>14. HoldersTold'
  <2> SUFFICES ASSUME NEW t \in Threads \ Sharing, NEW b \in Aliases,
                      aliasesHolder[t][b] \notin {NoOne, aliases'[b]}
               PROVE  \/ Hearing(t, b)' \/ Held(toWorker[t])' \cap NotifiedGone(b) # {}
                      \/ Relayed(t, b)'
    BY DEF HoldersTold
  <2>1. CASE b # a
    <3>1. Hearing(t, b) \/ Held(toWorker[t]) \cap NotifiedGone(b) # {} \/ Relayed(t, b)
      BY <1>10, <2>1 DEF AliasesInv, HoldersTold
    <3> QED
      BY <1>6, <1>8, <1>9, <3>1
  <2>2. CASE b = a
    <3>1. Hears(t)
      BY <2>2 DEF AliasesInv, HearsFromConnected
    <3> QED
      BY <1>7, <1>9, <2>2, <3>1 DEF Hears
  <2> QED
    BY <2>1, <2>2
<1>15. HearsFromConnected'
  BY <1>5, <1>6 DEF HearsFromConnected, AliasesInv, Hears
<1> QED
  BY <1>13, <1>14, <1>15 DEF AliasesInv

----
(***************************************************************************)
(* Whoever the server answers is connected                                 *)
(***************************************************************************)
LEMMA ConnectedKept ==
  ASSUME Typed, ConnectedFirst, NEW t \in Threads, NEW c \in Calls, NEW its \in Maps(WorkerBinds),
         call' = [call EXCEPT ![t] = c], binds' = [binds EXCEPT ![t] = its],
         UNCHANGED <<aliases, isConnected>>,
         isConnected[t] \/ c.at \notin {"descriptor", "client"} \/ c.at = call[t].at,
         \/ isConnected[t]
         \/ \A fd \in DOMAIN its : its[fd] = STUB => fd \in DOMAIN binds[t] /\ binds[t][fd] = STUB
  PROVE  ConnectedFirst'
<1>1. /\ call'[t] = c /\ binds'[t] = its
      /\ \A u \in Threads \ {t} : call'[u] = call[u] /\ binds'[u] = binds[u]
  BY DEF Typed
<1>2. ASSUME NEW u \in Threads \ {t}, ~ isConnected[u]
      PROVE  /\ call'[u].at \notin {"descriptor", "client"} /\ \A a \in Aliases : aliases[a] # u
             /\ \A fd \in DOMAIN binds'[u] : binds'[u][fd] # STUB
  BY <1>1, <1>2 DEF ConnectedFirst
<1>3. ASSUME ~ isConnected[t]
      PROVE  /\ call'[t].at \notin {"descriptor", "client"} /\ \A a \in Aliases : aliases[a] # t
             /\ \A fd \in DOMAIN binds'[t] : binds'[t][fd] # STUB
  BY <1>1, <1>3 DEF ConnectedFirst
<1> QED
  BY <1>2, <1>3 DEF ConnectedFirst

\* A descriptor that is given an address is no stub any more.
LEMMA PutIsNoStub ==
  ASSUME ThreadsAssumption, NEW its, NEW fd, NEW bind \in Binds
  PROVE  \A x \in DOMAIN Put(its, fd, bind) :
           Put(its, fd, bind)[x] = STUB => x \in DOMAIN its /\ its[x] = STUB
  BY StubIsNoBind DEF Put

LEMMA ServerConnects ==
  ASSUME ThreadsAssumption, CallsInv, ConnectedFirst, Server
  PROVE  ConnectedFirst'
<1>1. UNCHANGED <<call, binds, isConnected>>
  BY DEF Server, workers
<1>2. ASSUME \A t \in Threads, a \in Aliases : aliases'[a] = t => aliases[a] = t \/ isConnected[t]
      PROVE  ConnectedFirst'
  BY <1>1, <1>2 DEF ConnectedFirst
<1>3. aliases \in Tables /\ Remote \notin Threads /\ NoOne \notin Threads
  BY DEF CallsInv, Typed, ThreadsAssumption, Ids
<1>4. \A t \in Threads : call[t].at = "client" => isConnected[t]
  BY DEF ConnectedFirst
<1>5. ASSUME NEW t \in Threads, register(t) PROVE ConnectedFirst'
  <2>1. isConnected[t] /\ aliases' = [aliases EXCEPT ![call[t].alias] = t]
    BY <1>4, <1>5 DEF register, waitsAtServer, registered
  <2> QED
    BY <1>2, <1>3, <2>1 DEF Tables
<1>6. ASSUME NEW t \in Threads, NEW x \in Aliases, refuse(t, x) PROVE ConnectedFirst'
  BY <1>2, <1>6 DEF refuse
<1>7. ASSUME NEW a \in RemoteAliases, registerRemote(a) PROVE ConnectedFirst'
  <2>1. aliases' = [aliases EXCEPT ![a] = Remote]
    BY <1>7 DEF registerRemote, registered
  <2> QED
    BY <1>2, <1>3, <2>1 DEF Tables
<1>8. ASSUME NEW id \in Ids, NEW x \in ConnectAliases, NEW a \in Aliases, introduce(id, a, x)
      PROVE  ConnectedFirst'
  <2>1. connects(id, a) /\ aliases' = [aliases EXCEPT ![x] = id]
    BY <1>8 DEF introduce, registered
  <2>2. id \in Threads => isConnected[id]
    BY <1>3, <1>4, <2>1 DEF connects, waitsAtServer
  <2> QED
    BY <1>2, <1>3, <2>1, <2>2 DEF Tables
<1>9. ASSUME NEW a \in Aliases, retract(a) PROVE ConnectedFirst'
  <2>1. aliases' = [aliases EXCEPT ![a] = NoOne]
    BY <1>9 DEF retract
  <2> QED
    BY <1>2, <1>3, <2>1 DEF Tables
<1> QED
  BY <1>5, <1>6, <1>7, <1>8, <1>9 DEF Server

LEMMA MessageConnects ==
  ASSUME ThreadsAssumption, CallsInv, ConnectedFirst, NEW t \in Threads, onmessage(t)
  PROVE  ConnectedFirst'
<1>1. PICK m : /\ m = Head(toWorker[t]) /\ toWorker[t] # <<>>
               /\ toWorker' = [toWorker EXCEPT ![t] = Tail(@)]
               /\ \/ m.cmd = "notifyBindAdd" /\ onNotifyBindAdd(t, m)
                  \/ m.cmd = "notifyAliasAdd" /\ onNotifyAliasAdd(t, m)
                  \/ m.cmd = "onFetchBinds" /\ onFetchBinds(t, m)
                  \/ m.cmd = "onSocketDescriptor" /\ onSocketDescriptor(t, m)
                  \/ m.cmd = "onWrtcSendCallback" /\ onWrtcSendCallback(t)
               /\ UNCHANGED <<server, news, isConnected, sends, main>>
  BY DEF onmessage
<1>2. UNCHANGED <<aliases, isConnected>>
  BY <1>1 DEF server
<1>3. m \in WorkerMessages /\ m \in Held(toWorker[t])
  BY <1>1, TakenByWorker DEF CallsInv
<1>4. /\ Awaited(t) /\ CallTrue(t, call[t], binds[t]) /\ call[t] \in Calls
      /\ binds[t] \in Maps(WorkerBinds) /\ Typed
      /\ call = [call EXCEPT ![t] = call[t]] /\ binds = [binds EXCEPT ![t] = binds[t]]
  BY DEF CallsInv, Typed
<1>5. CASE m.cmd = "notifyBindAdd" /\ onNotifyBindAdd(t, m)
  <2>1. m.fd \in Descriptors /\ m.bind \in Binds
    BY <1>3, <1>5, MessageKinds DEF WorkerMessages, Notices
  <2>2. call' = call
    BY <1>5 DEF onNotifyBindAdd
  <2>3. CASE m.fd \in DOMAIN binds[t]
    <3>1. binds' = binds
      BY <1>5, <2>3 DEF onNotifyBindAdd
    <3> QED
      BY <1>2, <2>2, <3>1 DEF ConnectedFirst
  <2>4. CASE m.fd \notin DOMAIN binds[t]
    <3>1. binds' = [binds EXCEPT ![t] = Put(binds[t], m.fd, m.bind)]
      BY <1>5, <2>4 DEF onNotifyBindAdd
    <3>2. PICK its \in Maps(WorkerBinds) : its = Put(binds[t], m.fd, m.bind)
      BY <1>4, <2>1, PutFacts, StubIsNoBind
    <3>3. \A fd \in DOMAIN its : its[fd] = STUB => fd \in DOMAIN binds[t] /\ binds[t][fd] = STUB
      BY <2>1, <3>2, PutIsNoStub
    <3> QED
      BY <1>2, <1>4, <2>2, <3>1, <3>2, <3>3, ConnectedKept
  <2> QED
    BY <2>3, <2>4
<1>6. CASE m.cmd = "notifyAliasAdd" /\ onNotifyAliasAdd(t, m)
  BY <1>2, <1>6 DEF onNotifyAliasAdd, ConnectedFirst
<1>7. CASE m.cmd = "onFetchBinds" /\ onFetchBinds(t, m)
  <2>1. m \in Answers
    BY <1>3, <1>7, MessageKinds DEF WorkerMessages
  <2>2. call[t].op = "send"
    BY <1>3, <1>4, <1>7, <2>1 DEF Awaited, answered, CallTrue
  <2>3. /\ m.binds \in Maps(Binds) /\ fetched(t, m) \in Maps(WorkerBinds)
        /\ known(t, m) \in Tables
    BY <1>4, <1>7, <2>1, FetchFacts
  <2>4. PICK its \in Maps(WorkerBinds) : its = fetched(t, m)
    BY <2>3
  <2>5. PICK holder \in Tables : holder = known(t, m)
    BY <2>3
  <2>6. \/ call[t].fd \in DOMAIN its /\ body(t, call[t], its, holder)
        \/ call' = [call EXCEPT ![t] = idle] /\ binds' = [binds EXCEPT ![t] = its]
    BY <1>7, <2>4, <2>5 DEF onFetchBinds, fetched, known
  <2>7. /\ binds' = [binds EXCEPT ![t] = its]
        /\ \/ call' = [call EXCEPT ![t] = idle]
           \/ call' = [call EXCEPT ![t] = waiting(call[t], "transporter")]
    BY <2>2, <2>6 DEF body
  <2>8. PICK c \in Calls : call' = [call EXCEPT ![t] = c] /\ c.at \in {"idle", "transporter"}
    BY <1>4, <2>7, CallFacts
  <2>9. \A fd \in DOMAIN its : its[fd] = STUB => fd \in DOMAIN binds[t] /\ binds[t][fd] = STUB
    <3>1. \A fd \in DOMAIN m.binds : m.binds[fd] # STUB
      BY <2>3, MapFacts, StubIsNoBind
    <3> QED
      BY <2>4, <3>1 DEF fetched
  <2> QED
    BY <1>2, <1>4, <2>7, <2>8, <2>9, ConnectedKept
<1>8. CASE m.cmd = "onSocketDescriptor" /\ onSocketDescriptor(t, m)
  <2>1. m \in Answers
    BY <1>3, <1>8, MessageKinds DEF WorkerMessages
  <2>2. call[t].at = "descriptor"
    BY <1>3, <1>4, <1>8, <2>1 DEF Awaited, answered
  <2>3. isConnected[t]
    BY <2>2 DEF ConnectedFirst
  <2>4. \A u \in Threads \ {t} : call'[u] = call[u] /\ binds'[u] = binds[u]
    BY <1>4, <1>8 DEF onSocketDescriptor, Typed
  <2> QED
    BY <1>2, <2>3, <2>4 DEF ConnectedFirst
<1>9. CASE m.cmd = "onWrtcSendCallback" /\ onWrtcSendCallback(t)
  <2>1. PICK c \in Calls : /\ call' = [call EXCEPT ![t] = c] /\ c.at = "idle"
                           /\ binds' = [binds EXCEPT ![t] = binds[t]]
    BY <1>4, <1>9, CallFacts DEF onWrtcSendCallback
  <2>2. \A fd \in DOMAIN binds[t] : binds[t][fd] = STUB => fd \in DOMAIN binds[t] /\ binds[t][fd] = STUB
    OBVIOUS
  <2> QED
    BY <1>2, <1>4, <2>1, <2>2, ConnectedKept
<1> QED
  BY <1>1, <1>5, <1>6, <1>7, <1>8, <1>9

LEMMA OperationConnects ==
  ASSUME ThreadsAssumption, CallsInv, ConnectedFirst, NEW t \in Threads, handleOperation(t)
  PROVE  ConnectedFirst'
<1>1. PICK m : /\ m = Head(news[t]) /\ news[t] # <<>> /\ news' = [news EXCEPT ![t] = Tail(@)]
               /\ \/ m.op = "alias" /\ handleAlias(t, m)
                  \/ m.op = "returns" /\ returns(t, m)
                  \/ m.op = "fails" /\ fails(t)
               /\ UNCHANGED <<server, isConnected, sends, toWorker, main>>
  BY DEF handleOperation
<1>2. UNCHANGED <<aliases, isConnected>>
  BY <1>1 DEF server
<1>3. m \in News /\ m \in Held(news[t])
  BY <1>1, TakenNews DEF CallsInv
<1>4. /\ Awaited(t) /\ CallTrue(t, call[t], binds[t]) /\ call[t] \in Calls
      /\ binds[t] \in Maps(WorkerBinds) /\ Typed
      /\ call = [call EXCEPT ![t] = call[t]] /\ binds = [binds EXCEPT ![t] = binds[t]]
  BY DEF CallsInv, Typed
<1>5. CASE m.op = "alias" /\ handleAlias(t, m)
  BY <1>2, <1>5 DEF handleAlias, ConnectedFirst
<1>6. CASE m.op \in {"returns", "fails"}
  <2>1. m \in Endings
    BY <1>3, <1>6, MessageKinds DEF News
  <2>2. call[t].at = "client"
    BY <1>3, <1>4, <2>1 DEF Awaited, ended
  <2>3. isConnected[t]
    BY <2>2 DEF ConnectedFirst
  <2>4. \A u \in Threads \ {t} : call'[u] = call[u] /\ binds'[u] = binds[u]
    <3>1. CASE returns(t, m)
      BY <1>4, <3>1 DEF returns, setBind, Typed
    <3>2. CASE fails(t)
      BY <1>4, <3>2 DEF fails, Typed
    <3> QED
      BY <1>1, <1>6, <3>1, <3>2
  <2> QED
    BY <1>2, <2>3, <2>4 DEF ConnectedFirst
<1> QED
  BY <1>1, <1>5, <1>6

LEMMA ProgramConnects ==
  ASSUME ThreadsAssumption, CallsInv, ConnectedFirst, NEW t \in Threads, Program(t)
  PROVE  ConnectedFirst'
<1>1. /\ call[t] = idle /\ UNCHANGED <<aliases, isConnected>>
      /\ \E n, its : \E c \in Calls : Step(t, c, n, its)
  BY ProgramSteps
<1>2. PICK n, its : \E c \in Calls : Step(t, c, n, its)
  BY <1>1
<1>3. PICK c \in Calls : Step(t, c, n, its)
  BY <1>2
<1>4. call' = [call EXCEPT ![t] = c] /\ binds' = [binds EXCEPT ![t] = its] /\ call'[t] = c
  BY <1>3 DEF Step, Calling, Posting, CallsInv, Typed
<1>5. \A u \in Threads \ {t} : call'[u] = call[u] /\ binds'[u] = binds[u]
  BY <1>4 DEF CallsInv, Typed
<1>6. CASE isConnected[t]
  BY <1>1, <1>5, <1>6 DEF ConnectedFirst
<1>7. CASE ~ isConnected[t]
  <2>1. \A fd \in DOMAIN binds[t] : binds[t][fd] # STUB
    BY <1>7 DEF ConnectedFirst
  <2>2. its = binds[t]
    BY <1>3, <2>1 DEF Step
  <2>3. c.at \notin {"descriptor", "client"}
    <3>1. CASE socket(t)
      <4>1. PICK d \in Calls : d = [idle EXCEPT !.op = "socket", !.at = "ready"]
        BY CallFacts DEF Calls
      <4>2. d.at = "ready"
        BY <4>1, CallFacts DEF Calls
      <4>3. c = d
        BY <1>4, <1>7, <3>1, <4>1 DEF socket, CallsInv, Typed
      <4> QED
        BY <4>2, <4>3
    <3>2. ASSUME NEW fd \in DOMAIN binds[t], listening(t, fd) PROVE FALSE
      <4>1. binds[t][fd].alias \in Aliases /\ aliases[binds[t][fd].alias] = t
        BY <3>2 DEF listening, Aliases
      <4> QED
        BY <1>7, <4>1 DEF ConnectedFirst
    <3>3. ASSUME NEW fd, ensureBound(t, Call("send", fd, NoOne))
          PROVE  c.at \notin {"descriptor", "client"}
      <4> DEFINE d == Call("send", fd, NoOne)
      <4>1. d.op = "send" /\ d.fd = fd
        BY DEF Call
      <4> HIDE DEF d
      <4>2. \/ call' = [call EXCEPT ![t] = idle]
            \/ call' = [call EXCEPT ![t] = waiting(d, "transporter")]
            \/ call' = [call EXCEPT ![t] = waiting(d, "binds")]
        <5>1. CASE fd \in DOMAIN binds[t]
          <6>1. body(t, d, binds[t], aliasesHolder[t])
            BY <3>3, <4>1, <5>1 DEF ensureBound, d
          <6> QED
            BY <4>1, <6>1 DEF body
        <5>2. CASE fd \notin DOMAIN binds[t]
          BY <3>3, <4>1, <5>2 DEF ensureBound, d
        <5> QED
          BY <5>1, <5>2
      <4>3. c \in {idle, waiting(d, "transporter"), waiting(d, "binds")}
        BY <1>4, <4>2 DEF CallsInv, Typed
      <4>4. waiting(d, "transporter").at = "transporter" /\ waiting(d, "binds").at = "binds"
        BY DEF d, waiting, Call
      <4> QED
        BY <4>3, <4>4, CallFacts
    <3> QED
      BY <2>1, <3>1, <3>2, <3>3 DEF Program
  <2> QED
    BY <1>1, <1>4, <1>5, <2>1, <2>2, <2>3 DEF ConnectedFirst
<1> QED
  BY <1>6, <1>7

LEMMA NextConnects ==
  ASSUME ThreadsAssumption, CallsInv, ConnectedFirst, [Next]_vars
  PROVE  ConnectedFirst'
<1>1. ASSUME NEW t \in Threads, handleMessage(t) PROVE ConnectedFirst'
  BY <1>1 DEF handleMessage, server, workers, ConnectedFirst
<1>2. ASSUME NEW t \in Threads, ready(t) PROVE ConnectedFirst'
  <2>1. /\ UNCHANGED <<aliases, binds>> /\ isConnected'[t]
        /\ \A u \in Threads \ {t} : isConnected'[u] = isConnected[u] /\ call'[u] = call[u]
    BY <1>2 DEF ready, server, CallsInv, Typed
  <2> QED
    BY <2>1 DEF ConnectedFirst
<1>3. ASSUME NEW w, transported(w) PROVE ConnectedFirst'
  BY <1>3 DEF transported, server, workers, ConnectedFirst
<1>4. CASE UNCHANGED vars
  BY <1>4 DEF vars, server, workers, ConnectedFirst
<1> QED
  BY <1>1, <1>2, <1>3, <1>4, MessageConnects, OperationConnects, ProgramConnects, ServerConnects
     DEF Next

----
(***************************************************************************)
(* Every step                                                              *)
(***************************************************************************)
LEMMA OtherMessages ==
  /\ \A m \in AliasUpdates : m.cmd = "aliasUpdate"
  /\ \A m \in AliasNotices : m.cmd = "notifyAliasAdd"
  /\ \A m \in Requests : m \in MainMessages \ AliasUpdates
  /\ \A m \in Updates : m.cmd # "aliasUpdate" => m \in MainMessages \ AliasUpdates
  /\ \A m \in Answers : m \in WorkerMessages \ AliasNotices
  /\ \A m \in Notices : m.cmd # "notifyAliasAdd" => m \in WorkerMessages \ AliasNotices
  /\ \A m \in Endings : m \notin Broadcasts
  BY MessageKinds DEF AliasUpdates, AliasNotices, MainMessages, WorkerMessages

LEMMA PostedSame ==
  ASSUME Typed, NEW t \in Threads, NEW n \in MainMessages \ AliasUpdates,
         toMain' = [toMain EXCEPT ![t] = @ \o <<n>>]
  PROVE  \A u \in Threads : Same(toMain[u], toMain'[u], MainMessages, AliasUpdates)
  BY DEF Typed, Same

LEMMA MainKeepsAliases ==
  ASSUME CallsInv, AliasesInv, NEW t \in Threads, handleMessage(t)
  PROVE  AliasesInv'
<1>1. PICK m : /\ m = Head(toMain[t]) /\ toMain[t] # <<>>
               /\ toMain' = [toMain EXCEPT ![t] = Tail(@)]
               /\ \/ m.cmd = "bindUpdate" /\ handleBindUpdate(t, m)
                  \/ m.cmd = "aliasUpdate" /\ handleAliasUpdate(t, m)
                  \/ m.cmd = "fetchBinds" /\ handleFetchBinds(t)
                  \/ m.cmd = "socketDescriptor" /\ handleSocketDescriptor(t)
                  \/ m.cmd = "wrtcSend" /\ handleWrtcSend(t, m)
               /\ UNCHANGED <<server, news, workers>>
  BY DEF handleMessage
<1>2. UNCHANGED <<aliases, news, isConnected, aliasesHolder, call>> /\ Typed
  BY <1>1 DEF server, workers, CallsInv
<1>3. m \in MainMessages /\ m \in Held(toMain[t])
  BY <1>1, <1>2, TakenFromMain
<1>4. CASE m.cmd = "aliasUpdate" /\ handleAliasUpdate(t, m)
  BY <1>1, <1>2, <1>4, UpdateKeepsAliases
<1>5. CASE m.cmd # "aliasUpdate"
  <2>1. \A u \in Threads : Same(toMain[u], toMain'[u], MainMessages, AliasUpdates)
    <3>1. m \notin AliasUpdates
      BY <1>5, OtherMessages
    <3> QED
      BY <1>1, <1>2, <3>1 DEF Same, Typed
  <2>2. ASSUME NEW n \in Notices, n.cmd # "notifyAliasAdd", notifyAllThreads(t, n)
        PROVE  \A u \in Threads : Same(toWorker[u], toWorker'[u], WorkerMessages, AliasNotices)
    <3>1. \A u \in Threads : toWorker'[u] = IF u \in notified(t) THEN toWorker[u] \o <<n>>
                                                                ELSE toWorker[u]
      BY <1>2, <2>2, NotifyFacts DEF Typed
    <3> QED
      BY <2>2, <3>1, OtherMessages DEF Same
  <2>3. ASSUME NEW n \in Answers, answer(t, n)
        PROVE  \A u \in Threads : Same(toWorker[u], toWorker'[u], WorkerMessages, AliasNotices)
    <3>1. \A u \in Threads : toWorker'[u] = IF u = t THEN toWorker[u] \o <<n>> ELSE toWorker[u]
      BY <1>2, <2>3, AnswerFacts DEF Typed
    <3> QED
      BY <2>3, <3>1, OtherMessages DEF Same
  <2>4. \A u \in Threads : Same(toWorker[u], toWorker'[u], WorkerMessages, AliasNotices)
    <3>1. CASE m.cmd = "bindUpdate" /\ handleBindUpdate(t, m)
      <4>1. m.fd \in Descriptors /\ m.bind \in Binds
        BY <1>3, <3>1, MessageKinds DEF MainMessages, Updates
      <4>2. PICK n \in Notices : n = [cmd |-> "notifyBindAdd", fd |-> m.fd, bind |-> m.bind]
        BY <4>1 DEF Notices
      <4>3. notifyAllThreads(t, n) /\ n.cmd # "notifyAliasAdd"
        BY <3>1, <4>2 DEF handleBindUpdate
      <4> QED
        BY <2>2, <4>3
    <3>2. CASE m.cmd = "fetchBinds" /\ handleFetchBinds(t)
      <4>1. PICK n \in Answers : n = [cmd |-> "onFetchBinds", binds |-> socketBinds,
                                      aliases |-> socketAliases]
        BY <1>2 DEF Answers, Typed
      <4>2. answer(t, n)
        BY <3>2, <4>1 DEF handleFetchBinds
      <4> QED
        BY <2>3, <4>2
    <3>3. CASE m.cmd = "socketDescriptor" /\ handleSocketDescriptor(t)
      <4>1. socketDescriptors' \in Descriptors
        <5>1. CallsInv'
          BY MainKeepsCalls
        <5>2. socketDescriptors' \in 0 .. MaxDescriptors /\ socketDescriptors \in 0 .. MaxDescriptors
          BY <1>2, <5>1 DEF CallsInv, Typed
        <5>3. socketDescriptors' = socketDescriptors + 1
          BY <3>3 DEF handleSocketDescriptor
        <5> QED
          BY <5>2, <5>3 DEF Descriptors
      <4>2. PICK n \in Answers : n = [cmd |-> "onSocketDescriptor", fd |-> socketDescriptors']
        BY <4>1 DEF Answers
      <4>3. answer(t, n)
        BY <3>3, <4>2 DEF handleSocketDescriptor
      <4> QED
        BY <2>3, <4>3
    <3>4. CASE m.cmd = "wrtcSend" /\ handleWrtcSend(t, m)
      BY <3>4 DEF handleWrtcSend, Same
    <3> QED
      BY <1>1, <1>5, <3>1, <3>2, <3>3, <3>4
  <2>5. \A u \in Threads : Same(news[u], news'[u], News, Broadcasts)
    BY <1>2 DEF Same
  <2> QED
    BY <1>2, <2>1, <2>4, <2>5, AliasesKept
<1> QED
  BY <1>1, <1>4, <1>5

LEMMA MessageKeepsAliases ==
  ASSUME ThreadsAssumption, CallsInv, AliasesInv, NEW t \in Threads, onmessage(t)
  PROVE  AliasesInv'
<1>1. PICK m : /\ m = Head(toWorker[t]) /\ toWorker[t] # <<>>
               /\ toWorker' = [toWorker EXCEPT ![t] = Tail(@)]
               /\ \/ m.cmd = "notifyBindAdd" /\ onNotifyBindAdd(t, m)
                  \/ m.cmd = "notifyAliasAdd" /\ onNotifyAliasAdd(t, m)
                  \/ m.cmd = "onFetchBinds" /\ onFetchBinds(t, m)
                  \/ m.cmd = "onSocketDescriptor" /\ onSocketDescriptor(t, m)
                  \/ m.cmd = "onWrtcSendCallback" /\ onWrtcSendCallback(t)
               /\ UNCHANGED <<server, news, isConnected, sends, main>>
  BY DEF onmessage
<1>2. UNCHANGED <<aliases, news, isConnected>> /\ Typed
  BY <1>1 DEF server, CallsInv
<1>3. m \in WorkerMessages /\ m \in Held(toWorker[t])
  BY <1>1, <1>2, TakenByWorker
<1>4. CASE m.cmd = "notifyAliasAdd" /\ onNotifyAliasAdd(t, m)
  BY <1>1, <1>2, <1>4, NoticeKeepsAliases
<1>5. CASE m.cmd # "notifyAliasAdd"
  <2>1. \A u \in Threads : Same(toWorker[u], toWorker'[u], WorkerMessages, AliasNotices)
    <3>1. m \notin AliasNotices
      BY <1>5, OtherMessages
    <3> QED
      BY <1>1, <1>2, <3>1 DEF Same, Typed
  <2>2. \A u \in Threads : Same(news[u], news'[u], News, Broadcasts)
    BY <1>2 DEF Same
  <2>3. ASSUME toMain' = toMain, aliasesHolder' = aliasesHolder
        PROVE  AliasesInv'
    <3>1. \A u \in Threads : Same(toMain[u], toMain'[u], MainMessages, AliasUpdates)
      BY <2>3 DEF Same
    <3> QED
      BY <1>2, <2>1, <2>2, <2>3, <3>1, AliasesKept
  <2>4. CASE m.cmd = "onFetchBinds" /\ onFetchBinds(t, m)
    <3>1. m \in Answers
      BY <1>3, <2>4, MessageKinds DEF WorkerMessages
    <3>2. Awaited(t) /\ CallTrue(t, call[t], binds[t]) /\ call[t] \in Calls
      BY DEF CallsInv, Typed
    <3>3. call[t].op = "send" /\ t \in Sharing
      BY <1>3, <2>4, <3>1, <3>2 DEF Awaited, answered, CallTrue
    <3>4. fetched(t, m) \in Maps(WorkerBinds) /\ known(t, m) \in Tables
      BY <1>2, <2>4, <3>1, FetchFacts
    <3>5. PICK its \in Maps(WorkerBinds) : its = fetched(t, m)
      BY <3>4
    <3>6. PICK holder \in Tables : holder = known(t, m)
      BY <3>4
    <3>7. \/ call[t].fd \in DOMAIN its /\ body(t, call[t], its, holder)
          \/ UNCHANGED toMain /\ aliasesHolder' = [aliasesHolder EXCEPT ![t] = holder]
      BY <2>4, <3>5, <3>6 DEF onFetchBinds, fetched, known
    <3>8. /\ aliasesHolder' = [aliasesHolder EXCEPT ![t] = holder]
          /\ \/ UNCHANGED toMain
             \/ \E n \in Requests : toMain' = [toMain EXCEPT ![t] = @ \o <<n>>]
      <4>1. CASE call[t].fd \in DOMAIN its /\ body(t, call[t], its, holder)
        <5>1. /\ aliasesHolder' = [aliasesHolder EXCEPT ![t] = holder]
              /\ \/ Calling(t, idle)
                 \/ \E n \in Requests : Posting(t, waiting(call[t], "transporter"), n)
          BY <1>2, <3>2, <3>3, <4>1, SendGoesOn
        <5> QED
          BY <5>1 DEF Calling, Posting
      <4> QED
        BY <3>7, <4>1
    <3>9. \A u \in Threads : Same(toMain[u], toMain'[u], MainMessages, AliasUpdates)
      <4>1. CASE UNCHANGED toMain
        BY <4>1 DEF Same
      <4>2. ASSUME NEW n \in Requests, toMain' = [toMain EXCEPT ![t] = @ \o <<n>>]
            PROVE  \A u \in Threads : Same(toMain[u], toMain'[u], MainMessages, AliasUpdates)
        BY <1>2, <4>2, OtherMessages, PostedSame
      <4> QED
        BY <3>8, <4>1, <4>2
    <3>10. \A u \in Threads : u \notin Sharing => aliasesHolder'[u] = aliasesHolder[u]
      BY <1>2, <3>3, <3>8 DEF Typed
    <3> QED
      BY <1>2, <2>1, <2>2, <3>9, <3>10, AliasesKept
  <2> QED
    BY <1>1, <1>5, <2>3, <2>4 DEF onNotifyBindAdd, onSocketDescriptor, onWrtcSendCallback
<1> QED
  BY <1>1, <1>4, <1>5

LEMMA OperationKeepsAliases ==
  ASSUME ThreadsAssumption, CallsInv, AliasesInv, NEW t \in Threads, handleOperation(t)
  PROVE  AliasesInv'
<1>1. PICK m : /\ m = Head(news[t]) /\ news[t] # <<>> /\ news' = [news EXCEPT ![t] = Tail(@)]
               /\ \/ m.op = "alias" /\ handleAlias(t, m)
                  \/ m.op = "returns" /\ returns(t, m)
                  \/ m.op = "fails" /\ fails(t)
               /\ UNCHANGED <<server, isConnected, sends, toWorker, main>>
  BY DEF handleOperation
<1>2. UNCHANGED <<aliases, toWorker, isConnected>> /\ Typed
  BY <1>1 DEF server, CallsInv
<1>3. m \in News /\ m \in Held(news[t])
  BY <1>1, <1>2, TakenNews
<1>4. CASE m.op = "alias" /\ handleAlias(t, m)
  BY <1>1, <1>2, <1>4, NewsKeepsAliases
<1>5. CASE m.op \in {"returns", "fails"}
  <2>1. m \in Endings
    BY <1>3, <1>5, MessageKinds DEF News
  <2>2. \A u \in Threads : Same(news[u], news'[u], News, Broadcasts)
    <3>1. m \notin Broadcasts
      BY <2>1, OtherMessages
    <3> QED
      BY <1>1, <1>2, <3>1 DEF Same, Typed
  <2>3. \A u \in Threads : Same(toWorker[u], toWorker'[u], WorkerMessages, AliasNotices)
    BY <1>2 DEF Same
  <2>4. aliasesHolder' = aliasesHolder
    BY <1>1, <1>5 DEF returns, fails
  <2>5. \A u \in Threads : Same(toMain[u], toMain'[u], MainMessages, AliasUpdates)
    <3>1. CASE UNCHANGED toMain
      BY <3>1 DEF Same
    <3>2. CASE m.op = "returns" /\ returns(t, m) /\ call[t].op \in {"bind", "accept"}
      <4>1. m.alias \in Aliases
        BY <2>1, <3>2 DEF Endings
      <4>2. call[t].fd \in DOMAIN binds[t] /\ DOMAIN binds[t] \subseteq Descriptors
        <5>1. Awaited(t) /\ CallTrue(t, call[t], binds[t])
          BY DEF CallsInv
        <5>2. call[t].at = "client"
          BY <1>3, <2>1, <5>1 DEF Awaited, ended
        <5> QED
          BY <1>2, <5>1, <5>2, MapFacts DEF CallTrue, Typed
      <4>3. PICK n \in Updates : n = [cmd |-> "bindUpdate", fd |-> call[t].fd, bind |-> Bind(m.alias, t)]
        BY <4>1, <4>2, StubIsNoBind DEF Updates
      <4>4. toMain' = [toMain EXCEPT ![t] = @ \o <<n>>] /\ n.cmd # "aliasUpdate"
        BY <3>2, <4>3 DEF returns, setBind, postMessage
      <4> QED
        BY <1>2, <4>4, OtherMessages, PostedSame
    <3> QED
      BY <1>1, <1>5, <3>1, <3>2 DEF returns, fails
  <2> QED
    BY <1>2, <2>2, <2>3, <2>4, <2>5, AliasesKept
<1> QED
  BY <1>1, <1>4, <1>5

LEMMA ProgramKeepsAliases ==
  ASSUME ThreadsAssumption, CallsInv, AliasesInv, NEW t \in Threads, Program(t)
  PROVE  AliasesInv'
<1>1. /\ UNCHANGED <<aliases, news, isConnected, aliasesHolder, toWorker>> /\ Typed
      /\ \E n, its : \E c \in Calls : Step(t, c, n, its)
  BY ProgramSteps DEF CallsInv
<1>2. PICK n, its : \E c \in Calls : Step(t, c, n, its)
  BY <1>1
<1>3. PICK c \in Calls : Step(t, c, n, its)
  BY <1>2
<1>4. \/ UNCHANGED toMain
      \/ toMain' = [toMain EXCEPT ![t] = @ \o <<n>>] /\ n \in MainMessages \ AliasUpdates
  <2>1. UNCHANGED toMain \/ (toMain' = [toMain EXCEPT ![t] = @ \o <<n>>] /\ n \in MainMessages)
    BY <1>3 DEF Step, Calling, Posting
  <2>2. n \in Requests \/ n.cmd = "bindUpdate"
    BY <1>3 DEF Step
  <2> QED
    BY <2>1, <2>2, OtherMessages
<1>5. \A u \in Threads : Same(toMain[u], toMain'[u], MainMessages, AliasUpdates)
  <2>1. CASE UNCHANGED toMain
    BY <2>1 DEF Same
  <2> QED
    BY <1>1, <1>4, <2>1, PostedSame
<1>6. \A u \in Threads : /\ Same(news[u], news'[u], News, Broadcasts)
                         /\ Same(toWorker[u], toWorker'[u], WorkerMessages, AliasNotices)
  BY <1>1 DEF Same
<1> QED
  BY <1>1, <1>5, <1>6, AliasesKept

LEMMA ReadyKeepsAliases ==
  ASSUME CallsInv, AliasesInv, NEW t \in Threads, ready(t)
  PROVE  AliasesInv'
<1>1. /\ isConnected' = [isConnected EXCEPT ![t] = TRUE]
      /\ UNCHANGED <<aliases, news, aliasesHolder, toWorker>> /\ Typed
  BY DEF ready, server, CallsInv
<1>2. PICK n \in Requests : n = [cmd |-> "socketDescriptor"]
  BY DEF Requests
<1>3. toMain' = [toMain EXCEPT ![t] = @ \o <<n>>]
  BY <1>2 DEF ready, postMessage
<1>4. \A u \in Threads : Same(toMain[u], toMain'[u], MainMessages, AliasUpdates)
  BY <1>1, <1>3, OtherMessages, PostedSame
<1>5. \A u \in Threads : /\ Same(news[u], news'[u], News, Broadcasts)
                         /\ Same(toWorker[u], toWorker'[u], WorkerMessages, AliasNotices)
                         /\ isConnected[u] => isConnected'[u]
  BY <1>1 DEF Same, Typed
<1> QED
  BY <1>1, <1>4, <1>5, AliasesKept

LEMMA TransportedKeepsAliases ==
  ASSUME CallsInv, AliasesInv, NEW w \in transporter, transported(w)
  PROVE  AliasesInv'
<1>1. UNCHANGED <<aliases, news, aliasesHolder, toMain, isConnected>> /\ Typed
  BY DEF transported, server, workers, CallsInv
<1>2. PICK n \in Answers : n = [cmd |-> "onWrtcSendCallback"]
  BY DEF Answers
<1>3. PICK t \in Threads : answer(t, n)
  BY <1>1, <1>2 DEF transported, Typed, Transports
<1>4. \A u \in Threads : toWorker'[u] = IF u = t THEN toWorker[u] \o <<n>> ELSE toWorker[u]
  BY <1>1, <1>3, AnswerFacts DEF Typed
<1>5. \A u \in Threads : /\ Same(news[u], news'[u], News, Broadcasts)
                         /\ Same(toMain[u], toMain'[u], MainMessages, AliasUpdates)
                         /\ Same(toWorker[u], toWorker'[u], WorkerMessages, AliasNotices)
  BY <1>1, <1>4, OtherMessages DEF Same
<1> QED
  BY <1>1, <1>5, AliasesKept

\* A message to a thread that says nothing false of an alias that is set.
Truthful(r) == \A b \in Aliases : \A m \in Held(r) \cap Told(b) : m.id = aliases'[b]

LEMMA TellingTruth ==
  ASSUME ThreadsAssumption, CallsInv, AliasesInv, UNCHANGED <<workers, toMain, toWorker, main>>,
         \A b \in Aliases : aliases'[b] = aliases[b] \/ aliases[b] = NoOne,
         NEW messages \in [Threads -> Seq(News)], tell(messages),
         \A t \in Threads : Truthful(messages[t])
  PROVE  AliasesInv'
<1>1. /\ UNCHANGED <<toMain, toWorker, isConnected, aliasesHolder>> /\ Typed
      /\ NoOne \notin Ids
  BY DEF workers, CallsInv, ThreadsAssumption
<1>2. \A t \in Threads : news'[t] = IF isConnected[t] THEN news[t] \o messages[t] ELSE news[t]
  BY <1>1, ToldFacts
<1>3. \A t \in Threads :
        \/ news'[t] = news[t]
        \/ /\ isConnected[t]
           /\ \E r \in Seq(News) :
                /\ news'[t] = news[t] \o r
                /\ \A b \in Aliases : \A m \in Held(r) \cap Told(b) : m.id = aliases'[b]
  <2> SUFFICES ASSUME NEW t \in Threads, isConnected[t]
               PROVE  \E r \in Seq(News) :
                        /\ news'[t] = news[t] \o r
                        /\ \A b \in Aliases : \A m \in Held(r) \cap Told(b) : m.id = aliases'[b]
    BY <1>2
  <2>1. PICK r \in Seq(News) : r = messages[t]
    OBVIOUS
  <2> QED
    BY <1>2, <2>1 DEF Truthful
<1> QED
  BY <1>1, <1>3, TellingKeepsAliases

\* The messages that tell of an alias say which.
LEMMA TruthfulNews ==
  ASSUME NEW r, \A m \in Held(r) : \/ m \in Endings
                                   \/ m.id = aliases'[m.alias]
  PROVE  Truthful(r)
<1>1. \A b : \A m \in Told(b) : m.alias = b /\ m \notin Endings
  BY OtherMessages DEF Told
<1> QED
  BY <1>1 DEF Truthful

LEMMA RegisterKeepsAliases ==
  ASSUME ThreadsAssumption, CallsInv, AliasesInv, UNCHANGED <<workers, toMain, toWorker, main>>,
         NEW t \in Threads, register(t)
  PROVE  AliasesInv'
<1>1. PICK a \in BindAliases :
         /\ a \in Aliases /\ a = call[t].alias /\ waitsAtServer(t, "bind")
         /\ fresh(a) /\ registered(a, t) /\ tell(registerNews(t, a))
         /\ registerNews(t, a) \in [Threads -> Seq(News)]
  BY RegisterFacts
<1>2. aliases'[a] = t /\ aliases[a] = NoOne /\ \A b \in Aliases \ {a} : aliases'[b] = aliases[b]
  BY <1>1, RegisteredFacts DEF CallsInv, Ids, fresh
<1>3. PICK m \in Broadcasts : m = Alias(a, t, TRUE)
  BY <1>1, NewsFacts DEF Ids
<1>4. PICK e \in Endings : e = Returns(a)
  BY <1>1, NewsFacts
<1>5. Held(<<m>>) = {m} /\ Held(<<m, e>>) = {m, e}
  BY EndingFacts
<1>6. m.id = t /\ m.alias = a
  BY <1>3 DEF Alias
<1>7. PICK messages \in [Threads -> Seq(News)] : messages = registerNews(t, a)
  BY <1>1
<1>8. \A u \in Threads : Held(messages[u]) \subseteq {m, e}
  BY <1>3, <1>4, <1>5, <1>7 DEF registerNews
<1>9. \A u \in Threads : Truthful(messages[u])
  BY <1>2, <1>6, <1>8, TruthfulNews
<1> QED
  BY <1>1, <1>2, <1>7, <1>9, TellingTruth

LEMMA IntroduceKeepsAliases ==
  ASSUME ThreadsAssumption, CallsInv, AliasesInv, UNCHANGED <<workers, toMain, toWorker, main>>,
         NEW id \in Ids, NEW x \in ConnectAliases, NEW a \in Aliases, introduce(id, a, x)
  PROVE  AliasesInv'
<1>1. /\ aliases[a] \in Ids /\ aliases[a] # id /\ x \in Aliases
      /\ accepts(aliases[a], a) /\ connects(id, a) /\ fresh(x) /\ registered(x, id)
      /\ tell(introduceNews(id, a, x))
      /\ introduceNews(id, a, x) \in [Threads -> Seq(News)]
  BY IntroduceFacts
<1>2. aliases'[x] = id /\ aliases[x] = NoOne /\ \A b \in Aliases \ {x} : aliases'[b] = aliases[b]
  BY <1>1, RegisteredFacts DEF CallsInv, fresh
<1>3. aliases'[a] = aliases[a]
  BY <1>1, <1>2 DEF ThreadsAssumption
<1>4. PICK m \in Broadcasts : m = Alias(x, id, TRUE)
  BY <1>1, NewsFacts
<1>5. PICK k \in Broadcasts : k = Alias(a, aliases[a], TRUE)
  BY <1>1, NewsFacts
<1>6. PICK e \in Endings : e = Returns(x)
  BY <1>1, NewsFacts
<1>7. Held(<<>>) = {} /\ Held(<<m, e>>) = {m, e} /\ Held(<<m, k, e>>) = {m, k, e}
  <2>1. Held(<<>>) = {}
    BY DEF Held
  <2> QED
    BY <2>1, EndingFacts
<1>8. m.id = id /\ m.alias = x /\ k.id = aliases[a] /\ k.alias = a
  BY <1>4, <1>5 DEF Alias
<1>9. PICK messages \in [Threads -> Seq(News)] : messages = introduceNews(id, a, x)
  BY <1>1
<1>10. \A u \in Threads : Held(messages[u]) \subseteq {m, k, e}
  <2> TAKE u \in Threads
  <2>1. CASE u = aliases[a]
    BY <1>1, <1>4, <1>6, <1>7, <1>9, <2>1 DEF introduceNews
  <2>2. CASE u # aliases[a] /\ u = id
    BY <1>4, <1>5, <1>6, <1>7, <1>9, <2>2 DEF introduceNews
  <2>3. CASE u # aliases[a] /\ u # id
    BY <1>7, <1>9, <2>3 DEF introduceNews
  <2> QED
    BY <2>1, <2>2, <2>3
<1>11. \A u \in Threads : Truthful(messages[u])
  BY <1>2, <1>3, <1>8, <1>10, TruthfulNews
<1> QED
  BY <1>1, <1>2, <1>9, <1>11, TellingTruth

LEMMA ServerKeepsAliases ==
  ASSUME ThreadsAssumption, CallsInv, AliasesInv, ConnectedFirst, Server
  PROVE  AliasesInv'
<1>1. UNCHANGED <<workers, toMain, toWorker, main>> /\ Typed
  BY DEF Server, CallsInv
<1>2. UNCHANGED <<toMain, toWorker, isConnected, aliasesHolder>> /\ NoOne \notin Ids
  BY <1>1 DEF workers, ThreadsAssumption
<1>3. ASSUME NEW t \in Threads, NEW x \in Aliases, refuse(t, x) PROVE AliasesInv'
  <2>1. /\ call[t].at = "client" /\ UNCHANGED aliases
        /\ news' = [news EXCEPT ![t] = @ \o <<Alias(x, t, FALSE), Fails>>]
    BY <1>3 DEF refuse, waitsAtServer
  <2>2. isConnected[t]
    BY <2>1 DEF ConnectedFirst
  <2>3. PICK m \in Broadcasts : m = Alias(x, t, FALSE)
    BY NewsFacts DEF Ids
  <2>4. PICK e \in Endings : e = Fails
    BY NewsFacts
  <2>5. PICK r \in Seq(News) : r = <<m, e>> /\ Held(r) = {m, e}
    BY EndingFacts
  <2>6. news'[t] = news[t] \o r /\ \A u \in Threads \ {t} : news'[u] = news[u]
    BY <1>1, <2>1, <2>3, <2>4, <2>5 DEF Typed
  <2>7. \A b \in Aliases : Held(r) \cap Told(b) = {}
    <3>1. m.set = FALSE
      BY <2>3 DEF Alias
    <3> QED
      BY <2>5, <3>1, OtherMessages DEF Told
  <2>8. \A u \in Threads :
          \/ news'[u] = news[u]
          \/ /\ isConnected[u]
             /\ \E s \in Seq(News) :
                  /\ news'[u] = news[u] \o s
                  /\ \A b \in Aliases : \A n \in Held(s) \cap Told(b) : n.id = aliases'[b]
    BY <2>2, <2>6, <2>7
  <2>9. \A b \in Aliases : aliases'[b] = aliases[b] \/ aliases[b] = NoOne
    BY <2>1
  <2> QED
    BY <1>1, <1>2, <2>8, <2>9, TellingKeepsAliases
<1>4. ASSUME NEW a \in RemoteAliases, registerRemote(a) PROVE AliasesInv'
  <2>1. PICK m \in Broadcasts : m = Alias(a, Remote, TRUE)
    BY NewsFacts DEF Ids, Aliases
  <2>2. registered(a, Remote) /\ fresh(a) /\ tell(broadcast(m)) /\ a \in Aliases /\ Remote \in Ids
    BY <1>4, <2>1 DEF registerRemote, Aliases, Ids
  <2>3. aliases'[a] = Remote /\ aliases[a] = NoOne /\ \A b \in Aliases \ {a} : aliases'[b] = aliases[b]
    BY <1>1, <2>2, RegisteredFacts DEF fresh
  <2>4. m.id = Remote /\ m.alias = a
    BY <2>1 DEF Alias
  <2>5. PICK messages \in [Threads -> Seq(News)] :
          tell(messages) /\ \A t \in Threads : Held(messages[t]) = {m}
    BY <2>2, BroadcastFacts
  <2>6. \A t \in Threads : Truthful(messages[t])
    BY <2>3, <2>4, <2>5, TruthfulNews
  <2> QED
    BY <1>1, <2>3, <2>5, <2>6, TellingTruth
<1>5. ASSUME NEW a \in Aliases, retract(a) PROVE AliasesInv'
  BY <1>1, <1>2, <1>5, RetractKeepsAliases
<1> QED
  BY <1>1, <1>3, <1>4, <1>5, RegisterKeepsAliases, IntroduceKeepsAliases DEF Server

LEMMA NextKeepsAliases ==
  ASSUME ThreadsAssumption, CallsInv, AliasesInv, ConnectedFirst, [Next]_vars
  PROVE  AliasesInv'
<1>1. CASE Next
  BY <1>1, MainKeepsAliases, MessageKeepsAliases, OperationKeepsAliases, ReadyKeepsAliases,
     ProgramKeepsAliases, TransportedKeepsAliases, ServerKeepsAliases DEF Next
<1>2. CASE UNCHANGED vars
  <2>1. UNCHANGED <<aliases, news, toMain, toWorker, isConnected, aliasesHolder>> /\ Typed
    BY <1>2 DEF vars, server, workers, CallsInv
  <2>2. \A t \in Threads : /\ Same(news[t], news'[t], News, Broadcasts)
                           /\ Same(toMain[t], toMain'[t], MainMessages, AliasUpdates)
                           /\ Same(toWorker[t], toWorker'[t], WorkerMessages, AliasNotices)
    BY <2>1 DEF Same
  <2> QED
    BY <2>1, <2>2, AliasesKept
<1> QED
  BY <1>1, <1>2

LEMMA InitAliases ==
  ASSUME ThreadsAssumption, Init
  PROVE  AliasesInv /\ ConnectedFirst
<1>1. ASSUME NEW t \in Threads
      PROVE  /\ news[t] = <<>> /\ toMain[t] = <<>> /\ toWorker[t] = <<>>
             /\ binds[t] = empty /\ call[t].at = "idle"
             /\ \A a \in Aliases : aliasesHolder[t][a] = NoOne /\ aliases[a] = NoOne
  BY CallFacts DEF Init
<1>2. Held(<<>>) = {} /\ \A S, T, o : Followed(<<>>, S, T, o)
  BY DEF Held, Followed
<1>3. StaleFollowed
  BY <1>1, <1>2 DEF StaleFollowed
<1>4. HoldersTold /\ HearsFromConnected
  BY <1>1, <1>2 DEF HoldersTold, HearsFromConnected
<1>5. ConnectedFirst
  <2>1. NoOne \notin Threads /\ DOMAIN empty = {}
    BY DEF ThreadsAssumption, Ids, empty
  <2> QED
    BY <1>1, <2>1 DEF ConnectedFirst
<1> QED
  BY <1>3, <1>4, <1>5 DEF AliasesInv

\* What a thread hears of an alias that is gone, or another client's, is followed by
\* the news that it is gone, on each way that news takes.
THEOREM AliasesInvariance == Spec => [](AliasesInv /\ ConnectedFirst)
<1>1. Init => AliasesInv /\ ConnectedFirst
  BY InitAliases, ThreadsAssumption
<1>2. AliasesInv /\ ConnectedFirst /\ CallsInv /\ [Next]_vars => (AliasesInv /\ ConnectedFirst)'
  BY NextKeepsAliases, NextConnects, ThreadsAssumption
<1> QED
  BY <1>1, <1>2, CallsInvariance, PTL DEF Spec

\* In the end no thread keeps an alias that is gone, or that is another client's by
\* now, however the news of one worker overtakes that of another (handleAliasUpdate
\* and notifyAllThreads of the main thread, handleAlias and onNotifyAliasAdd of the
\* workers).
THEOREM StaleAliasesDeleted == Spec => []NoStaleAlias
<1>1. AliasesInv => NoStaleAlias
  <2> SUFFICES ASSUME AliasesInv, quiet, NEW t \in Threads \ Sharing, NEW a \in Aliases
               PROVE  aliasesHolder[t][a] \in {NoOne, aliases[a]}
    BY DEF NoStaleAlias
  <2>1. Held(<<>>) = {}
    BY DEF Held
  <2>2. \A u \in Threads : news[u] = <<>> /\ toMain[u] = <<>> /\ toWorker[u] = <<>>
    BY DEF quiet
  <2>3. \A u \in Threads : /\ ~ Hearing(u, a) /\ ~ Leaving(u, a)
                           /\ Held(toWorker[u]) \cap NotifiedGone(a) = {}
    BY <2>1, <2>2 DEF Hearing, Leaving
  <2>4. ~ Relayed(t, a)
    BY <2>3 DEF Relayed
  <2> QED
    BY <2>3, <2>4 DEF AliasesInv, HoldersTold
<1> QED
  BY <1>1, AliasesInvariance, PTL

----
(***************************************************************************)
(* The aliases that no thread may try to bind, and that never come back    *)
(***************************************************************************)
Lasting == Aliases \ (BindAliases \cup Recycled)

\* What a message says of its alias, from the server, and on the page: whose it is,
\* or that it is gone.
toldOf(m) == IF m.set THEN m.id ELSE NoOne
saidOf(m) == IF m.isDelete THEN NoOne ELSE m.id

\* Somebody has this client for the alias, or is about to be told so, or that it is gone.
Believed(a, id) ==
  \/ id # NoOne /\ socketAliases[a] = id
  \/ id # NoOne /\ \E t \in Threads : aliasesHolder[t][a] = id
  \/ \E t \in Threads : \E m \in Held(news[t]) \cap Broadcasts : m.alias = a /\ toldOf(m) = id
  \/ \E t \in Threads : \E m \in Held(toMain[t]) \cap AliasUpdates : m.alias = a /\ saidOf(m) = id
  \/ \E t \in Threads : \E m \in Held(toWorker[t]) \cap AliasNotices : m.alias = a /\ saidOf(m) = id
  \/ id # NoOne /\ \E t \in Threads : \E m \in Held(toWorker[t]) :
       m.cmd = "onFetchBinds" /\ m.aliases[a] = id

\* It is so, or it was until the alias was retracted.
Believable(a, id) == a \in used /\ aliases[a] \in {NoOne, id}

BeliefsTrue ==
  \A a \in Lasting :
    /\ aliases[a] # NoOne => a \in used
    /\ \A id \in Ids \cup {NoOne} : Believed(a, id) => Believable(a, id)

\* The thread knows who has the alias, if somebody still has.
Knows(t, a) == a \in used /\ (aliases[a] # NoOne => aliasesHolder[t][a] = aliases[a])

\* A thread knows the other end of each of its connections.
EstablishedKnown ==
  \A t \in Threads : \A fd \in established(t) :
    binds[t][fd].connectorId = t /\ binds[t][fd].alias \in Lasting => Knows(t, binds[t][fd].alias)

NoStubConnected == \A t \in Threads : \A fd \in DOMAIN clientAliases[t] : binds[t][fd] # STUB

\* The alias of the connection that a call is about to return.
connection(c, m) == IF c.op = "connect" THEN c.alias ELSE m.alias

\* The thread knows it by then: it is told before its call returns.
ReturnsKnown ==
  \A t \in Threads : \A k \in DOMAIN news[t] :
    LET a == connection(call[t], news[t][k]) IN
    news[t][k].op = "returns" /\ a \in Lasting =>
      Knows(t, a) \/ \E j \in DOMAIN news[t] : j < k /\ news[t][j] = Alias(a, aliases[a], TRUE)

LastingInv == BeliefsTrue /\ EstablishedKnown /\ NoStubConnected /\ ReturnsKnown

----
(***************************************************************************)
(* What is believed of the aliases that last                               *)
(***************************************************************************)

\* What the tables and messages of the page say was believed before.
Spread ==
  /\ \A a \in Aliases : socketAliases'[a] \in {socketAliases[a], NoOne} \/ Believed(a, socketAliases'[a])
  /\ \A t \in Threads :
       /\ \A a \in Aliases : aliasesHolder'[t][a] = aliasesHolder[t][a] \/ Believed(a, aliasesHolder'[t][a])
       /\ \A m \in Held(toMain'[t]) \cap AliasUpdates :
            m \in Held(toMain[t]) \/ Believed(m.alias, saidOf(m))
       /\ \A m \in Held(toWorker'[t]) \cap AliasNotices :
            m \in Held(toWorker[t]) \/ Believed(m.alias, saidOf(m))
       /\ \A m \in Held(toWorker'[t]) :
            m.cmd = "onFetchBinds" => m \in Held(toWorker[t]) \/ m.aliases = socketAliases

LEMMA SpreadBelieved ==
  ASSUME Spread, \A t \in Threads : Held(news'[t]) \cap Broadcasts \subseteq Held(news[t]),
         NEW a \in Aliases, NEW id, Believed(a, id)'
  PROVE  Believed(a, id)
<1>1. CASE id # NoOne /\ socketAliases'[a] = id
  BY <1>1 DEF Spread, Believed
<1>2. CASE id # NoOne /\ \E t \in Threads : aliasesHolder'[t][a] = id
  BY <1>2 DEF Spread, Believed
<1>3. CASE \E t \in Threads : \E m \in Held(news'[t]) \cap Broadcasts : m.alias = a /\ toldOf(m) = id
  BY <1>3 DEF Believed
<1>4. CASE \E t \in Threads : \E m \in Held(toMain'[t]) \cap AliasUpdates : m.alias = a /\ saidOf(m) = id
  BY <1>4 DEF Spread, Believed
<1>5. CASE \E t \in Threads : \E m \in Held(toWorker'[t]) \cap AliasNotices : m.alias = a /\ saidOf(m) = id
  BY <1>5 DEF Spread, Believed
<1>6. CASE id # NoOne /\ \E t \in Threads : \E m \in Held(toWorker'[t]) :
             m.cmd = "onFetchBinds" /\ m.aliases[a] = id
  BY <1>6 DEF Spread, Believed
<1>7. \A t \in Threads : /\ Held(news[t])' = Held(news'[t]) /\ Held(toMain[t])' = Held(toMain'[t])
                         /\ Held(toWorker[t])' = Held(toWorker'[t])
  BY DEF Held
<1>8. \A m : toldOf(m)' = toldOf(m) /\ saidOf(m)' = saidOf(m)
  BY DEF toldOf, saidOf
<1> QED
  BY <1>1, <1>2, <1>3, <1>4, <1>5, <1>6, <1>7, <1>8 DEF Believed

\* Nobody is told anything new: beliefs are true, and what a thread knows it knows
\* still.
LEMMA SpreadKeepsBeliefs ==
  ASSUME Typed, Typed', BeliefsTrue, Spread, UNCHANGED <<aliases, used>>,
         \A t \in Threads : Held(news'[t]) \cap Broadcasts \subseteq Held(news[t])
  PROVE  /\ BeliefsTrue'
         /\ \A t \in Threads, a \in Lasting : Knows(t, a) => Knows(t, a)'
<1>1. \A a \in Aliases : \A id : Believed(a, id)' => Believed(a, id)
  BY SpreadBelieved
<1>2. Lasting' = Lasting /\ Lasting \subseteq Aliases /\ \A a, id : Believable(a, id)' <=> Believable(a, id)
  BY DEF Lasting, Believable
<1>3. BeliefsTrue'
  BY <1>1, <1>2 DEF BeliefsTrue
<1>4. ASSUME NEW t \in Threads, NEW a \in Lasting, Knows(t, a) PROVE Knows(t, a)'
  <2>1. aliasesHolder'[t][a] \in Ids \cup {NoOne}
    BY <1>2 DEF Typed, Tables
  <2>2. CASE Believed(a, aliasesHolder'[t][a])
    <3>1. aliases[a] \in {NoOne, aliasesHolder'[t][a]}
      BY <2>1, <2>2 DEF BeliefsTrue, Believable
    <3> QED
      BY <1>4, <3>1 DEF Knows
  <2>3. CASE aliasesHolder'[t][a] = aliasesHolder[t][a]
    BY <1>4, <2>3 DEF Knows
  <2> QED
    BY <1>2, <2>2, <2>3 DEF Spread
<1> QED
  BY <1>3, <1>4

LEMMA EstablishedKept ==
  ASSUME EstablishedKnown, \A t \in Threads, a \in Lasting : Knows(t, a) => Knows(t, a)',
         \A t \in Threads : \A fd \in established(t)' : \A a \in Lasting :
           binds'[t][fd].connectorId = t /\ binds'[t][fd].alias = a =>
             Knows(t, a) \/ (fd \in established(t) /\ binds'[t][fd] = binds[t][fd])
  PROVE  EstablishedKnown'
<1> SUFFICES ASSUME NEW t \in Threads, NEW fd \in established(t)', NEW a \in Lasting,
                    binds'[t][fd].connectorId = t, binds'[t][fd].alias = a
             PROVE  Knows(t, a)'
  BY DEF EstablishedKnown, Lasting
<1>1. Knows(t, a)
  BY DEF EstablishedKnown
<1> QED
  BY <1>1

\* A call that is about to return goes on.
LEMMA ReturnsKept ==
  ASSUME Typed, ReturnsKnown, UNCHANGED <<aliases, news>>,
         \A t \in Threads, a \in Lasting : Knows(t, a) => Knows(t, a)',
         \A t \in Threads : call'[t] = call[t] \/ ended(t) = {}
  PROVE  ReturnsKnown'
<1> SUFFICES ASSUME NEW t \in Threads, NEW k \in DOMAIN news[t], NEW a \in Lasting,
                    a = connection(call'[t], news[t][k]), news[t][k].op = "returns"
             PROVE  Knows(t, a)' \/ \E j \in DOMAIN news[t] : j < k /\ news[t][j] = Alias(a, aliases[a], TRUE)
  BY DEF ReturnsKnown, Lasting, connection, Alias
<1>1. news[t][k] \in Held(news[t]) /\ news[t][k] \in News
  BY SeqFacts DEF Typed
<1>2. news[t][k] \in ended(t)
  BY <1>1, MessageKinds DEF News, ended
<1>3. call'[t] = call[t]
  BY <1>2
<1> QED
  BY <1>3 DEF ReturnsKnown

\* The connections of each thread are those it had, or to an alias that it knows.
Connections ==
  /\ NoStubConnected'
  /\ \A t \in Threads : \A fd \in established(t)' : \A a \in Lasting :
       binds'[t][fd].connectorId = t /\ binds'[t][fd].alias = a =>
         Knows(t, a) \/ (fd \in established(t) /\ binds'[t][fd] = binds[t][fd])

LEMMA SameConnections ==
  ASSUME NoStubConnected, UNCHANGED <<binds, clientAliases>>
  PROVE  Connections
<1>1. \A t \in Threads : established(t)' = established(t)
  BY DEF established
<1> QED
  BY <1>1 DEF NoStubConnected, Connections

\* A step of the page in which the server tells nobody anything, and nobody hears it.
LEMMA PageKeepsLasting ==
  ASSUME Typed, Typed', LastingInv, Spread, Connections, UNCHANGED <<aliases, used, news>>,
         \A t \in Threads : call'[t] = call[t] \/ ended(t) = {}
  PROVE  LastingInv'
<1>1. BeliefsTrue' /\ \A t \in Threads, a \in Lasting : Knows(t, a) => Knows(t, a)'
  BY SpreadKeepsBeliefs DEF LastingInv
<1>2. EstablishedKnown'
  BY <1>1, EstablishedKept DEF LastingInv, Connections
<1>3. ReturnsKnown'
  BY <1>1, ReturnsKept DEF LastingInv
<1> QED
  BY <1>1, <1>2, <1>3 DEF LastingInv, Connections

LEMMA MainKeepsLasting ==
  ASSUME CallsInv, CallsInv', LastingInv, NEW t \in Threads, handleMessage(t)
  PROVE  LastingInv'
<1>1. PICK m : /\ m = Head(toMain[t]) /\ toMain[t] # <<>>
               /\ toMain' = [toMain EXCEPT ![t] = Tail(@)]
               /\ \/ m.cmd = "bindUpdate" /\ handleBindUpdate(t, m)
                  \/ m.cmd = "aliasUpdate" /\ handleAliasUpdate(t, m)
                  \/ m.cmd = "fetchBinds" /\ handleFetchBinds(t)
                  \/ m.cmd = "socketDescriptor" /\ handleSocketDescriptor(t)
                  \/ m.cmd = "wrtcSend" /\ handleWrtcSend(t, m)
               /\ UNCHANGED <<server, news, workers>>
  BY DEF handleMessage
<1>2. /\ UNCHANGED <<aliases, used, news, aliasesHolder, binds, clientAliases, call>>
      /\ Typed /\ Typed'
  BY <1>1 DEF server, workers, CallsInv
<1>3. /\ m \in MainMessages /\ m \in Held(toMain[t])
      /\ \A u \in Threads : Held(toMain'[u]) \subseteq Held(toMain[u])
  BY <1>1, <1>2, TakenFromMain
<1>4. Connections
  BY <1>2, SameConnections DEF LastingInv
<1>5. SUFFICES Spread
  BY <1>2, <1>4, PageKeepsLasting
<1> DEFINE PassedOn ==
             /\ \A a \in Aliases : \/ socketAliases'[a] \in {socketAliases[a], NoOne}
                                   \/ Believed(a, socketAliases'[a])
             /\ \A u \in Threads : \A n \in Held(toWorker'[u]) :
                  \/ n \in Held(toWorker[u])
                  \/ n \in AliasNotices /\ Believed(n.alias, saidOf(n))
                  \/ n \notin AliasNotices /\ (n.cmd = "onFetchBinds" => n.aliases = socketAliases)
<1>6. SUFFICES PassedOn
  BY <1>2, <1>3, OtherMessages DEF Spread
<1>7. CASE m.cmd = "bindUpdate" /\ handleBindUpdate(t, m)
  <2>1. m.fd \in Descriptors /\ m.bind \in Binds
    BY <1>3, <1>7, MessageKinds DEF MainMessages, Updates
  <2>2. PICK n \in Notices : n = [cmd |-> "notifyBindAdd", fd |-> m.fd, bind |-> m.bind]
    BY <2>1 DEF Notices
  <2>3. notifyAllThreads(t, n) /\ n.cmd = "notifyBindAdd" /\ socketAliases' = socketAliases
    BY <1>7, <2>2 DEF handleBindUpdate
  <2>4. \A u \in Threads : Held(toWorker'[u]) \subseteq Held(toWorker[u]) \cup {n}
    BY <1>2, <2>3, NotifyFacts DEF Typed
  <2> QED
    BY <2>3, <2>4, OtherMessages
<1>8. CASE m.cmd = "aliasUpdate" /\ handleAliasUpdate(t, m)
  <2>1. m \in AliasUpdates /\ m.alias \in Aliases /\ m.id \in Ids /\ m.isDelete \in BOOLEAN
    BY <1>3, <1>8, MessageKinds DEF AliasUpdates, MainMessages, Updates
  <2>2. PICK n \in AliasNotices : n = [cmd |-> "notifyAliasAdd", alias |-> m.alias, id |-> m.id,
                                       isDelete |-> m.isDelete]
    BY <2>1 DEF AliasNotices, Notices
  <2>3. n.alias = m.alias /\ saidOf(n) = saidOf(m) /\ n \in Notices
    BY <2>2 DEF saidOf, AliasNotices
  <2>4. Believed(m.alias, saidOf(m))
    BY <1>3, <2>1 DEF Believed
  <2>5. notifyAllThreads(t, n) /\ socketAliases' = [socketAliases EXCEPT ![m.alias] = saidOf(m)]
    BY <1>8, <2>2 DEF handleAliasUpdate, saidOf
  <2>6. \A u \in Threads : Held(toWorker'[u]) \subseteq Held(toWorker[u]) \cup {n}
    BY <1>2, <2>3, <2>5, NotifyFacts DEF Typed
  <2>7. \A a \in Aliases : socketAliases'[a] = IF a = m.alias THEN saidOf(m) ELSE socketAliases[a]
    BY <1>2, <2>5 DEF Typed, Tables
  <2> QED
    BY <2>2, <2>3, <2>4, <2>6, <2>7
<1>9. ASSUME NEW n \in Answers, answer(t, n), socketAliases' = socketAliases,
             n.cmd = "onFetchBinds" => n.aliases = socketAliases
      PROVE  PassedOn
  <2>1. \A u \in Threads : Held(toWorker'[u]) \subseteq Held(toWorker[u]) \cup {n}
    BY <1>2, <1>9, AnswerFacts DEF Typed
  <2>2. n \notin AliasNotices
    BY <1>9, OtherMessages
  <2> QED
    BY <1>9, <2>1, <2>2
<1>10. CASE m.cmd = "fetchBinds" /\ handleFetchBinds(t)
  <2>1. PICK n \in Answers : n = [cmd |-> "onFetchBinds", binds |-> socketBinds, aliases |-> socketAliases]
    BY <1>2 DEF Answers, Typed
  <2>2. answer(t, n) /\ socketAliases' = socketAliases /\ n.aliases = socketAliases
    BY <1>10, <2>1 DEF handleFetchBinds, main
  <2> QED
    BY <1>9, <2>2
<1>11. CASE m.cmd = "socketDescriptor" /\ handleSocketDescriptor(t)
  <2>1. PICK fd : fd = socketDescriptors'
    OBVIOUS
  <2>2. fd \in Descriptors
    BY <1>2, <1>11, <2>1, ThreadsAssumption
       DEF handleSocketDescriptor, Typed, Descriptors, ThreadsAssumption
  <2>3. PICK n \in Answers : n = [cmd |-> "onSocketDescriptor", fd |-> fd]
    BY <2>2 DEF Answers
  <2>4. answer(t, n) /\ socketAliases' = socketAliases /\ n.cmd # "onFetchBinds"
    BY <1>11, <2>1, <2>3 DEF handleSocketDescriptor
  <2> QED
    BY <1>9, <2>4
<1>12. CASE m.cmd = "wrtcSend" /\ handleWrtcSend(t, m)
  BY <1>12 DEF handleWrtcSend
<1> QED
  BY <1>1, <1>7, <1>8, <1>10, <1>11, <1>12

\* A worker makes a call go on, and asks the main thread for something, or tells it
\* of a bind.
LEMMA CallerKeepsLasting ==
  ASSUME Typed, Typed', LastingInv, Connections, UNCHANGED <<aliases, used, news, socketAliases>>,
         NEW t \in Threads, ended(t) = {},
         \A u \in Threads \ {t} : call'[u] = call[u],
         \A u \in Threads, a \in Aliases :
           aliasesHolder'[u][a] = aliasesHolder[u][a] \/ Believed(a, aliasesHolder'[u][a]),
         \A u \in Threads : /\ Held(toWorker'[u]) \subseteq Held(toWorker[u])
                            /\ Held(toMain'[u]) \cap AliasUpdates \subseteq Held(toMain[u])
  PROVE  LastingInv'
<1>1. Spread
  BY DEF Spread
<1> QED
  BY <1>1, PageKeepsLasting

LEMMA PostedNoAlias ==
  ASSUME Typed, NEW t \in Threads,
         \/ UNCHANGED toMain
         \/ \E n \in MainMessages \ AliasUpdates : toMain' = [toMain EXCEPT ![t] = @ \o <<n>>]
  PROVE  \A u \in Threads : Held(toMain'[u]) \cap AliasUpdates \subseteq Held(toMain[u])
<1>1. ASSUME NEW n \in MainMessages \ AliasUpdates, toMain' = [toMain EXCEPT ![t] = @ \o <<n>>]
      PROVE  \A u \in Threads : Held(toMain'[u]) \cap AliasUpdates \subseteq Held(toMain[u])
  <2>1. \A u \in Threads : Held(toMain'[u]) = IF u = t THEN Held(toMain[u]) \cup {n} ELSE Held(toMain[u])
    BY <1>1, PostFacts DEF Typed
  <2>2. \A u \in Threads : Held(toMain'[u]) \subseteq Held(toMain[u]) \cup {n}
    BY <2>1
  <2> QED
    BY <1>1, <2>2
<1>2. CASE UNCHANGED toMain
  BY <1>2
<1> QED
  BY <1>1, <1>2

LEMMA ProgramKeepsLasting ==
  ASSUME CallsInv, CallsInv', BindsInv, LastingInv, NEW t \in Threads, Program(t)
  PROVE  LastingInv'
<1>1. /\ UNCHANGED <<aliases, used, news, aliasesHolder, clientAliases, toWorker, socketAliases>>
      /\ call[t] = idle /\ Typed /\ Typed'
      /\ \E n, its : \E c \in Calls : Step(t, c, n, its)
  BY ProgramSteps, ThreadsAssumption DEF CallsInv
<1>2. PICK n, its : \E c \in Calls : Step(t, c, n, its)
  BY <1>1
<1>3. PICK c \in Calls : Step(t, c, n, its)
  BY <1>2
<1>4. ended(t) = {}
  BY <1>1, NothingAwaited, CallFacts, ThreadsAssumption DEF CallsInv
<1>5. \A u \in Threads \ {t} : call'[u] = call[u] /\ binds'[u] = binds[u]
  BY <1>1, <1>3 DEF Step, Calling, Posting, Typed
<1>6. \A u \in Threads : Held(toMain'[u]) \cap AliasUpdates \subseteq Held(toMain[u])
  <2>1. UNCHANGED toMain \/ (toMain' = [toMain EXCEPT ![t] = @ \o <<n>>] /\ n \in MainMessages)
    BY <1>3 DEF Step, Calling, Posting
  <2>2. n \in Requests \/ n.cmd = "bindUpdate"
    BY <1>3 DEF Step
  <2> QED
    BY <1>1, <2>1, <2>2, OtherMessages, PostedNoAlias
<1>7. binds'[t] = its /\ DOMAIN binds[t] \subseteq Descriptors
  BY <1>1, <1>3, MapFacts DEF Step, Typed
<1>8. Connections
  <2>1. CASE its = binds[t]
    <3>1. binds' = binds
      BY <1>1, <1>3, <2>1 DEF Step, Typed
    <3> QED
      BY <1>1, <3>1, SameConnections DEF LastingInv
  <2>2. ASSUME NEW fd \in DOMAIN binds[t], NEW a \in BindAliases \cup RemoteAliases,
               binds[t][fd] = STUB, its = Put(binds[t], fd, Bind(a, t))
        PROVE  Connections
    <3>1. Bind(a, t) \in Binds /\ Bind(a, t).alias = a /\ Bind(a, t) # STUB
      BY StubIsNoBind, ThreadsAssumption DEF Bind, Aliases
    <3>2. /\ DOMAIN its = DOMAIN binds[t]
          /\ \A x \in DOMAIN its : its[x] = IF x = fd THEN Bind(a, t) ELSE binds[t][x]
      BY <2>2 DEF Put
    <3>3. fd \notin DOMAIN clientAliases[t]
      BY <2>2 DEF LastingInv, NoStubConnected
    <3>4. NoStubConnected'
      <4>1. ASSUME NEW u \in Threads, NEW x \in DOMAIN clientAliases[u] PROVE binds'[u][x] # STUB
        <5>1. binds[u][x] # STUB
          BY DEF LastingInv, NoStubConnected
        <5>2. CASE u # t
          BY <1>5, <5>1, <5>2
        <5>3. CASE u = t
          <6>1. x \in DOMAIN its
            BY <3>2, <5>3 DEF BindsInv, DescriptorsCounted
          <6> QED
            BY <1>7, <3>1, <3>2, <5>1, <5>3, <6>1
        <5> QED
          BY <5>2, <5>3
      <4> QED
        BY <1>1, <4>1 DEF NoStubConnected
    <3>5. \A u \in Threads : \A x \in established(u)' : x \in established(u) /\ binds'[u][x] = binds[u][x]
      <4>1. a \notin ConnectAliases
        BY ThreadsAssumption DEF ThreadsAssumption
      <4> QED
        BY <1>1, <1>5, <1>7, <3>1, <3>2, <3>3, <4>1 DEF established
    <3> QED
      BY <3>4, <3>5 DEF Connections
  <2> QED
    BY <1>3, <2>1, <2>2 DEF Step
<1> QED
  BY <1>1, <1>4, <1>5, <1>6, <1>8, CallerKeepsLasting

LEMMA ReadyKeepsLasting ==
  ASSUME CallsInv, CallsInv', LastingInv, NEW t \in Threads, ready(t)
  PROVE  LastingInv'
<1>1. /\ UNCHANGED <<aliases, used, news, aliasesHolder, binds, clientAliases, toWorker, socketAliases>>
      /\ call[t].at = "ready" /\ Typed /\ Typed'
      /\ \A u \in Threads \ {t} : call'[u] = call[u]
  BY DEF ready, server, main, CallsInv, Typed
<1>2. ended(t) = {}
  BY <1>1, NothingAwaited DEF CallsInv
<1>3. PICK n \in Requests : n = [cmd |-> "socketDescriptor"]
  BY DEF Requests
<1>4. toMain' = [toMain EXCEPT ![t] = @ \o <<n>>]
  BY <1>3 DEF ready, postMessage
<1>5. \A u \in Threads : Held(toMain'[u]) \cap AliasUpdates \subseteq Held(toMain[u])
  BY <1>1, <1>4, OtherMessages, PostedNoAlias
<1>6. Connections
  BY <1>1, SameConnections DEF LastingInv
<1> QED
  BY <1>1, <1>2, <1>5, <1>6, CallerKeepsLasting

LEMMA TransportedKeepsLasting ==
  ASSUME CallsInv, CallsInv', LastingInv, NEW w \in transporter, transported(w)
  PROVE  LastingInv'
<1>1. /\ UNCHANGED <<aliases, used, news, aliasesHolder, binds, clientAliases, call, toMain, socketAliases>>
      /\ Typed /\ Typed'
  BY DEF transported, server, workers, CallsInv
<1>2. PICK n \in Answers : n = [cmd |-> "onWrtcSendCallback"]
  BY DEF Answers
<1>3. PICK t \in Threads : answer(t, n)
  BY <1>1, <1>2 DEF transported, Typed, Transports
<1>4. n.cmd # "onFetchBinds" /\ n \notin AliasNotices
  BY <1>2, OtherMessages
<1>5. \A u \in Threads : Held(toWorker'[u]) \subseteq Held(toWorker[u]) \cup {n}
  BY <1>1, <1>3, AnswerFacts DEF Typed
<1>6. Spread
  BY <1>1, <1>4, <1>5 DEF Spread
<1>7. Connections
  BY <1>1, SameConnections DEF LastingInv
<1> QED
  BY <1>1, <1>6, <1>7, PageKeepsLasting

\* A thread does not learn of a connection of its own from others: it has what they
\* say of its descriptors.
LEMMA LearntConnections ==
  ASSUME ThreadsAssumption, Typed, BindsInv, NoStubConnected, NEW t \in Threads,
         NEW its \in Maps(WorkerBinds), DOMAIN binds[t] \subseteq DOMAIN its,
         \A fd \in DOMAIN its : \/ fd \in DOMAIN binds[t] /\ its[fd] = binds[t][fd]
                                \/ its[fd] \in Binds /\ Claimed(fd, its[fd]),
         binds' = [binds EXCEPT ![t] = its], clientAliases' = clientAliases
  PROVE  Connections
<1>1. binds'[t] = its /\ \A u \in Threads \ {t} : binds'[u] = binds[u]
  BY DEF Typed
<1>2. DOMAIN its \subseteq Descriptors
  BY MapFacts
<1>3. ASSUME NEW fd \in DOMAIN its, its[fd].connectorId = t, its[fd].alias \in Aliases
      PROVE  fd \in DOMAIN binds[t] /\ its[fd] = binds[t][fd]
  <2>1. CASE its[fd] \in Binds /\ Claimed(fd, its[fd])
    BY <1>2, <1>3, <2>1, ClaimsHeld
  <2> QED
    BY <2>1
<1>4. NoStubConnected'
  <2>1. ASSUME NEW u \in Threads, NEW fd \in DOMAIN clientAliases[u] PROVE binds'[u][fd] # STUB
    <3>1. binds[u][fd] # STUB
      BY DEF NoStubConnected
    <3>2. CASE u # t
      BY <1>1, <3>1, <3>2
    <3>3. CASE u = t
      <4>1. fd \in DOMAIN its
        BY <3>3 DEF BindsInv, DescriptorsCounted
      <4> QED
        BY <1>1, <3>1, <3>3, <4>1, StubIsNoBind
    <3> QED
      BY <3>2, <3>3
  <2> QED
    BY <2>1 DEF NoStubConnected
<1>5. ASSUME NEW u \in Threads, NEW fd \in established(u)', NEW a \in Lasting,
             binds'[u][fd].connectorId = u, binds'[u][fd].alias = a
      PROVE  fd \in established(u) /\ binds'[u][fd] = binds[u][fd]
  <2>1. fd \in DOMAIN binds'[u] /\ a \in Aliases
    BY DEF established, Lasting
  <2>2. fd \in DOMAIN binds[u] /\ binds'[u][fd] = binds[u][fd]
    BY <1>1, <1>3, <1>5, <2>1
  <2> QED
    BY <1>5, <2>2 DEF established
<1> QED
  BY <1>4, <1>5 DEF Connections

LEMMA LearntOne ==
  ASSUME Typed, NEW t \in Threads, NEW b \in Aliases, NEW id,
         aliasesHolder' = aliasesHolder \/ aliasesHolder' = [aliasesHolder EXCEPT ![t][b] = id]
  PROVE  \A u \in Threads, a \in Aliases :
           aliasesHolder'[u][a] = aliasesHolder[u][a] \/ (a = b /\ aliasesHolder'[u][a] = id)
<1>1. CASE aliasesHolder' = [aliasesHolder EXCEPT ![t][b] = id]
  <2>1. PICK table : table = aliasesHolder[t] /\ DOMAIN table = Aliases
    BY DEF Typed, Tables
  <2>2. DOMAIN aliasesHolder = Threads
    BY DEF Typed
  <2>3. aliasesHolder' = [aliasesHolder EXCEPT ![t] = [table EXCEPT ![b] = id]]
    BY <1>1, <2>1
  <2>4. /\ aliasesHolder'[t] = [table EXCEPT ![b] = id]
        /\ \A u \in Threads \ {t} : aliasesHolder'[u] = aliasesHolder[u]
    BY <2>2, <2>3
  <2> QED
    BY <2>1, <2>4
<1> QED
  BY <1>1

LEMMA MessageKeepsLasting ==
  ASSUME CallsInv, CallsInv', BindsInv, LastingInv, NEW t \in Threads, onmessage(t)
  PROVE  LastingInv'
<1>1. PICK m : /\ m = Head(toWorker[t]) /\ toWorker[t] # <<>>
               /\ toWorker' = [toWorker EXCEPT ![t] = Tail(@)]
               /\ \/ m.cmd = "notifyBindAdd" /\ onNotifyBindAdd(t, m)
                  \/ m.cmd = "notifyAliasAdd" /\ onNotifyAliasAdd(t, m)
                  \/ m.cmd = "onFetchBinds" /\ onFetchBinds(t, m)
                  \/ m.cmd = "onSocketDescriptor" /\ onSocketDescriptor(t, m)
                  \/ m.cmd = "onWrtcSendCallback" /\ onWrtcSendCallback(t)
               /\ UNCHANGED <<server, news, isConnected, sends, main>>
  BY DEF onmessage
<1>2. UNCHANGED <<aliases, used, news, socketAliases>> /\ Typed /\ Typed' /\ ThreadsAssumption
  BY <1>1, ThreadsAssumption DEF server, main, CallsInv
<1>3. /\ m \in WorkerMessages /\ m \in Held(toWorker[t])
      /\ \A u \in Threads : Held(toWorker'[u]) \subseteq Held(toWorker[u])
  BY <1>1, <1>2, TakenByWorker
<1>4. /\ Awaited(t) /\ CallTrue(t, call[t], binds[t]) /\ call[t] \in Calls
      /\ binds[t] \in Maps(WorkerBinds) /\ DOMAIN binds[t] \subseteq Descriptors
      /\ binds = [binds EXCEPT ![t] = binds[t]]
  BY <1>2, MapFacts DEF CallsInv, Typed
<1>5. m \in Answers => ended(t) = {}
  <2>1. m \in Answers => call[t].at \in {"descriptor", "binds", "transporter"}
    BY <1>3, <1>4, MessageKinds DEF Awaited, answered
  <2> QED
    BY <1>4, <2>1, NothingAwaited
<1>6. ASSUME \A u \in Threads, a \in Aliases :
               aliasesHolder'[u][a] = aliasesHolder[u][a] \/ Believed(a, aliasesHolder'[u][a]),
             \A u \in Threads : Held(toMain'[u]) \cap AliasUpdates \subseteq Held(toMain[u]),
             m \in Answers \/ call' = call, \A u \in Threads \ {t} : call'[u] = call[u],
             Connections
      PROVE  LastingInv'
  <2>1. Spread
    BY <1>2, <1>3, <1>6 DEF Spread
  <2>2. \A u \in Threads : call'[u] = call[u] \/ ended(u) = {}
    BY <1>5, <1>6
  <2> QED
    BY <1>2, <1>6, <2>1, <2>2, PageKeepsLasting
<1>7. CASE m.cmd = "notifyBindAdd" /\ onNotifyBindAdd(t, m)
  <2>1. m.fd \in Descriptors /\ m.bind \in Binds /\ Claimed(m.fd, m.bind)
    BY <1>3, <1>7, MessageKinds DEF WorkerMessages, Notices, Claimed
  <2>2. UNCHANGED <<toMain, call, aliasesHolder, clientAliases>>
    BY <1>7 DEF onNotifyBindAdd
  <2>3. Connections
    <3>1. CASE m.fd \in DOMAIN binds[t]
      BY <1>7, <2>2, <3>1, SameConnections DEF onNotifyBindAdd, LastingInv
    <3>2. CASE m.fd \notin DOMAIN binds[t]
      <4>1. m.bind \in WorkerBinds
        BY <2>1, StubIsNoBind
      <4>2. PICK its \in Maps(WorkerBinds) : its = Put(binds[t], m.fd, m.bind)
        BY <1>4, <2>1, <4>1, PutFacts
      <4>3. /\ DOMAIN its = DOMAIN binds[t] \cup {m.fd}
            /\ \A x \in DOMAIN its : its[x] = IF x = m.fd THEN m.bind ELSE binds[t][x]
        BY <4>2 DEF Put
      <4>4. binds' = [binds EXCEPT ![t] = its]
        BY <1>7, <3>2, <4>2 DEF onNotifyBindAdd
      <4>5. \A fd \in DOMAIN its : \/ fd \in DOMAIN binds[t] /\ its[fd] = binds[t][fd]
                                   \/ its[fd] \in Binds /\ Claimed(fd, its[fd])
        BY <2>1, <4>3
      <4>6. DOMAIN binds[t] \subseteq DOMAIN its
        BY <4>3
      <4> QED
        BY <1>2, <2>2, <4>4, <4>5, <4>6, LearntConnections DEF LastingInv
    <3> QED
      BY <3>1, <3>2
  <2> QED
    BY <1>6, <2>2, <2>3
<1>8. CASE m.cmd = "notifyAliasAdd" /\ onNotifyAliasAdd(t, m)
  <2>1. m \in AliasNotices /\ m.alias \in Aliases
    BY <1>3, <1>8, MessageKinds DEF AliasNotices, WorkerMessages, Notices
  <2>2. UNCHANGED <<toMain, call, binds, clientAliases>>
    BY <1>8 DEF onNotifyAliasAdd
  <2>3. Believed(m.alias, saidOf(m))
    BY <1>3, <2>1 DEF Believed
  <2>4. \/ aliasesHolder' = aliasesHolder
        \/ aliasesHolder' = [aliasesHolder EXCEPT ![t][m.alias] = saidOf(m)]
    BY <1>8 DEF onNotifyAliasAdd, saidOf
  <2>5. \A u \in Threads, a \in Aliases :
          aliasesHolder'[u][a] = aliasesHolder[u][a] \/ (a = m.alias /\ aliasesHolder'[u][a] = saidOf(m))
    <3>1. PICK b \in Aliases : b = m.alias
      BY <2>1
    <3>2. PICK id : id = saidOf(m)
      OBVIOUS
    <3>3. aliasesHolder' = aliasesHolder \/ aliasesHolder' = [aliasesHolder EXCEPT ![t][b] = id]
      BY <2>4, <3>1, <3>2
    <3>4. \A u \in Threads, a \in Aliases :
            aliasesHolder'[u][a] = aliasesHolder[u][a] \/ (a = b /\ aliasesHolder'[u][a] = id)
      <4>1. Typed
        BY <1>2
      <4> QED
        BY ONLY <4>1, <3>3, LearntOne, t \in Threads, b \in Aliases
    <3> QED
      BY <3>1, <3>2, <3>4
  <2>6. Connections
    BY <2>2, SameConnections DEF LastingInv
  <2> QED
    BY <1>6, <2>2, <2>3, <2>5, <2>6
<1>9. CASE m.cmd = "onFetchBinds" /\ onFetchBinds(t, m)
  <2>1. m \in Answers
    BY <1>3, <1>9, MessageKinds DEF WorkerMessages
  <2>2. call[t].op = "send"
    BY <1>3, <1>4, <1>9, <2>1 DEF Awaited, answered, CallTrue
  <2>3. /\ m.binds \in Maps(Binds) /\ m.aliases \in Tables /\ fetched(t, m) \in Maps(WorkerBinds)
        /\ known(t, m) \in Tables /\ DOMAIN fetched(t, m) = DOMAIN m.binds \cup DOMAIN binds[t]
    BY <1>2, <1>9, <2>1, FetchFacts
  <2>4. PICK its \in Maps(WorkerBinds) : its = fetched(t, m)
    BY <2>3
  <2>5. PICK holder \in Tables : holder = known(t, m)
    BY <2>3
  <2>6. \/ call[t].fd \in DOMAIN its /\ body(t, call[t], its, holder)
        \/ /\ call' = [call EXCEPT ![t] = idle] /\ UNCHANGED toMain
           /\ binds' = [binds EXCEPT ![t] = its] /\ aliasesHolder' = [aliasesHolder EXCEPT ![t] = holder]
    BY <1>9, <2>4, <2>5 DEF onFetchBinds, fetched, known
  <2>7. clientAliases' = clientAliases
    BY <1>9 DEF onFetchBinds
  <2>8. /\ binds' = [binds EXCEPT ![t] = its] /\ aliasesHolder' = [aliasesHolder EXCEPT ![t] = holder]
        /\ \A u \in Threads \ {t} : call'[u] = call[u]
        /\ UNCHANGED toMain \/ \E n \in Requests : toMain' = [toMain EXCEPT ![t] = @ \o <<n>>]
    <3>1. CASE call[t].fd \in DOMAIN its /\ body(t, call[t], its, holder)
      <4>1. /\ aliasesHolder' = [aliasesHolder EXCEPT ![t] = holder]
            /\ binds' = [binds EXCEPT ![t] = its]
            /\ \/ Calling(t, idle)
               \/ \E n \in Requests : Posting(t, waiting(call[t], "transporter"), n)
        BY <1>2, <1>4, <2>2, <3>1, SendGoesOn
      <4> QED
        BY <1>2, <4>1 DEF Calling, Posting, Typed
    <3> QED
      BY <1>2, <2>6, <3>1 DEF Typed
  <2>9. \A u \in Threads : Held(toMain'[u]) \cap AliasUpdates \subseteq Held(toMain[u])
    BY <1>2, <2>8, OtherMessages, PostedNoAlias
  <2>10. \A u \in Threads, a \in Aliases :
           aliasesHolder'[u][a] = aliasesHolder[u][a] \/ Believed(a, aliasesHolder'[u][a])
    <3> SUFFICES ASSUME NEW a \in Aliases
                 PROVE  holder[a] = aliasesHolder[t][a] \/ Believed(a, holder[a])
      BY <1>2, <2>8 DEF Typed
    <3>1. CASE m.aliases[a] # NoOne
      BY <1>3, <1>9, <2>5, <3>1 DEF known, Believed
    <3>2. CASE m.aliases[a] = NoOne
      BY <2>5, <3>2 DEF known
    <3> QED
      BY <3>1, <3>2
  <2>11. Connections
    <3>1. \A fd \in DOMAIN m.binds : m.binds[fd] \in Binds /\ Claimed(fd, m.binds[fd])
      BY <1>3, <1>9, <2>3, MapFacts DEF Claimed
    <3>2. \A fd \in DOMAIN its : \/ fd \in DOMAIN binds[t] /\ its[fd] = binds[t][fd]
                                 \/ its[fd] \in Binds /\ Claimed(fd, its[fd])
      BY <2>3, <2>4, <3>1 DEF fetched
    <3>3. DOMAIN binds[t] \subseteq DOMAIN its
      BY <2>3, <2>4
    <3> QED
      BY <1>2, <2>7, <2>8, <3>2, <3>3, LearntConnections DEF LastingInv
  <2> QED
    BY <1>6, <2>1, <2>8, <2>9, <2>10, <2>11
<1>10. CASE m.cmd = "onSocketDescriptor" /\ onSocketDescriptor(t, m)
  <2>1. m \in Answers
    BY <1>3, <1>10, MessageKinds DEF WorkerMessages
  <2>2. m.fd \in Descriptors /\ m = [cmd |-> "onSocketDescriptor", fd |-> m.fd]
    BY <1>10, <2>1 DEF Answers
  <2>3. UNCHANGED <<toMain, aliasesHolder, clientAliases>>
    BY <1>10 DEF onSocketDescriptor
  <2>4. \A u \in Threads \ {t} : call'[u] = call[u] /\ binds'[u] = binds[u]
    BY <1>2, <1>10 DEF onSocketDescriptor, Typed
  <2>5. binds'[t] = Put(binds[t], m.fd, STUB)
    BY <1>2, <1>10 DEF onSocketDescriptor, Typed
  <2>6. m.fd \notin DOMAIN clientAliases[t]
    <3> SUFFICES ASSUME m.fd \in DOMAIN clientAliases[t] PROVE FALSE
      OBVIOUS
    <3>1. m.fd \in DOMAIN binds[t] /\ binds[t][m.fd] # STUB
      BY DEF BindsInv, DescriptorsCounted, LastingInv, NoStubConnected
    <3>2. PICK b \in Binds : b = binds[t][m.fd]
      BY <1>4, <3>1, MapFacts DEF WorkerBinds
    <3>3. Claimed(m.fd, b)
      BY <3>1, <3>2 DEF Claimed
    <3>4. b.connectorId \in Threads /\ Holds(b.connectorId, m.fd)
      BY <1>2, <2>2, <3>3, ClaimsHeld
    <3>5. Given(t, m.fd)
      BY <1>3, <2>2 DEF Given
    <3> QED
      BY <2>2, <3>4, <3>5 DEF BindsInv, GivenNew
  <2>7. Connections
    <3>1. \A x \in DOMAIN binds'[t] : x # m.fd => x \in DOMAIN binds[t] /\ binds'[t][x] = binds[t][x]
      BY <2>5 DEF Put
    <3>2. binds'[t][m.fd] = STUB /\ STUB.alias = "stub"
      BY <2>5 DEF Put, STUB, Bind
    <3>3. DOMAIN binds[t] \subseteq DOMAIN binds'[t]
      BY <2>5 DEF Put
    <3>4. NoStubConnected'
      <4>1. ASSUME NEW u \in Threads, NEW fd \in DOMAIN clientAliases[u] PROVE binds'[u][fd] # STUB
        <5>1. binds[u][fd] # STUB
          BY DEF LastingInv, NoStubConnected
        <5>2. CASE u # t
          BY <2>4, <5>1, <5>2
        <5>3. CASE u = t
          <6>1. fd \in DOMAIN binds'[t] /\ fd # m.fd
            BY <2>6, <3>3, <5>3 DEF BindsInv, DescriptorsCounted
          <6> QED
            BY <3>1, <5>1, <5>3, <6>1
        <5> QED
          BY <5>2, <5>3
      <4> QED
        BY <2>3, <4>1 DEF NoStubConnected
    <3>5. ASSUME NEW u \in Threads, NEW fd \in established(u)', NEW a \in Lasting, binds'[u][fd].alias = a
          PROVE  fd \in established(u) /\ binds'[u][fd] = binds[u][fd]
      <4>1. fd \in DOMAIN binds'[u] /\ a # "stub"
        BY <1>2 DEF established, Lasting, ThreadsAssumption
      <4>2. fd \in DOMAIN binds[u] /\ binds'[u][fd] = binds[u][fd]
        BY <2>4, <3>1, <3>2, <3>5, <4>1
      <4> QED
        BY <2>3, <3>5, <4>2 DEF established
    <3> QED
      BY <3>4, <3>5 DEF Connections
  <2> QED
    BY <1>6, <2>1, <2>3, <2>4, <2>7
<1>11. CASE m.cmd = "onWrtcSendCallback" /\ onWrtcSendCallback(t)
  <2>1. m \in Answers
    BY <1>3, <1>11, MessageKinds DEF WorkerMessages
  <2>2. /\ UNCHANGED <<toMain, aliasesHolder, binds, clientAliases>>
        /\ \A u \in Threads \ {t} : call'[u] = call[u]
    BY <1>2, <1>11 DEF onWrtcSendCallback, Typed
  <2>3. Connections
    BY <2>2, SameConnections DEF LastingInv
  <2> QED
    BY <1>6, <2>1, <2>2, <2>3
<1> QED
  BY <1>1, <1>7, <1>8, <1>9, <1>10, <1>11

\* A worker hears the next of what its signaling client is told.
LEMMA ReturnsHeard ==
  ASSUME Typed, ReturnsKnown, NEW t \in Threads, news[t] # <<>>,
         news' = [news EXCEPT ![t] = Tail(@)], aliases' = aliases,
         \A u \in Threads, a \in Lasting : Knows(u, a) => Knows(u, a)',
         \A u \in Threads \ {t} : call'[u] = call[u],
         call'[t] = call[t] \/ Held(Tail(news[t])) \cap Endings = {},
         \A a \in Lasting : Head(news[t]) = Alias(a, aliases[a], TRUE) => Knows(t, a)'
  PROVE  ReturnsKnown'
<1>1. /\ \A u \in Threads \ {t} : news'[u] = news[u]
      /\ news'[t] = Tail(news[t]) /\ news[t] \in Seq(News)
  BY DEF Typed
<1> SUFFICES ASSUME NEW u \in Threads, NEW k \in DOMAIN news'[u], NEW a \in Lasting,
                    a = connection(call'[u], news'[u][k]), news'[u][k].op = "returns"
             PROVE  \/ Knows(u, a)'
                    \/ \E j \in DOMAIN news'[u] : j < k /\ news'[u][j] = Alias(a, aliases[a], TRUE)
  BY DEF ReturnsKnown, Lasting, connection, Alias
<1> DEFINE Hopes(q, i) == Knows(u, a) \/ \E j \in DOMAIN q : j < i /\ q[j] = Alias(a, aliases[a], TRUE)
<1>4. ASSUME NEW i \in DOMAIN news[u], a = connection(call[u], news[u][i]), news[u][i].op = "returns"
      PROVE  Hopes(news[u], i)
  BY <1>4 DEF ReturnsKnown
<1>2. CASE u # t
  <2>1. Hopes(news[u], k)
    BY <1>1, <1>2, <1>4
  <2> QED
    BY <1>1, <1>2, <2>1
<1>3. CASE u = t
  <2>1. /\ Head(news[t]) = news[t][1] /\ DOMAIN news[t] = 1 .. Len(news[t]) /\ Len(news[t]) \in Nat
        /\ DOMAIN Tail(news[t]) = 1 .. (Len(news[t]) - 1) /\ Tail(news[t]) \in Seq(News)
        /\ \A i \in DOMAIN Tail(news[t]) : i + 1 \in DOMAIN news[t] /\ Tail(news[t])[i] = news[t][i + 1]
        /\ \A i \in DOMAIN news[t] : i # 1 => i - 1 \in DOMAIN Tail(news[t]) /\ Tail(news[t])[i - 1] = news[t][i]
    BY <1>1, TailFacts, SeqFacts
  <2>2. news'[t][k] \in Held(Tail(news[t])) /\ news'[t][k] \in News
    BY <1>1, <1>3, <2>1, SeqFacts
  <2>3. call'[t] = call[t]
    BY <1>3, <2>2, MessageKinds DEF News
  <2>4. k + 1 \in DOMAIN news[t] /\ news[t][k + 1] = news'[t][k]
    BY <1>1, <1>3, <2>1
  <2>5. Knows(t, a) \/ \E j \in DOMAIN news[t] : j < k + 1 /\ news[t][j] = Alias(a, aliases[a], TRUE)
    <3>1. a = connection(call[u], news[u][k + 1]) /\ news[u][k + 1].op = "returns" /\ k + 1 \in DOMAIN news[u]
      BY <1>3, <2>3, <2>4
    <3>2. Hopes(news[u], k + 1)
      BY <1>4, <3>1
    <3> QED
      BY <1>3, <3>2
  <2>6. ASSUME NEW j \in DOMAIN news[t], j < k + 1, news[t][j] = Alias(a, aliases[a], TRUE)
        PROVE  \/ Knows(t, a)'
               \/ \E i \in DOMAIN news'[t] : i < k /\ news'[t][i] = Alias(a, aliases[a], TRUE)
    <3>1. CASE j = 1
      BY <2>1, <2>6, <3>1
    <3>2. CASE j # 1
      <4>1. j - 1 \in DOMAIN news'[t] /\ news'[t][j - 1] = Alias(a, aliases[a], TRUE)
        BY <1>1, <2>1, <2>6, <3>2
      <4>2. j - 1 < k
        BY <1>1, <1>3, <2>1, <2>6
      <4> QED
        BY <4>1, <4>2
    <3> QED
      BY <3>1, <3>2
  <2> QED
    BY <1>3, <2>5, <2>6
<1> QED
  BY <1>2, <1>3

LEMMA OperationKeepsLasting ==
  ASSUME CallsInv, CallsInv', BindsInv, LastingInv, NEW t \in Threads, handleOperation(t)
  PROVE  LastingInv'
<1>1. PICK m : /\ m = Head(news[t]) /\ news[t] # <<>> /\ news' = [news EXCEPT ![t] = Tail(@)]
               /\ \/ m.op = "alias" /\ handleAlias(t, m)
                  \/ m.op = "returns" /\ returns(t, m)
                  \/ m.op = "fails" /\ fails(t)
               /\ UNCHANGED <<server, isConnected, sends, toWorker, main>>
  BY DEF handleOperation
<1>2. UNCHANGED <<aliases, used, socketAliases, toWorker>> /\ Typed /\ Typed' /\ ThreadsAssumption
  BY <1>1, ThreadsAssumption DEF server, main, CallsInv
<1>3. /\ m \in News /\ m \in Held(news[t]) /\ news'[t] = Tail(news[t]) /\ news[t] \in Seq(News)
      /\ 1 \in DOMAIN news[t] /\ m = news[t][1] /\ DOMAIN news[t] = 1 .. Len(news[t])
      /\ \A u \in Threads : Held(news'[u]) \cap Broadcasts \subseteq Held(news[u])
  <2>1. /\ \A u \in Threads \ {t} : news'[u] = news[u]
        /\ news'[t] = Tail(news[t]) /\ news[t] \in Seq(News)
    BY <1>1, <1>2 DEF Typed
  <2>2. Held(news[t]) = Held(Tail(news[t])) \cup {m} /\ m = news[t][1] /\ 1 \in DOMAIN news[t]
    BY <1>1, <2>1, TailFacts
  <2> QED
    BY <1>1, <1>2, <2>1, <2>2, TakenNews, SeqFacts
<1>4. /\ Awaited(t) /\ CallTrue(t, call[t], binds[t]) /\ call[t] \in Calls
      /\ binds[t] \in Maps(WorkerBinds) /\ DOMAIN binds[t] \subseteq Descriptors
  BY <1>2, MapFacts DEF CallsInv, Typed
<1>5. ASSUME Spread, Connections, \A u \in Threads \ {t} : call'[u] = call[u],
             call'[t] = call[t] \/ m \in Endings,
             \A a \in Lasting : m = Alias(a, aliases[a], TRUE) =>
               a \in used /\ aliasesHolder'[t][a] = aliases[a]
      PROVE  LastingInv'
  <2>1. BeliefsTrue' /\ \A u \in Threads, a \in Lasting : Knows(u, a) => Knows(u, a)'
    BY <1>2, <1>3, <1>5, SpreadKeepsBeliefs DEF LastingInv
  <2>2. EstablishedKnown'
    BY <1>5, <2>1, EstablishedKept DEF LastingInv, Connections
  <2>3. call'[t] = call[t] \/ Held(Tail(news[t])) \cap Endings = {}
    <3>1. Once(news[t], Endings)
      BY <1>4 DEF Awaited
    <3>2. Once(news[t], Endings) /\ Head(news[t]) \in Endings => Held(Tail(news[t])) \cap Endings = {}
      BY <1>1, <1>3, LighterTail
    <3> QED
      BY <1>1, <1>5, <3>1, <3>2
  <2>4. \A a \in Lasting : Head(news[t]) = Alias(a, aliases[a], TRUE) => Knows(t, a)'
    BY <1>1, <1>2, <1>5 DEF Knows
  <2>5. ReturnsKnown'
    BY <1>1, <1>2, <1>5, <2>1, <2>3, <2>4, ReturnsHeard DEF LastingInv
  <2> QED
    BY <1>5, <2>1, <2>2, <2>5 DEF LastingInv, Connections
<1>6. CASE m.op = "alias" /\ handleAlias(t, m)
  <2>1. m \in Broadcasts /\ m.alias \in Aliases /\ m.id \in Ids /\ m.set \in BOOLEAN
    BY <1>3, <1>6, MessageKinds DEF News, Broadcasts
  <2>2. Believed(m.alias, toldOf(m))
    BY <1>3, <2>1 DEF Believed
  <2>3. UNCHANGED <<call, binds, clientAliases>>
    BY <1>6 DEF handleAlias
  <2>4. PICK gone \in BOOLEAN : gone = ~ m.set
    BY <2>1
  <2>5. PICK n \in AliasUpdates : n = [cmd |-> "aliasUpdate", alias |-> m.alias, id |-> m.id, isDelete |-> gone]
    BY <2>1 DEF AliasUpdates, Updates
  <2>6. n.alias = m.alias /\ saidOf(n) = toldOf(m)
    BY <2>1, <2>4, <2>5 DEF saidOf, toldOf
  <2>7. n \in MainMessages /\ toMain' = [toMain EXCEPT ![t] = @ \o <<n>>]
    BY <1>6, <2>4, <2>5 DEF handleAlias, aliasUpdate, postMessage, AliasUpdates, MainMessages
  <2>8. \A u \in Threads : Held(toMain'[u]) \subseteq Held(toMain[u]) \cup {n}
    BY <1>2, <2>7, PostFacts DEF Typed
  <2>9. PICK a, id : a = m.alias /\ id = toldOf(m) /\ a \in Aliases
    BY <2>1
  <2>10. aliasesHolder' = [aliasesHolder EXCEPT ![t][a] = id]
    BY <1>6, <2>9 DEF handleAlias, toldOf
  <2>11. \A u \in Threads, b \in Aliases :
           aliasesHolder'[u][b] = aliasesHolder[u][b] \/ (b = a /\ aliasesHolder'[u][b] = id)
    <3>1. Typed /\ a \in Aliases
      BY <1>2, <2>9
    <3> QED
      BY ONLY <2>10, <3>1, LearntOne, t \in Threads
  <2>12. Spread
    BY <1>2, <2>2, <2>6, <2>8, <2>9, <2>11 DEF Spread
  <2>13. Connections
    BY <2>3, SameConnections DEF LastingInv
  <2>14. aliasesHolder'[t][a] = id
    <3>1. PICK table : table = aliasesHolder[t] /\ DOMAIN table = Aliases
      BY <1>2 DEF Typed, Tables
    <3>2. aliasesHolder' = [aliasesHolder EXCEPT ![t] = [table EXCEPT ![a] = id]]
      BY <2>10, <3>1
    <3>3. aliasesHolder'[t] = [table EXCEPT ![a] = id]
      BY <1>2, <3>2 DEF Typed
    <3> QED
      BY <2>9, <3>1, <3>3
  <2>15. ASSUME NEW b \in Lasting, m = Alias(b, aliases[b], TRUE)
         PROVE  b \in used /\ aliasesHolder'[t][b] = aliases[b]
    <3>1. b = a /\ id = aliases[b]
      BY <2>9, <2>15 DEF Alias, toldOf
    <3>2. Believed(b, aliases[b]) /\ aliases[b] \in Ids \cup {NoOne}
      BY <1>2, <2>2, <2>9, <3>1 DEF Typed, Tables
    <3> QED
      BY <2>14, <3>1, <3>2 DEF LastingInv, BeliefsTrue, Believable
  <2> QED
    BY <1>5, <2>3, <2>12, <2>13, <2>15
<1>7. ASSUME m \in Endings, aliasesHolder' = aliasesHolder, \A u \in Threads \ {t} : call'[u] = call[u],
             \/ UNCHANGED toMain
             \/ \E n \in MainMessages \ AliasUpdates : toMain' = [toMain EXCEPT ![t] = @ \o <<n>>],
             Connections
      PROVE  LastingInv'
  <2>1. \A u \in Threads : Held(toMain'[u]) \cap AliasUpdates \subseteq Held(toMain[u])
    BY <1>2, <1>7, PostedNoAlias
  <2>2. Spread
    BY <1>2, <1>7, <2>1 DEF Spread
  <2>3. \A a : m # Alias(a, aliases[a], TRUE)
    <3>1. m.op \in {"returns", "fails"}
      BY <1>7, MessageKinds
    <3> QED
      BY <3>1 DEF Alias
  <2> QED
    BY <1>5, <1>7, <2>2, <2>3
<1>8. CASE m.op = "fails" /\ fails(t)
  <2>1. m \in Endings
    BY <1>3, <1>8, MessageKinds DEF News
  <2>2. /\ UNCHANGED <<aliasesHolder, binds, clientAliases, toMain>>
        /\ \A u \in Threads \ {t} : call'[u] = call[u]
    BY <1>2, <1>8 DEF fails, Typed
  <2>3. Connections
    BY <2>2, SameConnections DEF LastingInv
  <2> QED
    BY <1>7, <2>1, <2>2, <2>3
<1>9. CASE m.op = "returns" /\ returns(t, m)
  <2>1. m \in Endings /\ m.alias \in Aliases
    BY <1>3, <1>9, MessageKinds DEF News, Endings
  <2>2. call[t].at = "client"
    BY <1>3, <1>4, <2>1 DEF Awaited, ended
  <2>3. PICK c \in Calls : c = call[t]
    BY <1>4
  <2>4. c.op \in {"bind", "accept", "connect"} /\ c.fd \in DOMAIN binds[t] /\ c.fd \in Descriptors
    BY <1>4, <2>2, <2>3 DEF CallTrue
  <2>5. aliasesHolder' = aliasesHolder /\ \A u \in Threads \ {t} : call'[u] = call[u]
    BY <1>2, <1>9 DEF returns, Typed
  <2>6. \A a \in Lasting : a = connection(c, m) => Knows(t, a)
    <3>1. ~ \E j \in DOMAIN news[t] : j < 1
      BY <1>3
    <3> QED
      BY <1>3, <1>9, <2>3, <3>1 DEF LastingInv, ReturnsKnown
  <2>7. CASE c.op \in {"bind", "accept"}
    <3>1. PICK bind \in Binds : bind = Bind(m.alias, t) /\ bind.alias = m.alias /\ bind # STUB
      BY <1>2, <2>1, StubIsNoBind DEF Bind
    <3>2. PICK n \in Updates : n = [cmd |-> "bindUpdate", fd |-> c.fd, bind |-> bind]
      BY <2>4 DEF Updates
    <3>3. /\ binds' = [binds EXCEPT ![t] = Put(binds[t], c.fd, bind)]
          /\ toMain' = [toMain EXCEPT ![t] = @ \o <<n>>] /\ n.cmd # "aliasUpdate"
          /\ UNCHANGED clientAliases
      BY <1>9, <2>3, <2>7, <3>1, <3>2 DEF returns, setBind, postMessage
    <3>4. binds[t][c.fd] = STUB
      BY <1>4, <2>2, <2>3, <2>7 DEF CallTrue
    <3>5. c.fd \notin DOMAIN clientAliases[t]
      BY <3>4 DEF LastingInv, NoStubConnected
    <3>6. /\ DOMAIN binds'[t] = DOMAIN binds[t] /\ binds'[t][c.fd] = bind
          /\ \A x \in DOMAIN binds[t] : x # c.fd => binds'[t][x] = binds[t][x]
          /\ \A u \in Threads \ {t} : binds'[u] = binds[u]
      <4>1. binds'[t] = Put(binds[t], c.fd, bind) /\ \A u \in Threads \ {t} : binds'[u] = binds[u]
        BY <1>2, <3>3 DEF Typed
      <4>2. DOMAIN binds[t] \cup {c.fd} = DOMAIN binds[t]
        BY <2>4
      <4> QED
        BY <4>1, <4>2 DEF Put
    <3>7. NoStubConnected'
      <4>1. ASSUME NEW u \in Threads, NEW fd \in DOMAIN clientAliases[u] PROVE binds'[u][fd] # STUB
        <5>1. binds[u][fd] # STUB /\ fd \in DOMAIN binds[u]
          BY DEF LastingInv, NoStubConnected, BindsInv, DescriptorsCounted
        <5> QED
          BY <3>1, <3>6, <5>1
      <4> QED
        BY <3>3, <4>1 DEF NoStubConnected
    <3>8. ASSUME NEW u \in Threads, NEW fd \in established(u)', NEW a \in Lasting, binds'[u][fd].alias = a
          PROVE  Knows(u, a) \/ (fd \in established(u) /\ binds'[u][fd] = binds[u][fd])
      <4>1. CASE u = t /\ fd = c.fd
        <5>1. a = connection(c, m)
          BY <2>7, <3>1, <3>6, <3>8, <4>1 DEF connection
        <5> QED
          BY <2>6, <4>1, <5>1
      <4>2. CASE ~ (u = t /\ fd = c.fd)
        <5>1. fd \in DOMAIN binds'[u]
          BY DEF established
        <5>2. fd \in DOMAIN binds[u] /\ binds'[u][fd] = binds[u][fd]
          BY <3>6, <4>2, <5>1
        <5> QED
          BY <3>3, <5>2 DEF established
      <4> QED
        BY <4>1, <4>2
    <3>9. Connections
      BY <3>7, <3>8 DEF Connections
    <3> QED
      BY <1>7, <2>1, <2>5, <3>2, <3>3, <3>9, OtherMessages
  <2>8. CASE c.op = "connect"
    <3>1. UNCHANGED <<binds, toMain>> /\ clientAliases' = [clientAliases EXCEPT ![t] = Put(@, c.fd, m.alias)]
      BY <1>9, <2>3, <2>8 DEF returns
    <3>2. binds[t][c.fd] = Bind(c.alias, t) /\ c.alias \in Aliases
      BY <1>4, <2>2, <2>3, <2>8 DEF CallTrue, Aliases
    <3>3. binds[t][c.fd] # STUB /\ binds[t][c.fd].alias = c.alias
      BY <1>2, <3>2, StubIsNoBind DEF Bind
    <3>4. /\ DOMAIN clientAliases'[t] = DOMAIN clientAliases[t] \cup {c.fd}
          /\ \A u \in Threads \ {t} : clientAliases'[u] = clientAliases[u]
      BY <1>2, <3>1 DEF Put, Typed
    <3>5. NoStubConnected'
      BY <3>1, <3>3, <3>4 DEF LastingInv, NoStubConnected
    <3>6. ASSUME NEW u \in Threads, NEW fd \in established(u)', NEW a \in Lasting, binds'[u][fd].alias = a
          PROVE  Knows(u, a) \/ (fd \in established(u) /\ binds'[u][fd] = binds[u][fd])
      <4>1. CASE u = t /\ fd = c.fd
        <5>1. a = connection(c, m)
          BY <2>8, <3>1, <3>3, <3>6, <4>1 DEF connection
        <5> QED
          BY <2>6, <4>1, <5>1
      <4>2. CASE ~ (u = t /\ fd = c.fd)
        BY <3>1, <3>4, <4>2 DEF established
      <4> QED
        BY <4>1, <4>2
    <3>7. Connections
      BY <3>5, <3>6 DEF Connections
    <3> QED
      BY <1>7, <2>1, <2>5, <3>1, <3>7
  <2> QED
    BY <2>4, <2>7, <2>8
<1> QED
  BY <1>1, <1>6, <1>8, <1>9

----
(***************************************************************************)
(* The server                                                              *)
(***************************************************************************)

\* What the server tells a thread is so, and before a call returns it tells whose
\* alias the connection is to.
Honest(t, r) ==
  /\ \A m \in Held(r) \cap Broadcasts : m.alias \in Lasting =>
       m.alias \in used' /\ aliases'[m.alias] \in {NoOne, toldOf(m)}
  /\ \A k \in DOMAIN r : \A a \in Lasting :
       r[k].op = "returns" /\ a = connection(call[t], r[k]) =>
         \E j \in DOMAIN r : j < k /\ r[j] = Alias(a, aliases'[a], TRUE)

LEMMA HonestlyTold ==
  ASSUME Typed, Typed', LastingInv, UNCHANGED <<workers, toMain, toWorker, main>>,
         used \subseteq used',
         \A a \in Lasting : a \in used => aliases'[a] \in {NoOne, aliases[a]},
         \A a \in Lasting : aliases'[a] # NoOne => a \in used',
         \A t \in Threads : \/ news'[t] = news[t]
                            \/ \E r \in Seq(News) : news'[t] = news[t] \o r /\ Honest(t, r)
  PROVE  LastingInv'
<1>1. UNCHANGED <<aliasesHolder, binds, clientAliases, call, toMain, toWorker, socketAliases>>
  BY DEF workers, main
<1>2. Lasting \subseteq Aliases /\ Lasting' = Lasting /\ \A a \in Lasting : aliases[a] # NoOne => a \in used
  BY DEF Lasting, LastingInv, BeliefsTrue
<1>3. ASSUME NEW a \in Lasting, NEW id \in Ids \cup {NoOne}, Believable(a, id) PROVE Believable(a, id)'
  BY <1>3 DEF Believable
<1>4. ASSUME NEW t \in Threads, NEW a \in Lasting, Knows(t, a) PROVE Knows(t, a)'
  BY <1>1, <1>4 DEF Knows
<1>5. ASSUME NEW t \in Threads, NEW m \in Held(news'[t]) \cap Broadcasts, m \notin Held(news[t]),
             m.alias \in Lasting
      PROVE  m.alias \in used' /\ aliases'[m.alias] \in {NoOne, toldOf(m)}
  <2>1. ASSUME NEW r \in Seq(News), news'[t] = news[t] \o r, Honest(t, r)
        PROVE  m \in Held(news[t]) \/ m \in Held(r)
    BY <2>1, ConcatFacts DEF Typed
  <2> QED
    BY <1>5, <2>1 DEF Honest
<1>6. ASSUME NEW a \in Lasting, NEW id \in Ids \cup {NoOne}, Believed(a, id)' PROVE Believable(a, id)'
  <2>1. \A t \in Threads : Held(news[t])' = Held(news'[t])
    BY DEF Held
  <2>2. \A m : toldOf(m)' = toldOf(m) /\ saidOf(m)' = saidOf(m)
    BY DEF toldOf, saidOf
  <2>3. CASE Believed(a, id)
    BY <1>3, <2>3 DEF LastingInv, BeliefsTrue
  <2>4. CASE ~ Believed(a, id)
    <3>1. PICK t \in Threads : \E m \in Held(news'[t]) \cap Broadcasts : m.alias = a /\ toldOf(m) = id
      <4>1. \A t \in Threads : /\ Held(toMain[t])' = Held(toMain[t])
                               /\ Held(toWorker[t])' = Held(toWorker[t])
        BY <1>1 DEF Held
      <4> QED
        BY <1>1, <1>6, <2>1, <2>2, <2>4, <4>1 DEF Believed
    <3>2. PICK m \in Held(news'[t]) \cap Broadcasts : m.alias = a /\ toldOf(m) = id
      BY <3>1
    <3>3. m \notin Held(news[t])
      BY <2>4, <3>2 DEF Believed
    <3> QED
      BY <1>5, <3>2, <3>3 DEF Believable
  <2> QED
    BY <2>3, <2>4
<1>7. BeliefsTrue'
  BY <1>2, <1>6 DEF BeliefsTrue
<1>8. Connections
  BY <1>1, SameConnections DEF LastingInv
<1>9. EstablishedKnown'
  BY <1>4, <1>8, EstablishedKept DEF LastingInv, Connections
<1>10. ASSUME NEW t \in Threads, NEW k \in DOMAIN news'[t], NEW a \in Lasting,
              a = connection(call[t], news'[t][k]), news'[t][k].op = "returns"
       PROVE  \/ Knows(t, a)'
              \/ \E j \in DOMAIN news'[t] : j < k /\ news'[t][j] = Alias(a, aliases'[a], TRUE)
  <2> DEFINE Hopes == \E j \in DOMAIN news'[t] : j < k /\ news'[t][j] = Alias(a, aliases'[a], TRUE)
  <2>1. ASSUME k \in DOMAIN news[t], news'[t][k] = news[t][k],
               \A j \in DOMAIN news[t] : j \in DOMAIN news'[t] /\ news'[t][j] = news[t][j]
        PROVE  Knows(t, a)' \/ Hopes
    <3>1. Knows(t, a) \/ \E j \in DOMAIN news[t] : j < k /\ news[t][j] = Alias(a, aliases[a], TRUE)
      BY <1>10, <2>1 DEF LastingInv, ReturnsKnown
    <3>2. ASSUME NEW j \in DOMAIN news[t], j < k, news[t][j] = Alias(a, aliases[a], TRUE)
          PROVE  Knows(t, a)' \/ Hopes
      <4>1. PICK m \in Broadcasts : m = news[t][j] /\ m \in Held(news[t])
        <5>1. news[t][j] \in Held(news[t]) /\ news[t][j] \in News
          BY SeqFacts DEF Typed
        <5>2. news[t][j].op = "alias"
          BY <3>2 DEF Alias
        <5> QED
          BY <5>1, <5>2, MessageKinds DEF News
      <4>2. m.alias = a /\ toldOf(m) = aliases[a]
        BY <3>2, <4>1 DEF Alias, toldOf
      <4>3. Believed(a, aliases[a]) /\ aliases[a] \in Ids \cup {NoOne}
        BY <1>2, <4>1, <4>2 DEF Believed, Typed, Tables
      <4>4. a \in used
        BY <4>3 DEF LastingInv, BeliefsTrue, Believable
      <4>5. CASE aliases'[a] = NoOne
        BY <4>4, <4>5 DEF Knows
      <4>6. CASE aliases'[a] = aliases[a]
        BY <2>1, <3>2, <4>6
      <4> QED
        BY <4>4, <4>5, <4>6
    <3> QED
      BY <1>4, <3>1, <3>2
  <2>2. CASE news'[t] = news[t]
    BY <1>10, <2>1, <2>2
  <2>3. ASSUME NEW r \in Seq(News), news'[t] = news[t] \o r, Honest(t, r)
        PROVE  Knows(t, a)' \/ Hopes
    <3>1. /\ DOMAIN news[t] = 1 .. Len(news[t]) /\ DOMAIN r = 1 .. Len(r)
          /\ Len(news[t]) \in Nat /\ Len(r) \in Nat
          /\ DOMAIN news'[t] = 1 .. (Len(news[t]) + Len(r))
          /\ \A i \in 1 .. Len(news[t]) : news'[t][i] = news[t][i]
          /\ \A i \in 1 .. Len(r) : news'[t][Len(news[t]) + i] = r[i]
          /\ k \in DOMAIN news[t] \/ (k - Len(news[t]) \in DOMAIN r /\ news'[t][k] = r[k - Len(news[t])])
      BY <1>10, <2>3, ConcatFacts, SeqFacts DEF Typed
    <3>2. CASE k \in DOMAIN news[t]
      <4>1. news'[t][k] = news[t][k]
        BY <3>1, <3>2
      <4>2. \A j \in DOMAIN news[t] : j \in DOMAIN news'[t] /\ news'[t][j] = news[t][j]
        BY <3>1
      <4> QED
        BY <2>1, <3>2, <4>1, <4>2
    <3>3. CASE k - Len(news[t]) \in DOMAIN r /\ news'[t][k] = r[k - Len(news[t])]
      <4>1. PICK i \in DOMAIN r : i = k - Len(news[t])
        BY <3>3
      <4>2. PICK j \in DOMAIN r : j < i /\ r[j] = Alias(a, aliases'[a], TRUE)
        BY <1>10, <2>3, <3>3, <4>1 DEF Honest
      <4>3. Len(news[t]) + j \in DOMAIN news'[t] /\ Len(news[t]) + j < k
        BY <1>10, <3>1, <4>1, <4>2
      <4>4. news'[t][Len(news[t]) + j] = Alias(a, aliases'[a], TRUE)
        BY <3>1, <4>2
      <4> QED
        BY <4>3, <4>4
    <3> QED
      BY <3>1, <3>2, <3>3
  <2> QED
    BY <2>2, <2>3
<1>11. ReturnsKnown'
  BY <1>1, <1>2, <1>10 DEF ReturnsKnown, connection, Alias
<1> QED
  BY <1>7, <1>8, <1>9, <1>11 DEF LastingInv, Connections

\* What is broadcast returns no call.
LEMMA HonestBroadcast ==
  ASSUME NEW t \in Threads, NEW m \in Broadcasts,
         m.alias \in Lasting => m.alias \in used' /\ aliases'[m.alias] \in {NoOne, toldOf(m)}
  PROVE  \A e \in Endings :
           /\ Honest(t, <<m>>)
           /\ (\A a \in Lasting : a = connection(call[t], e) => e.op # "returns" \/ m = Alias(a, aliases'[a], TRUE))
                => Honest(t, <<m, e>>)
<1> TAKE e \in Endings
<1>1. /\ Held(<<m>>) = {m} /\ Held(<<m, e>>) = {m, e} /\ e \notin Broadcasts /\ m.op # "returns"
      /\ <<m>>[1] = m /\ DOMAIN <<m>> = {1}
      /\ <<m, e>>[1] = m /\ <<m, e>>[2] = e /\ DOMAIN <<m, e>> = {1, 2}
  <2>1. m \in News /\ e \in News
    BY DEF News
  <2> QED
    BY <2>1, Single, Double, MessageKinds
<1>2. PICK one : one = <<m>> /\ Held(one) = {m} /\ one[1] = m /\ DOMAIN one = {1}
  BY <1>1
<1>3. PICK two : /\ two = <<m, e>> /\ Held(two) = {m, e} /\ two[1] = m /\ two[2] = e
                 /\ DOMAIN two = {1, 2}
  BY <1>1
<1>4. Honest(t, one)
  BY <1>1, <1>2 DEF Honest
<1>5. ASSUME \A a \in Lasting : a = connection(call[t], e) => e.op # "returns" \/ m = Alias(a, aliases'[a], TRUE)
      PROVE  Honest(t, two)
  <2>1. \A n \in Held(two) \cap Broadcasts : n.alias \in Lasting =>
          n.alias \in used' /\ aliases'[n.alias] \in {NoOne, toldOf(n)}
    BY <1>1, <1>3
  <2>2. ASSUME NEW k \in DOMAIN two, NEW a \in Lasting, two[k].op = "returns", a = connection(call[t], two[k])
        PROVE  \E j \in DOMAIN two : j < k /\ two[j] = Alias(a, aliases'[a], TRUE)
    <3>1. k = 2 /\ e.op = "returns" /\ a = connection(call[t], e)
      BY <1>1, <1>3, <2>2
    <3>2. m = Alias(a, aliases'[a], TRUE)
      BY <1>5, <3>1
    <3>3. two[1] = Alias(a, aliases'[a], TRUE) /\ 1 \in DOMAIN two /\ 1 < k
      BY <1>3, <3>1, <3>2
    <3> QED
      BY <3>3
  <2> QED
    BY <2>1, <2>2 DEF Honest
<1> QED
  BY <1>2, <1>3, <1>4, <1>5

LEMMA RegisteredLasting ==
  ASSUME Typed, LastingInv, NEW a \in Aliases, NEW id \in Ids, fresh(a), registered(a, id)
  PROVE  /\ used \subseteq used' /\ a \in used'
         /\ \A b \in Lasting : b \in used => aliases'[b] \in {NoOne, aliases[b]}
         /\ \A b \in Lasting : aliases'[b] # NoOne => b \in used'
         /\ aliases'[a] = id /\ \A b \in Aliases \ {a} : aliases'[b] = aliases[b]
<1>1. /\ aliases'[a] = id /\ \A b \in Aliases \ {a} : aliases'[b] = aliases[b]
      /\ used' = used \cup {a}
  BY RegisteredFacts DEF registered
<1>2. a \in Lasting => a \notin used
  BY DEF fresh, Lasting
<1> QED
  BY <1>1, <1>2 DEF Lasting, LastingInv, BeliefsTrue

LEMMA RegisterKeepsLasting ==
  ASSUME CallsInv, CallsInv', LastingInv, UNCHANGED <<workers, toMain, toWorker, main>>,
         NEW t \in Threads, register(t)
  PROVE  LastingInv'
<1>1. PICK a \in BindAliases :
         /\ a \in Aliases /\ a = call[t].alias /\ waitsAtServer(t, "bind")
         /\ fresh(a) /\ registered(a, t) /\ tell(registerNews(t, a))
         /\ registerNews(t, a) \in [Threads -> Seq(News)]
  BY RegisterFacts
<1>2. PICK m \in Broadcasts : m = Alias(a, t, TRUE)
  BY <1>1, NewsFacts DEF Ids
<1>3. PICK e \in Endings : e = Returns(a)
  BY <1>1, NewsFacts
<1>4. /\ a \notin Lasting /\ m.alias = a /\ e.alias = a /\ call[t].op = "bind"
      /\ Typed /\ Typed' /\ t \in Ids
  BY <1>1, <1>2, <1>3 DEF Lasting, Alias, Returns, waitsAtServer, CallsInv, Ids
<1>5. \A u \in Threads : Honest(u, <<m>>)
  BY <1>3, <1>4, HonestBroadcast
<1>6. Honest(t, <<m, e>>)
  BY <1>4, HonestBroadcast DEF connection
<1>7. \A u \in Threads : \/ news'[u] = news[u]
                         \/ \E r \in Seq(News) : news'[u] = news[u] \o r /\ Honest(u, r)
  <2> TAKE u \in Threads
  <2>1. PICK messages \in [Threads -> Seq(News)] : messages = registerNews(t, a)
    BY <1>1
  <2>2. news'[u] = IF isConnected[u] THEN news[u] \o messages[u] ELSE news[u]
    BY <1>1, <1>4, <2>1, ToldFacts
  <2>3. Honest(u, registerNews(t, a)[u])
    BY <1>2, <1>3, <1>5, <1>6 DEF registerNews
  <2> QED
    BY <2>1, <2>2, <2>3
<1> QED
  BY <1>1, <1>4, <1>7, RegisteredLasting, HonestlyTold

LEMMA IntroduceKeepsLasting ==
  ASSUME CallsInv, CallsInv', LastingInv, UNCHANGED <<workers, toMain, toWorker, main>>,
         NEW id \in Ids, NEW x \in ConnectAliases, NEW a \in Aliases, introduce(id, a, x)
  PROVE  LastingInv'
<1>1. /\ aliases[a] \in Ids /\ aliases[a] # id /\ x \in Aliases
      /\ accepts(aliases[a], a) /\ connects(id, a) /\ fresh(x) /\ registered(x, id)
      /\ tell(introduceNews(id, a, x))
      /\ introduceNews(id, a, x) \in [Threads -> Seq(News)]
  BY IntroduceFacts, ThreadsAssumption
<1>2. /\ used \subseteq used' /\ x \in used'
      /\ \A b \in Lasting : b \in used => aliases'[b] \in {NoOne, aliases[b]}
      /\ \A b \in Lasting : aliases'[b] # NoOne => b \in used'
      /\ aliases'[x] = id /\ \A b \in Aliases \ {x} : aliases'[b] = aliases[b]
  BY <1>1, RegisteredLasting DEF CallsInv
<1>3. aliases'[a] = aliases[a] /\ a # x /\ Remote \notin Threads /\ Typed /\ Typed'
  BY <1>1, <1>2, ThreadsAssumption DEF ThreadsAssumption, fresh, CallsInv
<1>4. PICK m \in Broadcasts : m = Alias(x, id, TRUE)
  BY <1>1, NewsFacts
<1>5. PICK k \in Broadcasts : k = Alias(a, aliases[a], TRUE)
  BY <1>1, NewsFacts
<1>6. PICK e \in Endings : e = Returns(x)
  BY <1>1, NewsFacts
<1>7. /\ m.id = id /\ m.alias = x /\ m.set /\ k.id = aliases[a] /\ k.alias = a /\ k.set
      /\ e.alias = x
  BY <1>4, <1>5, <1>6 DEF Alias, Returns
<1>8. /\ aliases'[m.alias] = toldOf(m) /\ m.alias \in used'
      /\ aliases'[k.alias] = toldOf(k) /\ (k.alias \in Lasting => k.alias \in used')
  BY <1>1, <1>2, <1>3, <1>7, ThreadsAssumption DEF toldOf, ThreadsAssumption
<1>9. ASSUME NEW t \in Threads, t = aliases[a] PROVE Honest(t, <<m, e>>)
  <2>1. connection(call[t], e) = x
    BY <1>1, <1>3, <1>7, <1>9 DEF accepts, waitsAtServer, connection
  <2>2. m = Alias(x, aliases'[x], TRUE)
    BY <1>2, <1>4
  <2> QED
    BY <1>8, <2>1, <2>2, HonestBroadcast
<1>10. ASSUME NEW t \in Threads, t = id PROVE Honest(t, <<m, k, e>>)
  <2>1. connection(call[t], e) = a
    BY <1>1, <1>3, <1>10 DEF connects, waitsAtServer, connection
  <2>2. k = Alias(a, aliases'[a], TRUE)
    BY <1>3, <1>5
  <2>3. m \in News /\ k \in News /\ e \in News /\ e \notin Broadcasts /\ m.op # "returns" /\ k.op # "returns"
    BY MessageKinds DEF News
  <2>4. PICK r : /\ r = <<m, k, e>> /\ Held(r) = {m, k, e} /\ DOMAIN r = {1, 2, 3}
                 /\ r[1] = m /\ r[2] = k /\ r[3] = e
    <3>1. /\ Held(<<m, k, e>>) = {m, k, e} /\ DOMAIN <<m, k, e>> = {1, 2, 3}
          /\ <<m, k, e>>[1] = m /\ <<m, k, e>>[2] = k /\ <<m, k, e>>[3] = e
      BY <2>3, Triple
    <3> QED
      BY <3>1
  <2>5. \A n \in Held(r) \cap Broadcasts : n.alias \in Lasting =>
          n.alias \in used' /\ aliases'[n.alias] \in {NoOne, toldOf(n)}
    BY <1>8, <2>3, <2>4
  <2>6. ASSUME NEW i \in DOMAIN r, NEW b \in Lasting, r[i].op = "returns", b = connection(call[t], r[i])
        PROVE  \E j \in DOMAIN r : j < i /\ r[j] = Alias(b, aliases'[b], TRUE)
    <3>1. i = 3 /\ b = a
      BY <2>1, <2>3, <2>4, <2>6
    <3>2. 2 \in DOMAIN r /\ 2 < i /\ r[2] = Alias(b, aliases'[b], TRUE)
      BY <2>2, <2>4, <3>1
    <3> QED
      BY <3>2
  <2> QED
    BY <2>4, <2>5, <2>6 DEF Honest
<1>11. \A t \in Threads : Honest(t, <<>>)
  <2>1. Held(<<>>) = {} /\ DOMAIN <<>> = {}
    BY DEF Held
  <2> QED
    BY <2>1 DEF Honest
<1>12. \A t \in Threads : \/ news'[t] = news[t]
                          \/ \E r \in Seq(News) : news'[t] = news[t] \o r /\ Honest(t, r)
  <2> TAKE t \in Threads
  <2>1. PICK messages \in [Threads -> Seq(News)] : messages = introduceNews(id, a, x)
    BY <1>1
  <2>2. news'[t] = IF isConnected[t] THEN news[t] \o messages[t] ELSE news[t]
    BY <1>1, <1>3, <2>1, ToldFacts
  <2>3. Honest(t, introduceNews(id, a, x)[t])
    <3>1. CASE t = aliases[a]
      <4>1. introduceNews(id, a, x)[t] = <<m, e>>
        BY <1>1, <1>4, <1>6, <3>1 DEF introduceNews
      <4> QED
        BY <1>9, <3>1, <4>1
    <3>2. CASE t # aliases[a] /\ t = id
      <4>1. introduceNews(id, a, x)[t] = <<m, k, e>>
        BY <1>4, <1>5, <1>6, <3>2 DEF introduceNews
      <4> QED
        BY <1>10, <3>2, <4>1
    <3>3. CASE t # aliases[a] /\ t # id
      BY <1>11, <3>3 DEF introduceNews
    <3> QED
      BY <3>1, <3>2, <3>3
  <2> QED
    BY <2>1, <2>2, <2>3
<1> QED
  BY <1>2, <1>3, <1>12, HonestlyTold

LEMMA RefuseKeepsLasting ==
  ASSUME CallsInv, CallsInv', LastingInv, UNCHANGED <<workers, toMain, toWorker, main>>,
         NEW t \in Threads, NEW x \in Aliases, refuse(t, x)
  PROVE  LastingInv'
<1>1. /\ call[t].at = "client" /\ UNCHANGED aliases /\ used' = used \cup {x}
      /\ news' = [news EXCEPT ![t] = @ \o <<Alias(x, t, FALSE), Fails>>]
      /\ Typed /\ Typed' /\ t \in Ids
  BY DEF refuse, waitsAtServer, CallsInv, Ids
<1>2. x \in Lasting => aliases[x] = NoOne
  <2>1. CASE waitsAtServer(t, "bind") /\ x = call[t].alias
    BY <2>1 DEF CallsInv, CallTrue, waitsAtServer, Lasting
  <2>2. CASE fresh(x)
    BY <2>2 DEF fresh
  <2> QED
    BY <2>1, <2>2 DEF refuse
<1>3. PICK m \in Broadcasts : m = Alias(x, t, FALSE)
  BY <1>1, NewsFacts
<1>4. PICK e \in Endings : e = Fails
  BY NewsFacts
<1>5. /\ m.alias = x /\ toldOf(m) = NoOne /\ e.op # "returns" /\ x \in used'
  BY <1>1, <1>3, <1>4 DEF Alias, Fails, toldOf
<1>6. aliases'[x] = aliases[x] /\ (m.alias \in Lasting => m.alias \in used' /\ aliases'[m.alias] \in {NoOne, toldOf(m)})
  BY <1>1, <1>2, <1>5
<1>7. Honest(t, <<m, e>>)
  BY <1>5, <1>6, HonestBroadcast
<1>8. m \in News /\ e \in News /\ <<m, e>> \in Seq(News)
  BY DEF News
<1>9. \A u \in Threads : \/ news'[u] = news[u]
                         \/ \E r \in Seq(News) : news'[u] = news[u] \o r /\ Honest(u, r)
  <2> TAKE u \in Threads
  <2>1. CASE u = t
    <3>1. news'[t] = news[t] \o <<m, e>>
      BY <1>1, <1>3, <1>4 DEF Typed
    <3> QED
      BY <1>7, <1>8, <2>1, <3>1
  <2>2. CASE u # t
    BY <1>1, <2>2 DEF Typed
  <2> QED
    BY <2>1, <2>2
<1>10. \A a \in Lasting : aliases'[a] # NoOne => a \in used'
  BY <1>1 DEF LastingInv, BeliefsTrue
<1> QED
  BY <1>1, <1>9, <1>10, HonestlyTold

\* The news of one alias goes to all threads.
LEMMA BroadcastKeepsLasting ==
  ASSUME Typed, Typed', LastingInv, UNCHANGED <<workers, toMain, toWorker, main>>,
         used \subseteq used',
         \A a \in Lasting : a \in used => aliases'[a] \in {NoOne, aliases[a]},
         \A a \in Lasting : aliases'[a] # NoOne => a \in used',
         NEW m \in Broadcasts, tell(broadcast(m)),
         m.alias \in Lasting => m.alias \in used' /\ aliases'[m.alias] \in {NoOne, toldOf(m)}
  PROVE  LastingInv'
<1>1. \A t \in Threads : Honest(t, <<m>>)
  <2>1. Fails \in Endings
    BY NewsFacts
  <2> QED
    BY <2>1, HonestBroadcast
<1>2. \A t \in Threads : \/ news'[t] = news[t]
                         \/ \E r \in Seq(News) : news'[t] = news[t] \o r /\ Honest(t, r)
  <2> TAKE t \in Threads
  <2>1. PICK messages \in [Threads -> Seq(News)] :
          tell(messages) /\ \A u \in Threads : messages[u] = <<m>>
    BY BroadcastFacts
  <2>2. news'[t] = IF isConnected[t] THEN news[t] \o messages[t] ELSE news[t]
    BY <2>1, ToldFacts
  <2> QED
    BY <1>1, <2>1, <2>2
<1> QED
  BY <1>2, HonestlyTold

LEMMA ServerKeepsLasting ==
  ASSUME CallsInv, CallsInv', LastingInv, Server
  PROVE  LastingInv'
<1>1. UNCHANGED <<workers, toMain, toWorker, main>> /\ Typed /\ Typed'
  BY DEF Server, CallsInv
<1>2. ASSUME NEW a \in RemoteAliases, registerRemote(a) PROVE LastingInv'
  <2>1. PICK m \in Broadcasts : m = Alias(a, Remote, TRUE)
    BY NewsFacts DEF Ids, Aliases
  <2>2. registered(a, Remote) /\ fresh(a) /\ tell(broadcast(m)) /\ a \in Aliases /\ Remote \in Ids
    BY <1>2, <2>1 DEF registerRemote, Aliases, Ids
  <2>3. /\ used \subseteq used' /\ a \in used' /\ aliases'[a] = Remote
        /\ \A b \in Lasting : b \in used => aliases'[b] \in {NoOne, aliases[b]}
        /\ \A b \in Lasting : aliases'[b] # NoOne => b \in used'
    BY <1>1, <2>2, RegisteredLasting
  <2>4. m.alias = a /\ toldOf(m) = Remote
    BY <2>1 DEF Alias, toldOf
  <2> QED
    BY <1>1, <2>2, <2>3, <2>4, BroadcastKeepsLasting
<1>3. ASSUME NEW a \in Aliases, retract(a) PROVE LastingInv'
  <2>1. /\ aliases[a] \in Ids /\ aliases' = [aliases EXCEPT ![a] = NoOne] /\ UNCHANGED used
        /\ aliases[a] # NoOne
    BY <1>1, <1>3 DEF retract, Typed, Tables, Ids
  <2>2. PICK m \in Broadcasts : m = Alias(a, aliases[a], FALSE)
    BY <2>1, NewsFacts
  <2>3. m.alias = a /\ toldOf(m) = NoOne /\ tell(broadcast(m))
    BY <1>3, <2>2 DEF retract, Alias, toldOf
  <2>4. aliases'[a] = NoOne /\ \A b \in Aliases \ {a} : aliases'[b] = aliases[b]
    BY <1>1, <2>1 DEF Typed, Tables
  <2>5. \A b \in Lasting : b \in Aliases /\ (aliases[b] # NoOne => b \in used)
    BY DEF LastingInv, BeliefsTrue, Lasting
  <2>6. /\ \A b \in Lasting : b \in used => aliases'[b] \in {NoOne, aliases[b]}
        /\ \A b \in Lasting : aliases'[b] # NoOne => b \in used'
        /\ used \subseteq used'
        /\ m.alias \in Lasting => m.alias \in used' /\ aliases'[m.alias] \in {NoOne, toldOf(m)}
    BY <2>1, <2>3, <2>4, <2>5
  <2> QED
    BY <1>1, <2>3, <2>6, BroadcastKeepsLasting
<1> QED
  BY <1>1, <1>2, <1>3, RefuseKeepsLasting, RegisterKeepsLasting, IntroduceKeepsLasting DEF Server

LEMMA NextKeepsLasting ==
  ASSUME CallsInv, CallsInv', BindsInv, LastingInv, [Next]_vars
  PROVE  LastingInv'
<1>1. CASE Next
  BY <1>1, MainKeepsLasting, MessageKeepsLasting, OperationKeepsLasting, ReadyKeepsLasting,
     ProgramKeepsLasting, TransportedKeepsLasting, ServerKeepsLasting DEF Next
<1>2. CASE UNCHANGED vars
  <2>1. /\ UNCHANGED <<aliases, used, news, toMain, toWorker, aliasesHolder, binds, clientAliases,
                       call, socketAliases>>
        /\ Typed /\ Typed'
    BY <1>2 DEF vars, server, workers, main, CallsInv
  <2>2. Spread
    BY <2>1 DEF Spread
  <2>3. Connections
    BY <2>1, SameConnections DEF LastingInv
  <2> QED
    BY <2>1, <2>2, <2>3, PageKeepsLasting
<1> QED
  BY <1>1, <1>2

LEMMA InitLasting ==
  ASSUME ThreadsAssumption, Init
  PROVE  LastingInv
<1>1. /\ \A t \in Threads : /\ news[t] = <<>> /\ toMain[t] = <<>> /\ toWorker[t] = <<>>
                            /\ binds[t] = empty /\ clientAliases[t] = empty
      /\ \A a \in Aliases : /\ aliases[a] = NoOne /\ socketAliases[a] = NoOne
                            /\ \A t \in Threads : aliasesHolder[t][a] = NoOne
  BY DEF Init
<1>2. Held(<<>>) = {} /\ DOMAIN <<>> = {} /\ DOMAIN empty = {} /\ Lasting \subseteq Aliases
  BY DEF Held, empty, Lasting
<1>3. BeliefsTrue
  BY <1>1, <1>2 DEF BeliefsTrue, Believed
<1>4. EstablishedKnown /\ NoStubConnected /\ ReturnsKnown
  BY <1>1, <1>2 DEF EstablishedKnown, NoStubConnected, ReturnsKnown, established
<1> QED
  BY <1>3, <1>4 DEF LastingInv

\* What anybody believes of an alias that lasts is so, or was so until the alias was
\* retracted, and a thread knows the other ends of its connections.
THEOREM LastingInvariance == Spec => []LastingInv
<1>1. Init => LastingInv
  BY InitLasting, ThreadsAssumption
<1>2. CallsInv /\ BindsInv /\ LastingInv /\ [Next]_vars => LastingInv'
  BY NextKeepsCalls, NextKeepsLasting
<1> QED
  BY <1>1, <1>2, Invariance, PTL DEF Spec

\* A thread can send on the connections it has accepted or made for as long as the
\* other end is registered: its worker was told of the alias before its accept or
\* connect returned (handleAlias), and nothing that other workers or the main thread
\* pass on (handleAliasUpdate, onNotifyAliasAdd, onFetchBinds) takes it away.
THEOREM ConnectionsReachable == Spec => []Reachable
<1>1. ASSUME CallsInv, LastingInv PROVE Reachable
  <2> SUFFICES ASSUME NEW t \in Threads, NEW fd \in established(t), binds[t][fd].connectorId = t,
                      binds[t][fd].alias \notin BindAliases \cup Recycled,
                      aliases[binds[t][fd].alias] # NoOne
               PROVE  aliasesHolder[t][binds[t][fd].alias] = aliases[binds[t][fd].alias]
    BY DEF Reachable
  <2>1. fd \in DOMAIN binds[t] /\ binds[t][fd] # STUB
    BY <1>1 DEF established, LastingInv, NoStubConnected
  <2>2. binds[t][fd] \in Binds
    BY <1>1, <2>1, MapFacts DEF CallsInv, Typed, WorkerBinds
  <2>3. binds[t][fd].alias \in Lasting
    BY <2>2 DEF Binds, Lasting
  <2> QED
    BY <1>1, <2>3 DEF LastingInv, EstablishedKnown, Knows
<1> QED
  BY <1>1, LastingInvariance, CallsInvariance, PTL
====
