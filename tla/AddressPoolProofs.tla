---- MODULE AddressPoolProofs ----
(***************************************************************************)
(* The mutex of the address functions keeps them apart, for any number of  *)
(* overlapping calls, any requests and any subnets.                        *)
(***************************************************************************)
EXTENDS AddressPool, AddressesProofs

\* A call inside the critical section, and who is where in the queue.
Inside(c) == pc[c] \in {"entered", "found"}

MutexTypes ==
  /\ holder \in Calls \cup {NoCall}
  /\ waiting \in Seq(Calls)
  /\ pc \in [Calls -> {"idle", "queued", "entered", "found", "answered"}]

\* Taking the lock or queueing for it keeps the calls apart.
LEMMA AcquireExcludes ==
  ASSUME MutexTypes, MutualExclusion, NEW c \in Calls, pc[c] = "idle",
         Lock(c) \/ Queue(c)
  PROVE  MutexTypes' /\ MutualExclusion'
<1>1. CASE Lock(c)
  BY <1>1, NoCallAssumption DEF Lock, MutexTypes, MutualExclusion
<1>2. CASE Queue(c)
  <2>1. /\ Len(waiting) \in Nat
        /\ waiting' \in Seq(Calls)
        /\ DOMAIN waiting = 1 .. Len(waiting)
        /\ DOMAIN waiting' = 1 .. (Len(waiting) + 1)
        /\ \A i \in DOMAIN waiting : waiting'[i] = waiting[i]
        /\ waiting'[Len(waiting) + 1] = c
    BY <1>2 DEF Queue, MutexTypes
  <2>2. \A i \in DOMAIN waiting : waiting[i] # c
    BY <2>1 DEF MutualExclusion
  <2>3. pc' = [pc EXCEPT ![c] = "queued"] /\ holder' = holder /\ holder # NoCall
    BY <1>2 DEF Queue
  <2>4. MutexTypes'
    BY <2>1, <2>3 DEF MutexTypes
  <2>5. \A d \in Calls : pc'[d] \in {"entered", "found"} <=> d = holder'
    BY <2>3 DEF MutexTypes, MutualExclusion
  <2>6. \A d \in Calls : pc'[d] = "queued" <=> \E i \in DOMAIN waiting' : waiting'[i] = d
    BY <2>1, <2>2, <2>3 DEF MutexTypes, MutualExclusion
  <2>7. \A i, j \in DOMAIN waiting' : waiting'[i] = waiting'[j] => i = j
    BY <2>1, <2>2 DEF MutualExclusion
  <2> QED
    BY <2>3, <2>4, <2>5, <2>6, <2>7 DEF MutualExclusion
<1> QED
  BY <1>1, <1>2

\* Handing the lock to the first waiter, or to nobody, keeps the calls apart.
LEMMA ReleaseExcludes ==
  ASSUME MutexTypes, MutualExclusion, NEW c \in Calls, Inside(c), NEW a, release(c, a)
  PROVE  MutexTypes' /\ MutualExclusion'
<1>0. c = holder
  BY DEF Inside, MutualExclusion
<1>1. CASE /\ waiting = <<>>
           /\ holder' = NoCall
           /\ pc' = [pc EXCEPT ![c] = "answered"]
           /\ UNCHANGED waiting
  BY <1>0, <1>1, NoCallAssumption DEF MutexTypes, MutualExclusion
<1>2. CASE /\ waiting # <<>>
           /\ holder' = Head(waiting)
           /\ pc' = [pc EXCEPT ![c] = "answered", ![Head(waiting)] = "entered"]
           /\ waiting' = Tail(waiting)
  <2> DEFINE d == Head(waiting)
  <2>1. /\ Len(waiting) \in Nat /\ Len(waiting) > 0
        /\ DOMAIN waiting = 1 .. Len(waiting)
        /\ d = waiting[1] /\ d \in Calls
        /\ waiting' \in Seq(Calls)
        /\ DOMAIN waiting' = 1 .. (Len(waiting) - 1)
        /\ \A i \in DOMAIN waiting' : waiting'[i] = waiting[i + 1]
    BY <1>2 DEF MutexTypes
  <2>2. pc[d] = "queued" /\ d # c
    BY <2>1 DEF Inside, MutualExclusion
  <2>3. pc' = [pc EXCEPT ![c] = "answered", ![d] = "entered"] /\ holder' = d
    BY <1>2
  <2> HIDE DEF d
  <2>4. MutexTypes'
    BY <2>1, <2>3 DEF MutexTypes
  <2>5. \A e \in Calls : pc'[e] \in {"entered", "found"} <=> e = holder'
    BY <1>0, <2>1, <2>2, <2>3 DEF MutexTypes, MutualExclusion
  <2>6. \A i, j \in DOMAIN waiting' : waiting'[i] = waiting'[j] => i = j
    <3>1. ASSUME NEW i \in DOMAIN waiting', NEW j \in DOMAIN waiting',
                 waiting'[i] = waiting'[j]
          PROVE  i = j
      <4>1. i + 1 \in DOMAIN waiting /\ j + 1 \in DOMAIN waiting
        BY <2>1
      <4>2. waiting[i + 1] = waiting[j + 1]
        BY <2>1, <3>1
      <4>3. i + 1 = j + 1
        BY <4>1, <4>2 DEF MutualExclusion
      <4> QED
        BY <2>1, <4>3
    <3> QED
      BY <3>1
  <2>7. \A e \in Calls : pc'[e] = "queued" <=> \E i \in DOMAIN waiting' : waiting'[i] = e
    <3>1. ASSUME NEW e \in Calls, pc'[e] = "queued"
          PROVE  \E i \in DOMAIN waiting' : waiting'[i] = e
      <4>1. e # d /\ pc[e] = "queued"
        BY <2>1, <2>2, <2>3, <3>1 DEF MutexTypes
      <4>2. PICK i \in DOMAIN waiting : waiting[i] = e
        BY <4>1 DEF MutualExclusion
      <4>3. i # 1 /\ i - 1 \in DOMAIN waiting'
        BY <2>1, <4>1, <4>2
      <4> QED
        BY <2>1, <4>2, <4>3
    <3>2. ASSUME NEW e \in Calls, NEW i \in DOMAIN waiting', waiting'[i] = e
          PROVE  pc'[e] = "queued"
      <4>1. i + 1 \in DOMAIN waiting /\ i + 1 # 1 /\ waiting[i + 1] = e
        BY <2>1, <3>2
      <4>2. pc[e] = "queued" /\ e # d
        BY <2>1, <4>1 DEF MutualExclusion
      <4>3. e # c
        BY <4>2 DEF Inside
      <4> QED
        BY <2>3, <4>2, <4>3 DEF MutexTypes
    <3> QED
      BY <3>1, <3>2
  <2>8. holder' # NoCall
    BY <2>1, <2>3, NoCallAssumption
  <2> QED
    BY <2>4, <2>5, <2>6, <2>7, <2>8 DEF MutualExclusion
<1> QED
  BY <1>1, <1>2 DEF release

----
(***************************************************************************)
(* The inductive invariant                                                 *)
(***************************************************************************)
DataOK ==
  /\ subnets \subseteq Subnets
  /\ members \subseteq IPAddresses /\ IsFiniteSet(members)
  /\ ports \subseteq TCPAddresses /\ IsFiniteSet(ports)
  /\ PortsHosted

CallsOK ==
  /\ request \in [Calls -> Requests \cup {Book!NoRequest}]
  /\ free \in [Calls -> Nat]
  /\ reply \in [Calls -> Book!Replies]

\* A suffix is searched for in a subnet that exists by then.
SubnetsOpen ==
  \A c \in Calls : Found(c, "createIPAddress") => request[c].subnet \in subnets

IInv == /\ MutexTypes /\ MutualExclusion /\ DataOK /\ CallsOK
        /\ SearchStillCurrent /\ SubnetsOpen

\* The address book reads addresses as the pool does.
LEMMA BookTypes ==
  /\ Book!Answers = Answers
  /\ Book!IPAddresses = IPAddresses
  /\ Book!TCPAddresses = TCPAddresses
  /\ Book!NoAddress = NoAddress
  BY DEF Book!Answers, Answers, Book!IPAddresses, IPAddresses, Book!TCPAddresses,
         TCPAddresses, Book!NoAddress, NoAddress

\* What the argument of a request is, by the function it asks for.
LEMMA RequestTypes ==
  ASSUME NEW r \in Requests \cup {Book!NoRequest}
  PROVE  /\ r.op = "createIPAddress" => r.subnet \in Subnets
         /\ r.op = "createTCPAddress" => r.addr \in Answers
         /\ r.op = "removeIPAddress" => r.addr \in Answers \cup TCPAddresses
         /\ r.op \in {"claimTCPAddress", "removeTCPAddress"} => r.addr \in TCPAddresses
  BY BookTypes, RequestsAssumption
  DEF Book!RequestsTyped, Book!CreateIPs, Book!CreateTCPs, Book!RemoveIPs,
      Book!Claims, Book!RemoveTCPs, Book!NoRequest

\* No call is between search and use once the mutex is released.
LEMMA ReleaseEndsSearch ==
  ASSUME MutexTypes, MutualExclusion, NEW c \in Calls, Inside(c), NEW a, release(c, a)
  PROVE  \A d \in Calls : pc'[d] # "found"
<1>1. \A d \in Calls : d # c => pc[d] # "found"
  BY DEF Inside, MutualExclusion
<1>2. \A d \in Calls : \/ pc'[d] \in {"answered", "entered"}
                       \/ d # c /\ pc'[d] = pc[d]
  BY DEF release, MutexTypes
<1> QED
  BY <1>1, <1>2

\* An operation of the holder that leaves the data well formed and releases the
\* mutex preserves the invariant.
LEMMA ReleaseKeepsInv ==
  ASSUME IInv, NEW c \in Calls, Inside(c), NEW a \in Book!Replies, release(c, a), DataOK'
  PROVE  IInv'
<1>1. MutexTypes' /\ MutualExclusion'
  BY ReleaseExcludes DEF IInv
<1>2. CallsOK'
  BY DEF IInv, CallsOK, release
<1>3. SearchStillCurrent' /\ SubnetsOpen'
  BY ReleaseEndsSearch DEF IInv, SearchStillCurrent, SubnetsOpen, Found
<1> QED
  BY <1>1, <1>2, <1>3 DEF IInv

\* Taking the lock, or queueing for it, preserves the invariant.
LEMMA AcquireKeepsInv ==
  ASSUME IInv, NEW c \in Calls, NEW r \in Requests, acquire(c, r)
  PROVE  IInv'
<1>1. MutexTypes' /\ MutualExclusion'
  BY AcquireExcludes DEF acquire, IInv
<1>2. CallsOK'
  BY DEF acquire, IInv, CallsOK
<1>3. DataOK'
  BY DEF acquire, IInv, DataOK, PortsHosted
<1>4. SearchStillCurrent' /\ SubnetsOpen'
  <2>1. \A d \in Calls : pc'[d] = "found" => d # c /\ pc[d] = "found"
    BY DEF acquire, Lock, Queue, IInv, MutexTypes
  <2>2. \A d \in Calls : d # c => request'[d] = request[d]
    BY DEF acquire, IInv, CallsOK
  <2> QED
    BY <2>1, <2>2 DEF acquire, IInv, SearchStillCurrent, SubnetsOpen, Found, host
<1> QED
  BY <1>1, <1>2, <1>3, <1>4 DEF IInv

\* The search leaves the mutex with its holder, and what it finds is current.
LEMMA SearchKeepsInv ==
  ASSUME IInv, NEW c \in Calls, pc[c] = "entered", NEW inUse \in SUBSET Nat,
         IsFiniteSet(inUse), search(c, inUse), DataOK',
         request[c].op = "createIPAddress" =>
           request[c].subnet \in subnets' /\ inUse = Suffixes(members, request[c].subnet),
         request[c].op = "createTCPAddress" =>
           host(c) \in members /\ inUse = PortsOf(ports, host(c))
  PROVE  IInv'
<1>1. FirstGap(inUse) \in Nat
  BY FirstGapIsLeastFree
<1>2. CallsOK'
  BY <1>1 DEF search, IInv, CallsOK
<1>3. MutexTypes' /\ MutualExclusion'
  BY DEF search, IInv, MutexTypes, MutualExclusion
<1>4. SearchStillCurrent' /\ SubnetsOpen'
  <2>1. \A d \in Calls : pc'[d] = "found" => d = c
    BY DEF search, IInv, MutexTypes, MutualExclusion
  <2>2. free'[c] = FirstGap(inUse)
    BY DEF search, IInv, CallsOK
  <2> QED
    BY <2>1, <2>2 DEF search, SearchStillCurrent, SubnetsOpen, Found, host
<1> QED
  BY <1>2, <1>3, <1>4 DEF IInv

\* A call that goes on was neither in the critical section nor in the queue.
LEMMA ResumeKeepsInv ==
  ASSUME IInv, NEW c \in Calls, resume(c)
  PROVE  IInv'
<1>1. MutexTypes' /\ MutualExclusion'
  BY DEF resume, IInv, MutexTypes, MutualExclusion
<1>2. CallsOK'
  BY DEF resume, IInv, CallsOK, Book!Replies
<1>3. DataOK'
  BY DEF resume, IInv, DataOK, PortsHosted
<1>4. SearchStillCurrent' /\ SubnetsOpen'
  <2>1. \A d \in Calls : pc'[d] = "found" => d # c /\ pc[d] = "found"
    BY DEF resume, IInv, MutexTypes
  <2>2. \A d \in Calls : d # c => request'[d] = request[d] /\ free'[d] = free[d]
    BY DEF resume, IInv, CallsOK
  <2> QED
    BY <2>1, <2>2 DEF resume, IInv, SearchStillCurrent, SubnetsOpen, Found, host
<1> QED
  BY <1>1, <1>2, <1>3, <1>4 DEF IInv

\* What a call that holds the mutex may answer, and the host it is about.
LEMMA Answerable ==
  /\ IPAddresses \subseteq Book!Replies /\ TCPAddresses \subseteq Book!Replies
  /\ {NoAddress, Done, Throws} \subseteq Book!Replies
  BY BookTypes DEF Book!Replies, Book!Answers

\* Every operation under the mutex preserves the invariant.
LEMMA StepKeepsInv ==
  ASSUME IInv, NEW c \in Calls, Step(c)
  PROVE  IInv'
<1>1. request[c] \in Requests \cup {Book!NoRequest}
  BY DEF IInv, CallsOK
<1>2. CASE findSuffix(c)
  <2>1. request[c].subnet \in Subnets
    BY <1>1, <1>2, RequestTypes DEF findSuffix, Running
  <2>2. DataOK'
    BY <1>2, <2>1 DEF findSuffix, search, IInv, DataOK, PortsHosted
  <2> QED
    BY <1>2, <2>2, SearchKeepsInv, NumbersInUse DEF findSuffix, Running, IInv, DataOK
<1>3. CASE addSuffix(c)
  <2> DEFINE ip == toIPAddress(request[c].subnet, free[c])
  <2>1. request[c].subnet \in Subnets /\ free[c] \in Nat /\ Inside(c)
    BY <1>1, <1>3, RequestTypes DEF addSuffix, Found, Inside, IInv, CallsOK
  <2>2. ip \in IPAddresses /\ ip.subnet = request[c].subnet
    BY <2>1 DEF toIPAddress, IPAddresses
  <2>3. CASE members' = members /\ release(c, NoAddress)
    <3>1. DataOK'
      BY <1>3, <2>3 DEF addSuffix, IInv, DataOK, PortsHosted
    <3> QED
      BY <2>1, <2>3, <3>1, ReleaseKeepsInv, Answerable
  <2>4. CASE members' = members \cup {ip} /\ release(c, ip)
    <3>1. IsFiniteSet(members')
      BY <2>4, FS_AddElement DEF IInv, DataOK
    <3>2. ip.subnet \in subnets
      BY <1>3, <2>1, <2>2 DEF addSuffix, IInv, SubnetsOpen
    <3>3. DataOK'
      BY <1>3, <2>2, <2>4, <3>1, <3>2 DEF addSuffix, IInv, DataOK, PortsHosted
    <3> QED
      BY <2>1, <2>2, <2>4, <3>3, ReleaseKeepsInv, Answerable
  <2> QED
    BY <1>3, <2>3, <2>4 DEF addSuffix
<1>4. CASE findPort(c)
  <2>1. DataOK'
    BY <1>4 DEF findPort, search, IInv, DataOK, PortsHosted
  <2> QED
    BY <1>4, <2>1, SearchKeepsInv, NumbersInUse DEF findPort, Running, IInv, DataOK
<1>5. CASE addPort(c)
  <2> DEFINE tcp == toTCPAddress(host(c), free[c])
  <2>1. Inside(c) /\ free[c] \in Nat /\ host(c) \in members
    BY <1>5 DEF addPort, Found, Inside, IInv, CallsOK, SearchStillCurrent
  <2>2. tcp \in TCPAddresses /\ parseIPAddress(tcp) = host(c)
    BY <2>1 DEF toTCPAddress, TCPAddresses, IPAddresses, parseIPAddress, IInv, DataOK
  <2>3. ports' = ports \cup {tcp} /\ release(c, tcp) /\ UNCHANGED <<subnets, members>>
    BY <1>5 DEF addPort
  <2>4. IsFiniteSet(ports')
    BY <2>3, FS_AddElement DEF IInv, DataOK
  <2>5. DataOK'
    BY <2>1, <2>2, <2>3, <2>4 DEF IInv, DataOK, PortsHosted
  <2> QED
    BY <2>1, <2>2, <2>3, <2>5, ReleaseKeepsInv, Answerable
<1>6. CASE noHost(c)
  <2>1. DataOK'
    BY <1>6 DEF noHost, IInv, DataOK, PortsHosted
  <2> QED
    BY <1>6, <2>1, ReleaseKeepsInv, Answerable DEF noHost, Running, Inside
<1>7. CASE claimPort(c)
  <2> DEFINE tcp == request[c].addr
  <2>1. Inside(c) /\ tcp \in TCPAddresses
    BY <1>1, <1>7, RequestTypes DEF claimPort, Running, Inside
  <2>2. /\ host(c) \in IPAddresses /\ host(c) = parseIPAddress(tcp)
        /\ host(c).subnet = tcp.subnet
    BY <2>1 DEF host, parseIPAddress, TCPAddresses, IPAddresses
  <2>3. /\ IsFiniteSet(members \cup {host(c)})
        /\ IsFiniteSet(ports \cup {tcp})
    BY FS_AddElement DEF IInv, DataOK
  <2>4. subnets' = subnets
    BY <1>7 DEF claimPort
  <2>5. /\ \/ members' = members
           \/ members' = members \cup {host(c)} /\ host(c).subnet \in subnets
        /\ \/ ports' = ports
           \/ ports' = ports \cup {tcp} /\ host(c) \in members'
        /\ release(c, Done) \/ release(c, Throws)
    BY <1>7 DEF claimPort
  <2>6. DataOK'
    <3>1. members' \subseteq IPAddresses /\ IsFiniteSet(members') /\ members \subseteq members'
      BY <2>2, <2>3, <2>5 DEF IInv, DataOK
    <3>2. ports' \subseteq TCPAddresses /\ IsFiniteSet(ports')
      BY <2>1, <2>3, <2>5 DEF IInv, DataOK
    <3>3. \A p \in ports' : parseIPAddress(p) \in members'
      BY <2>2, <2>5, <3>1 DEF IInv, DataOK, PortsHosted
    <3>4. \A m \in members' : m.subnet \in subnets
      BY <2>5 DEF IInv, DataOK, PortsHosted
    <3> QED
      BY <2>4, <3>1, <3>2, <3>3, <3>4 DEF IInv, DataOK, PortsHosted
  <2> QED
    BY <2>1, <2>5, <2>6, ReleaseKeepsInv, Answerable
<1>8. CASE removeHost(c)
  <2>1. /\ members' = members \ {host(c)}
        /\ ports' = {p \in ports : parseIPAddress(p) # host(c)}
        /\ subnets' = subnets /\ release(c, Done) /\ Inside(c)
    BY <1>8 DEF removeHost, Running, Inside
  <2>2. IsFiniteSet(members') /\ IsFiniteSet(ports')
    BY <2>1, FS_Subset DEF IInv, DataOK
  <2>3. DataOK'
    BY <2>1, <2>2 DEF IInv, DataOK, PortsHosted
  <2> QED
    BY <2>1, <2>3, ReleaseKeepsInv, Answerable
<1>9. CASE removePort(c)
  <2>1. /\ ports' = ports \ {request[c].addr} /\ UNCHANGED <<subnets, members>>
        /\ release(c, Done) /\ Inside(c)
    BY <1>9 DEF removePort, Running, Inside
  <2>2. IsFiniteSet(ports')
    BY <2>1, FS_Subset DEF IInv, DataOK
  <2>3. DataOK'
    BY <2>1, <2>2 DEF IInv, DataOK, PortsHosted
  <2> QED
    BY <2>1, <2>3, ReleaseKeepsInv, Answerable
<1> QED
  BY <1>2, <1>3, <1>4, <1>5, <1>6, <1>7, <1>8, <1>9 DEF Step

----
(***************************************************************************)
(* The theorems                                                            *)
(***************************************************************************)
\* The invariant holds at first: nobody has called yet.
LEMMA InitKeepsInv == Init => IInv
<1> SUFFICES ASSUME Init PROVE IInv
  OBVIOUS
<1>1. IsFiniteSet({})
  BY FS_EmptySet
<1>2. MutexTypes /\ MutualExclusion
  BY NoCallAssumption DEF Init, MutexTypes, MutualExclusion
<1>3. DataOK
  BY <1>1 DEF Init, DataOK, PortsHosted
<1>4. CallsOK
  BY DEF Init, CallsOK, Book!Replies
<1>5. SearchStillCurrent /\ SubnetsOpen
  BY DEF Init, SearchStillCurrent, SubnetsOpen, Found
<1> QED
  BY <1>2, <1>3, <1>4, <1>5 DEF IInv

\* Every step preserves it.
LEMMA NextKeepsInv == IInv /\ [Next]_vars => IInv'
<1> SUFFICES ASSUME IInv, [Next]_vars PROVE IInv'
  OBVIOUS
<1>1. CASE UNCHANGED vars
  BY <1>1 DEF vars, IInv, MutexTypes, MutualExclusion, DataOK, PortsHosted, CallsOK,
              SearchStillCurrent, SubnetsOpen, Found, host
<1>2. ASSUME NEW c \in Calls, NEW r \in Requests, acquire(c, r) PROVE IInv'
  BY <1>2, AcquireKeepsInv
<1>3. ASSUME NEW c \in Calls, Step(c) PROVE IInv'
  BY <1>3, StepKeepsInv
<1>4. ASSUME NEW c \in Calls, resume(c) PROVE IInv'
  BY <1>4, ResumeKeepsInv
<1> QED
  BY <1>1, <1>2, <1>3, <1>4 DEF Next

\* THEOREM Invariance: the conjuncts of IInv hold in every reachable state.
THEOREM Invariance == Spec => []IInv
<1> QED
  BY InitKeepsInv, NextKeepsInv, PTL DEF Spec

\* THEOREM TypeCorrect: the maps of the server and the frames of the calls are
\* what the code declares them to be.
THEOREM TypeCorrect == Spec => []TypeOK
<1>1. IInv => TypeOK
  BY DEF IInv, MutexTypes, DataOK, CallsOK, TypeOK
<1> QED
  BY <1>1, Invariance, PTL

\* THEOREM MutexExcludes: subnetsMutex admits one call at a time, and holds no
\* call twice in its queue.
THEOREM MutexExcludes == Spec => []MutualExclusion
<1>1. IInv => MutualExclusion
  BY DEF IInv
<1> QED
  BY <1>1, Invariance, PTL

\* THEOREM SearchNeverStale: what createIPAddress and createTCPAddress found
\* before their await is still right after it.
THEOREM SearchNeverStale == Spec => []SearchStillCurrent
<1>1. IInv => SearchStillCurrent
  BY DEF IInv
<1> QED
  BY <1>1, Invariance, PTL

\* THEOREM PortsStayHosted: no port outlives the member of its host.
THEOREM PortsStayHosted == Spec => []PortsHosted
<1>1. IInv => PortsHosted
  BY DEF IInv, DataOK
<1> QED
  BY <1>1, Invariance, PTL

----
(***************************************************************************)
(* The address functions implement the address book: every step of a call  *)
(* is one indivisible operation of the book, or invisible to it. (That     *)
(* each call is answered is a liveness property, and checked by TLC.)      *)
(***************************************************************************)
\* The operators of the address book are those of the pool.
LEMMA BookOperators ==
  /\ \A subnet, n : Book!toIPAddress(subnet, n) = toIPAddress(subnet, n)
  /\ \A ip, n : Book!toTCPAddress(ip, n) = toTCPAddress(ip, n)
  /\ \A a : Book!parseIPAddress(a) = parseIPAddress(a)
  /\ \A P, ip : Book!PortsOf(P, ip) = PortsOf(P, ip)
  BY DEF Book!toIPAddress, toIPAddress, Book!toTCPAddress, toTCPAddress,
         Book!parseIPAddress, parseIPAddress, Book!PortsOf, PortsOf

\* A release is the answer of the call, and changes nobody else's status.
LEMMA ReleaseAnswers ==
  ASSUME IInv, NEW c \in Calls, Inside(c), NEW a, release(c, a), subnets' = subnets
  PROVE  Book!Answer(c, a)
<1>1. callStatus[c] = "pending"
  BY DEF Inside, callStatus
<1>2. callStatus' = [callStatus EXCEPT ![c] = "answered"]
  <2>1. CASE waiting = <<>>
    BY <2>1 DEF release, callStatus, IInv, MutexTypes
  <2>2. CASE waiting # <<>>
    <3>1. Head(waiting) \in Calls /\ pc[Head(waiting)] = "queued"
      <4>1. /\ Len(waiting) \in Nat /\ 1 \in DOMAIN waiting
            /\ Head(waiting) = waiting[1] /\ waiting[1] \in Calls
        BY <2>2 DEF IInv, MutexTypes
      <4> QED
        BY <4>1 DEF IInv, MutualExclusion
    <3> DEFINE d == Head(waiting)
    <3>2. pc' = [pc EXCEPT ![c] = "answered", ![d] = "entered"]
      BY <2>2 DEF release
    <3>3. d # c
      BY <3>1 DEF Inside
    <3> HIDE DEF d
    <3> QED
      BY <3>1, <3>2, <3>3 DEF callStatus, IInv, MutexTypes, d
  <2> QED
    BY <2>1, <2>2
<1> QED
  BY <1>1, <1>2 DEF Book!Answer, release

\* createIPAddress grants a free suffix, and refuses only a full subnet.
LEMMA AddSuffixServes ==
  ASSUME IInv, NEW c \in Calls, addSuffix(c)
  PROVE  Book!GrantIP(c) \/ Book!RefuseIP(c)
<1> DEFINE used == Suffixes(members, request[c].subnet)
           ip(n) == toIPAddress(request[c].subnet, n)
<1>1. /\ Inside(c) /\ request[c].op = "createIPAddress"
      /\ free[c] = FirstGap(used)
      /\ subnets' = subnets /\ ports' = ports
  BY DEF addSuffix, Found, Inside, IInv, SearchStillCurrent
<1>2. /\ free[c] \in Nat /\ free[c] \notin used
      /\ \A i \in Nat : i < free[c] => i \in used
  <2>1. used \in SUBSET Nat /\ IsFiniteSet(used)
    BY NumbersInUse DEF IInv, DataOK
  <2> HIDE DEF used
  <2>2. /\ FirstGap(used) \in Nat /\ FirstGap(used) \notin used
        /\ \A i \in Nat : i < FirstGap(used) => i \in used
    BY <2>1, FirstGapIsLeastFree
  <2> QED
    BY <1>1, <2>2
<1>3. \A n \in Nat : n \in used <=> ip(n) \in members
  <2>1. ASSUME NEW n \in Nat, n \in used PROVE ip(n) \in members
    <3>1. PICK m \in members : m.subnet = request[c].subnet /\ m.suffix = n
      BY <2>1 DEF Suffixes
    <3>2. m = [subnet |-> m.subnet, suffix |-> m.suffix]
      BY DEF IInv, DataOK, IPAddresses
    <3> QED
      BY <3>1, <3>2 DEF toIPAddress
  <2>2. ASSUME NEW n \in Nat, ip(n) \in members PROVE n \in used
    BY <2>2 DEF Suffixes, toIPAddress
  <2> QED
    BY <2>1, <2>2
<1>4. MaxSuffix \in Nat
  BY AddressesAssumption
<1>5. CASE free[c] > MaxSuffix /\ members' = members /\ release(c, NoAddress)
  <2>1. \A n \in 0 .. MaxSuffix : ip(n) \in members
    BY <1>2, <1>3, <1>4, <1>5
  <2>2. Book!Answer(c, Book!NoAddress)
    BY <1>1, <1>5, ReleaseAnswers, BookTypes
  <2> QED
    BY <1>1, <1>5, <2>1, <2>2, BookOperators DEF Book!RefuseIP
<1>6. CASE free[c] <= MaxSuffix /\ members' = members \cup {ip(free[c])}
           /\ release(c, ip(free[c]))
  <2>1. free[c] \in 0 .. MaxSuffix /\ ip(free[c]) \notin members
    BY <1>2, <1>3, <1>4, <1>6
  <2>2. Book!Answer(c, ip(free[c]))
    BY <1>1, <1>6, ReleaseAnswers
  <2> QED
    BY <1>1, <1>6, <2>1, <2>2, BookOperators DEF Book!GrantIP
<1> QED
  BY <1>5, <1>6 DEF addSuffix

\* createTCPAddress grants a free port of a member.
LEMMA AddPortServes ==
  ASSUME IInv, NEW c \in Calls, addPort(c)
  PROVE  Book!GrantPort(c)
<1> DEFINE used == PortsOf(ports, host(c))
           tcp == toTCPAddress(host(c), free[c])
<1>1. /\ Inside(c) /\ request[c].op = "createTCPAddress"
      /\ host(c) \in members /\ free[c] = FirstGap(used)
      /\ ports' = ports \cup {tcp} /\ release(c, tcp)
      /\ UNCHANGED <<subnets, members>>
  BY DEF addPort, Found, Inside, IInv, SearchStillCurrent
<1>2. used \in SUBSET Nat /\ IsFiniteSet(used)
  BY NumbersInUse DEF IInv, DataOK
<1>3. /\ free[c] \in Nat /\ free[c] \notin used
      /\ \A i \in Nat : i < free[c] => i \in used
  <2> HIDE DEF used
  <2>1. /\ FirstGap(used) \in Nat /\ FirstGap(used) \notin used
        /\ \A i \in Nat : i < FirstGap(used) => i \in used
    BY <1>2, FirstGapIsLeastFree
  <2> QED
    BY <1>1, <2>1
<1>4. free[c] \in 0 .. Cardinality(used)
  <2>1. Cardinality(used) \in Nat
    BY <1>2, FS_CardinalityType
  <2>2. 0 .. (free[c] - 1) \in SUBSET used
    BY <1>3
  <2>3. Cardinality(0 .. (free[c] - 1)) = free[c]
    BY <1>3, FS_Interval
  <2>4. Cardinality(0 .. (free[c] - 1)) <= Cardinality(used)
    BY <1>2, <2>2, FS_Subset
  <2> QED
    BY <1>3, <2>1, <2>3, <2>4
<1>5. tcp \notin ports
  <2>1. parseIPAddress(tcp) = host(c) /\ tcp.port = free[c]
    BY <1>1 DEF parseIPAddress, toTCPAddress, IInv, DataOK, IPAddresses
  <2> QED
    BY <1>3, <2>1 DEF PortsOf
<1>6. Book!Answer(c, tcp)
  BY <1>1, ReleaseAnswers
<1>7. host(c) = parseIPAddress(request[c].addr)
  BY DEF host
<1> HIDE DEF used
<1>8. used = PortsOf(ports, parseIPAddress(request[c].addr))
  BY <1>7 DEF used
<1>9. Book!Cardinality(used) = Cardinality(used)
  BY DEF Book!Cardinality, Cardinality
<1> QED
  BY <1>1, <1>4, <1>5, <1>6, <1>7, <1>8, <1>9, BookOperators DEF Book!GrantPort

\* Claiming a port, and every exception, is an operation of the book.
LEMMA OthersServe ==
  ASSUME IInv, NEW c \in Calls,
         noHost(c) \/ claimPort(c) \/ removeHost(c) \/ removePort(c)
  PROVE  Book!Claim(c) \/ Book!Throw(c) \/ Book!FreeIP(c) \/ Book!FreePort(c)
<1>1. Inside(c) /\ subnets' = subnets
  BY DEF Inside, noHost, claimPort, removeHost, removePort, Running
<1>2. \A a : release(c, a) => Book!Answer(c, a)
  BY <1>1, ReleaseAnswers
<1>3. host(c) = Book!parseIPAddress(request[c].addr)
  BY BookOperators DEF host
<1>4. CASE noHost(c)
  <2>1. host(c) \notin members
    BY <1>4 DEF noHost, IInv, DataOK, PortsHosted
  <2> QED
    BY <1>2, <1>3, <1>4, <2>1 DEF noHost, Running, Book!Throw
<1>5. CASE claimPort(c)
  <2> DEFINE tcp == request[c].addr
  <2>1. host(c).subnet = tcp.subnet /\ host(c) = parseIPAddress(tcp)
    BY DEF host, parseIPAddress
  <2>2. request[c].op = "claimTCPAddress"
    BY <1>5 DEF claimPort, Running
  <2>3. CASE /\ tcp.subnet \in subnets /\ tcp \notin ports
             /\ members' = members \cup {host(c)} /\ ports' = ports \cup {tcp}
             /\ release(c, Done)
    BY <1>2, <1>3, <2>2, <2>3 DEF Book!Claim
  <2>4. CASE tcp \in ports /\ members' = members \cup {host(c)}
             /\ UNCHANGED ports /\ release(c, Throws)
    <3>1. members' = members
      BY <2>1, <2>4 DEF IInv, DataOK, PortsHosted
    <3> QED
      BY <1>2, <2>2, <2>4, <3>1 DEF Book!Throw
  <2>5. CASE tcp.subnet \notin subnets /\ UNCHANGED <<members, ports>>
             /\ release(c, Throws)
    BY <1>2, <2>2, <2>5 DEF Book!Throw
  <2> QED
    BY <1>5, <2>1, <2>3, <2>4, <2>5 DEF claimPort
<1>6. CASE removeHost(c)
  BY <1>2, <1>3, <1>6, BookOperators DEF removeHost, Running, Book!FreeIP
<1>7. CASE removePort(c)
  BY <1>2, <1>7 DEF removePort, Running, Book!FreePort
<1> QED
  BY <1>4, <1>5, <1>6, <1>7

\* The search is invisible, but for the subnet that a knock opens.
LEMMA SearchOpens ==
  ASSUME IInv, NEW c \in Calls, findSuffix(c) \/ findPort(c)
  PROVE  Book!OpenSubnet(c) \/ UNCHANGED Book!vars
<1>1. callStatus[c] = "pending" /\ callStatus' = callStatus
  <2>1. pc[c] = "entered" /\ pc' = [pc EXCEPT ![c] = "found"]
    BY DEF findSuffix, findPort, search, Running
  <2> QED
    BY <2>1 DEF callStatus, IInv, MutexTypes
<1>2. CASE findSuffix(c)
  BY <1>1, <1>2 DEF findSuffix, search, Running, Book!OpenSubnet
<1>3. CASE findPort(c)
  BY <1>1, <1>3 DEF findPort, search, Book!vars
<1> QED
  BY <1>2, <1>3

\* Asking and resuming are seen as such.
LEMMA AcquireAsks ==
  ASSUME IInv, NEW c \in Calls, NEW r \in Requests, acquire(c, r)
  PROVE  Book!Ask(c, r)
<1>1. callStatus[c] = "idle" /\ callStatus' = [callStatus EXCEPT ![c] = "pending"]
  BY DEF acquire, Lock, Queue, callStatus, IInv, MutexTypes
<1> QED
  BY <1>1 DEF acquire, Book!Ask

\* A caller that goes on takes the answer of its call and leaves it idle.
LEMMA ResumeTakes ==
  ASSUME IInv, NEW c \in Calls, resume(c)
  PROVE  Book!Take(c)
<1>1. callStatus[c] = "answered" /\ callStatus' = [callStatus EXCEPT ![c] = "idle"]
  BY DEF resume, callStatus, IInv, MutexTypes
<1> QED
  BY <1>1 DEF resume, Book!Take, Book!NoRequest

\* THEOREM PoolImplementsBook: however the calls of the handlers overlap, each
\* answers as one indivisible operation on the addresses in use.
THEOREM PoolImplementsBook == Spec => Book!Init /\ [][Book!Next]_(Book!vars)
<1>1. Init => Book!Init
  BY DEF Init, Book!Init, callStatus, Book!NoRequest
<1>2. ASSUME IInv, [Next]_vars PROVE [Book!Next]_(Book!vars)
  <2>1. ASSUME NEW c \in Calls, NEW r \in Requests, acquire(c, r)
        PROVE  Book!Next
    BY <1>2, <2>1, AcquireAsks DEF Book!Next
  <2>2. ASSUME NEW c \in Calls, resume(c) PROVE Book!Next
    BY <1>2, <2>2, ResumeTakes DEF Book!Next
  <2>3. ASSUME NEW c \in Calls, Step(c) PROVE [Book!Next]_(Book!vars)
    <3>1. CASE findSuffix(c) \/ findPort(c)
      BY <1>2, <3>1, SearchOpens DEF Book!Next
    <3>2. CASE addSuffix(c)
      BY <1>2, <3>2, AddSuffixServes DEF Book!Next, Book!Serve
    <3>3. CASE addPort(c)
      BY <1>2, <3>3, AddPortServes DEF Book!Next, Book!Serve
    <3>4. CASE noHost(c) \/ claimPort(c) \/ removeHost(c) \/ removePort(c)
      BY <1>2, <3>4, OthersServe DEF Book!Next, Book!Serve
    <3> QED
      BY <2>3, <3>1, <3>2, <3>3, <3>4 DEF Step
  <2>4. CASE UNCHANGED vars
    BY <2>4 DEF vars, Book!vars, callStatus
  <2> QED
    BY <1>2, <2>1, <2>2, <2>3, <2>4 DEF Next
<1> QED
  BY <1>1, <1>2, Invariance, PTL DEF Spec

====
