---- MODULE AddressPool ----
(***************************************************************************)
(* The address functions of SignalingServer as the code runs them:         *)
(* createIPAddress, createTCPAddress, claimTCPAddress, removeIPAddress and *)
(* removeTCPAddress all work on the map `subnets` under `subnetsMutex`,    *)
(* and the two that create an address await between the search for a free  *)
(* number and its use. Any number of calls, made by handlers that are      *)
(* themselves suspended, wait for the mutex in the order they asked.       *)
(*                                                                         *)
(* The nested maps subnet -> suffix -> MMember(ports) are flattened to the *)
(* set of members and the set of ports. The array `ports` never holds a    *)
(* number twice (FirstGap is free, claimTCPAddress looks first), so a set  *)
(* loses nothing.                                                          *)
(***************************************************************************)
EXTENDS Addresses, Sequences

CONSTANTS Calls,      \* the calls that can be under way at once
          Requests,   \* what a handler may ask for
          Done,       \* the answer of a call that returns nothing
          Throws,     \* the answer of a call that throws
          NoCall,     \* nobody holds the mutex
          PortBound   \* bound: createTCPAddress is called below this many ports

ASSUME NoCallAssumption == NoCall \notin Calls

VARIABLES subnets, members, ports,
          holder,     \* the call that holds subnetsMutex
          waiting,    \* the calls queued for it, first come first served
          pc,         \* where each call is
          request,    \* its function and argument
          free,       \* newSuffix or newPort, once found
          reply       \* what it returned

vars == <<subnets, members, ports, holder, waiting, pc, request, free, reply>>

\* What the caller sees of a call: waiting, searching and writing are one.
callStatus == [c \in Calls |-> IF pc[c] \in {"idle", "answered"} THEN pc[c]
                                                              ELSE "pending"]

Book == INSTANCE AddressBook WITH status <- callStatus

ASSUME RequestsAssumption == Book!RequestsTyped

TypeOK ==
  /\ subnets \subseteq Subnets
  /\ members \subseteq IPAddresses
  /\ ports \subseteq TCPAddresses
  /\ holder \in Calls \cup {NoCall}
  /\ waiting \in Seq(Calls)
  /\ pc \in [Calls -> {"idle", "queued", "entered", "found", "answered"}]
  /\ request \in [Calls -> Requests \cup {Book!NoRequest}]
  /\ free \in [Calls -> Nat]
  /\ reply \in [Calls -> Book!Replies]

Init ==
  /\ subnets = {} /\ members = {} /\ ports = {}
  /\ holder = NoCall
  /\ waiting = <<>>
  /\ pc = [c \in Calls |-> "idle"]
  /\ request = [c \in Calls |-> Book!NoRequest]
  /\ free = [c \in Calls |-> 0]
  /\ reply = [c \in Calls |-> Done]

host(c) == parseIPAddress(request[c].addr)

(***************************************************************************)
(* subnetsMutex: async-mutex takes a free lock at once and hands a busy    *)
(* one to the first waiter when it is released, never back to the pool.    *)
(***************************************************************************)
Lock(c) ==
  /\ holder = NoCall
  /\ holder' = c
  /\ pc' = [pc EXCEPT ![c] = "entered"]
  /\ UNCHANGED waiting

Queue(c) ==
  /\ holder # NoCall
  /\ waiting' = Append(waiting, c)
  /\ pc' = [pc EXCEPT ![c] = "queued"]
  /\ UNCHANGED holder

acquire_NoMutex(c, r) ==   \* mutant: a call goes on without the mutex
  /\ pc[c] = "idle"
  /\ r.op = "createTCPAddress" =>
       Cardinality(PortsOf(ports, parseIPAddress(r.addr))) < PortBound
  /\ request' = [request EXCEPT ![c] = r]
  /\ pc' = [pc EXCEPT ![c] = "entered"]
  /\ UNCHANGED <<subnets, members, ports, holder, waiting, free, reply>>

acquire(c, r) ==
  /\ pc[c] = "idle"
  /\ r.op = "createTCPAddress" =>
       Cardinality(PortsOf(ports, parseIPAddress(r.addr))) < PortBound
  /\ request' = [request EXCEPT ![c] = r]
  /\ Lock(c) \/ Queue(c)
  /\ UNCHANGED <<subnets, members, ports, free, reply>>

release_NotOnThrow(c, a) ==   \* mutant: without `finally`
  /\ reply' = [reply EXCEPT ![c] = a]
  /\ pc' = [pc EXCEPT ![c] = "answered"]
  /\ holder' = IF a = Throws THEN c ELSE NoCall
  /\ UNCHANGED <<waiting, request, free>>

\* `finally { release() }` runs on every way out, the exceptions included.
release(c, a) ==
  /\ reply' = [reply EXCEPT ![c] = a]
  /\ \/ /\ waiting = <<>>
        /\ holder' = NoCall
        /\ pc' = [pc EXCEPT ![c] = "answered"]
        /\ UNCHANGED waiting
     \/ /\ waiting # <<>>
        /\ holder' = Head(waiting)
        /\ pc' = [pc EXCEPT ![c] = "answered", ![Head(waiting)] = "entered"]
        /\ waiting' = Tail(waiting)
  /\ UNCHANGED <<request, free>>

Running(c, op) == pc[c] = "entered" /\ request[c].op = op

Found(c, op) == pc[c] = "found" /\ request[c].op = op

search_FromMinusOne(c, inUse) ==   \* mutant: the index before the gap
  /\ free' = [free EXCEPT ![c] = FirstGap(inUse) - 1]
  /\ pc' = [pc EXCEPT ![c] = "found"]
  /\ UNCHANGED <<members, ports, holder, waiting, request, reply>>

\* The search resolves a promise the call then awaits, inside the mutex.
search(c, inUse) ==
  /\ free' = [free EXCEPT ![c] = FirstGap(inUse)]
  /\ pc' = [pc EXCEPT ![c] = "found"]
  /\ UNCHANGED <<members, ports, holder, waiting, request, reply>>

findSuffix(c) ==
  /\ Running(c, "createIPAddress")
  /\ subnets' = subnets \cup {request[c].subnet}
  /\ search(c, Suffixes(members, request[c].subnet))

addSuffix_NoLimit(c) ==   \* mutant: without the check for 255
  LET ip == toIPAddress(request[c].subnet, free[c]) IN
  /\ Found(c, "createIPAddress")
  /\ members' = members \cup {ip}
  /\ release(c, ip)
  /\ UNCHANGED <<subnets, ports>>

addSuffix(c) ==
  LET ip == toIPAddress(request[c].subnet, free[c]) IN
  /\ Found(c, "createIPAddress")
  /\ \/ /\ free[c] > MaxSuffix
        /\ UNCHANGED members
        /\ release(c, NoAddress)
     \/ /\ free[c] <= MaxSuffix
        /\ members' = members \cup {ip}
        /\ release(c, ip)
  /\ UNCHANGED <<subnets, ports>>

findPort(c) ==
  /\ Running(c, "createTCPAddress")
  /\ host(c).subnet \in subnets /\ host(c) \in members
  /\ search(c, PortsOf(ports, host(c)))
  /\ UNCHANGED subnets

addPort(c) ==
  LET tcp == toTCPAddress(host(c), free[c]) IN
  /\ Found(c, "createTCPAddress")
  /\ ports' = ports \cup {tcp}
  /\ release(c, tcp)
  /\ UNCHANGED <<subnets, members>>

\* SubnetDoesNotExistError or SuffixDoesNotExistError
noHost(c) ==
  /\ Running(c, "createTCPAddress")
  /\ host(c).subnet \notin subnets \/ host(c) \notin members
  /\ release(c, Throws)
  /\ UNCHANGED <<subnets, members, ports>>

\* A claim adds the host to its subnet when no client has it.
claimPort(c) ==
  /\ Running(c, "claimTCPAddress")
  /\ \/ /\ host(c).subnet \in subnets
        /\ members' = members \cup {host(c)}
        /\ \/ /\ request[c].addr \notin ports
              /\ ports' = ports \cup {request[c].addr}
              /\ release(c, Done)
           \/ /\ request[c].addr \in ports   \* PortAlreadyAllocatedError
              /\ UNCHANGED ports
              /\ release(c, Throws)
     \/ /\ host(c).subnet \notin subnets     \* SubnetDoesNotExistError
        /\ UNCHANGED <<members, ports>>
        /\ release(c, Throws)
  /\ UNCHANGED subnets

removeHost_KeepsPorts(c) ==   \* mutant: the ports outlive their member
  /\ Running(c, "removeIPAddress")
  /\ members' = members \ {host(c)}
  /\ release(c, Done)
  /\ UNCHANGED <<subnets, ports>>

\* Deleting the member drops the array of its ports with it.
removeHost(c) ==
  /\ Running(c, "removeIPAddress")
  /\ members' = members \ {host(c)}
  /\ ports' = {p \in ports : parseIPAddress(p) # host(c)}
  /\ release(c, Done)
  /\ UNCHANGED subnets

removePort(c) ==
  /\ Running(c, "removeTCPAddress")
  /\ ports' = ports \ {request[c].addr}
  /\ release(c, Done)
  /\ UNCHANGED <<subnets, members>>

\* The handler that awaited the call goes on, and the call's frame is gone.
resume(c) ==
  /\ pc[c] = "answered"
  /\ pc' = [pc EXCEPT ![c] = "idle"]
  /\ request' = [request EXCEPT ![c] = Book!NoRequest]
  /\ reply' = [reply EXCEPT ![c] = Done]
  /\ free' = [free EXCEPT ![c] = 0]
  /\ UNCHANGED <<subnets, members, ports, holder, waiting>>

Step(c) ==
  \/ findSuffix(c) \/ addSuffix(c) \/ findPort(c) \/ addPort(c) \/ noHost(c)
  \/ claimPort(c) \/ removeHost(c) \/ removePort(c)

Next == \E c \in Calls : \/ \E r \in Requests : acquire(c, r)
                         \/ Step(c) \/ resume(c)

\* The microtask queue runs every continuation whose promise is resolved.
Fairness == \A c \in Calls : WF_vars(Step(c))

Spec == Init /\ [][Next]_vars /\ Fairness

----
(***************************************************************************)
(* Properties                                                              *)
(***************************************************************************)

\* Whoever is past acquire() holds the mutex, and whoever waits is queued once.
MutualExclusion ==
  /\ \A c \in Calls : pc[c] \in {"entered", "found"} <=> c = holder
  /\ \A c \in Calls : pc[c] = "queued" <=> \E i \in DOMAIN waiting : waiting[i] = c
  /\ \A i, j \in DOMAIN waiting : waiting[i] = waiting[j] => i = j
  /\ holder = NoCall => waiting = <<>>

\* The number found before the await is still the next free one after it: no
\* call that ran meanwhile (createIPAddress, claimTCPAddress, removeIPAddress
\* and the others) changed the member or the ports it was computed from.
SearchStillCurrent ==
  \A c \in Calls :
    /\ Found(c, "createIPAddress") =>
         free[c] = FirstGap(Suffixes(members, request[c].subnet))
    /\ Found(c, "createTCPAddress") =>
         host(c) \in members /\ free[c] = FirstGap(PortsOf(ports, host(c)))

\* A port lives in the member of its host, and a member in a known subnet.
PortsHosted ==
  /\ \A p \in ports : parseIPAddress(p) \in members
  /\ \A m \in members : m.subnet \in subnets

\* Every overlapping run of the calls answers as one indivisible operation
\* per call would, and answers each of them.
ImplementsAddressBook == Book!Spec

\* The mutex is never kept and no waiter is overtaken for ever: every call that
\* asked returns, whether it succeeds or throws.
EveryCallReturns ==
  \A c \in Calls : pc[c] \in {"queued", "entered"} ~> pc[c] = "answered"

====
