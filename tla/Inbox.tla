---- MODULE Inbox ----
(***************************************************************************)
(* What the receiving side of a transporter promises for each pair of a    *)
(* remote and a local client: a message queue is received from in the      *)
(* order it was put in, each message once, until a shutdown drops what is  *)
(* left. Transporter, which hands a message to a waiting receiver by an    *)
(* event and takes it from the queue later, is shown to implement this.    *)
(***************************************************************************)
EXTENDS Sequences

CONSTANTS Keys, Messages

VARIABLES queue,      \* the messages of each pair that nobody received yet
          received    \* the messages of each pair that were received, in order

Init ==
  /\ queue = [k \in Keys |-> <<>>]
  /\ received = [k \in Keys |-> <<>>]

Put(k, m) ==
  /\ queue' = [queue EXCEPT ![k] = Append(@, m)]
  /\ UNCHANGED received

Take(k) ==
  /\ queue[k] # <<>>
  /\ received' = [received EXCEPT ![k] = Append(@, Head(queue[k]))]
  /\ queue' = [queue EXCEPT ![k] = Tail(@)]

Drop(K) ==
  /\ queue' = [k \in Keys |-> IF k \in K THEN <<>> ELSE queue[k]]
  /\ UNCHANGED received

Next ==
  \/ \E k \in Keys : Take(k) \/ \E m \in Messages : Put(k, m)
  \/ \E K \in SUBSET Keys : Drop(K)

Spec == Init /\ [][Next]_<<queue, received>>

====
