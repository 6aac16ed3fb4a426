---- MODULE Reloads ----
(***************************************************************************)
(* Pages that are reloaded, or closed and opened again. The clients of the *)
(* page come back under the ids they had, which are the first that are     *)
(* free, while the connection at the other end is never told "closed".     *)
(***************************************************************************)
EXTENDS Mesh

CONSTANT MaxReloads   \* bound: the reloads of pages

VARIABLE reloads

\* A reload ends the threads of the page, their WebSockets and its transporter.
\* The other clients only log the goodbye.
Reload(p) ==
  LET its == {c \in Clients : page[c] = p} IN
  /\ reloads < MaxReloads
  /\ its \cap clients # {}
  /\ reloads' = reloads + 1
  /\ clients' = clients \ its
  /\ toServer' = [c \in Clients |-> IF c \in its THEN <<>> ELSE toServer[c]]
  /\ toClient' = [c \in Clients |-> IF c \in its THEN <<>> ELSE toClient[c]]
  /\ connections' = [connections EXCEPT ![p] = [r \in Clients |-> 0]]
  /\ channels' = [k \in DOMAIN channels |-> IF k[1] = p THEN 0 ELSE channels[k]]
  /\ queuedCandidates' = [queuedCandidates EXCEPT ![p] = [r \in Clients |-> {}]]
  /\ peers' = [i \in DOMAIN peers |-> IF peers[i].page = p THEN [peers[i] EXCEPT !.at = "gone"]
                                                           ELSE peers[i]]
  /\ UNCHANGED <<objects, emitted>>

ReloadInit == Init /\ reloads = 0

ReloadNext ==
  \/ Next /\ UNCHANGED reloads
  \/ \E p \in Pages : Reload(p)

ReloadSpec ==
  /\ ReloadInit /\ [][ReloadNext]_<<vars, reloads>>
  /\ WF_vars(Progress)

====
