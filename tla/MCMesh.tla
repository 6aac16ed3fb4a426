---- MODULE MCMesh ----
(***************************************************************************)
(* Two pages, of which the first may run two threads.                      *)
(***************************************************************************)
EXTENDS Mesh, TLC

CONSTANTS a, b, e, f, p1, p2

TwoPages == {p1, p2}
TwoClients == {a, b}
ThreeClients == {a, b, e}
FourClients == {a, b, e, f}

PageOf == [c \in Clients |-> IF c \in {a, e} THEN p1 ELSE p2]
====
