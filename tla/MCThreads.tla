---- MODULE MCThreads ----
(***************************************************************************)
(* A page of two or three threads.                                         *)
(***************************************************************************)
EXTENDS Threads

CONSTANTS t1, t2, t3, l, r, x

TwoThreads == {t1, t2}
ThreeThreads == {t1, t2, t3}
FirstAdded == <<t1>>      \* the other one is only known to the runtime
AllAdded == <<t1, t2, t3>>
Second == {t2}

Own == {l}
Elsewhere == {r}
OnePort == {x}
Reused == {x}
====
