---- MODULE MCTransporter ----
(***************************************************************************)
(* One remote client, and one or two clients of this page.                 *)
(***************************************************************************)
EXTENDS Transporter, TLC

CONSTANTS r1, l1, l2, p1, p2, d1, d2, k1, k2, a1

OneRemote == {r1}
OneLocal == {l1}
TwoLocals == {l1, l2}
TwoConnections == {p1, p2}
TwoCandidates == {d1, d2}
OneCall == {k1}
TwoCalls == {k1, k2}
OneSender == {a1}

Symmetry ==
  Permutations({p1, p2}) \cup Permutations({d1, d2}) \cup Permutations({k1, k2})
    \cup Permutations({l1, l2})
====
