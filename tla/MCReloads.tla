---- MODULE MCReloads ----
(***************************************************************************)
(* One page of two is reloaded.                                            *)
(***************************************************************************)
EXTENDS MCMesh, Reloads
====
