---------------------------- MODULE MCDiscovery -----------------------------
(* Instances of Discovery: one presence and one xdm server.                *)
EXTENDS Discovery, TLC

CONSTANTS p1, x1

AllOne == (p1 :> 1) @@ (x1 :> 1)
=============================================================================
