---------------------------- MODULE MCBaseQueue ----------------------------
(***************************************************************************)
(* BaseQueue on small sets: four items, the first of a higher priority.    *)
(***************************************************************************)
EXTENDS BaseQueue, TLC

CONSTANTS i1, i2, i3, i4

MCPrioOf == (i1 :> 1) @@ (i2 :> 0) @@ (i3 :> 0) @@ (i4 :> 0)
=============================================================================
