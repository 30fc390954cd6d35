----------------------------- MODULE MCDelivery -----------------------------
(***************************************************************************)
(* Delivery on small sets.                                                 *)
(***************************************************************************)
EXTENDS Delivery, TLC

CONSTANTS m1, m2, a1, a2, b1, t1, t2, t3, u, v, x, y

\* a1 and a2 are connections of m1 on work threads of their own.
OneModuleOf   == [c \in Conns |-> m1]
TwoModuleOf   == (a1 :> m1) @@ (b1 :> m2)
OwnThreadOf   == (a1 :> t1) @@ (a2 :> t2)
TwoThreadOf   == (a1 :> t1) @@ (b1 :> t3)

ToU == [m \in Msgs |-> u]
=============================================================================
