----------------------------- MODULE MCPresence -----------------------------
(***************************************************************************)
(* Presence on small sets: two connections of m1 on work threads of their  *)
(* own, and one connection of m2.                                          *)
(***************************************************************************)
EXTENDS Presence, TLC

CONSTANTS m1, m2, a1, a2, b1, t1, t2, t3

MCModuleOf == (a1 :> m1) @@ (a2 :> m1) @@ (b1 :> m2)
MCThreadOf == (a1 :> t1) @@ (a2 :> t2) @@ (b1 :> t3)
=============================================================================
