----------------------------- MODULE MCUpstream -----------------------------
(***************************************************************************)
(* Upstream on small sets.                                                 *)
(***************************************************************************)
EXTENDS Upstream, TLC
=============================================================================
