------------------------------ MODULE MCGroups ------------------------------
(* Instances of Groups: four users, room for three members.                *)
EXTENDS Groups

CONSTANTS u1, u2, u3, u4, w1, w2, m1
=============================================================================
