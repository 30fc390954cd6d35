---------------------------- MODULE MCTransport ----------------------------
(***************************************************************************)
(* Transport on small sets.                                                *)
(***************************************************************************)
EXTENDS Transport

CONSTANTS f1, r1, s1, w1

OneReader == [f \in Fds |-> r1]
OneSender == [f \in Fds |-> s1]
OneWorker == [f \in Fds |-> w1]
=============================================================================
