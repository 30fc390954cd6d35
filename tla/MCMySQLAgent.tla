--------------------------- MODULE MCMySQLAgent ----------------------------
(* An instance of MySQLAgent: one work thread beside the keep-alive thread. *)
EXTENDS MySQLAgent

CONSTANTS handler
=============================================================================
