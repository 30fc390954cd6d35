------------------------------ MODULE Sessions ------------------------------
(***************************************************************************)
(* What a presence process promises about sessions, without its maps, its  *)
(* threads or its database: in each process a jid is held by at most one   *)
(* connection.  A connection takes at most one jid, from whoever held it,  *)
(* keeps it until it ends or another one takes it, and never comes back.   *)
(***************************************************************************)
CONSTANTS Modules, Conns, Jids, ModuleOf, None

VARIABLES
  holder,   \* the connection that holds a jid in a process
  ended     \* connections that were closed or lost their jid

vars == <<holder, ended>>

Init ==
  /\ holder = [m \in Modules |-> [j \in Jids |-> None]]
  /\ ended = {}

HoldsNothing(c) == \A m \in Modules, j \in Jids : holder[m][j] # c

\* A login: the former holder, if any, is out.
Take(c, j) ==
  /\ c \notin ended /\ HoldsNothing(c)
  /\ holder' = [holder EXCEPT ![ModuleOf[c]][j] = c]
  /\ ended' = ended \cup ({holder[ModuleOf[c]][j]} \ {None})

\* Some connections end, and only their jids become free.
End(C) ==
  /\ ended' = ended \cup C
  /\ holder' = [m \in Modules |-> [j \in Jids |->
                  IF holder[m][j] \in C THEN None ELSE holder[m][j]]]

Next ==
  \/ \E c \in Conns, j \in Jids : Take(c, j)
  \/ \E C \in SUBSET Conns : End(C)

Spec == Init /\ [][Next]_vars
=============================================================================
