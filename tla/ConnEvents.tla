----------------------------- MODULE ConnEvents -----------------------------
(***************************************************************************)
(* What a server module is promised about the connections of its clients:  *)
(* for each of them it handles one connect event, then its messages in the *)
(* order the client sent them, then one close event, and nothing after it. *)
(***************************************************************************)
EXTENDS Naturals

CONSTANT Addrs

VARIABLES
  seen,    \* "none", "live" after the connect event, "gone" after the close
  count    \* messages handled

vars == <<seen, count>>

Init == seen = [a \in Addrs |-> "none"] /\ count = [a \in Addrs |-> 0]

ConnectEvent(a) ==
  /\ seen[a] = "none"
  /\ seen' = [seen EXCEPT ![a] = "live"]
  /\ UNCHANGED count

MessageEvent(a, n) ==
  /\ seen[a] = "live" /\ n = count[a] + 1
  /\ count' = [count EXCEPT ![a] = n]
  /\ UNCHANGED seen

CloseEvent(a) ==
  /\ seen[a] = "live"
  /\ seen' = [seen EXCEPT ![a] = "gone"]
  /\ UNCHANGED count

Next ==
  \E a \in Addrs :
    ConnectEvent(a) \/ MessageEvent(a, count[a] + 1) \/ CloseEvent(a)

Spec == Init /\ [][Next]_vars
=============================================================================
