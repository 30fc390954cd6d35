------------------------------ MODULE Mailbox ------------------------------
(***************************************************************************)
(* What the servers promise about a chat: it is stored once, it leaves the *)
(* store only after its user has received it, and its sender is told that  *)
(* it was taken only if it was stored.                                     *)
(***************************************************************************)
CONSTANT Msgs

VARIABLES
  box,       \* chats stored for users who have not acknowledged them
  got,       \* chats a client of their user has received
  settled,   \* chats that have left the box
  promised   \* chats whose sender was answered

vars == <<box, got, settled, promised>>

Init == box = {} /\ got = {} /\ settled = {} /\ promised = {}

Store(m) ==
  /\ m \notin box \cup settled
  /\ box' = box \cup {m}
  /\ UNCHANGED <<got, settled, promised>>

Deliver(m) ==
  /\ m \in box \cup settled
  /\ got' = got \cup {m}
  /\ UNCHANGED <<box, settled, promised>>

Settle(m) ==
  /\ m \in box \cap got
  /\ box' = box \ {m}
  /\ settled' = settled \cup {m}
  /\ UNCHANGED <<got, promised>>

Promise(m) ==
  /\ m \in box \cup settled
  /\ promised' = promised \cup {m}
  /\ UNCHANGED <<box, got, settled>>

Next == \E m \in Msgs : Store(m) \/ Deliver(m) \/ Settle(m) \/ Promise(m)

Spec == Init /\ [][Next]_vars
=============================================================================
