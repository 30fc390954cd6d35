----------------------------- MODULE MCImSocket -----------------------------
(* Instances of ImSocket: two chats, so that an ack can meet another chat  *)
(* in front of m_ackqueue.                                                 *)
EXTENDS ImSocket

CONSTANTS m1, m2

TwoChats == {m1, m2}
=============================================================================
