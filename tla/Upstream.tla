------------------------------ MODULE Upstream ------------------------------
(***************************************************************************)
(* A connection between two servers (core/im TUpStream), as the router     *)
(* keeps one to each presence process.                                     *)
(*                                                                         *)
(* A thread of its own reconnects when there is no socket: it connects,    *)
(* copies the new addrinfo to m_addrinfo and then queues the login.  The   *)
(* work threads of the router queue what they forward, one at a time under *)
(* the router's mutex, which the reconnecting thread does not take: they   *)
(* read m_addrinfo while it is written and can get ahead of the login.     *)
(* One send thread empties the queue; nobody is told what is lost.         *)
(*                                                                         *)
(* The peer is the presence process of Presence, seen from one connection: *)
(* it logs the router in, serves what comes after that, and closes what    *)
(* sends something else first.                                             *)
(*                                                                         *)
(* A send that finds no room for 5 ms is broken off, before or within the  *)
(* message, and the connection stays open: nobody does anything about it.  *)
(***************************************************************************)
EXTENDS Naturals, Sequences, FiniteSets

CONSTANTS
  Msgs,       \* messages the router forwards on this connection
  MaxConns,   \* bound: connections made
  MaxAlive,   \* bound: keep-alive messages sent
  MaxSpoilt,  \* bound: a send is broken off only while fewer are spoilt
  Xml,        \* XML, or BYTE: see FirstMessageNotLogin in Presence
  LoginFails  \* may the peer's login fail and close the connection?

\* Connections are numbered; 0 is an addrinfo that no connection has.
Conns == 1..MaxConns

ASSUME UpstreamAssumption ==
  /\ MaxConns \in Nat /\ MaxAlive \in Nat /\ MaxSpoilt \in Nat
  /\ Xml \in BOOLEAN /\ LoginFails \in BOOLEAN
  /\ "login" \notin Msgs /\ "alive" \notin Msgs /\ "torn" \notin Msgs

VARIABLES
  made,      \* connections made so far
  link,      \* a connection on this side: "none", "open", "broken" or "removed"
  recon,     \* where the reconnecting thread stands
  addrinfo,  \* m_addrinfo
  alives,    \* keep-alive messages so far
  sendq,     \* m_SendMsgQueue: <<connection, message>>
  wire,      \* what the peer has still to handle of a connection
  peer,      \* the peer's User: "none", "fresh", "logged", "kicked" or "gone"
  closing,   \* the peer is to close the connection
  torn,      \* history: connections on which a send was broken off within a message
  spoilt,    \* history: <<connection, message>> of which a send was broken off, or
             \* that followed the first half of another message
  served,    \* history: messages the peer has served
  owned      \* history: the connection of a message that was queued while it
             \* stood and no reconnect was under way

vars == <<made, link, recon, addrinfo, alives, sendq, wire, peer, closing,
          torn, spoilt, served, owned>>

Traffic == Msgs \cup {"login", "alive"}

\* What arrives at the peer: a message, or the first half of one.
Arriving == Traffic \cup {"torn"}

TypeOK ==
  /\ made \in 0..MaxConns
  /\ link \in [Conns -> {"none", "open", "broken", "removed"}]
  /\ recon \in {"sleep", "copy", "login"}
  /\ addrinfo \in 0..MaxConns
  /\ alives \in 0..MaxAlive
  /\ sendq \in Seq((0..MaxConns) \X Traffic)
  /\ wire \in [Conns -> Seq(Arriving)]
  /\ peer \in [Conns -> {"none", "fresh", "logged", "kicked", "gone"}]
  /\ closing \in [Conns -> BOOLEAN]
  /\ torn \subseteq Conns
  /\ spoilt \subseteq Conns \X Traffic
  /\ served \subseteq Msgs
  /\ owned \in [Msgs -> 0..MaxConns \cup {MaxConns + 1}]

\* A message that was not forwarded yet has no connection of its own, one that
\* was forwarded during a reconnect or without a connection has 0.
Unsent == MaxConns + 1

Init ==
  /\ made = 0
  /\ link = [n \in Conns |-> "none"]
  /\ recon = "sleep"
  /\ addrinfo = 0
  /\ alives = 0
  /\ sendq = <<>>
  /\ wire = [n \in Conns |-> <<>>]
  /\ peer = [n \in Conns |-> "none"]
  /\ closing = [n \in Conns |-> FALSE]
  /\ torn = {} /\ spoilt = {}
  /\ served = {}
  /\ owned = [m \in Msgs |-> Unsent]

Open(n) == n \in Conns /\ link[n] = "open"

\* GetConnectionSize: the sockets in m_SocketMap.
Sockets == {n \in Conns : link[n] \in {"open", "broken"}}

-----------------------------------------------------------------------------
\* WorkThread connects when it finds no socket.  A failure changes nothing.
Connect ==
  /\ recon = "sleep" /\ Sockets = {} /\ made < MaxConns
  /\ made' = made + 1
  /\ link' = [link EXCEPT ![made + 1] = "open"]
  /\ peer' = [peer EXCEPT ![made + 1] = "fresh"]
  /\ recon' = "copy"
  /\ UNCHANGED <<addrinfo, alives, sendq, wire, closing,
                 torn, spoilt, served, owned>>

\* Connect ends: strcpy to m_addrinfo, from a TSocketMsg that the read thread
\* may have freed in the meantime, ...
CopyAddr ==
  /\ recon = "copy"
  /\ addrinfo' \in IF link[made] = "removed" THEN {made, 0} ELSE {made}
  /\ recon' = "login"
  /\ UNCHANGED <<made, link, alives, sendq, wire, peer, closing,
                 torn, spoilt, served, owned>>

\* ... and the login.  Mutant of LoginTo: to the connection before.
LoginToOld == made - 1

LoginTo == addrinfo

SendLogin ==
  /\ recon = "login"
  /\ sendq' = Append(sendq, <<LoginTo, "login">>)
  /\ recon' = "sleep"
  /\ UNCHANGED <<made, link, addrinfo, alives, wire, peer, closing,
                 torn, spoilt, served, owned>>

\* WorkThread, every 300 seconds.
KeepAlive ==
  /\ recon = "sleep" /\ Sockets # {} /\ alives < MaxAlive
  /\ alives' = alives + 1
  /\ sendq' = Append(sendq, <<addrinfo, "alive">>)
  /\ UNCHANGED <<made, link, recon, addrinfo, wire, peer, closing,
                 torn, spoilt, served, owned>>

\* What a work thread may find in m_addrinfo: while it is being written, the
\* old or the new one or a mixture.
Readable == IF recon = "copy" THEN {addrinfo, made, 0} ELSE {addrinfo}

\* The router forwards a message.
SendMsg(m) ==
  /\ owned[m] = Unsent
  /\ \E a \in Readable :
       /\ sendq' = Append(sendq, <<a, m>>)
       /\ owned' = [owned EXCEPT ![m] = IF recon = "sleep" /\ Open(a) THEN a ELSE 0]
  /\ UNCHANGED <<made, link, recon, addrinfo, alives, wire, peer, closing,
                 torn, spoilt, served>>

\* A send on an open connection is broken off, with nothing sent or with the
\* first half of the message.
BrokenOff(n, m) ==
  /\ Cardinality(spoilt) < MaxSpoilt
  /\ spoilt' = spoilt \cup {<<n, m>>}
  /\ \/ UNCHANGED <<wire, torn>>
     \/ /\ wire' = [wire EXCEPT ![n] = Append(@, "torn")]
        /\ torn' = torn \cup {n}

SentWhole(n, m) ==
  /\ wire' = [wire EXCEPT ![n] = Append(@, m)]
  /\ spoilt' = IF n \in torn THEN spoilt \cup {<<n, m>>} ELSE spoilt
  /\ UNCHANGED torn

\* The send thread.  What was queued for a socket that is gone, or cannot be
\* written, is lost; a send that is broken off is logged, and that is all.
SendOut ==
  /\ sendq # <<>>
  /\ sendq' = Tail(sendq)
  /\ LET n == Head(sendq)[1]
         m == Head(sendq)[2]
     IN  \/ ~Open(n) /\ UNCHANGED <<wire, torn, spoilt>>
         \/ Open(n) /\ (SentWhole(n, m) \/ BrokenOff(n, m))
  /\ UNCHANGED <<made, link, recon, addrinfo, alives, peer, closing, served, owned>>

\* The read thread removes the socket of a connection that has ended.
Remove(n) ==
  /\ link[n] = "broken"
  /\ link' = [link EXCEPT ![n] = "removed"]
  /\ UNCHANGED <<made, recon, addrinfo, alives, sendq, wire, peer, closing,
                 torn, spoilt, served, owned>>

\* The connection breaks, or the peer's process dies: some of what was on the
\* way still arrives, or none.
Break(n) ==
  /\ Open(n)
  /\ link' = [link EXCEPT ![n] = "broken"]
  /\ \E k \in 0..Len(wire[n]) : wire' = [wire EXCEPT ![n] = SubSeq(@, 1, k)]
  /\ closing' = [closing EXCEPT ![n] = TRUE]
  /\ UNCHANGED <<made, recon, addrinfo, alives, sendq, peer,
                 torn, spoilt, served, owned>>

-----------------------------------------------------------------------------
\* ProcessLogin of a router that is not logged in.  The first statement fails:
\* nothing but the close of this connection.  Otherwise it is logged in and its
\* former connection kicked out, whether or not the last statement then fails
\* and this one is closed as well.
LogIn(n) ==
  LET old == {o \in Conns : peer[o] = "logged"}
  IN  \/ LoginFails /\ closing' = [closing EXCEPT ![n] = TRUE] /\ UNCHANGED peer
      \/ /\ peer' = [o \in Conns |-> IF o = n THEN "logged"
                                     ELSE IF o \in old THEN "kicked" ELSE peer[o]]
         /\ \E fails \in {FALSE, LoginFails} :
              closing' = [o \in Conns |-> closing[o] \/ o \in old \/ (fails /\ o = n)]

PeerLogin(n) ==
  /\ wire[n] # <<>> /\ Head(wire[n]) = "login"
  /\ wire' = [wire EXCEPT ![n] = Tail(@)]
  /\ IF peer[n] = "fresh" THEN LogIn(n) ELSE UNCHANGED <<peer, closing>>
  /\ UNCHANGED <<made, link, recon, addrinfo, alives, sendq,
                 torn, spoilt, served, owned>>

\* Any other message: served after the login, dropped before it.  Before the
\* login XML closes the connection, but for a keep-alive message.
PeerHandle(n) ==
  /\ wire[n] # <<>> /\ Head(wire[n]) \in Msgs \cup {"alive"}
  /\ wire' = [wire EXCEPT ![n] = Tail(@)]
  /\ LET m == Head(wire[n])
     IN  /\ served' = IF peer[n] = "logged" /\ m \in Msgs THEN served \cup {m} ELSE served
         /\ closing' = [closing EXCEPT ![n] =
                          @ \/ (Xml /\ peer[n] = "fresh" /\ m \in Msgs)]
  /\ UNCHANGED <<made, link, recon, addrinfo, alives, sendq, peer,
                 torn, spoilt, owned>>

\* The first half of a message and what follows, as much of it as the length of
\* the former or its XML says: it is no message and closes the connection, or is
\* one that is dropped, or could be a login.
PeerTorn(n) ==
  /\ Len(wire[n]) > 1 /\ Head(wire[n]) = "torn"
  /\ LET rest == Tail(Tail(wire[n]))
     IN  \E w \in {rest, <<"torn">> \o rest} : wire' = [wire EXCEPT ![n] = w]
  /\ \/ UNCHANGED <<peer, closing>>
     \/ closing' = [closing EXCEPT ![n] = TRUE] /\ UNCHANGED peer
     \/ peer[n] = "fresh" /\ LogIn(n)
  /\ UNCHANGED <<made, link, recon, addrinfo, alives, sendq,
                 torn, spoilt, served, owned>>

\* The peer's transport closes the connection; what it had not read is lost.
PeerClose(n) ==
  /\ closing[n] /\ peer[n] \in {"fresh", "logged", "kicked"}
  /\ peer' = [peer EXCEPT ![n] = "gone"]
  /\ wire' = [wire EXCEPT ![n] = <<>>]
  /\ link' = [link EXCEPT ![n] = IF @ = "open" THEN "broken" ELSE @]
  /\ UNCHANGED <<made, recon, addrinfo, alives, sendq, closing,
                 torn, spoilt, served, owned>>

Reconnect == Connect \/ CopyAddr \/ SendLogin

Receives(n) == PeerLogin(n) \/ PeerHandle(n) \/ PeerTorn(n)

Peer(n) == Receives(n) \/ PeerClose(n)

Next ==
  \/ Reconnect \/ KeepAlive \/ SendOut
  \/ \E m \in Msgs : SendMsg(m)
  \/ \E n \in Conns : Remove(n) \/ Break(n) \/ Peer(n)

Spec == Init /\ [][Next]_vars

\* The threads of both sides run; nobody has to send, and nothing has to break.
Fairness ==
  /\ WF_vars(Reconnect) /\ WF_vars(SendOut)
  /\ \A n \in Conns : WF_vars(Remove(n)) /\ WF_vars(Receives(n)) /\ WF_vars(PeerClose(n))

FairSpec == Spec /\ Fairness

-----------------------------------------------------------------------------
\* A message is on its way on the connection it was queued for.
OnItsWay(m) ==
  \/ \E i \in 1..Len(sendq) : sendq[i] = <<owned[m], m>>
  \/ \E i \in 1..Len(wire[owned[m]]) : wire[owned[m]][i] = m

\* A message that is forwarded while a connection stands and the reconnecting
\* thread sleeps is lost only with that connection or by a send that is broken
\* off, its own or that of the login, or in the middle of a message before one of
\* them: it cannot be in front of the login.
LostWithItsConnection ==
  \A m \in Msgs :
    (/\ Open(owned[m]) /\ ~closing[owned[m]]
     /\ {<<owned[m], m>>, <<owned[m], "login">>} \cap spoilt = {})
      => m \in served \/ OnItsWay(m)

\* A connection that stays open is logged in, unless a send spoils the login: the
\* login is sent once for each connection and to that connection, since the
\* thread looks no further once there is a socket.
OpenIsLoggedIn ==
  \A n \in Conns :
    Open(n) ~> (peer[n] = "logged" \/ ~Open(n) \/ <<n, "login">> \in spoilt)
=============================================================================
