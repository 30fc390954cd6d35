----------------------------- MODULE Transport -----------------------------
(***************************************************************************)
(* The TCP transport of the servers (core/transport) and the queues that   *)
(* bring its events to the work threads of a module (core/ctrl).           *)
(*                                                                         *)
(* A listener accepts a socket, enters it in m_SocketMap, announces it by  *)
(* a connect event and hands it to the read thread fd % readThreads.  The  *)
(* read thread polls in passes; it turns what it reads into message events *)
(* and removes the sockets that have their closeflag set.  A removed       *)
(* socket is closed in the third pass after that, so that a send thread    *)
(* that has looked it up is not left with a file descriptor the kernel has *)
(* given away.  Send threads take what the module sends from queues of     *)
(* their own.                                                              *)
(***************************************************************************)
EXTENDS Naturals, Sequences, FiniteSets

CONSTANTS
  Fds,          \* file descriptors
  ReadThreads, SendThreads, WorkThreads,
  ReadThreadOf, SendThreadOf, WorkThreadOf,  \* fd % the number of threads
  MaxAddrs,     \* bound: connections accepted
  MaxMsgs,      \* bound: messages a client sends on a connection
  MaxSends,     \* bound: sends by the module
  SendPasses,   \* assumed: the passes a read thread makes during one send
  None          \* no connection

\* encodeAddrInfo numbers the connections.
Addrs == 1..MaxAddrs

ASSUME TransportAssumption ==
  /\ MaxAddrs \in Nat /\ MaxMsgs \in Nat /\ MaxSends \in Nat /\ SendPasses \in Nat
  /\ ReadThreadOf \in [Fds -> ReadThreads]
  /\ SendThreadOf \in [Fds -> SendThreads]
  /\ WorkThreadOf \in [Fds -> WorkThreads]
  /\ None \notin Addrs /\ None \notin Fds

VARIABLES
  fdtab,    \* the kernel: the connection an open fd stands for
  fd,       \* the fd of a connection
  stage,    \* where a connection's TSocketMsg stands
  flag,     \* closeflag
  delTimes,
  info,     \* m_SocketInfo: handed to the read thread, not taken yet
  inpass,   \* is the read thread in the sweep or the poll of a pass?
  todo,     \* sockets of mySocketList the sweep has still to look at
  heard,    \* messages read from a connection
  events,   \* m_MsgQueue of the module, by work thread
  sendq,    \* m_SendMsgQueue
  sending,  \* the send in progress in a send thread
  sent,     \* sends so far
  misdirected,  \* history: did a send of CoveredPasses go out on another connection?
  seen, count   \* what the module has handled: see ConnEvents

tvars == <<fdtab, fd, stage, flag, delTimes, info, inpass, todo>>
vars  == <<tvars, heard, events, sendq, sending, sent, misdirected, seen, count>>

\* "accepted" by the kernel, entered in the map, "announced" by the connect
\* event, "listed" in m_SocketInfo, "polled" in mySocketList, "erased" from the
\* map, "dying" in m_DeleteSockets after the close event, "freed".
Stages == {"unused", "accepted", "mapped", "announced", "listed", "polled", "erased",
           "dying", "freed"}

Kinds == {"connect", "message", "close", "sendfail"}

Mapped(a) == stage[a] \in {"mapped", "announced", "listed", "polled"}

\* A send: the connection, whether it has a body, whether it closes.
Sends == [to : Addrs, body : BOOLEAN, close : BOOLEAN]

Idle == [to |-> None, fd |-> None, close |-> FALSE, age |-> 0]

TypeOK ==
  /\ fdtab \in [Fds -> Addrs \cup {None}]
  /\ fd \in [Addrs -> Fds \cup {None}]
  /\ stage \in [Addrs -> Stages]
  /\ flag \in [Addrs -> BOOLEAN]
  /\ delTimes \in [Addrs -> 0..2]
  /\ info \in [ReadThreads -> Seq(Addrs)]
  /\ inpass \in [ReadThreads -> BOOLEAN]
  /\ todo \in [ReadThreads -> SUBSET Addrs]
  /\ heard \in [Addrs -> 0..MaxMsgs]
  /\ events \in [WorkThreads -> Seq(Addrs \X Kinds \X (0..MaxMsgs))]
  /\ sendq \in [SendThreads -> Seq(Sends)]
  /\ \A s \in SendThreads :
       sending[s] = Idle \/ sending[s] \in [to : Addrs, fd : Fds, close : BOOLEAN,
                                            age : 0..SendPasses]
  /\ sent \in 0..MaxSends
  /\ misdirected \in BOOLEAN
  /\ seen \in [Addrs -> {"none", "live", "gone"}]
  /\ count \in [Addrs -> 0..MaxMsgs]

Init ==
  /\ fdtab = [f \in Fds |-> None]
  /\ fd = [a \in Addrs |-> None]
  /\ stage = [a \in Addrs |-> "unused"]
  /\ flag = [a \in Addrs |-> FALSE]
  /\ delTimes = [a \in Addrs |-> 0]
  /\ info = [t \in ReadThreads |-> <<>>]
  /\ inpass = [t \in ReadThreads |-> FALSE]
  /\ todo = [t \in ReadThreads |-> {}]
  /\ heard = [a \in Addrs |-> 0]
  /\ events = [w \in WorkThreads |-> <<>>]
  /\ sendq = [s \in SendThreads |-> <<>>]
  /\ sending = [s \in SendThreads |-> Idle]
  /\ sent = 0
  /\ misdirected = FALSE
  /\ seen = [a \in Addrs |-> "none"]
  /\ count = [a \in Addrs |-> 0]

-----------------------------------------------------------------------------
\* PutMsgToQueue(pMsg, atoi(addrinfo)): the addrinfo starts with the fd.
Put(a, kind, n) ==
  events' = [events EXCEPT ![WorkThreadOf[fd[a]]] = Append(@, <<a, kind, n>>)]

\* accept and encodeAddrInfo.
Accept(a, f) ==
  /\ stage[a] = "unused" /\ \A b \in Addrs : b < a => stage[b] # "unused"
  /\ fdtab[f] = None
  /\ fdtab' = [fdtab EXCEPT ![f] = a]
  /\ fd' = [fd EXCEPT ![a] = f]
  /\ stage' = [stage EXCEPT ![a] = "accepted"]
  /\ UNCHANGED <<flag, delTimes, info, inpass, todo, heard, events, sendq, sending,
                 sent, misdirected, seen, count>>

\* AddSocket enters the socket in m_SocketMap, ...
EnterMap(a) ==
  /\ stage[a] = "accepted"
  /\ stage' = [stage EXCEPT ![a] = "mapped"]
  /\ UNCHANGED <<fdtab, fd, flag, delTimes, info, inpass, todo, heard, events, sendq,
                 sending, sent, misdirected, seen, count>>

\* ... OnClientConnect puts the connect event, ...
Announce(a) ==
  /\ stage[a] = "mapped"
  /\ stage' = [stage EXCEPT ![a] = "announced"]
  /\ Put(a, "connect", 0)
  /\ UNCHANGED <<fdtab, fd, flag, delTimes, info, inpass, todo, heard, sendq, sending,
                 sent, misdirected, seen, count>>

\* ... and only then is it handed to the read thread.  Mutant of MayHandOver:
\* as soon as it is in the map.
MayHandOverEarly(a) == stage[a] \in {"mapped", "announced"}

MayHandOver(a) == stage[a] = "announced"

HandOver(a) ==
  /\ MayHandOver(a)
  /\ stage' = [stage EXCEPT ![a] = "listed"]
  /\ LET t == ReadThreadOf[fd[a]] IN info' = [info EXCEPT ![t] = Append(@, a)]
  /\ UNCHANGED <<fdtab, fd, flag, delTimes, inpass, todo, heard, events, sendq,
                 sending, sent, misdirected, seen, count>>

-----------------------------------------------------------------------------
\* The connections of a read thread that stand at a stage.
At(t, st) == {a \in Addrs : stage[a] = st /\ ReadThreadOf[fd[a]] = t}

\* The sockets CheckSocketsAndFree closes.  Mutants: a pass too early, a pass
\* too late.
DueEarly(t) == {a \in At(t, "dying") : delTimes[a] >= 1}

DueLate(t) == {a \in At(t, "dying") : delTimes[a] >= 3}

Due(t) == {a \in At(t, "dying") : delTimes[a] >= 2}

\* A pass begins: CheckSocketsAndFree, then one socket is taken from
\* m_SocketInfo.  If epoll_ctl fails it is to be closed.
StartPass(t) ==
  /\ ~inpass[t]
  /\ \A s \in SendThreads :
       sending[s] # Idle /\ ReadThreadOf[sending[s].fd] = t => sending[s].age < SendPasses
  /\ sending' = [s \in SendThreads |->
                   IF sending[s] # Idle /\ ReadThreadOf[sending[s].fd] = t
                   THEN [sending[s] EXCEPT !.age = @ + 1] ELSE sending[s]]
  /\ fdtab' = [f \in Fds |-> IF \E a \in Due(t) : fd[a] = f THEN None ELSE fdtab[f]]
  /\ delTimes' = [a \in Addrs |->
                    IF a \in At(t, "dying") \ Due(t) THEN delTimes[a] + 1 ELSE delTimes[a]]
  /\ LET taken == IF info[t] = <<>> THEN {} ELSE {Head(info[t])}
     IN  /\ info' = IF taken = {} THEN info ELSE [info EXCEPT ![t] = Tail(@)]
         /\ stage' = [a \in Addrs |-> IF a \in Due(t) THEN "freed"
                                      ELSE IF a \in taken THEN "polled" ELSE stage[a]]
         /\ \E failed \in SUBSET taken :
              flag' = [a \in Addrs |-> flag[a] \/ a \in failed]
         /\ todo' = [todo EXCEPT ![t] = At(t, "polled") \cup taken]
  /\ inpass' = [inpass EXCEPT ![t] = TRUE]
  /\ UNCHANGED <<fd, heard, events, sendq, sent, misdirected, seen, count>>

\* When a socket is to leave.  Mutant: by its timeout alone.
ToLeaveLate(a, late) == late

ToLeave(a, late) == flag[a] \/ late

\* The sweep: a socket with its closeflag set, or silent for too long, leaves
\* epoll, mySocketList and m_SocketMap, ...
Sweep(t, a) ==
  /\ a \in todo[t] /\ At(t, "erased") = {}
  /\ todo' = [todo EXCEPT ![t] = @ \ {a}]
  /\ \E late \in BOOLEAN :
       stage' = IF ToLeave(a, late) THEN [stage EXCEPT ![a] = "erased"] ELSE stage
  /\ UNCHANGED <<fdtab, fd, flag, delTimes, info, inpass, heard, events, sendq, sending,
                 sent, misdirected, seen, count>>

\* ... OnClientClose puts the close event and it goes to m_DeleteSockets.
AnnounceClose(a) ==
  /\ stage[a] = "erased"
  /\ stage' = [stage EXCEPT ![a] = "dying"]
  /\ Put(a, "close", 0)
  /\ UNCHANGED <<fdtab, fd, flag, delTimes, info, inpass, todo, heard, sendq, sending,
                 sent, misdirected, seen, count>>

Polling(t) == inpass[t] /\ todo[t] = {} /\ At(t, "erased") = {}

\* OnReadMsg: a message, or the end of the stream, an error, bad bytes.
Read(t, a) ==
  /\ Polling(t) /\ a \in At(t, "polled")
  /\ \/ /\ heard[a] < MaxMsgs
        /\ heard' = [heard EXCEPT ![a] = @ + 1]
        /\ Put(a, "message", heard[a] + 1)
        /\ UNCHANGED flag
     \/ /\ flag' = [flag EXCEPT ![a] = TRUE]
        /\ UNCHANGED <<heard, events>>
  /\ UNCHANGED <<fdtab, fd, stage, delTimes, info, inpass, todo, sendq, sending, sent,
                 misdirected, seen, count>>

EndPass(t) ==
  /\ Polling(t)
  /\ inpass' = [inpass EXCEPT ![t] = FALSE]
  /\ UNCHANGED <<fdtab, fd, stage, flag, delTimes, info, todo, heard, events, sendq,
                 sending, sent, misdirected, seen, count>>

-----------------------------------------------------------------------------
\* A work thread takes the next event of its queue.
Handle(w) ==
  /\ events[w] # <<>>
  /\ events' = [events EXCEPT ![w] = Tail(@)]
  /\ LET a == Head(events[w])[1]
         kind == Head(events[w])[2]
     IN  /\ seen' = IF kind = "connect" THEN [seen EXCEPT ![a] = "live"]
                    ELSE IF kind = "close" THEN [seen EXCEPT ![a] = "gone"] ELSE seen
         /\ count' = IF kind = "message" THEN [count EXCEPT ![a] = Head(events[w])[3]]
                     ELSE count
  /\ UNCHANGED <<tvars, heard, sendq, sending, sent, misdirected>>

\* TTcpServer::SendMsg: a module sends only to connections it has not seen go.
SendMsg(a, body, close) ==
  /\ seen[a] = "live" /\ sent < MaxSends
  /\ sent' = sent + 1
  /\ LET s == SendThreadOf[fd[a]]
     IN  sendq' = [sendq EXCEPT ![s] = Append(@, [to |-> a, body |-> body, close |-> close])]
  /\ UNCHANGED <<tvars, heard, events, sending, misdirected, seen, count>>

\* CloseSocket(addrinfo).  Mutants: it does not look the connection up by its
\* addrinfo but by its fd; it gives up when the read thread is in a pass, as a
\* try-lock of the map would make it.
CloseSocketByFd(a) ==
  [b \in Addrs |-> flag[b] \/ (Mapped(b) /\ fd[b] = fd[a])]

CloseSocketTry(a) ==
  IF Mapped(a) /\ ~inpass[ReadThreadOf[fd[a]]] THEN [flag EXCEPT ![a] = TRUE] ELSE flag

CloseSocket(a) == IF Mapped(a) THEN [flag EXCEPT ![a] = TRUE] ELSE flag

\* SendMsgResponse finds the socket: if it is gone the module is told so.
PopSend(s) ==
  /\ sending[s] = Idle /\ sendq[s] # <<>>
  /\ sendq' = [sendq EXCEPT ![s] = Tail(@)]
  /\ LET p == Head(sendq[s])
     IN  \/ /\ ~Mapped(p.to)
            /\ IF p.body THEN Put(p.to, "sendfail", 0) ELSE UNCHANGED events
            /\ UNCHANGED <<flag, sending>>
         \/ /\ Mapped(p.to) /\ ~p.body
            /\ flag' = CloseSocket(p.to)
            /\ UNCHANGED <<events, sending>>
         \/ /\ Mapped(p.to) /\ p.body
            /\ sending' = [sending EXCEPT ![s] =
                             [to |-> p.to, fd |-> fd[p.to], close |-> p.close, age |-> 0]]
            /\ UNCHANGED <<events, flag>>
  /\ UNCHANGED <<fdtab, fd, stage, delTimes, info, inpass, todo, heard, sent,
                 misdirected, seen, count>>

\* The passes a send may last without harm: CheckSocketsAndFree waits for three.
CoveredPasses == 2

\* OnSendMsg writes to the fd that was found; the close comes after it.
FinishSend(s) ==
  /\ sending[s] # Idle
  /\ sending' = [sending EXCEPT ![s] = Idle]
  /\ LET p == sending[s]
     IN  /\ \E ok \in BOOLEAN :
              /\ ok => fdtab[p.fd] # None
              /\ IF ok THEN UNCHANGED events ELSE Put(p.to, "sendfail", 0)
         /\ misdirected' =
              (misdirected \/ (p.age <= CoveredPasses /\ fdtab[p.fd] \notin {p.to, None}))
         /\ flag' = IF p.close THEN CloseSocket(p.to) ELSE flag
  /\ UNCHANGED <<fdtab, fd, stage, delTimes, info, inpass, todo, heard, sendq, sent,
                 seen, count>>

Reader(t) ==
  \/ StartPass(t) \/ EndPass(t)
  \/ \E a \in Addrs : Sweep(t, a) \/ (a \in At(t, "erased") /\ AnnounceClose(a))

Listener(a) == EnterMap(a) \/ Announce(a) \/ HandOver(a)

Sender(s) == PopSend(s) \/ FinishSend(s)

Next ==
  \/ \E a \in Addrs :
       \/ \E f \in Fds : Accept(a, f)
       \/ Listener(a)
       \/ \E body, close \in BOOLEAN : SendMsg(a, body, close)
  \/ \E t \in ReadThreads : Reader(t) \/ \E a \in Addrs : Read(t, a)
  \/ \E w \in WorkThreads : Handle(w)
  \/ \E s \in SendThreads : Sender(s)

Spec == Init /\ [][Next]_vars

\* Every thread runs on; clients and the module do as they like.
Fairness ==
  /\ \A a \in Addrs : WF_vars(Listener(a))
  /\ \A t \in ReadThreads : WF_vars(Reader(t))
  /\ \A w \in WorkThreads : WF_vars(Handle(w))
  /\ \A s \in SendThreads : WF_vars(Sender(s))

FairSpec == Spec /\ Fairness

-----------------------------------------------------------------------------
\* The module's work threads see a connection as ConnEvents promises, whatever
\* the threads of the transport do: this is what the critical sections of the
\* presence server rely on.
C == INSTANCE ConnEvents

ImplementsConnEvents == C!Spec

\* The bytes of a send never go out on another connection that was given the
\* same file descriptor, if the read thread makes at most CoveredPasses passes
\* during the send; other sends may last longer.
NoMisdirectedSend == ~misdirected

\* A request to close that comes late never hits the next connection on the
\* same fd: a closeflag is set by the connection's own read, its own failure to
\* be polled, or a send to it.
ClosedForAReason ==
  [][\A a \in Addrs :
       flag[a]' /\ ~flag[a] =>
         \/ \E t \in ReadThreads :
              Read(t, a) \/ (StartPass(t) /\ info[t] # <<>> /\ Head(info[t]) = a)
         \/ \E s \in SendThreads :
              \/ PopSend(s) /\ Head(sendq[s]).to = a
              \/ FinishSend(s) /\ sending[s].to = a]_vars

\* A socket that is to be closed is closed, its fd given back.
FlaggedIsFreed == \A a \in Addrs : flag[a] ~> (stage[a] = "freed")

\* A module that sends a closing message handles the close event in the end:
\* the fairness Presence assumes of its transport.
AskedToClose ==
  \A a \in Addrs :
    (\E s \in SendThreads, i \in 1..MaxSends :
       i <= Len(sendq[s]) /\ sendq[s][i].to = a /\ sendq[s][i].close)
      ~> (seen[a] = "gone")
=============================================================================
