------------------------------ MODULE ImSocket ------------------------------
(***************************************************************************)
(* The client library (server/imserver/libclient), with the application    *)
(* that uses it (ios/IMPro/src/xmpp) and a presence server as it is seen   *)
(* from the client.                                                        *)
(*                                                                         *)
(* A CImSocket has two threads.  RecvThread connects, reads, times out and *)
(* reconnects; SendThread takes messages from m_sendqueue, sends them, and *)
(* then puts a chat into m_ackqueue, where it waits for its ack.  Both     *)
(* call OnCallBack, one at a time (DoSocket's static mutex); the           *)
(* application hands messages in and calls Start from threads of its own.  *)
(* m_socketinfo.m_mutex guards the descriptor; Connect holds it from       *)
(* socket() until m_socketfd is set, so that is one step.                  *)
(*                                                                         *)
(* Time is abstract: the front of m_ackqueue may be older than m_timeout,  *)
(* the connection idle for a minute, whenever the thread looks.            *)
(***************************************************************************)
EXTENDS Integers, Sequences, SequencesExt

CONSTANTS
  Chats,      \* chat messages of the application, by m_sendmsgid
  TryLimit,   \* connects that fail in a row before RecvThread parks, less one: 2
  MaxConns,   \* connections the client makes
  MaxEvents   \* calls of Start and SetNetworkStatus and idle minutes, together

ASSUME ClientAssumption ==
  /\ TryLimit \in Nat /\ MaxConns \in Nat /\ MaxEvents \in Nat
  /\ Chats \cap {"none", "login", "alive", "out"} = {}

ConnIds == 1 .. MaxConns

VARIABLES
  status,   \* m_loginstatus
  net,      \* m_networkstatus
  fd,       \* m_socketfd: 0 or the connection it stands for
  wake,     \* tokens in m_awuqueue
  sendq,    \* m_sendqueue
  ackq,     \* m_ackqueue
  rbuf,     \* m_recvbuf: messages received and not handled yet
  rpc,      \* where RecvThread stands
  rfd,      \* RecvThread's curfd
  tries,    \* RecvThread's trytimes
  spc,      \* where SendThread stands
  smsg,     \* the message SendThread has taken
  sfd,      \* SendThread's curfd
  srv,      \* the server's view of a connection
  up,       \* messages on their way to the server, per connection
  down,     \* what the server has sent on the connection m_socketfd
  taken,    \* chats the server has stored
  told,     \* what the application has been told of a chat, in order
  handed,   \* chats the application has handed in
  sentOn,   \* history: the connection a chat was sent on, or 0
  bound     \* calls of Start and SetNetworkStatus and keep-alives so far

vars == <<status, net, fd, wake, sendq, ackq, rbuf, rpc, rfd, tries, spc, smsg,
          sfd, srv, up, down, taken, told, handed, sentOn, bound>>

app    == <<handed, bound>>
recver == <<rpc, rfd, tries>>
sender == <<spc, smsg, sfd>>
server == <<srv, up, taken, sentOn>>
link   == <<fd, down>>

Outgoing == Chats \cup {"login", "alive"}
Incoming == Chats \cup {"alive", "out"}   \* an ack is its chat's id
Verdicts == {"acked", "failed"}

TypeOK ==
  /\ status \in {0, 1} /\ net \in {0, 1}
  /\ fd \in 0 .. MaxConns /\ rfd \in 0 .. MaxConns /\ sfd \in 0 .. MaxConns
  /\ wake \in 0 .. bound
  /\ sendq \in Seq(Outgoing) /\ ackq \in Seq(Chats) /\ rbuf \in Seq(Incoming)
  /\ rpc \in {"top", "parked", "connect", "poll", "late", "reset", "recv", "closed"}
  /\ tries \in 0 .. TryLimit + 1
  /\ spc \in {"pop", "send", "await"}
  /\ smsg \in Outgoing \cup {"none"}
  /\ srv \in [ConnIds -> {"none", "fresh", "logged", "gone"}]
  /\ up \in [ConnIds -> Seq(Outgoing)] /\ down \in Seq(Incoming)
  /\ taken \subseteq Chats /\ handed \subseteq Chats
  /\ told \in [Chats -> Seq(Verdicts)]
  /\ sentOn \in [Chats -> 0 .. MaxConns]
  /\ bound \in 0 .. MaxEvents

Init ==
  /\ status = 0 /\ net = 1 /\ fd = 0 /\ wake = 0
  /\ sendq = <<>> /\ ackq = <<>> /\ rbuf = <<>>
  /\ rpc = "top" /\ rfd = 0 /\ tries = 0
  /\ spc = "pop" /\ smsg = "none" /\ sfd = 0
  /\ srv = [c \in ConnIds |-> "none"]
  /\ up = [c \in ConnIds |-> <<>>] /\ down = <<>>
  /\ taken = {} /\ handed = {}
  /\ told = [m \in Chats |-> <<>>]
  /\ sentOn = [m \in Chats |-> 0]
  /\ bound = 0

-----------------------------------------------------------------------------
\* Connections made so far; socket() and connect() give the next one.
Made == {c \in ConnIds : srv[c] # "none"}
NextConn == CHOOSE c \in ConnIds \ Made : TRUE

CountEvent == bound < MaxEvents /\ bound' = bound + 1

\* The application is told v of every chat in s.
Tell(s, v) == [m \in Chats |-> IF Contains(s, m) THEN Append(told[m], v) ELSE told[m]]

\* Mutant of Drain: the chats are reported and left in m_ackqueue.
DrainKeeping == told' = Tell(ackq, "failed") /\ UNCHANGED ackq

\* OnCallBack for every event but a message: what waits for an ack is reported
\* as failed, by MSG_SOCKET_TIMEOUT or MSG_WORK_CLEAR, which the application
\* treats alike.
Drain == told' = Tell(ackq, "failed") /\ ackq' = <<>>

\* closesocket, with linger 0: what is on its way from the server is lost.
Close == fd' = 0 /\ down' = <<>>

\* CSocketInfo::clear: close, forget what was received and who waits.
Clear == Close /\ rbuf' = <<>> /\ ackq' = <<>>

-----------------------------------------------------------------------------
(* The application.                                                        *)

\* CImModule::Start, at login or again after a PushSend that failed.
Start ==
  /\ CountEvent
  /\ status' = 1
  /\ Clear
  /\ wake' = wake + 1
  /\ UNCHANGED <<net, sendq, told, handed, recver, sender, server>>

\* PushSend of a new chat, whichever: ids are interchangeable.  The threads run
\* since the first Start.
HandIn ==
  /\ bound > 0
  /\ handed # Chats
  /\ LET m == CHOOSE x \in Chats \ handed : TRUE
     IN  handed' = handed \cup {m} /\ sendq' = Append(sendq, m)
  /\ UNCHANGED <<status, net, link, wake, ackq, rbuf, told, bound, recver, sender,
                 server>>

\* A first call before the first Start would change nothing.
SetNetworkStatus(n) ==
  /\ bound > 0 /\ CountEvent
  /\ net' = n
  /\ wake' = wake + n
  /\ UNCHANGED <<status, link, sendq, ackq, rbuf, told, handed, recver, sender, server>>

-----------------------------------------------------------------------------
(* RecvThread.                                                             *)

\* curfd is read again before it is used next.
RecvGoto(p) == rpc' = p /\ rfd' = 0 /\ UNCHANGED tries

\* Nothing to do for this client, or too many connects in a row have failed.
MustPark == status = 0 \/ (fd = 0 /\ tries > TryLimit)

\* Park waits on m_awuqueue; tokens that are there already are used up, two at most.
Park ==
  /\ rpc = "top" /\ bound > 0
  /\ MustPark
  /\ IF wake = 0
     THEN RecvGoto("parked") /\ UNCHANGED wake
     ELSE /\ wake' = IF wake = 1 THEN 0 ELSE wake - 2
          /\ tries' = 0 /\ UNCHANGED <<rpc, rfd>>
  /\ UNCHANGED <<status, net, link, sendq, ackq, rbuf, told, app, sender, server>>

\* Mutant of Unpark: the failed connects still count.
UnparkTired ==
  /\ rpc = "parked"
  /\ wake > 0 \/ (status = 1 /\ net = 1)
  /\ wake' = IF wake = 0 THEN 0 ELSE wake - 1
  /\ rpc' = "top" /\ UNCHANGED <<tries, rfd>>
  /\ UNCHANGED <<status, net, link, sendq, ackq, rbuf, told, app, sender, server>>

\* A token, or the three minutes a client that knows of a network waits.
Unpark ==
  /\ rpc = "parked"
  /\ wake > 0 \/ (status = 1 /\ net = 1)
  /\ wake' = IF wake = 0 THEN 0 ELSE wake - 1
  /\ rpc' = "top" /\ tries' = 0 /\ UNCHANGED rfd
  /\ UNCHANGED <<status, net, link, sendq, ackq, rbuf, told, app, sender, server>>

\* The top of the loop otherwise: poll the connection, or clear and connect.
Top ==
  /\ rpc = "top" /\ bound > 0
  /\ ~MustPark
  /\ \/ /\ fd # 0
        /\ rfd' = fd /\ rpc' = "poll" /\ UNCHANGED tries
        /\ UNCHANGED <<link, rbuf, ackq>>
     \/ /\ fd = 0
        /\ Clear
        /\ RecvGoto("connect")
  /\ UNCHANGED <<status, net, wake, sendq, told, app, sender, server>>

\* Connect succeeds: the callback (CXmppStack::Login) queues a login, then
\* m_socketfd is set; RecvThread uses up all tokens.
ConnectOk ==
  /\ rpc = "connect" /\ Made # ConnIds
  /\ Drain
  /\ sendq' = Append(sendq, "login")
  /\ fd' = NextConn /\ UNCHANGED down
  /\ net' = 1 /\ status' = 1
  /\ srv' = [srv EXCEPT ![NextConn] = "fresh"]
  /\ wake' = 0
  /\ RecvGoto("top")
  /\ UNCHANGED <<rbuf, app, sender, up, taken, sentOn>>

ConnectFail ==
  /\ rpc = "connect"
  /\ tries' = tries + 1 /\ rpc' = "top" /\ UNCHANGED rfd
  /\ UNCHANGED <<status, net, link, wake, sendq, ackq, rbuf, told, app, sender, server>>

\* Mutant of Expired: only the second chat that waits is looked at.
ExpiredSecond == Len(ackq) > 1

\* m_ackqueue has a front, and it is older than m_timeout.
Expired == ackq # <<>>

\* RecvThread looks at the front, which SendThread may take out and delete
\* meanwhile: the look decides, be it at a chat that is gone.
Peek ==
  /\ rpc = "poll"
  /\ Expired
  /\ RecvGoto("late")
  /\ UNCHANGED <<status, net, link, wake, sendq, ackq, rbuf, told, app, sender, server>>

AckTimeout ==
  /\ rpc = "late"
  /\ Drain
  /\ RecvGoto("reset")
  /\ UNCHANGED <<status, net, link, wake, sendq, rbuf, app, sender, server>>

\* The clear() behind MSG_SOCKET_TIMEOUT or MSG_RECV_CLOSED.
Reset ==
  /\ rpc \in {"reset", "closed"}
  /\ Clear
  /\ RecvGoto("top")
  /\ UNCHANGED <<status, net, wake, sendq, told, app, sender, server>>

\* recv() gives what has arrived; what arrives later is a later recv's.
Recv ==
  /\ rpc = "poll"
  /\ rfd = fd
  /\ down # <<>>
  /\ rbuf' = rbuf \o down
  /\ down' = <<>> /\ UNCHANGED fd
  /\ RecvGoto("recv")
  /\ UNCHANGED <<status, net, wake, sendq, ackq, told, app, sender, server>>

\* recv() fails: the server has closed, or a Start has.
RecvClosed ==
  /\ rpc = "poll"
  /\ rfd # fd \/ (srv[rfd] = "gone" /\ down = <<>>)
  /\ Drain
  /\ RecvGoto("closed")
  /\ UNCHANGED <<status, net, link, wake, sendq, rbuf, app, sender, server>>

\* Nothing arrived within 10 ms; after an idle minute a keep-alive is queued.
Quiet ==
  /\ rpc = "poll"
  /\ rfd # fd \/ (srv[rfd] # "gone" /\ down = <<>>)
  /\ \/ UNCHANGED <<sendq, bound>>
     \/ /\ CountEvent
        /\ sendq' = Append(sendq, "alive")
  /\ RecvGoto("top")
  /\ UNCHANGED <<status, net, link, wake, ackq, rbuf, told, handed, sender, server>>

\* Mutant of Answers: any ack is taken for the front of m_ackqueue.
AnswersAny(x, m) == x \in Chats

\* The ack x belongs to the chat m.
Answers(x, m) == x = m

\* ClearQueue for an ack or a keep-alive answer x: an empty m_ackqueue
\* swallows it; the chat in front is settled by its own ack; any other answer
\* fails every chat that waits and resets the connection.
ClearQueue(x) ==
  \/ /\ ackq = <<>>
     /\ rbuf' = Tail(rbuf)
     /\ UNCHANGED <<ackq, told, link>>
  \/ /\ ackq # <<>> /\ Answers(x, Head(ackq))
     /\ told' = Tell(<<Head(ackq)>>, "acked")
     /\ ackq' = Tail(ackq)
     /\ rbuf' = Tail(rbuf)
     /\ UNCHANGED link
  \/ /\ ackq # <<>> /\ ~Answers(x, Head(ackq))
     /\ Drain
     /\ Close /\ rbuf' = <<>>

\* One message of m_recvbuf; the thread goes on when none is left.
Handle ==
  /\ rpc = "recv"
  /\ \/ /\ rbuf = <<>>
        /\ RecvGoto("top")
        /\ UNCHANGED <<status, link, rbuf, ackq, told>>
     \/ /\ rbuf # <<>>
        /\ LET x == Head(rbuf)
           IN  \/ /\ x \in Chats \cup {"alive"}
                  /\ ClearQueue(x)
                  /\ UNCHANGED status
               \/ \* IM_KICKOUT, or a login the server has refused: Release
                  /\ x = "out"
                  /\ status' = 0 /\ Close
                  /\ rbuf' = Tail(rbuf)
                  /\ UNCHANGED <<ackq, told>>
        /\ UNCHANGED recver
  /\ UNCHANGED <<net, wake, sendq, app, sender, server>>

-----------------------------------------------------------------------------
(* SendThread.                                                             *)

\* Done with the message: curfd and socketmsg are read again before use.
SendNext == spc' = "pop" /\ smsg' = "none" /\ sfd' = 0

SendPop ==
  /\ spc = "pop" /\ sendq # <<>>
  /\ smsg' = Head(sendq) /\ sendq' = Tail(sendq)
  /\ sfd' = fd
  /\ spc' = "send"
  /\ UNCHANGED <<status, net, link, wake, ackq, rbuf, told, app, recver, server>>

\* MSG_SEND_CLOSED, or MSG_SEND_ERROR from a send that fails.  The message
\* itself is reported by a new CSocketMsg, which has its id and no m_imtype:
\* the application's callback ignores it.
SendFail ==
  /\ spc = "send"
  /\ Drain
  /\ SendNext
  /\ UNCHANGED <<status, net, link, wake, sendq, rbuf, app, recver, server>>

\* Mutant of SendOk: a chat that was sent does not wait for an ack.
SendOkAndForget ==
  /\ spc = "send" /\ sfd # 0 /\ fd # 0
  /\ up' = [up EXCEPT ![fd] = IF srv[fd] = "gone" THEN @ ELSE Append(@, smsg)]
  /\ SendNext
  /\ sentOn' = [m \in Chats |-> IF m = smsg THEN fd ELSE sentOn[m]]
  /\ UNCHANGED <<status, net, link, wake, sendq, ackq, rbuf, told, app, recver,
                 srv, taken>>

\* send(curfd).  A descriptor closed in between may be that of the connection
\* made since; a send to a server that is gone may still succeed.
SendOk ==
  /\ spc = "send" /\ sfd # 0 /\ fd # 0
  /\ up' = [up EXCEPT ![fd] = IF srv[fd] = "gone" THEN @ ELSE Append(@, smsg)]
  /\ IF smsg \in Chats THEN spc' = "await" /\ UNCHANGED smsg /\ sfd' = 0 ELSE SendNext
  /\ sentOn' = [m \in Chats |-> IF m = smsg THEN fd ELSE sentOn[m]]
  /\ UNCHANGED <<status, net, link, wake, sendq, ackq, rbuf, told, app, recver,
                 srv, taken>>

\* Only now does the chat wait for its ack.
SendAwait ==
  /\ spc = "await"
  /\ ackq' = Append(ackq, smsg)
  /\ SendNext
  /\ UNCHANGED <<status, net, link, wake, sendq, rbuf, told, app, recver, server>>

-----------------------------------------------------------------------------
(* The server, as the client meets it.                                     *)

\* The message is dealt with and s sent back, to a client that still listens.
Answer(c, s) == /\ up' = [up EXCEPT ![c] = Tail(@)]
                /\ down' = IF c = fd THEN down \o s ELSE down
                /\ UNCHANGED fd

ServerHandle(c) ==
  /\ srv[c] \in {"fresh", "logged"} /\ up[c] # <<>>
  /\ LET x == Head(up[c])
     IN  \/ \* a first message that is no login: XML is closed, BYTE stays
            /\ x \in Chats /\ srv[c] = "fresh"
            /\ UNCHANGED srv \/ srv' = [srv EXCEPT ![c] = "gone"]
            /\ Answer(c, <<>>) /\ UNCHANGED taken
         \/ \* a second login on a connection is ignored
            /\ x = "login" /\ srv[c] = "logged"
            /\ Answer(c, <<>>) /\ UNCHANGED <<srv, taken>>
         \/ /\ x = "login" /\ srv[c] = "fresh"
            /\ \/ srv' = [srv EXCEPT ![c] = "logged"] /\ Answer(c, <<>>)
               \/ srv' = [srv EXCEPT ![c] = "gone"] /\ Answer(c, <<"out">>)
            /\ UNCHANGED taken
         \/ \* stored and answered, stored only, or neither
            /\ x \in Chats /\ srv[c] = "logged"
            /\ \/ taken' = taken \cup {x} /\ Answer(c, <<x>>)
               \/ taken' = taken \cup {x} /\ Answer(c, <<>>)
               \/ UNCHANGED taken /\ Answer(c, <<>>)
            /\ UNCHANGED srv
         \/ /\ x = "alive"
            /\ Answer(c, IF srv[c] = "logged" THEN <<"alive">> ELSE <<>>)
            /\ UNCHANGED <<srv, taken>>
  /\ UNCHANGED <<status, net, wake, sendq, ackq, rbuf, told, app, recver, sender,
                 sentOn>>

\* The user logs in elsewhere, or the connection breaks.
ServerClose(c) ==
  /\ srv[c] \in {"fresh", "logged"}
  /\ srv' = [srv EXCEPT ![c] = "gone"]
  /\ up' = [up EXCEPT ![c] = <<>>]
  /\ \/ srv[c] = "logged" /\ c = fd /\ down' = Append(down, "out")
     \/ c = fd /\ down' = <<>>
     \/ UNCHANGED down
  /\ UNCHANGED fd
  /\ UNCHANGED <<status, net, wake, sendq, ackq, rbuf, taken, told, app, recver,
                 sender, sentOn>>

-----------------------------------------------------------------------------
RecvThread == Park \/ Unpark \/ Top \/ ConnectOk \/ ConnectFail \/ Peek
              \/ AckTimeout \/ Reset \/ Recv \/ RecvClosed \/ Quiet \/ Handle

SendThread == SendPop \/ SendFail \/ SendOk \/ SendAwait

Next ==
  \/ Start
  \/ HandIn
  \/ \E n \in {0, 1} : SetNetworkStatus(n)
  \/ RecvThread
  \/ SendThread
  \/ \E c \in ConnIds : ServerHandle(c) \/ ServerClose(c)

Spec == Init /\ [][Next]_vars

\* The threads run, a server that is up accepts in the end, and time passes:
\* a front that waits gets older than m_timeout.
Fairness ==
  /\ WF_vars(RecvThread)
  /\ WF_vars(SendThread)
  /\ SF_vars(ConnectOk)
  /\ SF_vars(Peek)

FairSpec == Spec /\ Fairness

-----------------------------------------------------------------------------
\* The client has let go of m: not queued, not in SendThread's hand, not awaited.
Gone(m) == /\ m \in handed
           /\ ~Contains(sendq, m) /\ ~Contains(ackq, m)
           /\ ~(spc # "pop" /\ smsg = m)

\* The application is told that a chat was taken (SS_SENT) only when the server
\* has stored that chat, though acks are matched with nothing but the front of
\* m_ackqueue and may arrive before the chat is in it.
AckedWasTaken == \A m \in Chats : Contains(told[m], "acked") => m \in taken

\* One verdict per chat: never a failure after an ack, nor an ack after a failure.
OneVerdict == \A m \in Chats : Len(told[m]) <= 1

\* While the connection a chat was sent on stands, the chat is not forgotten:
\* it waits, or the application was told.
SilentOnlyWithoutConnection ==
  \A m \in Chats : Gone(m) /\ told[m] = <<>> => sentOn[m] = 0 \/ sentOn[m] # fd

\* What CXmppStack.cpp:379-380 says: a chat that got no ack is reported as failed.
UnackedChatFails == \A m \in Chats : Gone(m) => told[m] # <<>>

\* A client that is started and knows of a network gets a connection, however
\* RecvThread's parking, its count of failed connects and the calls of Start and
\* SetNetworkStatus fall together.
Reconnects ==
  (status = 1 /\ net = 1 /\ fd = 0 /\ Made # ConnIds)
    ~> (fd # 0 \/ status = 0 \/ net = 0)

\* No chat waits for its ack for good, but at a client that was kicked out or
\* was told that there is no network.
AwaitedIsSettled ==
  \A m \in Chats :
    (Contains(ackq, m) /\ status = 1)
      ~> (~Contains(ackq, m) \/ status = 0 \/ net = 0)
=============================================================================
