# A TLA+ model of the aiai instant-messaging servers

The repository holds the servers of an instant-messaging service
(`src/server/imserver`), its client library and several applications. This
project models the servers and the client library: how the servers find each
other and keep track of who is online, how a chat gets to its recipient or to
the members of a group, what its sender is told, and the transport, queues,
database and server connections underneath.
The modules are checked with TLC on small instances, and the central results
are proved with TLAPS for instances of every size.

Every definition names the code it stands for in `PROJECT.json` ("map").

## 1. The system

### 1.1 Components

The server processes are instances of one framework (`core/`): `main.cpp` forks
a child, restarts it when it dies, and loads one module (presence, message,
router, ...) into it. A module is called with events (`SOCK_TYPE_CONNECT`,
`MESSAGE`, `CLOSE`, `SENDFAIL`) by work threads, each with a queue of its own.

| component | state | operations | role |
|---|---|---|---|
| presence (`presence/presence.cpp`) | `m_addrmap` (connection -> User), `m_usermap` (name -> resource -> User), rows of `im_online_info` | connect, login, upstream login, chat, ack, logout, ping, close, `IM_CLOSE`, timer | holds the clients' sessions; several processes share the table |
| message (`message/message.cpp`) | rows of `im_msg_chat`, `im_msg_gchat` | chat, group chat, ack, close | stores chats, looks the recipient up, sends notices |
| router (`router/router.cpp`) | `m_upstreammap` (moduleaddr -> connection) | forward ack, chat, notice and `IM_CLOSE`; timer that finds presence servers | brings what the message server sends to the right presence process |
| dispatch (`dispatch/dispatch.cpp`) | pool of presence and xdm servers, read from `im_module_info` | query, timer | tells a client where to connect |
| iospush (`iospush/iospush.cpp`) | queue of pushes | chat | pushes to users without a session |
| xdm (`xdm/`) | friends, groups, profiles; iqs in `im_msg_chat` | HTTP requests, timer | user data |
| client library (`libclient/`, used by `src/ios/IMPro/src/xmpp`) | `m_socketfd`, `m_sendqueue`, `m_ackqueue`, `m_recvbuf`, `m_awuqueue` | `RecvThread`, `SendThread`, `Start`, `PushSend`, `SetNetworkStatus`, `OnCallBack` | connects, logs in, sends chats and tells the application what became of them |
| TCP transport (`core/transport`) | `m_SocketMap`, socket lists of read threads, send queues | accept, read, send, close, time out | sockets and their events |
| queue (`core/util/include/BaseQueue.h`) | map from priority to list, condition variable | `TryPut`, `TryGet` | between all threads |
| server-to-server connection (`core/im/imsocket.cpp`) | `m_addrinfo`, the login string | connect, log in, keep alive, send | presence -> message -> router -> presence |
| database layer (`core/db`) | one `TMySQLAgent` per work thread | `setMySQLParam`, `excute`, keep-alive of `CCheckSyncMysql` | MySQL |

The path of a chat is: sender's presence -> message server (INSERT, look-up) ->
router -> recipient's presence (SELECT by id, push) -> client -> ack ->
presence -> message server (UPDATE or DELETE). Presence processes talk to each
other the same way: a login that finds the user online elsewhere sends an
`IM_CLOSE` through message server and router. Nothing between servers is
acknowledged or sent again; durable state is in MySQL only.

A group chat is stored once and then, for each member, as a copy that goes the
way of a chat. The members are kept by the xdm server, in tables the message
server reads.

Servers find each other through the rows of `im_module_info`: each module writes
`uptime` every minute, and a row counts while it is younger than three minutes.
A presence server refreshes its row only while that of its message server is
fresh. The router reads the rows every three minutes and connects to the
presence servers; the dispatch server reads them into the pool from which it
sends clients to a presence and an xdm server.

### 1.2 What is hard

- Work threads of one process interleave at every SQL statement (they run
  outside the mutex), and the processes share `im_online_info`.
- A login works on a copy of its `User` through three statements while another
  login, a close or an `IM_CLOSE` may end it.
- The transport reuses file descriptors while send threads still hold them.
- A notice and a login race for the same stored chat.
- Statements fail, with an effect or without, messages between servers are lost,
  every process may die at any step and is started again.
- A send that finds no room for 5 ms is broken off in the middle of a message, and
  the connection stays open.
- `m_addrinfo` of a server-to-server connection is written and read by threads
  that share no lock.
- A database agent's statement is set outside the mutex under which it is
  executed, by a work thread and by the thread that keeps idle connections
  alive; a statement that failed is sent again and may take effect twice.
- A client's two threads, its application and the server act on `m_ackqueue`
  and the descriptor at once; acks are matched with the front of a queue only.
- What the dispatch server and the router know is as old as the timers let it.
- A group's members are counted in one statement and inserted in others; a group
  chat is answered before any member has a copy.

`PROJECT.json` lists the hazards line by line with the properties that cover
each of them. What makes each component correct, in a sentence:

- *sessions*: both maps agree; a jid has at most one connection per process; a
  connection loses its session only by its own end or to a later login and is
  closed then; the table says online exactly where a session is, but for named
  races.
- *delivery*: a chat leaves the table only after a client received it; its
  sender is told "taken" only when it was stored; it is pushed to its own user
  only; and no order of look-up and login leaves it waiting for a user who is
  there.
- *transport*: connect, messages in order, one close, nothing after; no byte and
  no close request reaches another connection on the same descriptor.
- *queue*: first in first out within a priority; nobody sleeps over work.
- *server-to-server connection*: what was queued for a standing connection is
  lost only with it or by a send that was broken off; a connection that stays
  open is logged in, unless the send of its login was broken off.
- *discovery*: a client is sent only to servers that were alive within the
  periods of row and pool, and only while their message server was; whoever
  stays becomes known, and clients are served again after any failure.
- *database agent*: a call that returns success has executed its own statement
  and reads its own result; every call returns.
- *groups*: a group keeps within `GMAXCOUNT` and has no member twice but by an
  `INSERT` that ran twice; a chat that was answered is stored for all members, as
  far as the statements succeed.
- *client*: at most one verdict per chat; "sent" only for a chat that is stored;
  no silence while the connection stands; it reconnects.

## 2. The modules

| module | models | implements | proofs |
|---|---|---|---|
| `Presence` | sessions of all presence processes and `im_online_info` | `Sessions` | `PresenceProofs` |
| `Delivery` | one-to-one chats, composed with `Presence` (`P == INSTANCE Presence`) | `Mailbox` and `Presence` | `DeliveryProofs` |
| `Groups` | a public group, its members and the fan-out of group chats | - | `DeliveryProofs` (its last section) |
| `Discovery` | timers, `im_module_info`, the router's map and the dispatch server's pool | - | `DiscoveryProofs` |
| `Transport` | sockets, read, send and work threads | `ConnEvents` | `TransportProofs` |
| `BaseQueue` | the queue between threads | - | `BaseQueueProofs` |
| `Upstream` | a connection from router to presence | - | `UpstreamProofs` |
| `MySQLAgent` | a database connection and the threads that use it | - | `MySQLAgentProofs` |
| `ImSocket` | the client library, its application and the server as the client sees it | - | `ImSocketProofs` |

`Sessions`, `Mailbox` and `ConnEvents` are abstract specifications, shown to be
implemented by a refinement mapping (`ImplementsSessions`, `ImplementsMailbox`,
`ImplementsConnEvents`). `MCPresence`, `MCDelivery`, `MCGroups`, `MCDiscovery`,
`MCTransport`, `MCBaseQueue`, `MCUpstream`, `MCMySQLAgent` and `MCImSocket` give
the constants their values for TLC.

The modules rest on each other: `Transport` shows that a module sees its
connections as `ConnEvents` promises, which is how `Presence` takes its events
(one handler at a time per work thread: `CanRun`), and that a module that asks
for a close gets the close event (`AskedToClose`), which is the fairness of
`closing[c] /\ Close(c)` in `Presence`. `Transport` takes its queues as FIFO,
which `BaseQueue` shows of items of one priority. `Upstream` shows when the
messages that `Delivery` and `Presence` allow to be lost on the way to a
presence process really are, and that a send that is broken off is one of the
ways. `Discovery` shows that the router comes to know a
presence process, whose messages it drops until then. `MySQLAgent` shows when a
statement that reports success has been executed, and how often it and one that
reports failure may have taken effect, which is what `Effects` in `Presence` and
`Delivery` and `Inserts` in `Groups` take up. `ImSocket` is the client of `Delivery` in
detail: where `Delivery` lets a client read and acknowledge, `ImSocket` has the
threads that do it for the chats a client sends.

A definition before the one it would replace and announced as "Mutant" is a
wrong version of the code (a forgotten erase, a missing flag, a wrong order);
it is used by no specification, and each property is known to fail when the
definition after it is replaced by it.

### 2.1 Presence

`conn[c]` counts the events of a connection, `addrmap` and `usermap` are the
maps (the pointer to a `User` is represented by the connection that allocated
it), `online` is the table, `pc` and `want` are the program counter and the
local copy of a running handler. One critical section is one step; so is one
statement:

| action | code |
|---|---|
| `Connect`, `Close`, `FirstMessageNotLogin` | `ProcessImMsg`, events CONNECT, CLOSE and a message that is no login |
| `LoginStart`, `LoginSelect`, `LoginRegister`, `LoginReplace`, `LoginFetch` | `IsClose` and `ProcessLogin`/`ProcessUpStream`: copy, SELECT for logins elsewhere, critical section, REPLACE and answer, SELECT of the waiting chats |
| `LogoutStart`, `LogoutUpdate` | `IM_LOGOUT` and `ProcessLogout` |
| `ProcessClose`, `LoseClose` | `IM_CLOSE` from another process, and its loss |
| `Crash`, `Restart`, `RestartFails` | the child dies; `main.cpp` forks another, `OnRun` clears its rows, and ends the child when the UPDATE fails |

A statement that fails may have taken effect all the same (`Effects`): the row is
written, and the handler goes the way of the failure.

The UPDATE in the CLOSE event runs inside the mutex and is part of `Close`.
Closing a connection is `closing[c]`: the transport is asked, and the CLOSE
event comes some time later, after other messages perhaps. `Xml` says which of
the two wire formats the process uses, because a first message that is no
login closes the connection in one of them only.

`author` and `superseded` are history variables: the connection a row was last
written for, and the connections that were kicked out.

### 2.2 Delivery

`stage[m]` is the message server's handler of a chat, `row[m]` its row,
`notices` the notices on the way, `found` what a presence handler has read and
will push, `chat[c][m]` how far the chat has come on a connection, `acks` the
acks on the way. `SendChat` is the sender's presence process; `StoreChat`,
`CheckOnline` and `AnswerSender` the handler of the message server (an INSERT that
is reported as failed may have made the row, which then waits although the sender
is not answered);
`ReadNotice` and `PushNotice` the handler of a notice at the presence process;
`FetchPending` the last step of a login, which pushes what waits; `Receive` and
`ForwardAck` the client and its ack; `ProcessAck` the message server's
handler of the ack. `Lose`, `CrashMessage` and `CrashPresence` are the faults.
`Kept` chats are those whose sender or recipient keeps copies (`issave`,
`isshare`): an ack marks their row instead of deleting it.

### 2.3 Transport

Each connection has a `TSocketMsg` whose life is `stage`: accepted, in the map,
announced, handed to the read thread, polled, erased from the map, dying, freed.
A read thread works in passes: `StartPass` takes new sockets, `Sweep` removes
those that are flagged or timed out, `Read` reads, `EndPass` ends the pass, and
`CheckSocketsAndFree` (in `StartPass`) closes what was removed three passes
ago. A send thread looks a socket up (`PopSend`) and is done with its
descriptor later (`FinishSend`). `fdtab` is the kernel's view: the connection a
descriptor stands for. `SendPasses` bounds the passes of a read thread during
one send; nothing in the code enforces it (see 3.3).

### 2.4 BaseQueue

`TryPut` appends inside the mutex (`Push`) and signals after it (`Signal`).
`TryGet` takes the first element of the highest non-empty priority (`Take`) or
waits (`Wait`); any end of the wait (`Signal`, or `WakeUp`, a timeout or a
spurious end) makes it return with nothing, and the thread calls it again.

### 2.5 Upstream

One `TUpStream` with its reconnecting thread (`Connect`, `CopyAddr`,
`SendLogin`, `KeepAlive`), the router's threads (`SendMsg`), the send and read
threads (`SendOut`, `Remove`) and the presence process at the other end
(`PeerLogin`, `PeerHandle`, `PeerTorn`, `PeerClose`). `SendOut` sends a message
whole (`SentWhole`) or breaks it off with nothing or with its first half sent
(`BrokenOff`), as `SendMsgUsePoll` does after 5 ms without room; that is logged
and changes nothing else. What the peer makes of the first half together with the
messages that it swallows is left open: it closes the connection, drops it, or
takes it for a login (`PeerTorn`). `spoilt` is a history of the messages this
concerns. `LogIn` is `ProcessLogin` seen from the connection: a first statement
that fails only closes it, a last one that fails closes it after the former
connection has been kicked out. Until the `strcpy` to `m_addrinfo` is
done, a reader may find the old, the new or a mixed address (`Readable`), and
the copy itself may read freed memory if the connection has already ended.

### 2.6 Discovery

One Tick is a minute. A process that runs has its turn once between two Ticks
(`due`), as each calls `ProcessTimer` every second and acts on every 60th call:
`Refresh` (presence, message and xdm servers), `RouterTimer`, `DispatchTimer`, and
`DispatchRetry`, which reads again at any second while the pool is empty. `age`
is the minutes since `uptime` was written, by the one clock of the database.
`phase` is `count % 180` in minutes. `Run` and `Crash` start and end a process;
a process that starts writes its row without a look at the message server, which
the history variable `vouched` tells apart. `Offer(v)` is what `GetPoolInfo`
answers a client of version `v`: the pairs any hash of a user can select.

### 2.7 MySQLAgent

One `TMySQLAgent` with the threads that may use it: its work thread, the keeper
(`CCheckSyncMysql`) and, if `Users` has several elements, others, as the first
agent of xdm is used by whichever thread has the timer. `Set` is
`setMySQLParam`, outside the mutex; `Lock`, `Connect`, `ReadText`, `ReadParam`,
`Query`, `Ping`, `Store` and `Leave` are the parts of `excute` and `Execute_SQL`,
with the arguments of `Execute_SQL` read one after the other. A query may fail
with or without having taken effect, since the read timeout is one second. A
parameter is destroyed when its call is over; using it then (`"stale"`) is
undefined, so the thread may go on with anything or the process may end (`End`).

### 2.8 Groups

`rows[u]` is the number of rows of a user in `im_pub_groupuser`. Each worker of the
xdm server runs one request at a time: `Create`, `Invite` and `Quit` go up to the
first statement after which another worker may come in; `Check`, `Delete`,
`Insert` and `DeleteMember` are single statements. One that fails may have taken
effect, and an `INSERT` may have made two rows, reported as done or not, since the
agent sends it again (`Inserts`, `ClearFails`). `raced` notes that a worker
inserted while another one relied on the members it had counted, `doubled` the
users whose rows came from an `INSERT` that ran twice. `ReadMembers`,
`StoreGroupChat`, `FanOut` and `Done` are the message server's handler of a group
chat; `XdmCrash` and `MessageCrash` end a server between two statements.

### 2.9 ImSocket

`rpc` and `spc` are the places of `RecvThread` and `SendThread`, `rfd` and `sfd`
their copies of `m_socketfd`. `RecvThread` parks after too many failed connects
(`Park`, `Unpark`), connects (`ConnectOk`, `ConnectFail`), finds a chat that has
waited too long (`Peek`, then `AckTimeout`), receives (`Recv`, `RecvClosed`,
`Quiet`) and handles what it received (`Handle`, with `ClearQueue` for acks).
`Peek` is a step of its own, because the front it looks at may be taken out and
freed by the other thread before the time-out is handled. `SendThread` takes a
message (`SendPop`), sends it (`SendOk`, `SendFail`), and only then puts the chat
into `m_ackqueue` (`SendAwait`). Both threads call `OnCallBack`, whose part for
everything but messages is `Drain`: all chats that wait are reported as failed.
`Start`, `HandIn` and `SetNetworkStatus` are the application's threads. The
server is `ServerHandle` and `ServerClose`: it logs a connection in or
refuses it, stores and answers a chat, stores it only, or neither (what
`Delivery` says of a sender), ignores (BYTE) or closes (XML) a connection whose
first message is no login, kicks the user out, or breaks off.

`told[m]` is the sequence of what the application is told of a chat;
`sentOn[m]` is a history variable.

## 3. What TLC checks

### 3.1 Runs

| run | instance | properties |
|---|---|---|
| `presence` | 2 processes, 3 connections, 1 user; every statement may fail, with an effect or without, an `IM_CLOSE` to one process may be lost, crashes and restarts; fairness | `MapsAgree`, `SupersededIsClosing`, `SessionHasOnlineRow`, `EvictedByItsOwnClose`, `ImplementsSessions`, `SupersededGoes`, `CloseReaches` |
| `delivery_faults` | 2 processes with a connection each, 1 kept chat, all faults | `TypeOK`, `ImplementsMailbox` |
| `delivery_wakeup` | 2 processes with a connection each, a chat that is deleted once it is read and one that the blacklist stops, crashes | `NoMissedWakeup`, `UnansweredWasReceived` |
| `delivery_live` | 1 process, 2 connections, 2 users, 1 kept chat, crashes; fairness | `PushedToItsUser`, `OnlineRowIsServed`, `NoticeReachesClient`, `ReceivedIsSettled` |
| `transport` | 1 descriptor, 2 connections, 2 messages, 1 send lasting up to 4 passes; fairness | `TypeOK`, `NoMisdirectedSend`, `ImplementsConnEvents`, `FlaggedIsFreed`, `AskedToClose`, `ClosedForAReason` |
| `basequeue` | 4 items of 2 priorities, 2 threads; fairness | `NoneSleepsOverWork`, `InOrder`, `PutIsTaken` |
| `upstream` | 1 message, 3 connections, BYTE, 1 message spoilt by a send that is broken off (`MaxSpoilt`); fairness | `LostWithItsConnection`, `OpenIsLoggedIn` |
| `client` | 2 chats, 2 connections, 2 events; fairness | `AckedWasTaken`, `OneVerdict`, `SilentOnlyWithoutConnection`, `Reconnects`, `AwaitedIsSettled` |
| `client_verdict` | 2 chats, 1 connection, 1 event | `UnackedChatFails`, which is violated (3.2) |
| `discovery` | 1 presence server, 1 xdm server, 1 failed statement, 1 crash; fairness | `OfferIsRecent`, `OfferNeedsMessageServer`, `RouterLearns`, `OfferRecovers` |
| `agent` | 1 work thread and the keeper; fairness | `SuccessIsOwn`, `EffectBound`, `CallReturns` |
| `groups` | 4 users, room for 3, 2 workers, 1 chat, 2 events, each an invitation, a statement that fails or runs twice, or a crash; fairness | `GroupIsSound`, `AnsweredReachesMembers` |

The state spaces have between about 5,000 and 1,100,000 states, and each run takes
at most a few minutes.

### 3.2 What the runs show

Sessions. The maps agree after every critical section, so the untested
`find(kickout)` in `ProcessLogin` always succeeds, and the "has removed" branch
of a login is dead code. A session is never evicted by the CLOSE of another
connection. The table may disagree with the sessions in exactly the ways the
properties name:

- `OnlineRowIsServed`: a row says online at a running process without a session
  only if its last writer is a login that had been kicked out before its REPLACE
  ran. Such a row stays until the user logs in or the process restarts.
  `delivery_live` checks it, where two connections share a process, which that
  case needs; the theorem covers several processes.
- `SessionHasOnlineRow`: a session without its row exists only when the row was
  last written for a connection it kicked out (its late CLOSE or logout names
  the jid only) or for a connection of another process (two logins that both
  ran their SELECT first), or by a logout of its own that was reported as failed
  although it took effect: the client is told of the failure and its connection
  stays, with a row that says it has logged out.

Delivery. `ImplementsMailbox` holds with every fault at once: nothing leaves
the table unread, and no sender is told "taken" for a chat that was not stored.
`NoMissedWakeup` is about the order INSERT, look-up against REPLACE, SELECT of
the rows that wait; it fails, for example, when a login skips the rows that a
notice is under way for. It is not about chats to the name a router logs in with,
since that login fetches nothing: such a chat does wait. `UnansweredWasReceived` bounds a race: the
sender's answer is skipped only when the recipient's ack was faster, which takes a
chat that is not kept, since the row of one that is stays for the look-up.

Transport. The three passes are what keeps a removed descriptor from being
reused under a send thread: with a pass less `NoMisdirectedSend` fails.
`ClosedForAReason` needs no such bound, because `CloseSocket` looks the
connection up by its address and not by its descriptor.

Queue. One signal per item, after the unlock, is enough; signalling only for
the first item of an empty queue is not.

Connections between servers. The login is sent once per connection and nothing
checks that it arrived; `OpenIsLoggedIn` holds because the thread connects only
when no socket is left and queues the login after it has written `m_addrinfo`.
The one thing that defeats it is a send that is broken off: SENDFAIL is only
logged (`upstream_callback`) and the socket stays. If it was the login's, or that
of a message the login follows, a BYTE connection may stand for good without being
logged in, and everything forwarded on it is dropped; nothing in the code finds
or repairs that. In the same way a message is lost although its connection
stands (`LostWithItsConnection` names both).
A message may still be in front of the login while a reconnect is under way;
BYTE then drops it and XML closes the connection.

Discovery. The pool is put in place even when the rows could not be read, and
an empty pool is read again every second; both together bound the age of what a
client is told (`OfferIsRecent`, five minutes with the periods of the code) and
bring the offer back (`OfferRecovers`). A pool that was kept over a failed read
would break the first. `OfferNeedsMessageServer` is the indirect effect of a
message server that ends: its row ages, the presence servers stop refreshing
theirs, and the dispatch server drops them; together at most seven minutes.
A presence server that was just started is exempt, since `OnRun` writes its row
without looking.

Database. `SuccessIsOwn` fails as soon as another thread sets its parameter
between a call's `setMySQLParam` and its reads, which is what `crossed` records:
then a call may report success of a statement that was never executed. Between
a work thread and the keeper this takes an agent that was idle for three minutes.
Otherwise the mutex suffices, the retry included. `EffectBound` counts how often
one statement can take effect.

Groups. Two invitations that both count the members before either inserts can
exceed `GMAXCOUNT`, and can give a member two rows, after which `ismember` and
`getmemberlist`, which look for exactly one row, take that user for none.
`GroupIsSound` says that nothing but that race exceeds the bound: not a failed
statement in the middle of the list, with an effect or without, not an `INSERT`
that ran twice, not a quit, not a crash. A second row of a member comes from that
race or from an `INSERT` that the agent sent again after a first try that had
taken effect, reported as done or as failed, and from nothing else. Such a member
is none for `ismember`: their invitations are refused, their quit is answered with
200 and ignored, they can be invited again, they get each group chat twice, and
their second row counts towards the bound. A failed copy of a group chat
does not keep it from the other members (`AnsweredReachesMembers`).

Client. An ack can arrive before its chat is in `m_ackqueue`, and then it fails
whatever waits there, or is swallowed. No such order tells the application
something untrue of a stored chat (`AckedWasTaken`), or anything twice
(`OneVerdict`), and while the connection stands no chat is forgotten. `Reconnects`
is about the tokens of `m_awuqueue`, which `RecvThread` throws away in three
places.

`client_verdict` shows a disagreement between code and comment:
`CXmppStack.cpp:379-380` says that every message without an ack counts as failed
once the connection is closed. A chat that `SendThread` could not send is
reported by a `CSocketMsg` made in `DoSocket` that has its id and `m_imtype` 0,
which the application's callback ignores; and chats that wait when
`CSocketInfo::clear` empties the queue without a callback (`Start`, a connect after
a `Release`) are reported to nobody.

### 3.3 Bounds

- *Presence, Delivery*: constants are finite sets; no counter is bounded. `Lossy`
  names the processes to which the router may lose messages, so that one run has
  the loss of an `IM_CLOSE` and, at the other process, the liveness that needs it
  to arrive. Three
  connections are what the interesting cases need: one that is kicked out, the
  one that kicks it out, and a third at another process. Each has a work thread
  of its own, which allows the most interleavings; connections that share a
  thread, and users with several resources, are covered by the theorems. A connection is never reused (`encodeAddrInfo` numbers them), so a
  reconnecting client is another connection. One user is enough for the
  sessions, since a handler touches only rows and entries of its own user;
  `delivery_live` has two. A second chat interacts with the first only by the
  sessions it shares, hence one chat in most of the Delivery runs.
- *Transport*: `MaxAddrs` connections, `MaxMsgs` messages per connection,
  `MaxSends` sends. Two connections on one descriptor are one reuse, which is
  where the hazards are. `SendPasses` is an assumption: a send polls for at most
  5 ms at a time and a pass waits for at most its poll, but a client that reads
  slowly can make one send outlast any number of passes. The run has sends
  of up to four passes. `NoMisdirectedSend` is about those of at most
  `CoveredPasses`, two, which is what the three-pass delay covers; a longer one
  can write to the next connection on its descriptor. `ClosedForAReason` is about
  all of them.
- *BaseQueue*: four items; enough for two in each of two states and two
  threads.
- *Upstream*: `MaxConns` connections, `MaxAlive` keep-alive messages. Three
  connections allow a message of the first to be queued while the third is
  under way; messages do not act on each other, so one is enough. A send may be
  broken off while fewer than `MaxSpoilt` messages are spoilt: one, which can be
  the login, the message, or a keep-alive message in front of either. The run uses
  BYTE, where a message in front of the login is dropped silently (XML closes
  the connection instead, and the theorem covers both).
- *Discovery*: `FreshFor` and `PoolPeriod` have the code's values in minutes;
  ages are counted up to `MaxAge`, past which nothing tells them apart.
  `MaxFaults` failed statements and `MaxCrashes` crashes, one each, at any minute;
  the theorems hold for every value. Servers act on each other only through the
  message server's row, so one of each kind is enough.
- *MySQLAgent*: nothing is bounded but the attempts to reconnect, three as in
  the code. A call follows another without end.
- *Groups*: `MaxEvents` invitations, statements that fail or run twice, and crashes
  together. Two invitations are the race, one and a failure are a torn list, one and
  an `INSERT` run twice are a member with two rows who can be invited or quit. Four users with
  room for three can exceed the bound; one chat, since chats share nothing but
  the members.
- *ImSocket*: `MaxConns` connections, `MaxEvents` calls of `Start` and
  `SetNetworkStatus` and keep-alives together. Two chats are needed for an ack that
  meets another chat in front, two connections for a chat that outlives its own.
  `TryLimit` is 0 in the run instead of 2 (it parks after the first failed
  connect), which only makes parking more frequent; the theorems hold for every
  value.

Symmetry is not used, since the assignments of connections to processes and
threads break it, and the properties under fairness do not allow it.

### 3.4 Fairness

Every thread in the code is an endless loop, so weak fairness is assumed of
the handlers (`Handler`), the read, send and work threads, the reconnecting
thread and the parent process that restarts a child. Steps that wait for their
turn in the FIFO queue of a work thread (a CLOSE event, an `IM_CLOSE`, an ack, a
notice) get strong fairness: other events of the thread may go first, but
finitely many. None is assumed of clients opening connections, logging in or
out, of crashes, of failing statements or of lost messages. In `delivery_live`
a client reads its socket (`Receive`); `BaseQueue` does not assume that a wait
ends by itself.

`Discovery`: timers fire and minutes pass; no process is assumed to start again,
and `RouterLearns` and `OfferRecovers` speak of processes that stay.
`MySQLAgent`: threads run, and a mutex that is freed again and again is taken in
the end (strong fairness of `Lock`). `Groups`: the message server's work threads
only. `ImSocket`: both threads of the client run; a server that is up accepts a
connection in the end (strong fairness of `ConnectOk`, for without it there is no
network); and time passes, so a chat in front of `m_ackqueue` gets old (strong
fairness of `Peek`, which is enabled again in each round of the loop). Nothing is
assumed of the server's answers.

## 4. What is proved

All theorems hold for all values of the constants that satisfy the named
assumptions (`PresenceAssumption`, `DeliveryAssumption`, `QueueAssumption`,
`UpstreamAssumption`, `TransportAssumption`, `ClientAssumption`,
`DiscoveryAssumption`, `AgentAssumption`, `GroupAssumption`), which only say that
connections have a process and a thread, that the special values are no
connections, that bounds are numbers, that what is counted (items and threads of
a queue, users of an agent or a group) is finite, and the like.

| theorem | statement |
|---|---|
| `PresenceTypeOK`, `PresenceMapsAgree`, `PresenceLoginFindsUser`, `PresenceSupersededIsClosing` | the registry's invariants |
| `PresenceSessionHasOnlineRow`, `PresenceOnlineRowIsServed` | how far sessions and table may disagree, whatever statements fail; the second while none does |
| `PresenceEviction` | `EvictedByItsOwnClose`, an action property |
| `PresenceImplementsSessions` | refinement of `Sessions` |
| `DeliveryTypeOK`, `DeliveryInvariant`, `DeliveryPushedToItsUser` | the invariants of the delivery |
| `DeliveryOnlineRowIsServed`, `DeliveryUnansweredWasReceived`, `DeliveryNoMissedWakeup` | how far rows, answers and waiting chats may disagree with the sessions while no statement fails, for any number of processes, connections and chats |
| `DeliveryImplementsPresence` | a behaviour of the composition is one of `Presence` |
| `DeliveryImplementsMailbox` | refinement of `Mailbox` |
| `GroupTypesCorrect`, `GroupsAreSound` | types and `GroupIsSound`, for any number of users and workers, whatever statements fail or run twice |
| `QueueTypeOK`, `QueueNoneSleepsOverWork`, `QueueInOrder` | the queue, for any number of threads; the last is an action property |
| `UpstreamTypeOK`, `UpstreamLostWithItsConnection` | the connection between servers, for any number of connections, messages and sends that are broken off |
| `TransportProofs!TypeCorrect`, `SendsStayOnTheirConnection`, `ClosesStayOnTheirConnection` | types, `NoMisdirectedSend` and `ClosedForAReason`, for any number of descriptors, connections and threads |
| `TransportImplementsConnEvents` | refinement of `ConnEvents` |
| `ImSocketProofs!TypeCorrect`, `AckedChatsWereTaken`, `OneVerdictPerChat`, `NoSilenceOnALiveConnection` | types and the client's safety invariants |
| `DiscoveryProofs!TypeCorrect`, `OffersAreRecent`, `OffersNeedTheMessageServer` | types and the two bounds, for any periods and any number of servers, failures and crashes |
| `MySQLAgentProofs!TypeCorrect`, `SuccessfulCallsReadTheirOwn`, `OneExecutes`, `EffectsAreBounded` | types, `SuccessIsOwn`, the mutex and `EffectBound`, for any number of threads |

The arguments:

- **Registry** (`PresenceProofs`). `MapsAgree` is not inductive: a login's
  critical section writes both maps on the strength of a copy made three
  statements earlier. `Registry` adds that a login before the section still
  has its unnamed User (`LoginFindsUser`: only one handler runs for a
  connection at a time, and an unnamed User can be neither kicked out nor found
  by name), that a handler past it owns its jid or was kicked out
  (`HandlerOwnsJid`), that a kicked connection has lost its entry and is being
  closed, and that a process that is down has nothing. `SessionHasOnlineRow`
  and `OnlineRowIsServed` need a further invariant (`SessionRows`) about who
  wrote a row last. The refinement is proved step by step from `Registry`: a
  login's critical section is `Take`, a close or crash is `End`, all else
  stutters.
- **Delivered** (`DeliveryProofs`). Nothing about a chat comes before its row
  (`StoredFirst`): no notice, push, ack or answer. Every abstract step's guard
  follows from it. `OwnChats` ties a chat on a connection to the user whose
  session it has, and rests on the theorems about `Presence` through
  `DeliveryImplementsPresence`.
- **Wake-up** (`DeliveryProofs`). `NoMissedWakeup` is inductive beside the registry
  and `SessionRows`. A session can come to rest beside a waiting chat in two ways:
  a login ends, and then its SELECT has pushed the chats that wait; or the
  message server looks the user up, and then it finds the row that the login's
  REPLACE has written before, unless the row was last written for another
  connection. `RestingSession` (`PresenceProofs`) says that every other step finds
  the session at rest before it and keeps what was written over its row.
  `DeliveryUnansweredWasReceived` rests on `SettledWasReceived`: a row that is gone
  had an ack, and an acknowledged chat stays acknowledged.
- **Groups** (`DeliveryProofs`, last section: the module extends `Delivery` and
  `Groups`, which meet in the copies of a group chat). `GroupInv` adds to the
  property that every worker that has counted the members still has room for those
  it has to insert (`RoomFor`: the members together with them are at most `GMax`),
  and that the rows it has deleted are still gone. Another worker's INSERT would
  break this, and is what `raced` records; deletes and quits only make room, also
  when they are reported as failed. An INSERT that ran twice adds a row and no
  member.
- **Queues** (`BaseQueueProofs`). The number of queued items is at most the
  number of signals to come plus the number of threads about to call `TryGet`,
  as long as some thread waits. It is a counting argument over finite sets;
  `Once` says an item is in the queue at most once.
  `QueueInOrder` follows from it: `TryGet` takes the front, and a list moves up by
  one and otherwise only grows at its end.
- **BehindLogin** (`UpstreamProofs`). For a standing connection the login is in
  front of every message that was queued for it outside a reconnect, in the
  send queue or on the wire, or the peer has handled it, or a send has spoilt one
  of them. It needs `LastStands` (only the last connection made can stand, and
  `m_addrinfo` names it), and `WholeUnlessTorn`: half a message is on the wire
  only of a connection in `torn`, on which all that follows it is spoilt.
- **Safe** (`TransportProofs`). `SendCovered` relates a send under way to its
  connection: the send has counted every pass that the removed socket has
  counted, so a socket is freed only after more than `CoveredPasses` passes of
  any send that looked it up. It needs `FdHeld` (an open connection holds its
  descriptor), `CountedWhenDying`, and, to know which sockets a pass may remove,
  `InfoListed` and `TodoPolled`.
- **Events** (`TransportProofs`). `EventInv` says where the events of a connection
  stand in the queue of its work thread (`AtHome`): the connect event first, the
  close event last, messages by their number, and each that a client has sent
  and the module not seen is there exactly in that place (`NothingLost`). An event
  goes in at the end (`Grows`) or out at the front (`TakenStep`); with the
  stages of a socket (`StagesGoOn`), which never go back, the event in front is
  the next one that `ConnEvents` allows.
- **Acks** (`ImSocketProofs`). `AcksAreTrue`: an ack on its way is of a stored
  chat. A chat is in one place at a time (`OnePlace`), and the application has
  been told nothing while it is anywhere (`Untold`); every verdict takes the
  chat out of its last place, so there is one at most. `SentOnMade` says that
  a chat that is still to be sent has no connection, and that a new
  connection is none a chat was sent on before.
- **Ages** (`DiscoveryProofs`). `PoolIsRecent` bounds the age of a row in the pool
  by that of a fresh row plus the minutes since the dispatch server's last
  reading (`Since`, a function of its phase and of whether it had its turn);
  `VouchedIsRecent` bounds the age of the message server's row by that of the
  rows written after a look at it. The invariants are sums of the two.
- **Parameters** (`MySQLAgentProofs`). A call that nobody crossed reads its own
  parameter (`OwnParameter`); a thread that works on the parameter of a call that
  is already done repeats that call's own statement (`DoneParameter`); and a
  thread is inside `excute` only with the mutex (`Mutex`). `EffectBound` is an
  account (`Balance`): what a statement has done, what the threads that hold it may
  still do, and once more for those that have not yet come to their retry, stay
  together within two for each thread.

Model-checked only: the liveness properties (`SupersededGoes`, `CloseReaches`,
`NoticeReachesClient`, `ReceivedIsSettled`, `FlaggedIsFreed`, `AskedToClose`,
`PutIsTaken`, `OpenIsLoggedIn`, `Reconnects`, `AwaitedIsSettled`, `RouterLearns`,
`OfferRecovers`, `CallReturns`, `AnsweredReachesMembers`), for which the prover has
no rule: they need fairness and `ENABLED`. Every safety invariant, action
property and refinement that a passing run checks is also proved.

## 5. Assumptions

- In the servers' modules a statement that succeeds was executed, and one that
  fails may have been (in `Presence`, a failed UPDATE of the CLOSE event is one of
  the two, since nobody asks for its result). `MySQLAgent` says how far that is
  true: another thread on the same agent may replace a statement before it is
  read.
- A statement that the agent runs twice does so in one step. An UPDATE, DELETE or
  REPLACE that runs twice does what it does once; an INSERT into the group's tables
  makes two rows (`Groups`); `id` is taken as a key of `im_msg_chat`, so that a second
  INSERT of a chat fails, and is reported as failed, with the row made.
- Logins have non-empty user names, chats have ids of their own
  (`create_coreid`) and bodies of an accepted length; the code drops others
  without an answer.
- In `Delivery` a send to a client is whole, as long as the connection stands. The
  code breaks a send off after 5 ms without room and leaves the connection open, and
  what the client makes of half a message is not modelled; `NoticeReachesClient` is
  about clients that read fast enough. `Lose` covers the sends between servers.
- In `FetchPending`, the SELECT of the waiting chats and their sending are one
  step: the sends only queue, and the queue keeps their order.
- A router's connection (`Upstreams`) differs from a user's in `Presence` only
  in that no waiting chats are fetched. The runs have user connections only;
  the theorems cover both.

## 6. What is not modelled, and the plan

Not modelled, and why:

- Message formats, HTTP, XML parsing, logging and configuration: data without
  control that the properties could tell apart.
- iospush: one thread over a queue and an HTTP connection; in `Delivery` a push is
  an outcome of the look-up, and nothing waits for it.
- Of presence: `IM_MAPPOINT`, `IM_DELETE`, `IM_BLACKLIST` and web messages; of
  xdm: profiles, friends, the group's name and card. Each is one statement, or a
  few independent ones, on tables no other handler depends on.
- `im_addr_info` (the addresses of a server: `Discovery` names a server by itself).
- Of the client library: uploads, downloads and chats on the local network,
  which use connections of their own.
- The asynchronous queue of `TDBManager`, which no server starts.
- The mobile applications' user interfaces; `sift_match` and `yuxin`, which the
  servers do not use; and the vendored libraries (sqlite, alljoyn, protobuf and
  others, most of them twice in the repository). These are nearly all of the
  repository's 1.5 million lines, so the share of lines the models stand for
  is small, though the servers' and the client's own control is mostly covered.

Planned, in this order:

1. `ProcessIQ` of xdm in `Delivery`: it looks the user up before it inserts, the
   other way round than a chat, so a login in between misses its iq.
2. Torn sends to clients, in `Delivery` and `Transport`: what a client makes of half
   a message on a connection that stays open (`Upstream` has those between servers).
3. `Delivery` with the clients of `ImSocket`, and with `Groups`: each member's copy as
   a chat of `Mailbox`.
4. `IosPush`: its queue and the connection to the push service.
5. Proofs: that `Groups` with `Delivery` of item 3 implements a mailbox of group
   chats, and the invariants that item 1 and 2 need.
