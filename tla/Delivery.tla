------------------------------ MODULE Delivery ------------------------------
(***************************************************************************)
(* The way of a chat from its sender's presence process to its user's      *)
(* clients: the message server stores it in im_msg_chat, looks the user up *)
(* in im_online_info and sends a notice with the chat's id through the     *)
(* router to the presence process found there, which reads the row and     *)
(* pushes it to the user's sessions; a client that logs in is pushed the   *)
(* rows that wait for it.  The ack of a client goes back to the message    *)
(* server, which removes the row.                                          *)
(*                                                                         *)
(* This module composes those steps with the sessions of Presence.  Every  *)
(* SQL statement is a step of its own.  Each chat is handled by itself:    *)
(* the code has one handler at a time per work thread, so some of these    *)
(* interleavings need chats of different threads.                          *)
(***************************************************************************)
EXTENDS Integers, FiniteSets

CONSTANTS Modules, Conns, Names, Resources, Upstreams, Threads, ModuleOf, ThreadOf,
          DbFaults, Lossy, Xml, None, Absent, Fresh

CONSTANTS
  Msgs,      \* chats, by id: create_coreid gives every chat its own
  To,        \* the user of a chat
  Kept,      \* chats between friends with issave or isshare
  Blocked    \* chats to a user whom the sender has put on the blacklist

VARIABLES up, conn, pc, want, addrmap, usermap, closing, online, closeReqs,
          author, superseded

VARIABLES
  stage,      \* where the message server stands with a chat
  row,        \* the row of the chat in im_msg_chat
  outcome,    \* history: what the look-up of the user found
  notices,    \* <<chat, moduleaddr>> on their way through the router
  found,      \* <<chat, moduleaddr>> read by the handler that will push them
  chat,       \* how far a chat has come on a connection
  acks,       \* acks on their way to the message server
  answered    \* chats whose sender was sent an ack

P == INSTANCE Presence

ASSUME DeliveryAssumption ==
  /\ P!PresenceAssumption
  /\ To \in [Msgs -> Names] /\ Kept \subseteq Msgs /\ Blocked \subseteq Msgs

mvars == <<stage, row, outcome, notices, found, chat, acks, answered>>
pvars == <<up, conn, pc, want, addrmap, usermap, closing, online, closeReqs,
           author, superseded>>
vars  == <<pvars, mvars>>

Stages == {"unsent", "inbox", "stored", "noticed", "done"}

TypeOK ==
  /\ P!TypeOK
  /\ stage \in [Msgs -> Stages]
  /\ row \in [Msgs -> {"none", "pending", "read", "deleted"}]
  /\ outcome \in [Msgs -> {"none", "router", "iospush", "nobody"}]
  /\ notices \subseteq Msgs \X Modules
  /\ found \subseteq Msgs \X Modules
  /\ chat \in [Conns -> [Msgs -> {"no", "sent", "got", "acked"}]]
  /\ acks \subseteq Msgs
  /\ answered \subseteq Msgs

Init ==
  /\ P!Init
  /\ stage = [m \in Msgs |-> "unsent"]
  /\ row = [m \in Msgs |-> "none"]
  /\ outcome = [m \in Msgs |-> "none"]
  /\ notices = {} /\ found = {}
  /\ chat = [c \in Conns |-> [m \in Msgs |-> "no"]]
  /\ acks = {} /\ answered = {}

-----------------------------------------------------------------------------
\* The sender's presence process: a chat to a user on the blacklist is only
\* answered, any other goes to the message server.  A SELECT that fails counts
\* as not on the blacklist.
SendChat(m) ==
  /\ stage[m] = "unsent"
  /\ \E ok \in P!SqlResults :
       IF ok /\ m \in Blocked
       THEN /\ stage' = [stage EXCEPT ![m] = "done"]
            /\ answered' = answered \cup {m}
       ELSE /\ stage' = [stage EXCEPT ![m] = "inbox"]
            /\ UNCHANGED answered
  /\ UNCHANGED <<pvars, row, outcome, notices, found, chat, acks>>

\* INSERT INTO im_msg_chat with status 0; a failure ends the handler, though
\* the row may have been made.
StoreChat(m) ==
  /\ stage[m] = "inbox"
  /\ \E ok \in P!SqlResults :
       /\ stage' = [stage EXCEPT ![m] = IF ok THEN "stored" ELSE "done"]
       /\ \E done \in P!Effects(ok) :
            row' = [row EXCEPT ![m] = IF done THEN "pending" ELSE @]
  /\ UNCHANGED <<pvars, outcome, notices, found, chat, acks, answered>>

\* The modules at which the user of a chat has a row with status 1.  Mutant:
\* the status is not tested.
OnlineAtAnyStatus(m) == {online[<<To[m], r>>].at : r \in Resources}

OnlineAt(m) ==
  {o \in Modules : \E r \in Resources : online[<<To[m], r>>] = [st |-> "on", at |-> o]}

\* SELECT moduleaddr ... WHERE name and status=1: a notice if there is exactly
\* one, a push by iospush if there is none, nothing if there are several.
CheckOnline(m) ==
  /\ stage[m] = "stored"
  /\ stage' = [stage EXCEPT ![m] = "noticed"]
  /\ \E ok \in P!SqlResults :
       \/ /\ ok /\ Cardinality(OnlineAt(m)) = 1
          /\ notices' = notices \cup {<<m, o>> : o \in OnlineAt(m)}
          /\ outcome' = [outcome EXCEPT ![m] = "router"]
       \/ /\ ok /\ OnlineAt(m) = {}
          /\ outcome' = [outcome EXCEPT ![m] = "iospush"]
          /\ UNCHANGED notices
       \/ /\ ~ok \/ Cardinality(OnlineAt(m)) > 1
          /\ outcome' = [outcome EXCEPT ![m] = "nobody"]
          /\ UNCHANGED notices
  /\ UNCHANGED <<pvars, row, found, chat, acks, answered>>

\* The row is still in im_msg_chat.  Mutant of Answerable: only for a user who
\* was found online.
InTable(m) == row[m] \in {"pending", "read"}

AnswerableOnline(m) == InTable(m) /\ outcome[m] = "router"

Answerable(m) == InTable(m)

\* ProcessChatAck: the sender is answered if the row is still there.
AnswerSender(m) ==
  /\ stage[m] = "noticed"
  /\ stage' = [stage EXCEPT ![m] = "done"]
  /\ \E ok \in P!SqlResults :
       answered' = IF ok /\ Answerable(m) THEN answered \cup {m} ELSE answered
  /\ UNCHANGED <<pvars, row, outcome, notices, found, chat, acks>>

\* A chat between friends with issave or isshare is marked read, any other is
\* deleted.  Mutant: a chat that is to be kept is left alone.
RowKeptPending(m, looked) == IF m \in Kept /\ looked THEN row[m] ELSE "deleted"

RowAfterAck(m, looked) == IF m \in Kept /\ looked THEN "read" ELSE "deleted"

\* ProcessAck of the message server.  A look-up of the friends that fails
\* counts as not kept; nobody asks whether the UPDATE or DELETE was done.
ProcessAck(m) ==
  /\ m \in acks
  /\ acks' = acks \ {m}
  /\ \E looked \in P!SqlResults, done \in P!SqlResults :
       row' = IF done /\ InTable(m) THEN [row EXCEPT ![m] = RowAfterAck(m, looked)] ELSE row
  /\ UNCHANGED <<pvars, stage, outcome, notices, found, chat, answered>>

-----------------------------------------------------------------------------
\* The row a notice names, by its id alone.  Mutant: only while status is 0.
NoticedRowPending(m) == row[m] = "pending"

NoticedRow(m) == InTable(m)

\* Mutant of ReadNotice: the row is deleted once it was read.
ReadNoticeDeletes(m, o) ==
  /\ up[o] /\ <<m, o>> \in notices
  /\ notices' = notices \ {<<m, o>>}
  /\ found' = IF NoticedRow(m) THEN found \cup {<<m, o>>} ELSE found
  /\ row' = IF NoticedRow(m) THEN [row EXCEPT ![m] = "deleted"] ELSE row
  /\ UNCHANGED <<pvars, stage, outcome, chat, acks, answered>>

\* ProcessChat of a presence process, for a notice: SELECT by id, whatever the
\* status.  If it fails the notice goes back to the message server, which drops
\* it because its body is empty.
ReadNotice(m, o) ==
  /\ up[o] /\ <<m, o>> \in notices
  /\ notices' = notices \ {<<m, o>>}
  /\ \E ok \in P!SqlResults :
       found' = IF ok /\ NoticedRow(m) THEN found \cup {<<m, o>>} ELSE found
  /\ UNCHANGED <<pvars, stage, row, outcome, chat, acks, answered>>

\* The chats M are put on the send queues of connections C.
Pushed(C, M) ==
  [c \in Conns |-> [m \in Msgs |->
     IF c \in C /\ m \in M /\ chat[c][m] = "no" THEN "sent" ELSE chat[c][m]]]

\* The connections a chat is pushed to: every resource its user has in
\* m_usermap.  Mutant: every session of the process.
ServedAll(m, o) == {c \in Conns : \E j \in P!Jids : usermap[o][j] = c}

Served(m, o) == {c \in Conns : \E r \in Resources : usermap[o][<<To[m], r>>] = c}

\* Inside the mutex.
PushNotice(m, o) ==
  /\ <<m, o>> \in found
  /\ found' = found \ {<<m, o>>}
  /\ chat' = Pushed(Served(m, o), {m})
  /\ UNCHANGED <<pvars, stage, row, outcome, notices, acks, answered>>

\* The chats that wait for the user who logs in on c.  Mutant: but for those
\* that went to a presence process as a notice.
WaitingUnnoticed(c) ==
  {m \in Msgs : To[m] = want[c][1] /\ row[m] = "pending" /\ outcome[m] # "router"}

Waiting(c) == {m \in Msgs : To[m] = want[c][1] /\ row[m] = "pending"}

\* The end of a login: SELECT ... WHERE touser and status=0, and a push of each.
FetchPending(c) ==
  /\ P!LoginFetch(c)
  /\ \E ok \in P!SqlResults :
       chat' = IF ok THEN Pushed({c}, Waiting(c)) ELSE chat
  /\ UNCHANGED <<stage, row, outcome, notices, found, acks, answered>>

\* The client reads the chat and answers it with an ack on its connection.
Receive(c, m) ==
  /\ conn[c] = "live" /\ chat[c][m] = "sent"
  /\ chat' = [chat EXCEPT ![c][m] = "got"]
  /\ UNCHANGED <<pvars, stage, row, outcome, notices, found, acks, answered>>

\* IM_ACK without a time: forwarded if the connection still has its User.
ForwardAck(c, m) ==
  /\ P!CanRun(c) /\ addrmap[c] \in P!Jids
  /\ chat[c][m] = "got"
  /\ chat' = [chat EXCEPT ![c][m] = "acked"]
  /\ acks' = acks \cup {m}
  /\ UNCHANGED <<pvars, stage, row, outcome, notices, found, answered>>

-----------------------------------------------------------------------------
\* A connection between the servers breaks, or the router does not know the
\* process: what was on the way is lost.
Lose(m) ==
  /\ Lossy # {}
  /\ \/ /\ \E o \in Lossy : <<m, o>> \in notices /\ notices' = notices \ {<<m, o>>}
        /\ UNCHANGED <<stage, acks>>
     \/ m \in acks /\ acks' = acks \ {m} /\ UNCHANGED <<stage, notices>>
     \/ /\ stage[m] = "inbox" /\ stage' = [stage EXCEPT ![m] = "done"]
        /\ UNCHANGED <<notices, acks>>
  /\ UNCHANGED <<pvars, row, outcome, found, chat, answered>>

\* The message server dies: its handlers do not come back.
CrashMessage ==
  /\ Lossy # {} /\ \E m \in Msgs : stage[m] \in {"inbox", "stored", "noticed"}
  /\ stage' = [m \in Msgs |-> IF stage[m] = "unsent" THEN "unsent" ELSE "done"]
  /\ acks' = {}
  /\ UNCHANGED <<pvars, row, outcome, notices, found, chat, answered>>

\* A presence process dies with its handlers, and with some or all of the
\* notices that were being sent to it.
CrashPresence(o) ==
  /\ P!Crash(o)
  /\ found' = {x \in found : x[2] # o}
  /\ \E lost \in SUBSET {x \in notices : x[2] = o} : notices' = notices \ lost
  /\ UNCHANGED <<stage, row, outcome, chat, acks, answered>>

MessageServer(m) ==
  StoreChat(m) \/ CheckOnline(m) \/ AnswerSender(m) \/ ProcessAck(m)

Next ==
  \/ P!SessionStep /\ UNCHANGED mvars
  \/ \E c \in Conns :
       FetchPending(c) \/ \E m \in Msgs : Receive(c, m) \/ ForwardAck(c, m)
  \/ \E m \in Msgs :
       \/ SendChat(m) \/ MessageServer(m) \/ Lose(m)
       \/ \E o \in Modules : ReadNotice(m, o) \/ PushNotice(m, o)
  \/ CrashMessage
  \/ \E o \in Modules : CrashPresence(o)

Spec == Init /\ [][Next]_vars

\* The servers run their handlers and the client reads its socket; an ack waits
\* its turn in the queue of its thread, and a notice until the process is up.
Fairness ==
  /\ \A m \in Msgs : WF_vars(MessageServer(m))
  /\ \A m \in Msgs, o \in Modules : SF_vars(ReadNotice(m, o)) /\ WF_vars(PushNotice(m, o))
  /\ \A c \in Conns : WF_vars(FetchPending(c))
                      /\ WF_vars(P!Handler(c) /\ UNCHANGED mvars)
                      /\ SF_vars(closing[c] /\ P!Close(c) /\ UNCHANGED mvars)
  /\ \A c \in Conns, m \in Msgs : WF_vars(Receive(c, m)) /\ SF_vars(ForwardAck(c, m))
  /\ \A o \in Modules : WF_vars(P!Restart(o) /\ UNCHANGED mvars)

FairSpec == Spec /\ Fairness

-----------------------------------------------------------------------------
\* A chat is pushed only to connections of its user.
PushedToItsUser ==
  \A c \in Conns, m \in Msgs :
    chat[c][m] # "no" /\ addrmap[c] \in P!Jids => addrmap[c][1] = To[m]

\* A row that says online where no session is: see Presence.
OnlineRowIsServed == P!OnlineRowIsServed

\* The row of j was last written for a connection that had been kicked out, or
\* for one of another process.
WrittenForAnother(j, c) ==
  \/ author[j] \in superseded
  \/ author[j] \in Conns /\ ModuleOf[author[j]] # ModuleOf[c]

\* No wake-up is missed: a chat that waits while its user has a session was
\* pushed to that session, or is about to be.  INSERT comes before the look-up
\* in the message server, REPLACE before the SELECT of the waiting rows in a
\* login.  The exceptions are the ones SessionHasOnlineRow names, a user who
\* was online at several processes, and an upstream, whose login does not fetch.
NoMissedWakeup ==
  (~DbFaults /\ Lossy = {}) =>
    \A c \in Conns, m \in Msgs, r \in Resources :
      LET j == <<To[m], r>> IN
      (/\ To[m] \notin Upstreams
       /\ P!Registered(c, j) /\ pc[c] = "idle" /\ ~closing[c]
       /\ row[m] = "pending" /\ chat[c][m] = "no") =>
        \/ stage[m] = "stored"
        \/ <<m, ModuleOf[c]>> \in notices \cup found
        \/ outcome[m] = "nobody" \/ WrittenForAnother(j, c)

\* The sender of a stored chat goes without an answer only if the user's ack
\* was faster than the message server.
UnansweredWasReceived ==
  (~DbFaults /\ Lossy = {}) =>
    \A m \in Msgs :
      stage[m] = "done" /\ m \notin answered => \E c \in Conns : chat[c][m] = "acked"

\* The servers implement the abstract mailbox.
Box      == {m \in Msgs : row[m] = "pending"}
Got      == {m \in Msgs : \E c \in Conns : chat[c][m] \in {"got", "acked"}}
Settled  == {m \in Msgs : row[m] \in {"read", "deleted"}}
Promised == answered \ Blocked

M == INSTANCE Mailbox WITH box <- Box, got <- Got, settled <- Settled, promised <- Promised

ImplementsMailbox == M!Spec

\* A chat that is on its way to a session reaches the client, unless the
\* session ends or the row is gone.
NoticeReachesClient ==
  \A c \in Conns, m \in Msgs, r \in Resources :
    (<<m, ModuleOf[c]>> \in notices /\ P!Registered(c, <<To[m], r>>)) ~>
      (\/ chat[c][m] \in {"got", "acked"} \/ row[m] = "deleted"
       \/ ~P!Registered(c, <<To[m], r>>))

\* A chat that a client has read leaves the store, unless its connection ends.
ReceivedIsSettled ==
  (~DbFaults /\ Lossy = {}) =>
    \A c \in Conns, m \in Msgs :
      (chat[c][m] = "got") ~> (m \in Settled \/ conn[c] = "gone")
=============================================================================
