--------------------------- MODULE DeliveryProofs ---------------------------
(***************************************************************************)
(* What holds of the delivery of chats for every number of processes,      *)
(* connections, users and chats, whatever statements fail, messages get    *)
(* lost and processes die; and, at the end, of the groups whose chats are  *)
(* delivered so.                                                           *)
(***************************************************************************)
EXTENDS Delivery, Groups, FiniteSetTheorems, TLAPS

\* Nothing about a chat comes before its row: only stored chats are noticed,
\* found or pushed, and only a client that has read one sends an ack.
StoredFirst ==
  \A m \in Msgs :
    /\ stage[m] \in {"unsent", "inbox"} => row[m] = "none"
    /\ stage[m] \in {"stored", "noticed"} => row[m] # "none"
    /\ row[m] = "none" =>
         /\ \A c \in Conns : chat[c][m] = "no"
         /\ \A o \in Modules : <<m, o>> \notin notices /\ <<m, o>> \notin found
    /\ m \in acks => \E c \in Conns : chat[c][m] = "acked"

MessageTypes ==
  /\ stage \in [Msgs -> Stages]
  /\ row \in [Msgs -> {"none", "pending", "read", "deleted"}]
  /\ outcome \in [Msgs -> {"none", "router", "iospush", "nobody"}]
  /\ notices \subseteq Msgs \X Modules
  /\ found \subseteq Msgs \X Modules
  /\ chat \in [Conns -> [Msgs -> {"no", "sent", "got", "acked"}]]
  /\ acks \subseteq Msgs
  /\ answered \subseteq Msgs

\* The inductive invariant of the delivery.
Delivered == MessageTypes /\ StoredFirst

\* No chat exists in the initial state.
LEMMA DeliveredInit == Init => Delivered
  BY DEF Init, Delivered, MessageTypes, StoredFirst, Stages

\* A push keeps the types and moves a chat from "no" to "sent", if at all.
LEMMA PushedEffect ==
  ASSUME MessageTypes, NEW C, NEW M_
  PROVE  /\ Pushed(C, M_) \in [Conns -> [Msgs -> {"no", "sent", "got", "acked"}]]
         /\ \A c \in Conns, m \in Msgs :
              /\ Pushed(C, M_)[c][m] = chat[c][m] \/ (/\ chat[c][m] = "no" /\ m \in M_
                                                      /\ Pushed(C, M_)[c][m] = "sent")
  BY DEF Pushed, MessageTypes

\* Every step of the composition keeps the invariant.
LEMMA DeliveredStep == Delivered /\ [Next]_vars => Delivered'
<1> SUFFICES ASSUME Delivered, [Next]_vars PROVE Delivered'
  OBVIOUS
<1> USE DEF Delivered
<1>1. ASSUME NEW m \in Msgs, SendChat(m) PROVE Delivered'
  BY <1>1 DEF SendChat, MessageTypes, StoredFirst, Stages
<1>2. ASSUME NEW m \in Msgs, StoreChat(m) PROVE Delivered'
  <2>1. MessageTypes'
    BY <1>2 DEF StoreChat, MessageTypes, Stages
  <2>2. StoredFirst'
    <3>0. PICK ok \in P!SqlResults :
            /\ stage' = [stage EXCEPT ![m] = IF ok THEN "stored" ELSE "done"]
            /\ \E done \in P!Effects(ok) :
                 row' = [row EXCEPT ![m] = IF done THEN "pending" ELSE @]
      BY <1>2 DEF StoreChat
    <3>1. PICK done \in P!Effects(ok) : row' = [row EXCEPT ![m] = IF done THEN "pending" ELSE @]
      BY <3>0
    <3>2. ok => done
      BY <3>1 DEF P!Effects
    <3>3. /\ stage[m] = "inbox" /\ UNCHANGED <<notices, found, chat, acks, outcome, answered>>
      BY <1>2 DEF StoreChat
    <3> QED
      BY <3>0, <3>1, <3>2, <3>3 DEF MessageTypes, StoredFirst, Stages
  <2> QED
    BY <2>1, <2>2
<1>3. ASSUME NEW m \in Msgs, CheckOnline(m) PROVE Delivered'
  <2>1. OnlineAt(m) \subseteq Modules
    BY DEF OnlineAt
  <2>2. row[m] # "none"
    BY <1>3 DEF CheckOnline, StoredFirst
  <2> QED
    BY <1>3, <2>1, <2>2 DEF CheckOnline, MessageTypes, StoredFirst, Stages
<1>4. ASSUME NEW m \in Msgs, AnswerSender(m) PROVE Delivered'
  BY <1>4 DEF AnswerSender, MessageTypes, StoredFirst, Stages
<1>5. ASSUME NEW m \in Msgs, ProcessAck(m) PROVE Delivered'
  BY <1>5 DEF ProcessAck, RowAfterAck, InTable, MessageTypes, StoredFirst
<1>6. ASSUME NEW m \in Msgs, NEW o \in Modules, ReadNotice(m, o) PROVE Delivered'
  BY <1>6 DEF ReadNotice, NoticedRow, InTable, MessageTypes, StoredFirst
<1>7. ASSUME NEW m \in Msgs, NEW o \in Modules, PushNotice(m, o) PROVE Delivered'
  <2>1. row[m] # "none"
    BY <1>7 DEF PushNotice, StoredFirst
  <2>2. /\ chat' \in [Conns -> [Msgs -> {"no", "sent", "got", "acked"}]]
        /\ \A c \in Conns, n \in Msgs :
             chat'[c][n] = chat[c][n] \/ (chat[c][n] = "no" /\ n = m)
    BY <1>7, PushedEffect DEF PushNotice
  <2>3. UNCHANGED <<stage, row, outcome, notices, acks, answered>> /\ found' \subseteq found
    BY <1>7 DEF PushNotice
  <2>4. MessageTypes'
    BY <2>2, <2>3 DEF MessageTypes
  <2>5. StoredFirst'
    BY <2>1, <2>2, <2>3 DEF MessageTypes, StoredFirst
  <2> QED
    BY <2>4, <2>5
<1>8. ASSUME NEW c \in Conns, FetchPending(c) PROVE Delivered'
  BY <1>8, PushedEffect DEF FetchPending, Waiting, MessageTypes, StoredFirst
<1>9. ASSUME NEW c \in Conns, NEW m \in Msgs, Receive(c, m) PROVE Delivered'
  BY <1>9 DEF Receive, MessageTypes, StoredFirst
<1>10. ASSUME NEW c \in Conns, NEW m \in Msgs, ForwardAck(c, m) PROVE Delivered'
  BY <1>10 DEF ForwardAck, MessageTypes, StoredFirst
<1>11. ASSUME NEW m \in Msgs, Lose(m) PROVE Delivered'
  BY <1>11 DEF Lose, MessageTypes, StoredFirst, Stages
<1>12. ASSUME CrashMessage PROVE Delivered'
  BY <1>12 DEF CrashMessage, MessageTypes, StoredFirst, Stages
<1>13. ASSUME NEW o \in Modules, CrashPresence(o) PROVE Delivered'
  BY <1>13 DEF CrashPresence, MessageTypes, StoredFirst
<1>14. CASE UNCHANGED mvars
  BY <1>14 DEF mvars, MessageTypes, StoredFirst
<1>15. CASE UNCHANGED vars
  BY <1>14, <1>15 DEF vars
<1> QED
  BY <1>1, <1>2, <1>3, <1>4, <1>5, <1>6, <1>7, <1>8, <1>9, <1>10, <1>11, <1>12,
     <1>13, <1>14, <1>15 DEF Next, MessageServer

\* The row of a chat comes before everything else about it.
THEOREM DeliveryInvariant == Spec => []Delivered
  BY DeliveredInit, DeliveredStep, PTL DEF Spec

-----------------------------------------------------------------------------
\* Every step is one of the abstract mailbox's or changes nothing there.
LEMMA MailboxStep == Delivered /\ [Next]_vars => [M!Next]_(M!vars)
<1> SUFFICES ASSUME Delivered, [Next]_vars PROVE M!Next \/ UNCHANGED M!vars
  OBVIOUS
<1> USE DEF Delivered
<1> DEFINE Same == UNCHANGED <<Box, Got, Settled, Promised>>
<1>0. Same => UNCHANGED M!vars
  BY DEF M!vars
<1>1. ASSUME NEW m \in Msgs, SendChat(m) PROVE Same
  <2>1. UNCHANGED <<row, chat>> /\ Promised' = Promised
    BY <1>1 DEF SendChat, Promised
  <2> QED
    BY <2>1 DEF Box, Got, Settled
<1>2. ASSUME NEW m \in Msgs, StoreChat(m) PROVE M!Next \/ Same
  <2>1. /\ row[m] = "none" /\ UNCHANGED <<chat, answered>>
        /\ row' = row \/ row' = [row EXCEPT ![m] = "pending"]
    BY <1>2 DEF StoreChat, StoredFirst, MessageTypes
  <2>2. CASE row' = row
    BY <2>1, <2>2 DEF Box, Got, Settled, Promised
  <2>3. CASE row' = [row EXCEPT ![m] = "pending"]
    <3>1. m \notin Box \cup Settled /\ Box' = Box \cup {m} /\ Settled' = Settled
      BY <2>1, <2>3 DEF MessageTypes, Box, Settled
    <3>2. Got' = Got /\ Promised' = Promised
      BY <2>1 DEF Got, Promised
    <3> QED
      BY <3>1, <3>2 DEF M!Next, M!Store
  <2> QED
    BY <2>1, <2>2, <2>3
<1>3. ASSUME NEW m \in Msgs, AnswerSender(m) PROVE M!Next \/ Same
  <2>1. /\ UNCHANGED <<row, chat>>
        /\ answered' = answered \/ (InTable(m) /\ answered' = answered \cup {m})
    BY <1>3 DEF AnswerSender, Answerable
  <2>2. Box' = Box /\ Got' = Got /\ Settled' = Settled
    BY <2>1 DEF Box, Got, Settled
  <2>3. CASE answered' = answered \/ m \in Blocked
    BY <2>1, <2>2, <2>3 DEF Promised
  <2>4. CASE m \notin Blocked /\ InTable(m) /\ answered' = answered \cup {m}
    <3>1. m \in Box \cup Settled /\ Promised' = Promised \cup {m}
      BY <2>4 DEF InTable, Box, Settled, Promised
    <3> QED
      BY <2>2, <3>1 DEF M!Next, M!Promise
  <2> QED
    BY <2>1, <2>3, <2>4
<1>4. ASSUME NEW m \in Msgs, ProcessAck(m) PROVE M!Next \/ Same
  <2>1. /\ m \in acks /\ UNCHANGED <<chat, answered>>
        /\ \/ row' = row
           \/ InTable(m) /\ \E s \in {"read", "deleted"} : row' = [row EXCEPT ![m] = s]
    BY <1>4 DEF ProcessAck, RowAfterAck
  <2>2. Got' = Got /\ Promised' = Promised
    BY <2>1 DEF Got, Promised
  <2>3. CASE row' = row
    BY <2>2, <2>3 DEF Box, Settled
  <2>4. ASSUME NEW s \in {"read", "deleted"}, InTable(m), row' = [row EXCEPT ![m] = s]
        PROVE  M!Next \/ Same
    <3>1. CASE row[m] = "pending"
      <4>1. m \in Box \cap Got
        BY <2>1, <3>1 DEF StoredFirst, Box, Got
      <4>2. Box' = Box \ {m} /\ Settled' = Settled \cup {m}
        BY <2>4, <3>1 DEF MessageTypes, Box, Settled
      <4> QED
        BY <2>2, <4>1, <4>2 DEF M!Next, M!Settle
    <3>2. CASE row[m] = "read"
      BY <2>2, <2>4, <3>2 DEF MessageTypes, Box, Settled
    <3> QED
      BY <2>4, <3>1, <3>2 DEF InTable
  <2> QED
    BY <2>1, <2>3, <2>4
<1>5. ASSUME UNCHANGED <<row, answered, chat>> PROVE Same
  BY <1>5 DEF Box, Got, Settled, Promised
<1>6. ASSUME NEW C, NEW N, chat' = Pushed(C, N), UNCHANGED <<row, answered>> PROVE Same
  <2>1. \A c \in Conns, m \in Msgs :
          chat'[c][m] \in {"got", "acked"} <=> chat[c][m] \in {"got", "acked"}
    BY <1>6, PushedEffect
  <2>2. Got' = Got
    BY <2>1 DEF Got
  <2> QED
    BY <1>6, <2>2 DEF Box, Settled, Promised
<1>7. ASSUME NEW c \in Conns, NEW m \in Msgs, Receive(c, m) PROVE M!Next
  <2>1. /\ chat[c][m] = "sent" /\ chat' = [chat EXCEPT ![c][m] = "got"]
        /\ UNCHANGED <<row, answered>>
    BY <1>7 DEF Receive
  <2>2. m \in Box \cup Settled
    BY <2>1 DEF MessageTypes, StoredFirst, Box, Settled
  <2>3. Got' = Got \cup {m}
    BY <2>1 DEF MessageTypes, Got
  <2>4. Box' = Box /\ Settled' = Settled /\ Promised' = Promised
    BY <2>1 DEF Box, Settled, Promised
  <2> QED
    BY <2>2, <2>3, <2>4 DEF M!Next, M!Deliver
<1>8. ASSUME NEW c \in Conns, NEW m \in Msgs, ForwardAck(c, m) PROVE Same
  <2>1. /\ chat[c][m] = "got" /\ chat' = [chat EXCEPT ![c][m] = "acked"]
        /\ UNCHANGED <<row, answered>>
    BY <1>8 DEF ForwardAck
  <2>2. Got' = Got
    BY <2>1 DEF MessageTypes, Got
  <2> QED
    BY <2>1, <2>2 DEF Box, Settled, Promised
<1>9. ASSUME \/ \E m \in Msgs, o \in Modules : PushNotice(m, o)
             \/ \E c \in Conns : FetchPending(c)
      PROVE  Same
  BY <1>5, <1>6, <1>9 DEF PushNotice, FetchPending
<1>10. ASSUME \/ \E m \in Msgs : CheckOnline(m) \/ Lose(m)
              \/ \E m \in Msgs, o \in Modules : ReadNotice(m, o)
              \/ CrashMessage \/ \E o \in Modules : CrashPresence(o)
              \/ UNCHANGED mvars \/ UNCHANGED vars
       PROVE  Same
  BY <1>5, <1>10 DEF CheckOnline, Lose, ReadNotice, CrashMessage, CrashPresence, mvars, vars
<1> QED
  BY <1>0, <1>1, <1>2, <1>3, <1>4, <1>7, <1>8, <1>9, <1>10 DEF Next, MessageServer

\* The servers implement the mailbox whatever fails: a chat leaves the store
\* only after a client has received it, and a sender is answered only for a
\* chat that was stored, or for one to a user on the blacklist.
THEOREM DeliveryImplementsMailbox == Spec => ImplementsMailbox
<1>1. Init => M!Init
  BY DEF Init, M!Init, Box, Got, Settled, Promised
<1> QED
  BY <1>1, DeliveryInvariant, MailboxStep, PTL DEF Spec, ImplementsMailbox, M!Spec

-----------------------------------------------------------------------------
\* A step of the composition is a step of the sessions or leaves them alone.
LEMMA PresenceStep == [Next]_vars => [P!Next]_(P!vars)
<1> SUFFICES ASSUME [Next]_vars PROVE P!Next \/ UNCHANGED P!vars
  OBVIOUS
<1>1. CASE P!SessionStep
  BY <1>1 DEF P!Next
<1>2. ASSUME NEW c \in Conns, FetchPending(c) PROVE P!Next
  BY <1>2 DEF FetchPending, P!Next
<1>3. ASSUME NEW o \in Modules, CrashPresence(o) PROVE P!Next
  BY <1>3 DEF CrashPresence, P!Next
<1>4. CASE UNCHANGED pvars
  BY <1>4 DEF pvars, P!vars
<1> QED
  BY <1>1, <1>2, <1>3, <1>4 DEF Next, MessageServer, SendChat, StoreChat, CheckOnline,
    AnswerSender, ProcessAck, ReadNotice, PushNotice, Receive, ForwardAck, Lose,
    CrashMessage, vars

\* The sessions of the composition are those of Presence.
THEOREM DeliveryImplementsPresence == Spec => P!Spec
<1>1. Init => P!Init
  BY DEF Init
<1> QED
  BY <1>1, PresenceStep, PTL DEF Spec, P!Spec

-----------------------------------------------------------------------------
\* The theorems of the registry, for the Presence of this module.
PP == INSTANCE PresenceProofs

\* The assumption on the constants is that of Presence.
LEMMA SameAssumption == PP!PresenceAssumption
  BY DeliveryAssumption DEF P!PresenceAssumption, PP!PresenceAssumption, P!Jids, PP!Jids

\* Both instances of Presence start alike ...
LEMMA SameInit == P!Init <=> PP!Init
  BY DEF P!Init, PP!Init, P!Jids, PP!Jids

\* ... and take the same steps.
LEMMA SameSessionStep == P!SessionStep <=> PP!SessionStep
  BY DEF P!SessionStep, PP!SessionStep, P!Connect, PP!Connect,
    P!Close, PP!Close, P!FirstMessageNotLogin, PP!FirstMessageNotLogin,
    P!LoginStart, PP!LoginStart, P!LoginSelect, PP!LoginSelect,
    P!LoginRegister, PP!LoginRegister, P!LoginReplace, PP!LoginReplace,
    P!LogoutStart, PP!LogoutStart,
    P!LogoutUpdate, PP!LogoutUpdate, P!ProcessClose, PP!ProcessClose,
    P!LoseClose, PP!LoseClose, P!Restart, PP!Restart, P!RestartFails, PP!RestartFails,
    P!CanRun, PP!CanRun, P!SqlResults, PP!SqlResults, P!Effects, PP!Effects,
    P!UpdateRow, PP!UpdateRow, P!ReplaceRow, PP!ReplaceRow,
    P!OnlineElsewhere, PP!OnlineElsewhere, P!AddrmapAfterLogin, PP!AddrmapAfterLogin,
    P!KickoutCloses, PP!KickoutCloses, P!Kicked, PP!Kicked,
    P!ReplaceFails, PP!ReplaceFails, P!ToldToReconnect, PP!ToldToReconnect,
    P!RowsCleared, PP!RowsCleared, P!Jids, PP!Jids

LEMMA SameFetchAndCrash ==
  /\ \A c \in Conns : P!LoginFetch(c) <=> PP!LoginFetch(c)
  /\ \A o \in Modules : P!Crash(o) <=> PP!Crash(o)
  BY DEF P!LoginFetch, PP!LoginFetch, P!Crash, PP!Crash, P!Jids, PP!Jids

LEMMA SameNext == [P!Next]_(P!vars) <=> [PP!Next]_(PP!vars)
<1>1. P!vars = PP!vars
  BY DEF P!vars, PP!vars
<1>2. P!Next <=> PP!Next
  BY SameSessionStep, SameFetchAndCrash DEF P!Next, PP!Next
<1>3. (P!Next \/ UNCHANGED P!vars) <=> (PP!Next \/ UNCHANGED PP!vars)
  BY <1>1, <1>2 DEF P!vars, PP!vars
<1> QED
  BY ONLY <1>3

LEMMA SameSpec == P!Spec => PP!Spec
  BY SameInit, SameNext, PTL DEF P!Spec, PP!Spec

\* So what holds of the registry holds of the composition.
LEMMA DeliveryRegistry ==
  Spec => []PP!Registry /\ []PP!SessionRows /\ []PP!OnlineRowIsServed
  BY SameSpec, DeliveryImplementsPresence, SameAssumption, PP!RegistryInvariant,
     PP!SessionRowsInvariant, PP!PresenceOnlineRowIsServed, PTL

\* While no statement fails, a row that says online at a running process without
\* a session there was last written by a login that had been kicked out before
\* its REPLACE, also with the chats in between.
THEOREM DeliveryOnlineRowIsServed == Spec => []OnlineRowIsServed
<1>1. PP!OnlineRowIsServed => OnlineRowIsServed
  BY DEF OnlineRowIsServed, PP!OnlineRowIsServed, P!OnlineRowIsServed, PP!Jids, P!Jids
<1> QED
  BY <1>1, DeliveryRegistry, PTL

\* The variables of the composition keep their types.
THEOREM DeliveryTypeOK == Spec => []TypeOK
<1>1. Delivered /\ PP!Registry => TypeOK
  BY DEF Delivered, MessageTypes, TypeOK, PP!Registry, PP!TypeOK, P!TypeOK,
     PP!PCs, P!PCs, PP!Rows, P!Rows, PP!Jids, P!Jids
<1> QED
  BY <1>1, DeliveryInvariant, DeliveryRegistry, PTL

\* A connection to which a chat was pushed has connected, has its name, and
\* keeps the name for as long as it has its User.
OwnChats ==
  \A c \in Conns, m \in Msgs :
    chat[c][m] # "no" =>
      /\ conn[c] # "new" /\ addrmap[c] # Fresh
      /\ addrmap[c] \in P!Jids => addrmap[c][1] = To[m]

\* A push goes to connections with the name, and no step takes it away.
LEMMA OwnChatsStep ==
  Delivered /\ PP!Registry /\ OwnChats /\ [Next]_vars => OwnChats'
<1> SUFFICES ASSUME Delivered, PP!Registry, OwnChats, [Next]_vars PROVE OwnChats'
  OBVIOUS
<1>1. [PP!Next]_(PP!vars)
  BY PresenceStep, SameNext
<1>2. ASSUME NEW c \in Conns, NEW m \in Msgs, chat[c][m] # "no"
      PROVE  /\ conn'[c] # "new" /\ addrmap'[c] # Fresh
             /\ addrmap'[c] \in P!Jids => addrmap'[c][1] = To[m]
  <2>1. conn'[c] # "new" /\ addrmap'[c] \in {addrmap[c], Absent}
    BY <1>1, <1>2, SameAssumption, PP!AddrmapMoves DEF OwnChats
  <2>2. Absent # Fresh /\ Absent \notin P!Jids
    BY DeliveryAssumption DEF P!PresenceAssumption
  <2> QED
    BY <1>2, <2>1, <2>2 DEF OwnChats
<1>3. ASSUME \A c \in Conns, m \in Msgs : chat'[c][m] # "no" => chat[c][m] # "no"
      PROVE  OwnChats'
  BY <1>2, <1>3 DEF OwnChats
<1> USE DEF Delivered
<1>4. ASSUME NEW m \in Msgs, NEW o \in Modules, PushNotice(m, o) PROVE OwnChats'
  <2>1. \A c \in Served(m, o) :
          conn[c] = "live" /\ \E r \in Resources : addrmap[c] = <<To[m], r>>
    <3> SUFFICES ASSUME NEW r \in Resources, NEW c \in Conns,
                        usermap[o][<<To[m], r>>] = c
                 PROVE  conn[c] = "live" /\ addrmap[c] = <<To[m], r>>
      BY DEF Served
    <3>1. <<To[m], r>> \in PP!Jids /\ c # None /\ Absent \notin PP!Jids
      BY DeliveryAssumption, SameAssumption DEF PP!PresenceAssumption, PP!Jids
    <3> QED
      BY <3>1 DEF PP!Registry, PP!MapsAgree, PP!LoginFindsUser
  <2>2. /\ UNCHANGED <<conn, addrmap>>
        /\ \A c \in Conns, n \in Msgs :
             chat'[c][n] # "no" => chat[c][n] # "no" \/ (n = m /\ c \in Served(m, o))
    <3>1. chat' = Pushed(Served(m, o), {m}) /\ UNCHANGED <<conn, addrmap>>
      BY <1>4 DEF PushNotice, pvars
    <3> QED
      BY <3>1 DEF Pushed
  <2>3. \A r \in Resources : <<To[m], r>> # Fresh /\ <<To[m], r>>[1] = To[m]
    BY DeliveryAssumption DEF P!PresenceAssumption, P!Jids
  <2> QED
    BY <2>1, <2>2, <2>3 DEF OwnChats
<1>5. ASSUME NEW c \in Conns, FetchPending(c) PROVE OwnChats'
  <2>1. pc[c] = "fetch" /\ UNCHANGED <<conn, addrmap>>
    BY <1>5 DEF FetchPending, P!LoginFetch
  <2>2. /\ want[c] \in P!Jids /\ conn[c] = "live"
        /\ addrmap[c] \in {want[c], Absent}
    BY <2>1 DEF PP!Registry, PP!HandlerOwnsJid, PP!SupersededIsClosing, PP!Jids, P!Jids
  <2>3. Absent # Fresh /\ Absent \notin P!Jids /\ Fresh \notin P!Jids
    BY DeliveryAssumption DEF P!PresenceAssumption
  <2>4. \A d \in Conns, n \in Msgs :
          chat'[d][n] # "no" => chat[d][n] # "no" \/ (d = c /\ To[n] = want[c][1])
    BY <1>5 DEF FetchPending, Pushed, Waiting
  <2> QED
    BY <2>1, <2>2, <2>3, <2>4 DEF OwnChats
<1>6. ASSUME \E c \in Conns, m \in Msgs : Receive(c, m) \/ ForwardAck(c, m)
      PROVE  OwnChats'
  BY <1>3, <1>6 DEF Receive, ForwardAck, MessageTypes
<1>7. ASSUME \/ \E m \in Msgs : SendChat(m) \/ MessageServer(m) \/ Lose(m)
             \/ \E m \in Msgs, o \in Modules : ReadNotice(m, o)
             \/ CrashMessage \/ \E o \in Modules : CrashPresence(o)
             \/ UNCHANGED mvars \/ UNCHANGED vars
      PROVE  OwnChats'
  BY <1>3, <1>7 DEF SendChat, MessageServer, StoreChat, CheckOnline, AnswerSender,
     ProcessAck, Lose, ReadNotice, CrashMessage, CrashPresence, mvars, vars
<1> QED
  BY <1>4, <1>5, <1>6, <1>7 DEF Next

\* ProcessChat pushes a chat to connections of its own user only, although it
\* reads the row, looks the user up and pushes in steps of their own.
THEOREM DeliveryPushedToItsUser == Spec => []PushedToItsUser
<1>1. Init => OwnChats
  BY DEF Init, OwnChats
<1>2. OwnChats => PushedToItsUser
  BY DEF OwnChats, PushedToItsUser
<1> QED
  BY <1>1, <1>2, OwnChatsStep, DeliveryInvariant, DeliveryRegistry, PTL DEF Spec

-----------------------------------------------------------------------------
\* A row leaves the table by an ack, so some client has received its chat, and
\* a client that has acknowledged one stays so.
SettledWasReceived ==
  \A m \in Msgs : row[m] = "deleted" => \E c \in Conns : chat[c][m] = "acked"

LEMMA SettledStep ==
  Delivered /\ SettledWasReceived /\ UnansweredWasReceived /\ [Next]_vars =>
    SettledWasReceived' /\ UnansweredWasReceived'
<1> SUFFICES ASSUME Delivered, SettledWasReceived, UnansweredWasReceived, [Next]_vars
             PROVE  SettledWasReceived' /\ UnansweredWasReceived'
  OBVIOUS
<1> USE DEF Delivered
<1>a. ASSUME NEW c \in Conns, NEW m \in Msgs, chat[c][m] = "acked" PROVE chat'[c][m] = "acked"
  <2>1. ASSUME NEW C, NEW N, chat' = Pushed(C, N) PROVE chat'[c][m] = "acked"
    BY <1>a, <2>1, PushedEffect
  <2>2. ASSUME UNCHANGED chat PROVE chat'[c][m] = "acked"
    BY <1>a, <2>2
  <2>3. ASSUME NEW d \in Conns, NEW n \in Msgs, Receive(d, n) \/ ForwardAck(d, n)
        PROVE  chat'[c][m] = "acked"
    BY <1>a, <2>3 DEF Receive, ForwardAck, MessageTypes
  <2> QED
    BY <2>1, <2>2, <2>3 DEF Next, MessageServer, SendChat, StoreChat, CheckOnline,
      AnswerSender, ProcessAck, ReadNotice, PushNotice, FetchPending, Lose, CrashMessage,
      CrashPresence, mvars, vars
<1>b. ASSUME NEW m \in Msgs, \E c \in Conns : chat[c][m] = "acked"
      PROVE  \E c \in Conns : chat'[c][m] = "acked"
  BY <1>a, <1>b
<1>1. ASSUME NEW m \in Msgs, row'[m] = "deleted" PROVE \E c \in Conns : chat'[c][m] = "acked"
  <2>1. CASE row[m] = "deleted"
    BY <1>b, <2>1 DEF SettledWasReceived
  <2>2. CASE row[m] # "deleted"
    <3>1. m \in acks
      <4>1. ASSUME NEW n \in Msgs, StoreChat(n) PROVE FALSE
        BY <1>1, <2>2, <4>1 DEF StoreChat, MessageTypes
      <4>2. ASSUME NEW n \in Msgs, ProcessAck(n) PROVE m \in acks
        BY <1>1, <2>2, <4>2 DEF ProcessAck, MessageTypes
      <4>3. ASSUME UNCHANGED row PROVE FALSE
        BY <1>1, <2>2, <4>3
      <4> QED
        BY <4>1, <4>2, <4>3 DEF Next, MessageServer, SendChat, CheckOnline,
          AnswerSender, ReadNotice, PushNotice, FetchPending, Receive, ForwardAck,
          Lose, CrashMessage, CrashPresence, mvars, vars
    <3> QED
      BY <1>b, <3>1 DEF StoredFirst
  <2> QED
    BY <2>1, <2>2
<1>2. ASSUME ~DbFaults, Lossy = {}, NEW m \in Msgs, stage'[m] = "done", m \notin answered'
      PROVE  \E c \in Conns : chat'[c][m] = "acked"
  <2>1. CASE stage[m] = "done"
    <3>1. m \notin answered
      BY <1>2 DEF Next, MessageServer, SendChat, StoreChat, CheckOnline, AnswerSender,
        ProcessAck, ReadNotice, PushNotice, FetchPending, Receive, ForwardAck, Lose,
        CrashMessage, CrashPresence, mvars, vars
    <3> QED
      BY <1>2, <1>b, <2>1, <3>1 DEF UnansweredWasReceived
  <2>2. CASE stage[m] # "done"
    <3>1. \A ok \in P!SqlResults : ok = TRUE
      BY <1>2 DEF P!SqlResults
    <3>2. AnswerSender(m) /\ ~Answerable(m)
      <4>1. ASSUME NEW n \in Msgs, SendChat(n) PROVE FALSE
        BY <1>2, <2>2, <3>1, <4>1 DEF SendChat, MessageTypes
      <4>2. ASSUME NEW n \in Msgs, StoreChat(n) PROVE FALSE
        BY <1>2, <2>2, <3>1, <4>2 DEF StoreChat, MessageTypes
      <4>3. ASSUME NEW n \in Msgs, CheckOnline(n) PROVE FALSE
        BY <1>2, <2>2, <4>3 DEF CheckOnline, MessageTypes
      <4>4. ASSUME NEW n \in Msgs, AnswerSender(n) PROVE n = m /\ ~Answerable(m)
        BY <1>2, <2>2, <3>1, <4>4 DEF AnswerSender, MessageTypes
      <4>5. ASSUME UNCHANGED stage PROVE FALSE
        BY <1>2, <2>2, <4>5
      <4> QED
        BY <1>2, <4>1, <4>2, <4>3, <4>4, <4>5 DEF Next, MessageServer, ProcessAck,
          ReadNotice, PushNotice, FetchPending, Receive, ForwardAck, Lose, CrashMessage,
          CrashPresence, mvars, vars
    <3>3. row[m] = "deleted"
      BY <3>2 DEF AnswerSender, Answerable, InTable, StoredFirst, MessageTypes
    <3> QED
      BY <1>b, <3>3 DEF SettledWasReceived
  <2> QED
    BY <2>1, <2>2
<1> QED
  BY <1>1, <1>2 DEF SettledWasReceived, UnansweredWasReceived

\* While nothing fails, a sender whose chat was stored and who is not answered
\* has no news to get: the user had acknowledged the chat before the message
\* server looked for its row.
THEOREM DeliveryUnansweredWasReceived == Spec => []UnansweredWasReceived
<1>1. Init => SettledWasReceived /\ UnansweredWasReceived
  BY DEF Init, SettledWasReceived, UnansweredWasReceived
<1> QED
  BY <1>1, SettledStep, DeliveryInvariant, PTL DEF Spec

-----------------------------------------------------------------------------
\* The row of a session at rest, when the message server looks its user up.
LEMMA LookUpFindsSession ==
  ASSUME PP!Registry, PP!SessionRows, ~DbFaults,
         NEW m \in Msgs, NEW c \in Conns, NEW r \in Resources,
         usermap[ModuleOf[c]][<<To[m], r>>] = c, pc[c] = "idle", ~closing[c]
  PROVE  ModuleOf[c] \in OnlineAt(m) \/ WrittenForAnother(<<To[m], r>>, c)
<1>1. <<To[m], r>> \in PP!Jids /\ ModuleOf[c] \in Modules
  BY DeliveryAssumption, SameAssumption DEF PP!PresenceAssumption, PP!Jids
<1>2. \/ online[<<To[m], r>>] = [st |-> "on", at |-> ModuleOf[c]]
      \/ WrittenForAnother(<<To[m], r>>, c)
  BY <1>1 DEF PP!SessionRows, PP!Registered, WrittenForAnother
<1> QED
  BY <1>1, <1>2 DEF OnlineAt

\* No step lets a chat slip past a session of its user.
LEMMA WakeupStep ==
  Delivered /\ PP!Registry /\ PP!SessionRows /\ NoMissedWakeup /\ [Next]_vars
    => NoMissedWakeup'
<1> SUFFICES ASSUME Delivered, PP!Registry, PP!SessionRows, NoMissedWakeup, [Next]_vars,
                    ~DbFaults, Lossy = {},
                    NEW c \in Conns, NEW m \in Msgs, NEW r \in Resources,
                    To[m] \notin Upstreams,
                    usermap'[ModuleOf[c]][<<To[m], r>>] = c,
                    pc'[c] = "idle", ~closing'[c],
                    row'[m] = "pending", chat'[c][m] = "no"
             PROVE  \/ stage'[m] = "stored"
                    \/ <<m, ModuleOf[c]>> \in notices' \cup found'
                    \/ outcome'[m] = "nobody" \/ WrittenForAnother(<<To[m], r>>, c)'
  BY DEF NoMissedWakeup, P!Registered
<1> DEFINE j == <<To[m], r>>
           Woken == \/ stage'[m] = "stored"
                    \/ <<m, ModuleOf[c]>> \in notices' \cup found'
                    \/ outcome'[m] = "nobody" \/ WrittenForAnother(j, c)'
<1> USE DEF Delivered
<1>a. j \in PP!Jids /\ j[1] = To[m] /\ ModuleOf[c] \in Modules /\ c # None
  BY DeliveryAssumption, SameAssumption DEF PP!PresenceAssumption, PP!Jids
<1>b. \A ok \in P!SqlResults : ok = TRUE
  BY DEF P!SqlResults
\* The session was at rest before, but at the end of its own login.
<1>c. CASE FetchPending(c)
  <2>1. /\ pc[c] = "fetch" /\ UNCHANGED <<usermap, row>>
        /\ chat' = Pushed({c}, Waiting(c))
    BY <1>b, <1>c DEF FetchPending, P!LoginFetch
  <2>2. addrmap[c] = j
    BY <1>a, <2>1 DEF PP!Registry, PP!MapsAgree
  <2>3. want[c] = j
    BY <1>a, <2>1, <2>2, SameAssumption DEF PP!Registry, PP!HandlerOwnsJid,
      PP!SupersededIsClosing, PP!PresenceAssumption
  <2>4. m \in Waiting(c)
    BY <1>a, <2>1, <2>3 DEF Waiting
  <2> QED
    BY <2>1, <2>4 DEF Pushed
<1> SUFFICES ASSUME ~FetchPending(c) PROVE Woken
  BY <1>c
<1>d. /\ usermap[ModuleOf[c]][j] = c /\ pc[c] = "idle" /\ ~closing[c]
      /\ WrittenForAnother(j, c) => WrittenForAnother(j, c)'
  <2>1. \/ PP!SessionStep
        \/ \E o \in Modules : PP!Crash(o)
        \/ \E d \in Conns \ {c} : PP!LoginFetch(d)
        \/ UNCHANGED PP!vars
    <3>1. CASE P!SessionStep
      BY <3>1, SameSessionStep
    <3>2. ASSUME NEW o \in Modules, CrashPresence(o) PROVE PP!Crash(o)
      BY <3>2, SameFetchAndCrash DEF CrashPresence
    <3>3. ASSUME NEW d \in Conns, FetchPending(d) PROVE d # c /\ PP!LoginFetch(d)
      BY <3>3, SameFetchAndCrash DEF FetchPending
    <3>4. CASE UNCHANGED pvars
      BY <3>4 DEF pvars, PP!vars
    <3> QED
      BY <3>1, <3>2, <3>3, <3>4 DEF Next, MessageServer, SendChat, StoreChat, CheckOnline,
        AnswerSender, ProcessAck, ReadNotice, PushNotice, Receive, ForwardAck, Lose,
        CrashMessage, vars
  <2>2. /\ PP!Registered(c, j) /\ pc[c] = "idle" /\ ~closing[c]
        /\ PP!RowOfAnother(j, c) => PP!RowOfAnother(j, c)'
    BY <1>a, <2>1, SameAssumption, PP!RestingSession
  <2> QED
    BY <2>2 DEF PP!Registered, PP!RowOfAnother, WrittenForAnother
<1>e. ASSUME row[m] = "pending", chat[c][m] = "no"
      PROVE  \/ stage[m] = "stored"
             \/ <<m, ModuleOf[c]>> \in notices \cup found
             \/ outcome[m] = "nobody" \/ WrittenForAnother(j, c)
  BY <1>d, <1>e DEF NoMissedWakeup, P!Registered
<1>f. ASSUME row[m] = "pending", chat[c][m] = "no",
             stage[m] = "stored" => stage'[m] = "stored",
             <<m, ModuleOf[c]>> \in notices \cup found =>
               <<m, ModuleOf[c]>> \in notices' \cup found',
             outcome'[m] = outcome[m]
      PROVE  Woken
  BY <1>d, <1>e, <1>f
<1>g. ASSUME NEW C, NEW N, chat' = Pushed(C, N) PROVE chat[c][m] = "no"
  BY <1>g, PushedEffect
<1> HIDE DEF j, Woken
<1>1. ASSUME NEW n \in Msgs, SendChat(n) PROVE Woken
  BY <1>1, <1>f DEF SendChat, MessageTypes
<1>2. ASSUME NEW n \in Msgs, StoreChat(n) PROVE Woken
  <2>1. /\ stage' = [stage EXCEPT ![n] = "stored"] /\ row' = [row EXCEPT ![n] = "pending"]
        /\ UNCHANGED <<outcome, notices, found, chat>>
    BY <1>b, <1>2 DEF StoreChat, P!Effects
  <2>2. CASE n = m
    BY <2>1, <2>2 DEF MessageTypes, Woken
  <2>3. CASE n # m
    BY <1>f, <2>1, <2>3 DEF MessageTypes
  <2> QED
    BY <2>2, <2>3
<1>3. ASSUME NEW n \in Msgs, CheckOnline(n) PROVE Woken
  <2>1. UNCHANGED <<pvars, row, found, chat>> /\ stage' = [stage EXCEPT ![n] = "noticed"]
    BY <1>3 DEF CheckOnline
  <2>2. CASE n = m
    <3>1. ModuleOf[c] \in OnlineAt(m) \/ WrittenForAnother(j, c)
      BY <1>d, LookUpFindsSession DEF j
    <3>2. ASSUME ModuleOf[c] \in OnlineAt(m)
          PROVE  <<m, ModuleOf[c]>> \in notices' \/ outcome'[m] = "nobody"
      BY <1>3, <1>b, <2>2, <3>2 DEF CheckOnline, MessageTypes
    <3> QED
      BY <1>d, <3>1, <3>2 DEF Woken
  <2>3. CASE n # m
    <3>1. notices \subseteq notices' /\ outcome'[m] = outcome[m]
      BY <1>3, <2>3 DEF CheckOnline, MessageTypes
    <3> QED
      BY <1>f, <2>1, <2>3, <3>1 DEF MessageTypes
  <2> QED
    BY <2>2, <2>3
<1>4. ASSUME NEW n \in Msgs, AnswerSender(n) PROVE Woken
  BY <1>4, <1>f DEF AnswerSender, MessageTypes
<1>5. ASSUME NEW n \in Msgs, ProcessAck(n) PROVE Woken
  BY <1>5, <1>f DEF ProcessAck, RowAfterAck, MessageTypes
<1>6. ASSUME NEW n \in Msgs, NEW o \in Modules, ReadNotice(n, o) PROVE Woken
  <2>1. /\ UNCHANGED <<stage, row, outcome, chat>> /\ notices' = notices \ {<<n, o>>}
        /\ found' = IF NoticedRow(n) THEN found \cup {<<n, o>>} ELSE found
    BY <1>b, <1>6 DEF ReadNotice
  <2>2. row[m] = "pending" /\ NoticedRow(m)
    BY <2>1 DEF NoticedRow, InTable
  <2>3. <<m, ModuleOf[c]>> \in notices \cup found => <<m, ModuleOf[c]>> \in notices' \cup found'
    BY <2>1, <2>2
  <2> QED
    BY <1>f, <2>1, <2>2, <2>3
<1>7. ASSUME NEW n \in Msgs, NEW o \in Modules, PushNotice(n, o) PROVE Woken
  <2>1. /\ UNCHANGED <<stage, row, outcome, notices, pvars>> /\ found' = found \ {<<n, o>>}
        /\ chat' = Pushed(Served(n, o), {n})
    BY <1>7 DEF PushNotice
  <2>2. ~(n = m /\ o = ModuleOf[c])
    <3> SUFFICES ASSUME n = m, o = ModuleOf[c] PROVE FALSE
      OBVIOUS
    <3>1. c \in Served(m, o)
      BY <1>d DEF Served, j
    <3> QED
      BY <2>1, <3>1 DEF Pushed
  <2> QED
    BY <1>f, <1>g, <2>1, <2>2
<1>8. ASSUME NEW d \in Conns, FetchPending(d) PROVE Woken
  <2>1. UNCHANGED <<stage, row, outcome, notices, found>> /\ chat' = Pushed({d}, Waiting(d))
    BY <1>b, <1>8 DEF FetchPending
  <2> QED
    BY <1>f, <1>g, <2>1
<1>9. ASSUME NEW d \in Conns, NEW n \in Msgs, Receive(d, n) \/ ForwardAck(d, n) PROVE Woken
  <2>1. /\ UNCHANGED <<stage, row, outcome, notices, found>>
        /\ \E s \in {"got", "acked"} : chat' = [chat EXCEPT ![d][n] = s]
    BY <1>9 DEF Receive, ForwardAck
  <2>2. chat[c][m] = "no"
    BY <2>1 DEF MessageTypes
  <2> QED
    BY <1>f, <2>1, <2>2
<1>10. ASSUME (\E n \in Msgs : Lose(n)) \/ CrashMessage PROVE FALSE
  BY <1>10 DEF Lose, CrashMessage
<1>11. ASSUME NEW o \in Modules, CrashPresence(o) PROVE Woken
  <2>1. UNCHANGED <<stage, row, outcome, chat>>
    BY <1>11 DEF CrashPresence
  <2>2. o # ModuleOf[c]
    <3>1. PP!Crash(o)
      BY <1>11, SameFetchAndCrash DEF CrashPresence
    <3>2. j \in PP!Jids /\ usermap' = [usermap EXCEPT ![o] = [i \in PP!Jids |-> None]]
      BY <1>a, <3>1 DEF PP!Crash, j
    <3> QED
      BY <1>a, <3>2 DEF PP!Registry, PP!TypeOK, j
  <2>3. <<m, ModuleOf[c]>> \in notices \cup found => <<m, ModuleOf[c]>> \in notices' \cup found'
    BY <1>11, <2>2 DEF CrashPresence
  <2> QED
    BY <1>f, <2>1, <2>3
<1>12. ASSUME UNCHANGED mvars PROVE Woken
  BY <1>12, <1>f DEF mvars
<1> QED
  BY <1>1, <1>2, <1>3, <1>4, <1>5, <1>6, <1>7, <1>8, <1>9, <1>10, <1>11, <1>12
  DEF Next, MessageServer, vars, Woken, j

\* No chat waits beside a session of its user, for any number of processes,
\* connections and chats: the message server stores a chat before it looks the
\* user up, and a login writes its row before it reads the chats that wait.
THEOREM DeliveryNoMissedWakeup == Spec => []NoMissedWakeup
<1>1. Init => NoMissedWakeup
  BY DEF Init, NoMissedWakeup
<1> QED
  BY <1>1, WakeupStep, DeliveryInvariant, DeliveryRegistry, PTL DEF Spec

-----------------------------------------------------------------------------
(* The members of a group, whose copies of a group chat are delivered like *)
(* any chat.                                                               *)

\* The types of the xdm server's part; before the group is made it has no rows
\* and no request is under way.
GroupTypes ==
  /\ group \in 0 .. 2 /\ rows \in [Users -> Nat]
  /\ raced \in BOOLEAN /\ doubled \subseteq Users
  /\ wk \in [Workers -> [pc : {"idle", "check", "delete", "insert", "quit"},
                         todo : SUBSET Users, cur : Users]]
  /\ group = 0 => (\A u \in Users : rows[u] = 0) /\ (\A w \in Workers : wk[w].pc = "idle")

\* The users a worker has still to insert.
ToInsert(w) == wk[w].todo \cup IF wk[w].pc = "insert" THEN {wk[w].cur} ELSE {}

\* There is room for them, and the one whose rows were deleted has none.
RoomFor(w) ==
  /\ Cardinality(Members \cup ToInsert(w)) <= GMax
  /\ wk[w].pc = "insert" => rows[wk[w].cur] = 0

\* The invariant: every count that a worker relies on still holds.
GroupInv == GroupTypes /\ GroupIsSound /\ (~raced => \A w \in Counted : RoomFor(w))

\* The rows are finitely many.
LEMMA GroupRowsFinite ==
  ASSUME rows \in [Users -> Nat]
  PROVE  IsFiniteSet(MemberRows) /\ Size \in Nat
<1> DEFINE f == [u \in Users |-> {u} \X (1 .. rows[u])]
           T == {{u} \X (1 .. rows[u]) : u \in Users}
<1>1. f \in Surjection(Users, T)
  <2>1. f \in [Users -> T]
    OBVIOUS
  <2>2. ASSUME NEW t \in T PROVE \E u \in Users : f[u] = t
    <3>1. PICK u \in Users : t = {u} \X (1 .. rows[u])
      OBVIOUS
    <3>2. f[u] = t
      BY <3>1
    <3> QED
      BY <3>2
  <2> HIDE DEF f, T
  <2> QED
    BY <2>1, <2>2 DEF Surjection
<1>2. IsFiniteSet(T)
  BY <1>1, FS_Surjection, GroupAssumption
<1>3. ASSUME NEW u \in Users PROVE IsFiniteSet({u} \X (1 .. rows[u]))
  <2>1. 1 \in Int /\ rows[u] \in Int
    OBVIOUS
  <2>2. IsFiniteSet(1 .. rows[u])
    BY ONLY <2>1, FS_Interval
  <2>3. IsFiniteSet({u})
    BY FS_Singleton
  <2> QED
    BY <2>2, <2>3, FS_Product
<1>4. \A t \in T : IsFiniteSet(t)
  BY <1>3
<1>5. IsFiniteSet(MemberRows)
  BY <1>2, <1>4, FS_UNION DEF MemberRows
<1> QED
  BY <1>5, FS_CardinalityType DEF Size

\* Users are finitely many, in whatever sets.
LEMMA GroupUsersFinite ==
  ASSUME NEW S \in SUBSET Users
  PROVE  IsFiniteSet(S) /\ Cardinality(S) \in Nat
BY FS_Subset, FS_CardinalityType, GroupAssumption

\* Fewer of them are not more.
LEMMA GroupFewerUsers ==
  ASSUME NEW S \in SUBSET Users, NEW T \in SUBSET S
  PROVE  Cardinality(T) <= Cardinality(S)
BY GroupUsersFinite, FS_Subset

\* There are at least as many rows as members.
LEMMA GroupMembersCounted ==
  ASSUME rows \in [Users -> Nat]
  PROVE  Cardinality(Members) <= Size /\ Cardinality(Members) \in Nat /\ Size \in Nat
<1> DEFINE first == {<<u, 1>> : u \in Members}
           f == [u \in Members |-> <<u, 1>>]
<1>1. Members \subseteq Users
  BY DEF Members
<1>2. IsFiniteSet(Members) /\ Cardinality(Members) \in Nat
  BY <1>1, GroupUsersFinite
<1>3. f \in Bijection(Members, first)
  <2>1. f \in [Members -> first]
    OBVIOUS
  <2>2. \A u, v \in Members : f[u] = f[v] => u = v
    OBVIOUS
  <2>3. \A p \in first : \E u \in Members : f[u] = p
    OBVIOUS
  <2> HIDE DEF f, first
  <2> QED
    BY <2>1, <2>2, <2>3 DEF Bijection, Injection, IsInjective, Surjection
<1>4. Cardinality(first) = Cardinality(Members)
  BY <1>2, <1>3, FS_Surjection DEF Bijection
<1>5. first \subseteq MemberRows
  BY DEF Members, MemberRows
<1>6. Cardinality(first) <= Size /\ Size \in Nat
  BY <1>5, GroupRowsFinite, FS_Subset DEF Size
<1> QED
  BY <1>2, <1>4, <1>6

LEMMA GroupSetsOfUsers ==
  ASSUME GroupTypes, NEW w \in Workers
  PROVE  Members \subseteq Users /\ ToInsert(w) \subseteq Users
BY DEF Members, ToInsert, GroupTypes

\* A step of one worker that inserts nothing.
LEMMA GroupQuietStep ==
  ASSUME GroupInv, GroupTypes', raced' = raced,
         \A u \in Users : \/ rows'[u] = 0
                          \/ rows'[u] = rows[u] /\ (u \in doubled => u \in doubled'),
         NEW w \in Workers, \A v \in Workers : v # w => wk'[v] = wk[v],
         ~raced /\ w \in Counted' => RoomFor(w)'
  PROVE  GroupInv'
<1>1. rows \in [Users -> Nat] /\ rows' \in [Users -> Nat] /\ GMax \in Nat
  BY GroupAssumption DEF GroupInv, GroupTypes
<1>2. Members \subseteq Users /\ Members' \subseteq Members
  BY <1>1 DEF Members
<1>3. GroupIsSound'
  <2> SUFFICES ASSUME ~raced'
               PROVE  /\ Cardinality(Members') <= GMax
                      /\ \A u \in Users : rows'[u] <= 1 \/ (rows'[u] = 2 /\ u \in doubled')
    BY DEF GroupIsSound
  <2>1. /\ Cardinality(Members) <= GMax
        /\ \A u \in Users : rows[u] <= 1 \/ (rows[u] = 2 /\ u \in doubled)
    BY DEF GroupInv, GroupIsSound
  <2>2. /\ Cardinality(Members') <= Cardinality(Members)
        /\ Cardinality(Members') \in Nat /\ Cardinality(Members) \in Nat
    BY <1>2, GroupFewerUsers, GroupUsersFinite
  <2>3. Cardinality(Members') <= GMax
    BY <1>1, <2>1, <2>2
  <2> QED
    BY <1>1, <2>1, <2>3
<1>4. ASSUME ~raced', NEW v \in Workers, v # w, v \in Counted' PROVE RoomFor(v)'
  <2>1. v \in Counted /\ RoomFor(v)
    BY <1>4 DEF Counted, GroupInv
  <2>2. ToInsert(v)' = ToInsert(v) /\ ToInsert(v) \subseteq Users
    BY <1>4, GroupSetsOfUsers DEF ToInsert, GroupInv
  <2> DEFINE S == Members \cup ToInsert(v)
             T == Members' \cup ToInsert(v)
  <2>3. S \subseteq Users /\ T \subseteq S
    BY <1>2, <2>2
  <2> HIDE DEF S, T
  <2>4. Cardinality(T) <= Cardinality(S) /\ Cardinality(T) \in Nat /\ Cardinality(S) \in Nat
    BY <2>3, GroupFewerUsers, GroupUsersFinite
  <2>5. Cardinality(S) <= GMax
    BY <2>1 DEF RoomFor, S
  <2>6. Cardinality(T) <= GMax
    BY <1>1, <2>4, <2>5
  <2>7. wk'[v].pc = "insert" => rows'[wk'[v].cur] = 0
    BY <1>1, <1>4, <2>1 DEF RoomFor, GroupInv, GroupTypes
  <2> QED
    BY <2>2, <2>6, <2>7 DEF RoomFor, T
<1>5. ASSUME ~raced' PROVE \A v \in Counted' : RoomFor(v)'
  BY <1>4, <1>5 DEF Counted
<1> QED
  BY <1>3, <1>5 DEF GroupInv

\* The group is made with room for everyone asked for, or its row is not made.
LEMMA GroupCreateStep ==
  ASSUME GroupInv, NEW w \in Workers, NEW S \in SUBSET (Users \ {Owner}),
         Create(w, S)
  PROVE  GroupInv'
<1>1. /\ GroupTypes /\ Owner \in Users /\ S \subseteq Users /\ Owner \notin S /\ GMax \in Nat
      /\ wk \in [Workers -> [pc : {"idle", "check", "delete", "insert", "quit"},
                             todo : SUBSET Users, cur : Users]]
  BY GroupAssumption DEF GroupInv, GroupTypes
<1>2. /\ group = 0 /\ Cardinality(S) < GMax /\ wk[w].pc = "idle"
      /\ UNCHANGED <<rows, raced, doubled>>
  BY DEF Create
<1>3. PICK n \in 0 .. 2, ok \in BOOLEAN :
        /\ ok => n > 0
        /\ group' = n
        /\ IF ok
           THEN wk' = [wk EXCEPT ![w] =
                         [pc |-> "delete", todo |-> S \cup {Owner}, cur |-> Owner]]
           ELSE Finish(w)
  BY DEF Create, Inserts
<1>4. /\ \A u \in Users : rows[u] = 0
      /\ \A v \in Workers : wk[v].pc = "idle"
      /\ Members = {}
  BY <1>1, <1>2 DEF GroupTypes, Members
<1>5. CASE ok
  <2>1. /\ wk'[w] = [pc |-> "delete", todo |-> S \cup {Owner}, cur |-> Owner]
        /\ \A v \in Workers : v # w => wk'[v] = wk[v]
    BY <1>1, <1>3, <1>5
  <2>2. GroupTypes'
    BY <1>1, <1>2, <1>3, <1>5 DEF GroupTypes
  <2>3. Cardinality(S \cup {Owner}) = Cardinality(S) + 1 /\ Cardinality(S) \in Nat
    BY <1>1, GroupUsersFinite, FS_AddElement
  <2>4. Members' = {} /\ ToInsert(w)' = S \cup {Owner}
    BY <1>2, <1>4, <2>1 DEF ToInsert, Members
  <2>5. Cardinality((Members \cup ToInsert(w))') <= GMax
    <3>1. (Members \cup ToInsert(w))' = S \cup {Owner}
      BY <2>4
    <3> QED
      BY <1>1, <1>2, <2>3, <3>1
  <2>6. RoomFor(w)'
    BY <2>1, <2>5 DEF RoomFor
  <2> QED
    BY <1>2, <2>1, <2>2, <2>6, GroupQuietStep
<1>6. CASE ~ok
  <2>1. wk' = [wk EXCEPT ![w] = Idle]
    BY <1>3, <1>6 DEF Finish
  <2>2. GroupTypes'
    BY <1>1, <1>2, <1>3, <1>4, <2>1 DEF GroupTypes, Idle
  <2>3. w \notin Counted' /\ \A v \in Workers : v # w => wk'[v] = wk[v]
    BY <1>1, <2>1 DEF Counted, Idle
  <2> QED
    BY <1>2, <2>2, <2>3, GroupQuietStep
<1> QED
  BY <1>5, <1>6

\* The rows counted and those invited do not exceed GMAXCOUNT, so neither do
\* the members and those invited.
LEMMA GroupInviteStep ==
  ASSUME GroupInv, NEW w \in Workers, NEW u \in Users, NEW S \in SUBSET Users,
         Invite(w, u, S)
  PROVE  GroupInv'
<1>1. /\ group = 1 /\ FitsIn(S) /\ UNCHANGED <<group, rows, raced, doubled>>
      /\ wk' = [wk EXCEPT ![w] = [pc |-> "check", todo |-> S, cur |-> Owner]]
  BY DEF Invite
<1>2. /\ GroupTypes /\ Owner \in Users /\ IsFiniteSet(Users) /\ GMax \in Nat
      /\ rows \in [Users -> Nat]
  BY GroupAssumption DEF GroupInv, GroupTypes
<1>3. GroupTypes'
  BY <1>1, <1>2 DEF GroupTypes
<1>4. wk'[w] = [pc |-> "check", todo |-> S, cur |-> Owner]
  BY <1>1, <1>2 DEF GroupTypes
<1>5. Members' = Members /\ ToInsert(w)' = S
  BY <1>1, <1>4 DEF Members, ToInsert
<1>6. /\ IsFiniteSet(S) /\ IsFiniteSet(Members)
      /\ Cardinality(S) \in Nat /\ Cardinality(Members \cap S) \in Nat
      /\ Cardinality(Members) <= Size /\ Cardinality(Members) \in Nat /\ Size \in Nat
  <2>1. Members \subseteq Users /\ Members \cap S \subseteq Users
    BY DEF Members
  <2> QED
    BY <1>2, <2>1, GroupUsersFinite, GroupMembersCounted
<1>7. Cardinality(Members \cup S)
        = Cardinality(Members) + Cardinality(S) - Cardinality(Members \cap S)
  BY <1>6, FS_Union
<1>8. Cardinality(Members \cup S) <= GMax
  BY <1>1, <1>2, <1>6, <1>7 DEF FitsIn
<1>9. RoomFor(w)'
  BY <1>4, <1>5, <1>8 DEF RoomFor
<1>10. \A v \in Workers : v # w => wk'[v] = wk[v]
  BY <1>1, <1>2 DEF GroupTypes
<1> QED
  BY <1>1, <1>3, <1>9, <1>10, GroupQuietStep

\* A request that ends, and one that begins without a count.
LEMMA GroupUncountedStep ==
  ASSUME GroupInv, NEW w \in Workers, UNCHANGED <<group, raced>>, GroupTypes',
         \A u \in Users : \/ rows'[u] = 0
                          \/ rows'[u] = rows[u] /\ (u \in doubled => u \in doubled'),
         NEW u \in Users,
         \/ wk' = [wk EXCEPT ![w] = Idle]
         \/ wk' = [wk EXCEPT ![w] = [pc |-> "quit", todo |-> {}, cur |-> u]]
  PROVE  GroupInv'
<1>1. w \notin Counted' /\ \A v \in Workers : v # w => wk'[v] = wk[v]
  BY DEF Counted, GroupTypes, GroupInv, Idle
<1> QED
  BY <1>1, GroupQuietStep

\* The look at the members changes none of them.
LEMMA GroupCheckStep ==
  ASSUME GroupInv, NEW w \in Workers, Check(w)
  PROVE  GroupInv'
<1>1. /\ GroupTypes /\ Owner \in Users /\ wk[w].pc = "check"
      /\ UNCHANGED <<group, rows, raced, doubled>>
  BY GroupAssumption DEF GroupInv, Check
<1>2. CASE wk' = [wk EXCEPT ![w].pc = "delete"]
  <2>1. /\ wk'[w].pc = "delete" /\ wk'[w].todo = wk[w].todo
        /\ \A v \in Workers : v # w => wk'[v] = wk[v]
    BY <1>1, <1>2 DEF GroupTypes
  <2>2. GroupTypes'
    BY <1>1, <1>2 DEF GroupTypes
  <2>3. Members' = Members /\ ToInsert(w)' = ToInsert(w)
    BY <1>1, <2>1 DEF Members, ToInsert
  <2>4. ~raced => RoomFor(w)'
    BY <1>1, <2>1, <2>3 DEF GroupInv, Counted, RoomFor
  <2> QED
    BY <1>1, <2>1, <2>2, <2>4, GroupQuietStep
<1>3. CASE Finish(w)
  <2>1. GroupTypes' /\ wk' = [wk EXCEPT ![w] = Idle]
    BY <1>1, <1>3 DEF GroupTypes, Finish, Idle
  <2> QED
    BY <1>1, <2>1, GroupUncountedStep
<1> QED
  BY <1>2, <1>3 DEF Check

\* What a statement that clears a user's rows does, whether it is reported as
\* done or not.
LEMMA GroupClears ==
  ASSUME GroupTypes, NEW u \in Users, Clear(u) \/ ClearFails(u)
  PROVE  /\ rows' \in [Users -> Nat] /\ doubled' \subseteq Users
         /\ \A v \in Users : \/ rows'[v] = 0
                             \/ rows'[v] = rows[v] /\ (v \in doubled => v \in doubled')
<1>1. rows \in [Users -> Nat] /\ doubled \subseteq Users
  BY DEF GroupTypes
<1>2. CASE Clear(u)
  BY <1>1, <1>2 DEF Clear
<1>3. CASE UNCHANGED <<rows, doubled>>
  BY <1>1, <1>3
<1> QED
  BY <1>2, <1>3 DEF ClearFails

\* A DELETE takes rows away and leaves as many users to insert.
LEMMA GroupDeleteStep ==
  ASSUME GroupInv, NEW w \in Workers, Delete(w)
  PROVE  GroupInv'
<1>1. /\ GroupTypes /\ Owner \in Users /\ UNCHANGED <<group, raced>>
      /\ rows \in [Users -> Nat] /\ wk[w].pc = "delete" /\ wk[w].todo \subseteq Users
      /\ wk \in [Workers -> [pc : {"idle", "check", "delete", "insert", "quit"},
                             todo : SUBSET Users, cur : Users]]
  BY GroupAssumption DEF GroupInv, GroupTypes, Delete
<1>2. group # 0
  BY <1>1 DEF GroupTypes
<1>3. PICK u \in wk[w].todo :
        \/ /\ Clear(u)
           /\ wk' = [wk EXCEPT ![w] = [pc |-> "insert", todo |-> @.todo \ {u}, cur |-> u]]
        \/ ClearFails(u) /\ Finish(w)
  BY DEF Delete
<1>4. /\ rows' \in [Users -> Nat] /\ doubled' \subseteq Users
      /\ \A v \in Users : \/ rows'[v] = 0
                          \/ rows'[v] = rows[v] /\ (v \in doubled => v \in doubled')
  BY <1>1, <1>3, GroupClears
<1>5. CASE /\ Clear(u)
           /\ wk' = [wk EXCEPT ![w] = [pc |-> "insert", todo |-> @.todo \ {u}, cur |-> u]]
  <2>1. /\ wk'[w] = [pc |-> "insert", todo |-> wk[w].todo \ {u}, cur |-> u]
        /\ \A v \in Workers : v # w => wk'[v] = wk[v]
    BY <1>1, <1>5
  <2>2. GroupTypes'
    BY <1>1, <1>2, <1>4, <1>5 DEF GroupTypes
  <2>3. ToInsert(w)' = ToInsert(w)
    BY <1>1, <2>1 DEF ToInsert
  <2>4. Members' \subseteq Members
    BY <1>1, <1>4 DEF Members
  <2>5. ASSUME ~raced PROVE RoomFor(w)'
    <3> DEFINE S == Members \cup ToInsert(w)
               T == Members' \cup ToInsert(w)
    <3>1. S \subseteq Users /\ T \subseteq S
      BY <1>1, <2>4, GroupSetsOfUsers
    <3>2. Cardinality(S) <= GMax
      BY <1>1, <2>5 DEF GroupInv, Counted, RoomFor
    <3>3. rows'[u] = 0
      BY <1>1, <1>5 DEF Clear
    <3> HIDE DEF S, T
    <3>4. Cardinality(T) <= Cardinality(S) /\ Cardinality(T) \in Nat /\ Cardinality(S) \in Nat
      BY <3>1, GroupFewerUsers, GroupUsersFinite
    <3>5. Cardinality(T) <= GMax
      BY <3>2, <3>4, GroupAssumption
    <3> QED
      BY <2>1, <2>3, <3>3, <3>5 DEF RoomFor, T
  <2> QED
    BY <1>1, <1>4, <2>1, <2>2, <2>5, GroupQuietStep
<1>6. CASE ClearFails(u) /\ Finish(w)
  <2>1. wk' = [wk EXCEPT ![w] = Idle]
    BY <1>6 DEF Finish
  <2>2. GroupTypes'
    BY <1>1, <1>2, <1>4, <2>1 DEF GroupTypes, Idle
  <2> QED
    BY <1>1, <1>4, <2>1, <2>2, GroupUncountedStep
<1> QED
  BY <1>3, <1>5, <1>6

\* An INSERT without a race is of the only worker that has counted: the user it
\* inserts, with one row or two, was to be inserted and is a member now.
LEMMA GroupInsertStep ==
  ASSUME GroupInv, NEW w \in Workers, Insert(w)
  PROVE  GroupInv'
<1> DEFINE u == wk[w].cur
           Places == [pc : {"idle", "check", "delete", "insert", "quit"},
                      todo : SUBSET Users, cur : Users]
<1>1. /\ GroupTypes /\ Owner \in Users /\ UNCHANGED group
      /\ rows \in [Users -> Nat] /\ wk[w].pc = "insert" /\ u \in Users
      /\ raced \in BOOLEAN /\ doubled \subseteq Users /\ group \in 0 .. 2
      /\ wk[w].todo \subseteq Users /\ GMax \in Nat /\ wk \in [Workers -> Places]
  BY GroupAssumption DEF GroupInv, GroupTypes, Insert
<1>2. group # 0
  BY <1>1 DEF GroupTypes
<1>3. CASE Finish(w) /\ UNCHANGED <<rows, raced, doubled>>
  <2>1. wk' = [wk EXCEPT ![w] = Idle]
    BY <1>3 DEF Finish
  <2>2. GroupTypes'
    BY <1>1, <1>2, <1>3, <2>1 DEF GroupTypes, Idle
  <2> QED
    BY <1>1, <1>3, <2>1, <2>2, GroupUncountedStep
<1>4. ASSUME NEW n \in 0 .. 2, NEW ok \in BOOLEAN, ok => n > 0,
             rows' = [rows EXCEPT ![u] = @ + n],
             doubled' = IF n = 2 THEN doubled \cup {u} ELSE doubled,
             raced' = (raced \/ (n > 0 /\ Counted # {w})),
             IF ok /\ wk[w].todo # {} THEN wk' = [wk EXCEPT ![w].pc = "delete"]
             ELSE Finish(w)
      PROVE  GroupInv'
  <2>1. /\ rows' \in [Users -> Nat] /\ rows'[u] = rows[u] + n
        /\ \A v \in Users : v # u => rows'[v] = rows[v]
    BY <1>1, <1>4
  <2>2. doubled' \subseteq Users /\ raced' \in BOOLEAN
    BY <1>1, <1>4
  <2>3. \/ wk' = [wk EXCEPT ![w] = [wk[w] EXCEPT !.pc = "delete"]] /\ ok
        \/ wk' = [wk EXCEPT ![w] = Idle]
    BY <1>4 DEF Finish
  <2>4. /\ wk' \in [Workers -> Places]
        /\ (wk'[w] = [wk[w] EXCEPT !.pc = "delete"] /\ ok) \/ wk'[w] = Idle
        /\ \A v \in Workers : v # w => wk'[v] = wk[v]
    <3>1. Idle \in Places
      BY <1>1 DEF Idle
    <3>2. [wk[w] EXCEPT !.pc = "delete"] \in Places
      BY <1>1
    <3> HIDE DEF Places
    <3> QED
      BY <1>1, <2>3, <3>1, <3>2
  <2>5. GroupTypes'
    BY <1>1, <1>2, <2>1, <2>2, <2>4 DEF GroupTypes
  <2>6. CASE n = 0
    <3>1. wk' = [wk EXCEPT ![w] = Idle]
      BY <1>4, <2>6 DEF Finish
    <3>2. raced' = raced /\ doubled' = doubled /\ rows' = rows
      BY <1>1, <1>4, <2>1, <2>6
    <3> QED
      BY <1>1, <2>5, <3>1, <3>2, GroupUncountedStep
  <2>7. CASE n > 0
    <3> SUFFICES ASSUME ~raced' PROVE GroupIsSound' /\ \A v \in Counted' : RoomFor(v)'
      BY <2>5 DEF GroupInv, GroupIsSound
    <3>1. ~raced /\ Counted = {w} /\ RoomFor(w)
      BY <1>4, <2>7 DEF GroupInv
    <3>2. Counted' \subseteq {w}
      BY <2>4, <3>1 DEF Counted
    <3>3. rows[u] = 0
      BY <1>1, <3>1 DEF RoomFor
    <3>4. Members' = Members \cup {u}
      BY <1>1, <2>1, <2>7, <3>3 DEF Members
    <3>5. ToInsert(w) = wk[w].todo \cup {u}
      BY <1>1 DEF ToInsert
    <3> DEFINE S == Members \cup ToInsert(w)
    <3>6. S \subseteq Users /\ Cardinality(S) <= GMax
      BY <1>1, <3>1, GroupSetsOfUsers DEF RoomFor
    <3>7. Members' \subseteq S
      BY <3>4, <3>5
    <3>8. GroupIsSound'
      <4>1. Cardinality(Members') <= GMax
        <5> HIDE DEF S
        <5>1. /\ Cardinality(Members') <= Cardinality(S)
              /\ Cardinality(Members') \in Nat /\ Cardinality(S) \in Nat
          BY <3>6, <3>7, GroupFewerUsers, GroupUsersFinite
        <5> QED
          BY <1>1, <3>6, <5>1
      <4>2. \A v \in Users : rows'[v] <= 1 \/ (rows'[v] = 2 /\ v \in doubled')
        <5>1. \A v \in Users : rows[v] <= 1 \/ (rows[v] = 2 /\ v \in doubled)
          BY <3>1 DEF GroupInv, GroupIsSound
        <5>2. rows'[u] <= 1 \/ (rows'[u] = 2 /\ u \in doubled')
          BY <1>4, <2>1, <2>7, <3>3
        <5>3. doubled \subseteq doubled'
          BY <1>4
        <5> QED
          BY <2>1, <5>1, <5>2, <5>3
      <4> QED
        BY <4>1, <4>2 DEF GroupIsSound
    <3>9. ASSUME w \in Counted' PROVE RoomFor(w)'
      <4>1. wk'[w] = [wk[w] EXCEPT !.pc = "delete"]
        BY <2>4, <3>9 DEF Counted, Idle
      <4>2. wk'[w].pc = "delete" /\ wk'[w].todo = wk[w].todo
        BY <1>1, <4>1
      <4>3. (Members \cup ToInsert(w))' = S
        BY <3>4, <3>5, <4>2 DEF ToInsert
      <4> QED
        BY <3>6, <4>2, <4>3 DEF RoomFor
    <3> QED
      BY <3>2, <3>8, <3>9
  <2> QED
    BY <2>6, <2>7
<1> QED
  <2>1. \/ Finish(w) /\ UNCHANGED <<rows, raced, doubled>>
        \/ \E n \in 0 .. 2, ok \in BOOLEAN :
             /\ ok => n > 0
             /\ rows' = [rows EXCEPT ![u] = @ + n]
             /\ doubled' = IF n = 2 THEN doubled \cup {u} ELSE doubled
             /\ raced' = (raced \/ (n > 0 /\ Counted # {w}))
             /\ IF ok /\ wk[w].todo # {} THEN wk' = [wk EXCEPT ![w].pc = "delete"]
                ELSE Finish(w)
    BY DEF Insert, Inserts
  <2> QED
    BY <1>3, <1>4, <2>1

\* A member that quits leaves room.
LEMMA GroupQuitStep ==
  ASSUME GroupInv, NEW w \in Workers, DeleteMember(w)
  PROVE  GroupInv'
<1>1. /\ GroupTypes /\ Owner \in Users /\ wk[w].pc = "quit" /\ UNCHANGED <<group, raced>>
      /\ wk[w].cur \in Users /\ wk' = [wk EXCEPT ![w] = Idle]
      /\ Clear(wk[w].cur) \/ ClearFails(wk[w].cur)
  BY GroupAssumption DEF GroupInv, GroupTypes, DeleteMember, Finish
<1>2. /\ rows' \in [Users -> Nat] /\ doubled' \subseteq Users
      /\ \A v \in Users : \/ rows'[v] = 0
                          \/ rows'[v] = rows[v] /\ (v \in doubled => v \in doubled')
  BY <1>1, GroupClears
<1>3. GroupTypes'
  BY <1>1, <1>2 DEF GroupTypes, Idle
<1> QED
  BY <1>1, <1>2, <1>3, GroupUncountedStep

LEMMA GroupStep ==
  ASSUME GroupInv, [GroupNext]_groupVars
  PROVE  GroupInv'
<1>1. ASSUME NEW w \in Workers, Work(w) PROVE GroupInv'
  BY <1>1, GroupCheckStep, GroupDeleteStep, GroupInsertStep, GroupQuitStep DEF Work
<1>2. ASSUME NEW w \in Workers, NEW S \in SUBSET (Users \ {Owner}), Create(w, S) PROVE GroupInv'
  BY <1>2, GroupCreateStep
<1>3. ASSUME NEW w \in Workers, NEW u \in Users, NEW S \in SUBSET Users, Invite(w, u, S)
      PROVE  GroupInv'
  BY <1>3, GroupInviteStep
<1>4. ASSUME NEW w \in Workers, NEW u \in Users, Quit(w, u) PROVE GroupInv'
  <2>1. /\ GroupTypes /\ UNCHANGED <<group, rows, raced, doubled>> /\ rows[u] = 1
        /\ wk' = [wk EXCEPT ![w] = [pc |-> "quit", todo |-> {}, cur |-> u]]
    BY <1>4 DEF Quit, IsMember, GroupInv
  <2>2. GroupTypes'
    BY <2>1 DEF GroupTypes
  <2> QED
    BY <2>1, <2>2, GroupUncountedStep
<1>5. ASSUME XdmCrash PROVE GroupInv'
  <2>1. GroupTypes'
    BY <1>5, GroupAssumption DEF XdmCrash, GroupInv, GroupTypes, Idle
  <2>2. Counted' = {}
    BY <1>5 DEF XdmCrash, Counted, Idle
  <2>3. GroupIsSound'
    BY <1>5 DEF XdmCrash, GroupInv, GroupIsSound, Members
  <2> QED
    BY <2>1, <2>2, <2>3 DEF GroupInv
<1>6. ASSUME UNCHANGED xdm PROVE GroupInv'
  <2>1. GroupTypes' /\ GroupIsSound' /\ Counted' = Counted /\ raced' = raced
    BY <1>6 DEF xdm, GroupInv, GroupTypes, GroupIsSound, Members, Counted
  <2>2. \A w \in Workers : RoomFor(w) => RoomFor(w)'
    BY <1>6 DEF xdm, RoomFor, ToInsert, Members
  <2> QED
    BY <2>1, <2>2 DEF GroupInv, Counted
<1> QED
  BY <1>1, <1>2, <1>3, <1>4, <1>5, <1>6
  DEF GroupNext, groupVars, xdm, Serve, StoreGroupChat, FanOut, Done, ReadMembers, MessageCrash

LEMMA GroupInvInit == GroupInit => GroupInv
<1> SUFFICES ASSUME GroupInit PROVE GroupInv
  OBVIOUS
<1>1. /\ rows = [u \in Users |-> 0] /\ wk = [w \in Workers |-> Idle] /\ group = 0
      /\ raced = FALSE /\ doubled = {}
  BY DEF GroupInit
<1>3. Counted = {}
  BY <1>1 DEF Counted, Idle
<1>4. wk \in [Workers -> [pc : {"idle", "check", "delete", "insert", "quit"},
                         todo : SUBSET Users, cur : Users]]
  <2>1. Idle \in [pc : {"idle", "check", "delete", "insert", "quit"},
                  todo : SUBSET Users, cur : Users]
    BY GroupAssumption DEF Idle
  <2> QED
    BY <1>1, <2>1
<1>5. GroupTypes
  <2>1. rows \in [Users -> Nat] /\ (\A u \in Users : rows[u] = 0)
    BY <1>1
  <2>2. \A w \in Workers : wk[w].pc = "idle"
    BY <1>1 DEF Idle
  <2>3. group \in 0 .. 2
    BY <1>1
  <2>4. raced \in BOOLEAN
    BY <1>1
  <2>5. doubled \subseteq Users
    BY <1>1
  <2> QED
    BY ONLY <1>4, <2>1, <2>2, <2>3, <2>4, <2>5 DEF GroupTypes
<1>2. GroupIsSound
  <2>1. Members = {}
    BY DEF GroupInit, Members
  <2>2. Cardinality(Members) = 0
    BY <2>1, FS_EmptySet
  <2> QED
    BY <2>2, GroupAssumption DEF GroupInit, GroupIsSound
<1> QED
  BY <1>1, <1>2, <1>3, <1>5 DEF GroupInv

\* For any number of users, workers and requests, and INSERTs that the agent runs
\* twice: a group never has more people in it than GMAXCOUNT, and a member who has
\* two rows has them from such an INSERT, unless one worker inserted while
\* another relied on the members it had counted.
THEOREM GroupsAreSound == GroupSpec => []GroupIsSound
<1>1. GroupInit => GroupInv
  BY GroupInvInit
<1>2. GroupInv /\ [GroupNext]_groupVars => GroupInv'
  BY GroupStep
<1>3. GroupInv => GroupIsSound
  BY DEF GroupInv
<1> QED
  BY <1>1, <1>2, <1>3, PTL DEF GroupSpec

\* The types of Groups, the fan-out included.
THEOREM GroupTypesCorrect == GroupSpec => []GroupTypeOK
<1> DEFINE Places == [pc : {"idle", "check", "delete", "insert", "quit"},
                      todo : SUBSET Users, cur : Users]
<1> USE GroupAssumption DEF GroupTypeOK
<1>i. Idle \in Places
  BY DEF Idle
<1>d. \A p \in Places : [p EXCEPT !.pc = "delete"] \in Places
  OBVIOUS
<1>n. NoRows \in [Users -> Nat]
  BY DEF NoRows
<1>1. GroupInit => GroupTypeOK
  <2> SUFFICES ASSUME GroupInit PROVE GroupTypeOK
    OBVIOUS
  <2> USE DEF GroupInit
  <2>1. wk \in [Workers -> Places]
    BY <1>i
  <2>2. left \in [Chats -> [Users -> Nat]]
    BY <1>n
  <2>3. rows \in [Users -> Nat] /\ events \in 0 .. MaxEvents /\ doubled \subseteq Users
    OBVIOUS
  <2>4. group \in 0 .. 2
    OBVIOUS
  <2>5. raced \in BOOLEAN
    OBVIOUS
  <2>6. fanout \in [Chats -> {"new", "read", "stored", "fan", "done", "lost"}]
    OBVIOUS
  <2> HIDE DEF GroupInit
  <2> QED
    BY <2>1, <2>2, <2>3, <2>4, <2>5, <2>6
<1>2. GroupTypeOK /\ [GroupNext]_groupVars => GroupTypeOK'
  <2> SUFFICES ASSUME GroupTypeOK, [GroupNext]_groupVars PROVE GroupTypeOK'
    OBVIOUS
  <2> USE DEF CountEvent, Fault, Goto, xdm, copies
  <2>e. ASSUME Fault PROVE events' \in 0 .. MaxEvents
    BY <2>e
  <2>t. wk \in [Workers -> Places]
    OBVIOUS
  <2>w. ASSUME NEW w \in Workers, Finish(w) PROVE wk' \in [Workers -> Places]
    BY <1>i, <2>w DEF Finish
  <2>1. ASSUME NEW w \in Workers, Check(w) PROVE GroupTypeOK'
    <3>1. wk' \in [Workers -> Places]
      <4>1. CASE wk' = [wk EXCEPT ![w].pc = "delete"]
        <5>1. wk' = [wk EXCEPT ![w] = [wk[w] EXCEPT !.pc = "delete"]]
          BY <4>1
        <5> HIDE DEF Places
        <5> QED
          BY ONLY <1>d, <2>t, <5>1
      <4>2. CASE Finish(w)
        BY <2>w, <4>2
      <4> QED
        BY <2>1, <4>1, <4>2 DEF Check
    <3>2. events' \in 0 .. MaxEvents
      BY <2>1, <2>e DEF Check
    <3> QED
      BY <2>1, <3>1, <3>2 DEF Check
  <2>c. ASSUME NEW u \in Users, Clear(u) \/ ClearFails(u)
        PROVE  rows' \in [Users -> Nat] /\ doubled' \subseteq Users
    <3>1. CASE Clear(u)
      BY <3>1 DEF Clear
    <3> QED
      BY <2>c, <3>1 DEF ClearFails
  <2>n. ASSUME NEW n \in 0 .. 2, NEW ok \in BOOLEAN, Inserts(n, ok)
        PROVE  events' \in 0 .. MaxEvents
    BY <2>e, <2>n DEF Inserts
  <2>2. ASSUME NEW w \in Workers, Delete(w) PROVE GroupTypeOK'
    <3>1. PICK u \in wk[w].todo :
            \/ /\ Clear(u) /\ UNCHANGED events
               /\ wk' = [wk EXCEPT ![w] = [pc |-> "insert", todo |-> @.todo \ {u}, cur |-> u]]
            \/ ClearFails(u) /\ Finish(w)
      BY <2>2 DEF Delete
    <3>2. u \in Users
      OBVIOUS
    <3>3. wk' \in [Workers -> Places]
      <4>1. CASE wk' = [wk EXCEPT ![w] = [pc |-> "insert", todo |-> @.todo \ {u}, cur |-> u]]
        BY <3>2, <4>1
      <4>2. CASE Finish(w)
        BY <2>w, <4>2
      <4> QED
        BY <3>1, <4>1, <4>2
    <3>4. events' \in 0 .. MaxEvents
      BY <2>e, <3>1 DEF ClearFails
    <3>5. rows' \in [Users -> Nat] /\ doubled' \subseteq Users
      BY <2>c, <3>1, <3>2
    <3> QED
      BY <2>2, <3>3, <3>4, <3>5 DEF Delete
  <2>3. ASSUME NEW w \in Workers, Insert(w) PROVE GroupTypeOK'
    <3>1. wk[w].cur \in Users
      OBVIOUS
    <3>2. wk' \in [Workers -> Places]
      <4>1. CASE wk' = [wk EXCEPT ![w].pc = "delete"]
        <5>1. wk' = [wk EXCEPT ![w] = [wk[w] EXCEPT !.pc = "delete"]]
          BY <4>1
        <5> HIDE DEF Places
        <5> QED
          BY ONLY <1>d, <2>t, <5>1
      <4>2. CASE Finish(w)
        BY <2>w, <4>2
      <4>3. wk' = [wk EXCEPT ![w].pc = "delete"] \/ Finish(w)
        BY <2>3 DEF Insert
      <4> QED
        BY <4>1, <4>2, <4>3
    <3>3. events' \in 0 .. MaxEvents
      BY <2>3, <2>n DEF Insert
    <3>4. rows' \in [Users -> Nat]
      <4>1. \/ \E n \in 0 .. 2 : rows' = [rows EXCEPT ![wk[w].cur] = @ + n]
            \/ rows' = rows
        BY <2>3 DEF Insert
      <4>2. ASSUME NEW n \in 0 .. 2, rows' = [rows EXCEPT ![wk[w].cur] = @ + n]
            PROVE  rows' \in [Users -> Nat]
        <5>1. rows[wk[w].cur] + n \in Nat
          BY <3>1
        <5> QED
          BY <4>2, <5>1
      <4> QED
        BY <4>1, <4>2
    <3>5. doubled' \subseteq Users
      <4>1. \/ doubled' = doubled \cup {wk[w].cur}
            \/ doubled' = doubled
        BY <2>3 DEF Insert
      <4> QED
        BY <3>1, <4>1
    <3>6. raced' \in BOOLEAN
      <4>1. (\E n \in 0 .. 2 : raced' = (raced \/ (n > 0 /\ Counted # {w}))) \/ raced' = raced
        BY <2>3 DEF Insert
      <4> QED
        BY <4>1
    <3> QED
      BY <2>3, <3>2, <3>3, <3>4, <3>5, <3>6 DEF Insert
  <2>4. ASSUME NEW w \in Workers, DeleteMember(w) PROVE GroupTypeOK'
    <3>1. wk[w].cur \in Users
      OBVIOUS
    <3>2. /\ Clear(wk[w].cur) \/ ClearFails(wk[w].cur)
          /\ UNCHANGED events \/ Fault
      BY <2>4 DEF DeleteMember, ClearFails
    <3>3. rows' \in [Users -> Nat] /\ doubled' \subseteq Users
      BY <2>c, <3>1, <3>2
    <3>4. events' \in 0 .. MaxEvents
      BY <2>e, <3>2
    <3> QED
      BY <2>4, <2>w, <3>3, <3>4 DEF DeleteMember
  <2>5. ASSUME NEW w \in Workers, NEW S \in SUBSET (Users \ {Owner}), Create(w, S)
        PROVE  GroupTypeOK'
    <3>1. PICK n \in 0 .. 2, ok \in BOOLEAN :
            /\ Inserts(n, ok)
            /\ group' = n
            /\ IF ok
               THEN wk' = [wk EXCEPT ![w] =
                             [pc |-> "delete", todo |-> S \cup {Owner}, cur |-> Owner]]
               ELSE Finish(w)
      BY <2>5 DEF Create
    <3>2. wk' \in [Workers -> Places]
      <4>1. CASE ok
        BY <3>1, <4>1
      <4>2. CASE ~ok
        BY <2>w, <3>1, <4>2
      <4> QED
        BY <4>1, <4>2
    <3>3. events' \in 0 .. MaxEvents
      BY <2>n, <3>1
    <3>4. group' \in 0 .. 2
      BY <3>1
    <3> QED
      BY <2>5, <3>2, <3>3, <3>4 DEF Create
  <2>6. ASSUME NEW w \in Workers, NEW u \in Users, NEW S \in SUBSET Users, Invite(w, u, S)
        PROVE  GroupTypeOK'
    BY <2>6 DEF Invite
  <2>7. ASSUME NEW w \in Workers, NEW u \in Users, Quit(w, u) PROVE GroupTypeOK'
    BY <2>7 DEF Quit
  <2>8. ASSUME NEW c \in Chats, NEW s \in Senders, ReadMembers(c, s) PROVE GroupTypeOK'
    <3>1. left' \in [Chats -> [Users -> Nat]]
      <4> DEFINE others == [u \in Users |-> IF u = s THEN 0 ELSE rows[u]]
      <4>1. others \in [Users -> Nat]
        OBVIOUS
      <4>2. left' = [left EXCEPT ![c] = others] \/ left' = left
        BY <2>8 DEF ReadMembers
      <4> HIDE DEF others
      <4> QED
        BY <4>1, <4>2
    <3>2. events' \in 0 .. MaxEvents
      BY <2>8, <2>e DEF ReadMembers
    <3> QED
      BY <2>8, <3>1, <3>2 DEF ReadMembers
  <2>9. ASSUME NEW c \in Chats, StoreGroupChat(c) PROVE GroupTypeOK'
    <3>1. left' \in [Chats -> [Users -> Nat]]
      BY <1>n, <2>9 DEF StoreGroupChat
    <3>2. events' \in 0 .. MaxEvents
      BY <2>9, <2>e DEF StoreGroupChat
    <3> QED
      BY <2>9, <3>1, <3>2 DEF StoreGroupChat
  <2>10. ASSUME NEW c \in Chats, FanOut(c) PROVE GroupTypeOK'
    <3>1. \E u \in Users : left[c][u] > 0
      BY <2>10 DEF FanOut, NoRows
    <3>2. NextUser(c) \in Users /\ left[c][NextUser(c)] > 0
      BY <3>1 DEF NextUser
    <3>3. left' \in [Chats -> [Users -> Nat]]
      BY <2>10, <3>2 DEF FanOut, NextRow
    <3> QED
      BY <2>10, <3>3 DEF FanOut, NextRow
  <2>11. ASSUME NEW c \in Chats, Done(c) PROVE GroupTypeOK'
    BY <2>11 DEF Done
  <2>12. ASSUME XdmCrash PROVE GroupTypeOK'
    BY <1>i, <2>12 DEF XdmCrash
  <2>13. ASSUME MessageCrash PROVE GroupTypeOK'
    BY <1>n, <2>13 DEF MessageCrash
  <2>14. ASSUME UNCHANGED groupVars PROVE GroupTypeOK'
    BY <2>14 DEF groupVars
  <2> QED
    BY <2>1, <2>2, <2>3, <2>4, <2>5, <2>6, <2>7, <2>8, <2>9, <2>10, <2>11, <2>12, <2>13, <2>14
    DEF GroupNext, Work, Serve
<1> QED
  BY <1>1, <1>2, PTL DEF GroupSpec
=============================================================================
