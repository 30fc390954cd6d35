--------------------------- MODULE ImSocketProofs ---------------------------
(***************************************************************************)
(* What the client library tells of a chat, for any number of chats,       *)
(* connections and events: an ack that reaches RecvThread is that of a     *)
(* chat the server has stored, a chat is in one place at a time, and the   *)
(* application is told only of chats that leave m_ackqueue.                *)
(***************************************************************************)
EXTENDS ImSocket, TLAPS

\* A connect is tried only while few in a row have failed; SendThread sends what
\* it has taken, and waits with a chat only.
PlaceFits ==
  /\ rpc = "connect" => tries <= TryLimit
  /\ spc # "pop" => smsg \in Outgoing
  /\ spc = "await" => smsg \in Chats

\* What RecvThread will read as an ack is the ack of a chat that is stored.
AcksAreTrue ==
  \A m \in Chats : Contains(down, m) \/ Contains(rbuf, m) => m \in taken

InHand(m) == spc # "pop" /\ smsg = m

\* No chat stands twice in a queue, ...
Unique(s) == \A i, j \in 1 .. Len(s) : s[i] = s[j] /\ s[i] \in Chats => i = j

\* ... nor in two places, and only chats handed in stand anywhere.
OnePlace ==
  /\ Unique(sendq) /\ Unique(ackq)
  /\ \A m \in Chats :
       /\ Contains(sendq, m) => m \in handed /\ ~InHand(m) /\ ~Contains(ackq, m)
       /\ InHand(m) => m \in handed /\ ~Contains(ackq, m)
       /\ Contains(ackq, m) => m \in handed

\* The application has been told nothing of a chat that is still somewhere.
Untold ==
  \A m \in Chats :
    (m \notin handed \/ Contains(sendq, m) \/ InHand(m) \/ Contains(ackq, m)) => told[m] = <<>>

\* A chat is sent once, on a connection that was made.
SentOnMade ==
  /\ fd # 0 => fd \in Made
  /\ \A m \in Chats :
       /\ sentOn[m] # 0 => sentOn[m] \in Made
       /\ (m \notin handed \/ Contains(sendq, m) \/ (spc = "send" /\ smsg = m)) => sentOn[m] = 0

IInv ==
  /\ TypeOK /\ PlaceFits /\ AcksAreTrue /\ OnePlace /\ Untold /\ SentOnMade
  /\ AckedWasTaken /\ OneVerdict /\ SilentOnlyWithoutConnection

-----------------------------------------------------------------------------
(* Sequences.                                                              *)

LEMMA AppendSeq ==
  ASSUME NEW S, NEW s \in Seq(S), NEW e \in S
  PROVE  /\ Append(s, e) \in Seq(S)
         /\ Len(Append(s, e)) = Len(s) + 1 /\ Append(s, e) # <<>>
         /\ \A i \in 1 .. Len(s) : Append(s, e)[i] = s[i]
         /\ Append(s, e)[Len(s) + 1] = e
OBVIOUS

LEMMA TailSeq ==
  ASSUME NEW S, NEW s \in Seq(S), s # <<>>
  PROVE  /\ Tail(s) \in Seq(S) /\ Head(s) \in S /\ Head(s) = s[1]
         /\ Len(s) \in Nat \ {0} /\ Len(Tail(s)) = Len(s) - 1
         /\ \A i \in 1 .. (Len(s) - 1) : Tail(s)[i] = s[i + 1]
OBVIOUS

LEMMA ConcatSeq ==
  ASSUME NEW S, NEW s \in Seq(S), NEW t \in Seq(S)
  PROVE  /\ s \o t \in Seq(S) /\ Len(s \o t) = Len(s) + Len(t)
         /\ \A i \in 1 .. Len(s) : (s \o t)[i] = s[i]
         /\ \A i \in 1 .. Len(t) : (s \o t)[Len(s) + i] = t[i]
OBVIOUS

LEMMA EmptyContains == ASSUME NEW e PROVE ~Contains(<<>>, e)
BY DEF Contains

LEMMA ContainsOne == ASSUME NEW x, NEW e PROVE Contains(<<x>>, e) <=> e = x
BY DEF Contains

LEMMA EmptyUnique == Unique(<<>>)
BY DEF Unique

LEMMA ContainsAppend ==
  ASSUME NEW S, NEW s \in Seq(S), NEW e \in S
  PROVE  \A x : Contains(Append(s, e), x) <=> Contains(s, x) \/ x = e
<1> SUFFICES ASSUME NEW x PROVE Contains(Append(s, e), x) <=> Contains(s, x) \/ x = e
  OBVIOUS
<1>1. Len(s) \in Nat /\ Len(Append(s, e)) = Len(s) + 1
  BY AppendSeq
<1>2. Contains(s, x) => Contains(Append(s, e), x)
  BY <1>1, AppendSeq DEF Contains
<1>3. x = e => Contains(Append(s, e), x)
  <2>1. Len(s) + 1 \in 1 .. Len(Append(s, e)) /\ Append(s, e)[Len(s) + 1] = e
    BY <1>1, AppendSeq
  <2> QED
    BY <2>1 DEF Contains
<1>4. ASSUME NEW i \in 1 .. Len(Append(s, e)), Append(s, e)[i] = x, x # e
      PROVE  Contains(s, x)
  <2>1. i \in 1 .. Len(s) /\ s[i] = x
    BY <1>1, <1>4, AppendSeq
  <2> QED
    BY <2>1 DEF Contains
<1> QED
  BY <1>2, <1>3, <1>4 DEF Contains

LEMMA ContainsTail ==
  ASSUME NEW S, NEW s \in Seq(S), s # <<>>
  PROVE  \A x : Contains(s, x) <=> x = Head(s) \/ Contains(Tail(s), x)
<1> SUFFICES ASSUME NEW x PROVE Contains(s, x) <=> x = Head(s) \/ Contains(Tail(s), x)
  OBVIOUS
<1>1. Contains(s, x) => x = Head(s) \/ Contains(Tail(s), x)
  <2> SUFFICES ASSUME NEW i \in 1 .. Len(s), s[i] = x, i # 1
               PROVE  Contains(Tail(s), x)
    BY TailSeq DEF Contains
  <2>1. i - 1 \in 1 .. Len(Tail(s)) /\ Tail(s)[i - 1] = x
    BY TailSeq
  <2> QED
    BY <2>1 DEF Contains
<1>2. x = Head(s) => Contains(s, x)
  BY TailSeq DEF Contains
<1>3. Contains(Tail(s), x) => Contains(s, x)
  <2> SUFFICES ASSUME NEW i \in 1 .. Len(Tail(s)), Tail(s)[i] = x
               PROVE  Contains(s, x)
    BY DEF Contains
  <2>1. i + 1 \in 1 .. Len(s) /\ s[i + 1] = x
    BY TailSeq
  <2> QED
    BY <2>1 DEF Contains
<1> QED
  BY <1>1, <1>2, <1>3

LEMMA ContainsConcat ==
  ASSUME NEW S, NEW s \in Seq(S), NEW t \in Seq(S)
  PROVE  \A x : Contains(s \o t, x) => Contains(s, x) \/ Contains(t, x)
<1> SUFFICES ASSUME NEW x, NEW i \in 1 .. Len(s \o t), (s \o t)[i] = x
             PROVE  Contains(s, x) \/ Contains(t, x)
  BY DEF Contains
<1>1. CASE i <= Len(s)
  <2>1. i \in 1 .. Len(s) /\ s[i] = x
    BY <1>1, ConcatSeq
  <2> QED
    BY <2>1 DEF Contains
<1>2. CASE i > Len(s)
  <2>1. i - Len(s) \in 1 .. Len(t) /\ t[i - Len(s)] = x
    <3>1. Len(s) \in Nat /\ Len(t) \in Nat /\ i \in 1 .. Len(s) + Len(t)
      BY ConcatSeq
    <3>2. i - Len(s) \in 1 .. Len(t) /\ i = Len(s) + (i - Len(s))
      BY <1>2, <3>1
    <3> QED
      BY <3>2, ConcatSeq
  <2> QED
    BY <2>1 DEF Contains
<1>3. Len(s) \in Nat /\ i \in Nat
  OBVIOUS
<1> QED
  BY <1>1, <1>2, <1>3

LEMMA UniqueAppend ==
  ASSUME NEW S, NEW s \in Seq(S), NEW e \in S, Unique(s), e \notin Chats \/ ~Contains(s, e)
  PROVE  Unique(Append(s, e))
<1> SUFFICES ASSUME NEW i \in 1 .. Len(Append(s, e)), NEW j \in 1 .. Len(Append(s, e)),
                    Append(s, e)[i] = Append(s, e)[j], Append(s, e)[i] \in Chats
             PROVE  i = j
  BY DEF Unique
<1>1. Len(s) \in Nat /\ Len(Append(s, e)) = Len(s) + 1
  BY AppendSeq
<1>2. CASE i \in 1 .. Len(s) /\ j \in 1 .. Len(s)
  BY <1>2, AppendSeq DEF Unique
<1>3. CASE i = Len(s) + 1 /\ j \in 1 .. Len(s)
  BY <1>3, AppendSeq DEF Contains
<1>4. CASE i \in 1 .. Len(s) /\ j = Len(s) + 1
  BY <1>4, AppendSeq DEF Contains
<1> QED
  BY <1>1, <1>2, <1>3, <1>4

LEMMA UniqueTail ==
  ASSUME NEW S, NEW s \in Seq(S), s # <<>>, Unique(s)
  PROVE  Unique(Tail(s)) /\ (Head(s) \in Chats => ~Contains(Tail(s), Head(s)))
<1>1. Unique(Tail(s))
  <2> SUFFICES ASSUME NEW i \in 1 .. Len(Tail(s)), NEW j \in 1 .. Len(Tail(s)),
                      Tail(s)[i] = Tail(s)[j], Tail(s)[i] \in Chats
               PROVE  i = j
    BY DEF Unique
  <2>1. /\ i + 1 \in 1 .. Len(s) /\ j + 1 \in 1 .. Len(s)
        /\ s[i + 1] = s[j + 1] /\ s[i + 1] \in Chats
    BY TailSeq
  <2>2. i + 1 = j + 1
    BY <2>1 DEF Unique
  <2> QED
    BY <2>2
<1>2. ASSUME Head(s) \in Chats, Contains(Tail(s), Head(s)) PROVE FALSE
  <2>1. PICK i \in 1 .. Len(Tail(s)) : Tail(s)[i] = Head(s)
    BY <1>2 DEF Contains
  <2>2. i + 1 \in 1 .. Len(s) /\ 1 \in 1 .. Len(s) /\ s[i + 1] = s[1] /\ s[1] \in Chats
    BY <1>2, <2>1, TailSeq
  <2>3. i + 1 = 1
    BY <2>2 DEF Unique
  <2> QED
    BY <2>3
<1> QED
  BY <1>1, <1>2

-----------------------------------------------------------------------------
(* What the helpers of the actions do.                                     *)

\* The next connection is one that was not made.
LEMMA NextConnNew ==
  ASSUME Made # ConnIds
  PROVE  NextConn \in ConnIds /\ srv[NextConn] = "none"
<1>1. \E c \in ConnIds \ Made : TRUE
  BY DEF Made
<1>2. NextConn \in ConnIds \ Made
  BY <1>1 DEF NextConn
<1> QED
  BY <1>2 DEF Made

\* Telling v of the chats in s.
LEMMA TellOf ==
  ASSUME TypeOK, NEW s, NEW v \in Verdicts
  PROVE  /\ Tell(s, v) \in [Chats -> Seq(Verdicts)]
         /\ \A m \in Chats : Contains(s, m) => Tell(s, v)[m] = Append(told[m], v)
         /\ \A m \in Chats : ~Contains(s, m) => Tell(s, v)[m] = told[m]
<1>1. \A m \in Chats : told[m] \in Seq(Verdicts)
  BY DEF TypeOK
<1>2. /\ \A m \in Chats : Contains(s, m) => Tell(s, v)[m] = Append(told[m], v)
      /\ \A m \in Chats : ~Contains(s, m) => Tell(s, v)[m] = told[m]
  BY DEF Tell
<1>3. Tell(s, v) \in [Chats -> Seq(Verdicts)]
  <2>1. \A m \in Chats : Tell(s, v)[m] \in Seq(Verdicts)
    BY <1>1, <1>2, AppendSeq
  <2> QED
    BY <2>1 DEF Tell
<1> QED
  BY <1>2, <1>3

\* One more verdict on m.
LEMMA ToldOnceMore ==
  ASSUME TypeOK, NEW m \in Chats, NEW v \in Verdicts, told'[m] = Append(told[m], v)
  PROVE  /\ Len(told'[m]) = Len(told[m]) + 1 /\ told'[m] # <<>>
         /\ \A x : Contains(told'[m], x) <=> Contains(told[m], x) \/ x = v
<1>1. told[m] \in Seq(Verdicts)
  BY DEF TypeOK
<1> QED
  BY <1>1, AppendSeq, ContainsAppend

\* OnCallBack's drain: everything that waited was told to have failed.
LEMMA DrainTells ==
  ASSUME TypeOK, Drain
  PROVE  /\ ackq' = <<>> /\ told' \in [Chats -> Seq(Verdicts)]
         /\ \A m \in Chats : Contains(ackq, m) => told'[m] = Append(told[m], "failed")
         /\ \A m \in Chats : ~Contains(ackq, m) => told'[m] = told[m]
<1>1. told' = Tell(ackq, "failed") /\ ackq' = <<>>
  BY DEF Drain
<1>2. "failed" \in Verdicts
  BY DEF Verdicts
<1> QED
  BY <1>1, <1>2, TellOf

\* ClearQueue: nothing, the front is told of its ack, or a drain and a close.
LEMMA ClearQueueTells ==
  ASSUME TypeOK, rbuf # <<>>, ClearQueue(Head(rbuf))
  PROVE  \/ UNCHANGED <<ackq, told, fd, down>> /\ rbuf' = Tail(rbuf)
         \/ /\ ackq # <<>> /\ Head(rbuf) = Head(ackq) /\ Head(ackq) \in Chats
            /\ ackq' = Tail(ackq) /\ rbuf' = Tail(rbuf) /\ UNCHANGED <<fd, down>>
            /\ told' \in [Chats -> Seq(Verdicts)]
            /\ told'[Head(ackq)] = Append(told[Head(ackq)], "acked")
            /\ \A m \in Chats \ {Head(ackq)} : told'[m] = told[m]
         \/ Drain /\ fd' = 0 /\ down' = <<>> /\ rbuf' = <<>>
<1>1. CASE ackq = <<>> /\ UNCHANGED <<ackq, told, link>> /\ rbuf' = Tail(rbuf)
  BY <1>1 DEF link
<1>2. CASE /\ ackq # <<>> /\ Answers(Head(rbuf), Head(ackq))
           /\ told' = Tell(<<Head(ackq)>>, "acked")
           /\ ackq' = Tail(ackq) /\ rbuf' = Tail(rbuf) /\ UNCHANGED link
  <2>1. Head(rbuf) = Head(ackq) /\ Head(ackq) \in Chats
    BY <1>2, TailSeq DEF Answers, TypeOK
  <2>2. /\ Contains(<<Head(ackq)>>, Head(ackq))
        /\ \A m \in Chats \ {Head(ackq)} : ~Contains(<<Head(ackq)>>, m)
    BY DEF Contains
  <2>3. "acked" \in Verdicts
    BY DEF Verdicts
  <2>4. /\ Tell(<<Head(ackq)>>, "acked") \in [Chats -> Seq(Verdicts)]
        /\ \A m \in Chats : Contains(<<Head(ackq)>>, m) =>
             Tell(<<Head(ackq)>>, "acked")[m] = Append(told[m], "acked")
        /\ \A m \in Chats : ~Contains(<<Head(ackq)>>, m) =>
             Tell(<<Head(ackq)>>, "acked")[m] = told[m]
    BY <2>3, TellOf
  <2>5. \A m \in Chats \ {Head(ackq)} : told'[m] = told[m]
    BY <1>2, <2>2, <2>4
  <2>6. told'[Head(ackq)] = Append(told[Head(ackq)], "acked")
    BY <1>2, <2>1, <2>2, <2>4
  <2>7. told' \in [Chats -> Seq(Verdicts)]
    BY <1>2, <2>4
  <2> QED
    BY <1>2, <2>1, <2>5, <2>6, <2>7 DEF link
<1>3. CASE Drain /\ Close /\ rbuf' = <<>>
  BY <1>3 DEF Close
<1> QED
  BY <1>1, <1>2, <1>3 DEF ClearQueue

-----------------------------------------------------------------------------
\* The types of the variables one by one.
LEMMA Types ==
  ASSUME TypeOK
  PROVE  /\ sendq \in Seq(Outgoing) /\ ackq \in Seq(Chats)
         /\ rbuf \in Seq(Incoming) /\ down \in Seq(Incoming)
         /\ up \in [ConnIds -> Seq(Outgoing)] /\ told \in [Chats -> Seq(Verdicts)]
         /\ Chats \subseteq Outgoing /\ Chats \subseteq Incoming
         /\ "login" \in Outgoing /\ "alive" \in Outgoing /\ "out" \in Incoming
         /\ "alive" \in Incoming
BY DEF TypeOK, Outgoing, Incoming

\* A step of RecvThread or SendThread that drains, and what they change with it.
LEMMA DrainStep ==
  ASSUME TypeOK, Drain, UNCHANGED <<net, wake, rbuf, taken, up, handed, bound, sentOn>>,
         UNCHANGED down,
         status' \in {0, 1}, fd' \in 0 .. MaxConns, sendq' \in Seq(Outgoing),
         srv' \in [ConnIds -> {"none", "fresh", "logged", "gone"}],
         rpc' \in {"top", "parked", "connect", "poll", "late", "reset", "recv", "closed"},
         rfd' \in 0 .. MaxConns, tries' \in 0 .. TryLimit + 1,
         spc' \in {"pop", "send", "await"}, smsg' \in Outgoing \cup {"none"},
         sfd' \in 0 .. MaxConns
  PROVE  TypeOK'
<1>1. told' \in [Chats -> Seq(Verdicts)] /\ ackq' \in Seq(Chats)
  BY DrainTells
<1> QED
  BY <1>1 DEF TypeOK

\* A step keeps the types.
LEMMA TypeStep == ASSUME TypeOK, PlaceFits, [Next]_vars PROVE TypeOK'
<1>1. CASE Start
  <2>1. wake' \in 0 .. bound' /\ bound' \in 0 .. MaxEvents
    BY <1>1, ClientAssumption DEF Start, CountEvent, TypeOK
  <2>2. /\ fd' \in 0 .. MaxConns /\ status' \in {0, 1} /\ down' \in Seq(Incoming)
        /\ rbuf' \in Seq(Incoming) /\ ackq' \in Seq(Chats)
    BY <1>1, ClientAssumption DEF Start, Clear, Close
  <2> QED
    BY <1>1, <2>1, <2>2 DEF Start, TypeOK, recver, sender, server
<1>2. CASE HandIn
  <2>1. PICK m \in Chats : handed' = handed \cup {m} /\ sendq' = Append(sendq, m)
    <3>1. \E x \in Chats \ handed : TRUE
      BY <1>2 DEF HandIn, TypeOK
    <3> QED
      BY <1>2, <3>1 DEF HandIn
  <2>2. sendq' \in Seq(Outgoing)
    BY <2>1, Types, AppendSeq
  <2> QED
    BY <1>2, <2>1, <2>2 DEF HandIn, TypeOK, link, recver, sender, server
<1>3. ASSUME NEW n \in {0, 1}, SetNetworkStatus(n) PROVE TypeOK'
  <2>1. wake' \in 0 .. bound' /\ bound' \in 0 .. MaxEvents
    BY <1>3, ClientAssumption DEF SetNetworkStatus, CountEvent, TypeOK
  <2> QED
    BY <1>3, <2>1 DEF SetNetworkStatus, TypeOK, link, recver, sender, server
<1>4. CASE Park
  <2>1. /\ wake' \in 0 .. bound /\ tries' \in 0 .. TryLimit + 1 /\ rfd' \in 0 .. MaxConns
        /\ rpc' \in {"top", "parked", "connect", "poll", "late", "reset", "recv", "closed"}
    BY <1>4, ClientAssumption DEF Park, RecvGoto, TypeOK
  <2> QED
    BY <1>4, <2>1 DEF Park, TypeOK, link, app, sender, server
<1>5. CASE Unpark
  <2>1. wake' \in 0 .. bound /\ tries' \in 0 .. TryLimit + 1
    BY <1>5, ClientAssumption DEF Unpark, TypeOK
  <2> QED
    BY <1>5, <2>1 DEF Unpark, TypeOK, link, app, sender, server
<1>6. CASE Top
  <2>1. /\ fd' \in 0 .. MaxConns /\ rfd' \in 0 .. MaxConns /\ tries' = tries
        /\ rpc' \in {"top", "parked", "connect", "poll", "late", "reset", "recv", "closed"}
    BY <1>6, ClientAssumption DEF Top, Clear, Close, RecvGoto, TypeOK, link
  <2>2. down' \in Seq(Incoming) /\ rbuf' \in Seq(Incoming) /\ ackq' \in Seq(Chats)
    <3>1. UNCHANGED <<down, rbuf, ackq>> \/ (down' = <<>> /\ rbuf' = <<>> /\ ackq' = <<>>)
      BY <1>6 DEF Top, Clear, Close, link
    <3>2. CASE UNCHANGED <<down, rbuf, ackq>>
      BY <3>2, Types
    <3>3. CASE down' = <<>> /\ rbuf' = <<>> /\ ackq' = <<>>
      BY <3>3
    <3> QED
      BY <3>1, <3>2, <3>3
  <2> QED
    BY <1>6, <2>1, <2>2 DEF Top, TypeOK, app, sender, server
<1>7. CASE ConnectOk
  <2>1. sendq' \in Seq(Outgoing)
    BY <1>7, Types, AppendSeq DEF ConnectOk
  <2>2. srv' \in [ConnIds -> {"none", "fresh", "logged", "gone"}] /\ fd' \in 0 .. MaxConns
    BY <1>7, NextConnNew DEF ConnectOk, ConnIds, TypeOK
  <2>3. told' \in [Chats -> Seq(Verdicts)] /\ ackq' \in Seq(Chats)
    BY <1>7, DrainTells DEF ConnectOk
  <2>4. wake' \in 0 .. bound /\ rfd' \in 0 .. MaxConns
    BY <1>7, ClientAssumption DEF ConnectOk, RecvGoto, TypeOK
  <2> QED
    BY <1>7, <2>1, <2>2, <2>3, <2>4 DEF ConnectOk, RecvGoto, TypeOK, app, sender
<1>8. CASE ConnectFail
  <2>1. tries' \in 0 .. TryLimit + 1
    BY <1>8, ClientAssumption DEF ConnectFail, PlaceFits, TypeOK
  <2> QED
    BY <1>8, <2>1 DEF ConnectFail, TypeOK, link, app, sender, server
<1>22. CASE Peek
  BY <1>22, ClientAssumption DEF Peek, RecvGoto, TypeOK, link, app, sender, server
<1>9. CASE AckTimeout
  <2>1. Drain /\ rfd' \in 0 .. MaxConns /\ rpc' = "reset" /\ tries' = tries
    BY <1>9, ClientAssumption DEF AckTimeout, RecvGoto
  <2> QED
    BY <1>9, <2>1, DrainStep DEF AckTimeout, TypeOK, link, app, sender, server
<1>10. CASE Reset
  BY <1>10, ClientAssumption DEF Reset, Clear, Close, RecvGoto, TypeOK, app, sender, server
<1>11. CASE Recv
  <2>1. rbuf' \in Seq(Incoming)
    BY <1>11, ConcatSeq, Types DEF Recv
  <2> QED
    BY <1>11, <2>1, ClientAssumption DEF Recv, RecvGoto, TypeOK, app, sender, server
<1>12. CASE RecvClosed
  <2>1. Drain /\ rfd' \in 0 .. MaxConns /\ rpc' = "closed" /\ tries' = tries
    BY <1>12, ClientAssumption DEF RecvClosed, RecvGoto
  <2> QED
    BY <1>12, <2>1, DrainStep DEF RecvClosed, TypeOK, link, app, sender, server
<1>13. CASE Quiet
  <2>1. sendq' = sendq \/ sendq' = Append(sendq, "alive")
    BY <1>13 DEF Quiet
  <2>2. sendq' \in Seq(Outgoing)
    <3>1. Append(sendq, "alive") \in Seq(Outgoing)
      BY Types, AppendSeq
    <3> QED
      BY <2>1, <3>1, Types
  <2>3. wake' \in 0 .. bound' /\ bound' \in 0 .. MaxEvents
    BY <1>13, ClientAssumption DEF Quiet, CountEvent, TypeOK
  <2> QED
    BY <1>13, <2>2, <2>3, ClientAssumption
    DEF Quiet, RecvGoto, TypeOK, link, sender, server
<1>14. CASE Handle
  <2>1. CASE rbuf = <<>>
    BY <1>14, <2>1, ClientAssumption DEF Handle, RecvGoto, TypeOK, link, app, sender, server
  <2>2. CASE rbuf # <<>>
    <3>1. Tail(rbuf) \in Seq(Incoming)
      BY <2>2, TailSeq, Types
    <3>2. CASE Head(rbuf) \in Chats \cup {"alive"} /\ ClearQueue(Head(rbuf)) /\ UNCHANGED status
      <4>1. CASE UNCHANGED <<ackq, told, fd, down>> /\ rbuf' = Tail(rbuf)
        BY <1>14, <2>2, <3>1, <3>2, <4>1 DEF Handle, TypeOK, app, sender, server, recver
      <4>2. CASE /\ ackq # <<>> /\ ackq' = Tail(ackq) /\ rbuf' = Tail(rbuf)
                 /\ UNCHANGED <<fd, down>> /\ told' \in [Chats -> Seq(Verdicts)]
        <5>1. ackq' \in Seq(Chats)
          BY <4>2, Types, TailSeq
        <5> QED
          BY <1>14, <2>2, <3>1, <3>2, <4>2, <5>1 DEF Handle, TypeOK, app, sender, server, recver
      <4>3. CASE Drain /\ fd' = 0 /\ down' = <<>> /\ rbuf' = <<>>
        <5>1. ackq' \in Seq(Chats) /\ told' \in [Chats -> Seq(Verdicts)]
          BY <4>3, DrainTells
        <5> QED
          BY SMTT(30), <1>14, <2>2, <3>2, <4>3, <5>1, ClientAssumption
          DEF Handle, TypeOK, app, sender, server, recver
      <4> QED
        BY <2>2, <3>2, <4>1, <4>2, <4>3, ClearQueueTells
    <3>3. CASE status' = 0 /\ Close /\ rbuf' = Tail(rbuf) /\ UNCHANGED <<ackq, told>>
      BY <1>14, <2>2, <3>1, <3>3, ClientAssumption
      DEF Handle, Close, TypeOK, app, sender, server, recver
    <3> QED
      BY <1>14, <2>2, <3>2, <3>3 DEF Handle
  <2> QED
    BY <2>1, <2>2
<1>15. CASE SendPop
  <2>1. Head(sendq) \in Outgoing /\ Tail(sendq) \in Seq(Outgoing)
    BY <1>15, Types, TailSeq DEF SendPop
  <2> QED
    BY <1>15, <2>1 DEF SendPop, TypeOK, link, app, recver, server
<1>16. CASE SendFail
  <2>1. Drain /\ spc' = "pop" /\ smsg' = "none" /\ sfd' \in 0 .. MaxConns
    BY <1>16, ClientAssumption DEF SendFail, SendNext
  <2> QED
    BY <1>16, <2>1, DrainStep DEF SendFail, TypeOK, link, app, recver, server
<1>17. CASE SendOk
  <2>1. fd \in ConnIds /\ smsg \in Outgoing
    BY <1>17 DEF SendOk, ConnIds, TypeOK, PlaceFits
  <2>2. Append(up[fd], smsg) \in Seq(Outgoing) /\ up[fd] \in Seq(Outgoing)
    BY <2>1, Types, AppendSeq
  <2>3. up' \in [ConnIds -> Seq(Outgoing)]
    BY <1>17, <2>1, <2>2, Types DEF SendOk
  <2>4. /\ spc' \in {"pop", "send", "await"} /\ smsg' \in Outgoing \cup {"none"}
        /\ sfd' \in 0 .. MaxConns
    BY <1>17, <2>1, ClientAssumption DEF SendOk, SendNext
  <2>5. sentOn' \in [Chats -> 0 .. MaxConns]
    BY <1>17 DEF SendOk, TypeOK
  <2> QED
    BY <1>17, <2>3, <2>4, <2>5 DEF SendOk, TypeOK, link, app, recver
<1>18. CASE SendAwait
  <2>1. ackq' \in Seq(Chats)
    BY <1>18, Types, AppendSeq DEF SendAwait, PlaceFits
  <2>2. spc' = "pop" /\ smsg' = "none" /\ sfd' \in 0 .. MaxConns
    BY <1>18, ClientAssumption DEF SendAwait, SendNext
  <2> QED
    BY <1>18, <2>1, <2>2 DEF SendAwait, TypeOK, link, app, recver, server
<1>19. ASSUME NEW c \in ConnIds, ServerHandle(c) PROVE TypeOK'
  <2>1. Head(up[c]) \in Outgoing /\ Tail(up[c]) \in Seq(Outgoing)
    BY <1>19, Types, TailSeq DEF ServerHandle
  <2>2. PICK s \in Seq(Incoming) : Answer(c, s)
    <3>1. /\ <<>> \in Seq(Incoming) /\ <<"out">> \in Seq(Incoming)
          /\ <<"alive">> \in Seq(Incoming)
          /\ \A x \in Chats : <<x>> \in Seq(Incoming)
      BY Types
    <3> QED
      BY <1>19, <2>1, <3>1 DEF ServerHandle
  <2>3. up' \in [ConnIds -> Seq(Outgoing)] /\ fd' = fd
    BY <2>1, <2>2, Types DEF Answer
  <2>4. down' \in Seq(Incoming)
    BY <2>2, Types, ConcatSeq DEF Answer
  <2>5. srv' \in [ConnIds -> {"none", "fresh", "logged", "gone"}] /\ taken' \subseteq Chats
    BY <1>19 DEF ServerHandle, TypeOK
  <2>6. UNCHANGED <<status, net, wake, sendq, ackq, rbuf, told, app, recver, sender, sentOn>>
    BY <1>19 DEF ServerHandle
  <2> QED
    BY <2>3, <2>4, <2>5, <2>6 DEF TypeOK, app, recver, sender
<1>20. ASSUME NEW c \in ConnIds, ServerClose(c) PROVE TypeOK'
  <2>1. srv' \in [ConnIds -> {"none", "fresh", "logged", "gone"}]
    BY <1>20 DEF ServerClose, TypeOK
  <2>2. up' \in [ConnIds -> Seq(Outgoing)]
    BY <1>20, Types DEF ServerClose
  <2>3. down' \in Seq(Incoming)
    <3>1. Append(down, "out") \in Seq(Incoming) /\ <<>> \in Seq(Incoming)
      BY Types, AppendSeq
    <3> QED
      BY <1>20, <3>1, Types DEF ServerClose
  <2> QED
    BY <1>20, <2>1, <2>2, <2>3 DEF ServerClose, TypeOK, app, recver, sender
<1>21. CASE UNCHANGED vars
  BY <1>21 DEF vars, TypeOK
<1> QED
  BY <1>1, <1>2, <1>3, <1>4, <1>5, <1>6, <1>7, <1>8, <1>9, <1>10, <1>11, <1>12, <1>13,
     <1>14, <1>15, <1>16, <1>17, <1>18, <1>19, <1>20, <1>21, <1>22
  DEF Next, RecvThread, SendThread

\* A step keeps what is known of the threads' places.
LEMMA PlaceFitsStep == ASSUME TypeOK, PlaceFits, [Next]_vars PROVE PlaceFits'
<1> USE DEF PlaceFits
<1>1. CASE Start \/ HandIn
  BY <1>1 DEF Start, HandIn, recver, sender
<1>2. ASSUME NEW n \in {0, 1}, SetNetworkStatus(n) PROVE PlaceFits'
  BY <1>2 DEF SetNetworkStatus, recver, sender
<1>3. CASE Park \/ Unpark \/ ConnectFail \/ Peek
  BY <1>3 DEF Park, Unpark, ConnectFail, Peek, RecvGoto, sender
<1>4. CASE Top
  BY <1>4, ClientAssumption DEF Top, MustPark, RecvGoto, sender, TypeOK
<1>5. CASE ConnectOk \/ AckTimeout \/ Reset \/ Recv \/ RecvClosed \/ Quiet
  BY <1>5 DEF ConnectOk, AckTimeout, Reset, Recv, RecvClosed, Quiet, RecvGoto, sender
<1>6. CASE Handle
  BY <1>6 DEF Handle, RecvGoto, sender, recver
<1>7. CASE SendPop
  BY <1>7, Types, TailSeq DEF SendPop, recver
<1>8. CASE SendFail \/ SendOk \/ SendAwait
  BY <1>8 DEF SendFail, SendOk, SendAwait, SendNext, recver
<1>9. ASSUME NEW c \in ConnIds, ServerHandle(c) \/ ServerClose(c) PROVE PlaceFits'
  BY <1>9 DEF ServerHandle, ServerClose, recver, sender
<1>10. CASE UNCHANGED vars
  BY <1>10 DEF vars
<1> QED
  BY <1>1, <1>2, <1>3, <1>4, <1>5, <1>6, <1>7, <1>8, <1>9, <1>10
  DEF Next, RecvThread, SendThread

-----------------------------------------------------------------------------
(* Acks.                                                                   *)

Acks == AcksAreTrue /\ AckedWasTaken

\* A drain tells nobody of an ack.
LEMMA DrainAcks ==
  ASSUME TypeOK, AckedWasTaken, Drain, taken' = taken
  PROVE  AckedWasTaken'
<1> SUFFICES ASSUME NEW m \in Chats, Contains(told'[m], "acked") PROVE m \in taken
  BY DEF AckedWasTaken
<1>1. CASE Contains(ackq, m)
  <2>1. told'[m] = Append(told[m], "failed") /\ "failed" \in Verdicts
    BY <1>1, DrainTells DEF Verdicts
  <2>2. Contains(told[m], "acked")
    BY <2>1, ToldOnceMore
  <2> QED
    BY <2>2 DEF AckedWasTaken
<1>2. CASE ~Contains(ackq, m)
  BY <1>2, DrainTells DEF AckedWasTaken
<1> QED
  BY <1>1, <1>2

\* Less to read, and the same chats stored.
LEMMA FewerAcks ==
  ASSUME AcksAreTrue, taken' = taken,
         \A m \in Chats : Contains(down', m) \/ Contains(rbuf', m)
                            => Contains(down, m) \/ Contains(rbuf, m)
  PROVE  AcksAreTrue'
BY DEF AcksAreTrue

LEMMA NoAcks ==
  ASSUME AcksAreTrue, taken' = taken, down' = <<>>, rbuf' = <<>> \/ rbuf' = rbuf
  PROVE  AcksAreTrue'
BY EmptyContains DEF AcksAreTrue

\* A step keeps it true that only stored chats are, or will be, reported as acked.
LEMMA AcksStep == ASSUME TypeOK, Acks, [Next]_vars PROVE Acks'
<1> USE DEF Acks
<1>1. CASE Start \/ Reset
  <2>1. down' = <<>> /\ rbuf' = <<>> /\ taken' = taken /\ told' = told
    BY <1>1 DEF Start, Reset, Clear, Close, server
  <2> QED
    BY <2>1, NoAcks DEF AckedWasTaken
<1>2. CASE HandIn \/ Park \/ Unpark \/ ConnectFail \/ Peek \/ Quiet \/ SendPop \/ SendOk
           \/ SendAwait
  <2>1. UNCHANGED <<down, rbuf, taken, told>>
    BY <1>2 DEF HandIn, Park, Unpark, ConnectFail, Peek, Quiet, SendPop, SendOk, SendAwait,
                link, server
  <2> QED
    BY <2>1 DEF AcksAreTrue, AckedWasTaken
<1>3. ASSUME NEW n \in {0, 1}, SetNetworkStatus(n) PROVE Acks'
  BY <1>3 DEF SetNetworkStatus, link, server, AcksAreTrue, AckedWasTaken
<1>4. CASE Top
  <2>1. /\ taken' = taken /\ told' = told
        /\ UNCHANGED <<down, rbuf>> \/ (down' = <<>> /\ rbuf' = <<>>)
    BY <1>4 DEF Top, Clear, Close, link, server
  <2>2. CASE UNCHANGED <<down, rbuf>>
    BY <2>1, <2>2 DEF AcksAreTrue, AckedWasTaken
  <2>3. CASE down' = <<>> /\ rbuf' = <<>>
    BY <2>1, <2>3, NoAcks DEF AckedWasTaken
  <2> QED
    BY <2>1, <2>2, <2>3
<1>5. CASE ConnectOk \/ AckTimeout \/ RecvClosed \/ SendFail
  <2>1. Drain /\ UNCHANGED <<down, rbuf, taken>>
    BY <1>5 DEF ConnectOk, AckTimeout, RecvClosed, SendFail, link, server
  <2> QED
    BY <2>1, DrainAcks DEF AcksAreTrue
<1>6. CASE Recv
  <2>1. rbuf' = rbuf \o down /\ down' = <<>> /\ UNCHANGED <<taken, told>>
    BY <1>6 DEF Recv, server
  <2>2. \A m \in Chats : Contains(rbuf', m) => Contains(rbuf, m) \/ Contains(down, m)
    BY <2>1, Types, ContainsConcat
  <2>3. \A m \in Chats : ~Contains(down', m)
    BY <2>1, EmptyContains
  <2> QED
    BY <2>1, <2>2, <2>3, FewerAcks DEF AckedWasTaken
<1>7. CASE Handle /\ rbuf = <<>>
  BY <1>7 DEF Handle, link, server, AcksAreTrue, AckedWasTaken
<1>8. CASE Handle /\ rbuf # <<>>
  <2>1. taken' = taken
    BY <1>8 DEF Handle, server
  <2>2. \A m : Contains(Tail(rbuf), m) => Contains(rbuf, m)
    BY <1>8, Types, ContainsTail
  <2>3. CASE UNCHANGED <<ackq, told, fd, down>> /\ rbuf' = Tail(rbuf)
    BY <2>1, <2>2, <2>3, FewerAcks DEF AckedWasTaken
  <2>4. CASE /\ Head(rbuf) = Head(ackq) /\ Head(ackq) \in Chats
             /\ rbuf' = Tail(rbuf) /\ UNCHANGED <<fd, down>>
             /\ \A m \in Chats \ {Head(ackq)} : told'[m] = told[m]
    <3>1. AcksAreTrue'
      BY <2>1, <2>2, <2>4, FewerAcks
    <3>2. Contains(rbuf, Head(ackq))
      BY <1>8, <2>4, Types, ContainsTail
    <3>3. Head(ackq) \in taken
      BY <2>4, <3>2 DEF AcksAreTrue
    <3> QED
      BY <2>1, <2>4, <3>1, <3>3 DEF AckedWasTaken
  <2>5. CASE Drain /\ fd' = 0 /\ down' = <<>> /\ rbuf' = <<>>
    BY <2>1, <2>5, DrainAcks, NoAcks
  <2>6. CASE Close /\ rbuf' = Tail(rbuf) /\ UNCHANGED <<ackq, told>>
    <3>1. \A m \in Chats : ~Contains(down', m)
      BY <2>6, EmptyContains DEF Close
    <3> QED
      BY <2>1, <2>2, <2>6, <3>1, FewerAcks DEF AckedWasTaken
  <2>7. \/ ClearQueue(Head(rbuf))
        \/ Close /\ rbuf' = Tail(rbuf) /\ UNCHANGED <<ackq, told>>
    BY <1>8 DEF Handle
  <2> QED
    BY <1>8, <2>3, <2>4, <2>5, <2>6, <2>7, ClearQueueTells
<1>9. ASSUME NEW c \in ConnIds, ServerHandle(c) PROVE Acks'
  <2>1. /\ UNCHANGED <<rbuf, told>> /\ taken \subseteq taken'
        /\ \E s \in {<<>>, <<"out">>, <<"alive">>} \cup {<<x>> : x \in taken' \cap Chats} :
             Answer(c, s)
    BY <1>9 DEF ServerHandle
  <2>2. PICK s \in {<<>>, <<"out">>, <<"alive">>} \cup {<<x>> : x \in taken' \cap Chats} :
          down' = down \o s \/ down' = down
    BY <2>1 DEF Answer
  <2>3. s \in Seq(Incoming) /\ \A m \in Chats : Contains(s, m) => m \in taken'
    <3>1. CASE s = <<>>
      BY <3>1, EmptyContains
    <3>2. CASE s = <<"out">>
      BY <3>2, Types, ContainsOne, ClientAssumption
    <3>3. CASE s = <<"alive">>
      BY <3>3, Types, ContainsOne, ClientAssumption
    <3>4. ASSUME NEW x \in taken' \cap Chats, s = <<x>>
          PROVE  s \in Seq(Incoming) /\ \A m \in Chats : Contains(s, m) => m \in taken'
      BY <3>4, Types, ContainsOne
    <3> QED
      BY <2>2, <3>1, <3>2, <3>3, <3>4
  <2>4. \A m \in Chats : Contains(down', m) => Contains(down, m) \/ m \in taken'
    BY ZenonT(60), <2>2, <2>3, Types, ContainsConcat
  <2> QED
    BY <2>1, <2>4 DEF AcksAreTrue, AckedWasTaken
<1>10. ASSUME NEW c \in ConnIds, ServerClose(c) PROVE Acks'
  <2>1. /\ UNCHANGED <<rbuf, told, taken>>
        /\ down' = Append(down, "out") \/ down' = <<>> \/ down' = down
    BY <1>10 DEF ServerClose
  <2>2. \A m \in Chats : Contains(down', m) => Contains(down, m)
    <3>1. CASE down' = Append(down, "out")
      BY <3>1, Types, ContainsAppend, ClientAssumption
    <3>2. CASE down' = <<>>
      BY <3>2, EmptyContains
    <3> QED
      BY <2>1, <3>1, <3>2
  <2> QED
    BY <2>1, <2>2, FewerAcks DEF AckedWasTaken
<1>11. CASE UNCHANGED vars
  BY <1>11 DEF vars, AcksAreTrue, AckedWasTaken
<1> QED
  BY <1>1, <1>2, <1>3, <1>4, <1>5, <1>6, <1>7, <1>8, <1>9, <1>10, <1>11
  DEF Next, RecvThread, SendThread

-----------------------------------------------------------------------------
(* Where a chat is, and what was told of it.                               *)

Whereabouts == OnePlace /\ Untold /\ OneVerdict

\* A step that moves no chat but out of m_ackqueue, and tells of no other.
LEMMA NothingMoves ==
  ASSUME TypeOK, Whereabouts, handed' = handed, Unique(sendq'),
         \A m \in Chats : Contains(sendq', m) => Contains(sendq, m),
         \A m \in Chats : (spc' # "pop" /\ smsg' = m) => InHand(m),
         ackq' = <<>> \/ ackq' = ackq,
         \A m \in Chats : \/ told'[m] = told[m]
                          \/ /\ Contains(ackq, m) /\ ackq' = <<>>
                             /\ Len(told'[m]) = Len(told[m]) + 1
  PROVE  Whereabouts'
<1> USE DEF Whereabouts
<1>1. \A m \in Chats : Contains(ackq', m) => Contains(ackq, m) /\ ackq' = ackq
  BY EmptyContains
<1>2. Unique(ackq')
  BY EmptyUnique DEF OnePlace
<1>3. OnePlace'
  BY <1>1, <1>2 DEF OnePlace, InHand
<1>4. Untold'
  <2> SUFFICES ASSUME NEW m \in Chats,
                      m \notin handed \/ Contains(sendq, m) \/ InHand(m)
                        \/ (Contains(ackq, m) /\ ackq' = ackq)
               PROVE  told'[m] = <<>>
    BY <1>1 DEF Untold, InHand
  <2>1. told[m] = <<>>
    BY DEF Untold
  <2>2. told'[m] = told[m]
    <3>1. ~(Contains(ackq, m) /\ ackq' = <<>>)
      BY EmptyContains DEF OnePlace
    <3> QED
      BY <3>1
  <2> QED
    BY <2>1, <2>2
<1>5. OneVerdict'
  <2> SUFFICES ASSUME NEW m \in Chats PROVE Len(told'[m]) <= 1
    BY DEF OneVerdict
  <2>1. Contains(ackq, m) => Len(told[m]) = 0
    BY DEF Untold
  <2> QED
    BY <2>1 DEF OneVerdict
<1> QED
  BY <1>3, <1>4, <1>5

\* A drain, of the last part of that.
LEMMA DrainEmpties ==
  ASSUME TypeOK, Drain
  PROVE  /\ ackq' = <<>>
         /\ \A m \in Chats : \/ told'[m] = told[m]
                             \/ Contains(ackq, m) /\ Len(told'[m]) = Len(told[m]) + 1
<1>1. "failed" \in Verdicts
  BY DEF Verdicts
<1>2. ASSUME NEW m \in Chats, Contains(ackq, m)
      PROVE  Len(told'[m]) = Len(told[m]) + 1
  BY <1>1, <1>2, DrainTells, ToldOnceMore
<1> QED
  BY <1>2, DrainTells

\* A step keeps every chat in one place and tells of it once.
LEMMA WhereaboutsStep ==
  ASSUME TypeOK, PlaceFits, Whereabouts, [Next]_vars PROVE Whereabouts'
<1>0. Unique(sendq) /\ Unique(ackq)
  BY DEF Whereabouts, OnePlace
<1>1. CASE Start \/ Reset
  <2>1. UNCHANGED <<handed, sendq, sender, told>> /\ ackq' = <<>>
    BY <1>1 DEF Start, Reset, Clear, Close, app
  <2> QED
    BY <1>0, <2>1, NothingMoves DEF sender, InHand
<1>2. CASE HandIn
  <2>1. PICK m \in Chats \ handed :
          handed' = handed \cup {m} /\ sendq' = Append(sendq, m)
    <3>1. \E x \in Chats \ handed : TRUE
      BY <1>2 DEF HandIn, TypeOK
    <3> QED
      BY <1>2, <3>1 DEF HandIn
  <2>2. ~Contains(sendq, m) /\ ~InHand(m) /\ ~Contains(ackq, m) /\ told[m] = <<>>
    BY <2>1 DEF Whereabouts, OnePlace, Untold
  <2>3. /\ Unique(sendq')
        /\ \A x \in Chats : Contains(sendq', x) <=> Contains(sendq, x) \/ x = m
    BY <1>0, <2>1, <2>2, Types, UniqueAppend, ContainsAppend
  <2>4. UNCHANGED <<ackq, told, spc, smsg>>
    BY <1>2 DEF HandIn, sender
  <2>5. OnePlace'
    BY <1>0, <2>1, <2>2, <2>3, <2>4 DEF Whereabouts, OnePlace, InHand
  <2>6. Untold'
    BY <2>1, <2>2, <2>3, <2>4 DEF Whereabouts, Untold, InHand
  <2>7. OneVerdict'
    BY <2>4 DEF Whereabouts, OneVerdict
  <2> QED
    BY <2>5, <2>6, <2>7 DEF Whereabouts
<1>3. ASSUME NEW n \in {0, 1}, SetNetworkStatus(n) PROVE Whereabouts'
  <2>1. UNCHANGED <<handed, sendq, spc, smsg, ackq, told>>
    BY <1>3 DEF SetNetworkStatus, sender
  <2> QED
    BY <1>0, <2>1, NothingMoves DEF InHand
<1>4. CASE Park \/ Unpark \/ ConnectFail \/ Peek \/ Recv
  <2>1. UNCHANGED <<handed, sendq, spc, smsg, ackq, told>>
    BY <1>4 DEF Park, Unpark, ConnectFail, Peek, Recv, sender, app
  <2> QED
    BY <1>0, <2>1, NothingMoves DEF InHand
<1>5. CASE Top
  <2>1. UNCHANGED <<handed, sendq, spc, smsg, told>> /\ (ackq' = ackq \/ ackq' = <<>>)
    BY <1>5 DEF Top, Clear, Close, sender, app
  <2> QED
    BY <1>0, <2>1, NothingMoves DEF InHand
<1>6. CASE ConnectOk
  <2>1. Drain /\ UNCHANGED <<handed, spc, smsg>> /\ sendq' = Append(sendq, "login")
    BY <1>6 DEF ConnectOk, app, sender
  <2>2. Unique(sendq') /\ \A m \in Chats : Contains(sendq', m) => Contains(sendq, m)
    <3>1. "login" \in Outgoing /\ "login" \notin Chats
      BY Types, ClientAssumption
    <3> QED
      BY <1>0, <2>1, <3>1, Types, UniqueAppend, ContainsAppend
  <2> QED
    BY <2>1, <2>2, DrainEmpties, NothingMoves DEF InHand
<1>7. CASE AckTimeout \/ RecvClosed
  <2>1. Drain /\ UNCHANGED <<handed, spc, smsg, sendq>>
    BY <1>7 DEF AckTimeout, RecvClosed, app, sender
  <2> QED
    BY <1>0, <2>1, DrainEmpties, NothingMoves DEF InHand
<1>8. CASE Quiet
  <2>1. /\ UNCHANGED <<handed, spc, smsg, ackq, told>>
        /\ sendq' = sendq \/ sendq' = Append(sendq, "alive")
    BY <1>8 DEF Quiet, sender, app
  <2>2. Unique(sendq') /\ \A m \in Chats : Contains(sendq', m) => Contains(sendq, m)
    <3>1. "alive" \in Outgoing /\ "alive" \notin Chats
      BY Types, ClientAssumption
    <3>2. CASE sendq' = Append(sendq, "alive")
      BY <1>0, <3>1, <3>2, Types, UniqueAppend, ContainsAppend
    <3> QED
      BY <1>0, <2>1, <3>2
  <2> QED
    BY <2>1, <2>2, NothingMoves DEF InHand
<1>9. CASE Handle
  <2>1. UNCHANGED <<handed, spc, smsg, sendq>>
    BY <1>9 DEF Handle, sender, app
  <2>2. CASE UNCHANGED <<ackq, told>>
    BY <1>0, <2>1, <2>2, NothingMoves DEF InHand
  <2>3. CASE Drain
    BY <1>0, <2>1, <2>3, DrainEmpties, NothingMoves DEF InHand
  <2>4. CASE /\ ackq # <<>> /\ Head(ackq) \in Chats /\ ackq' = Tail(ackq)
             /\ told'[Head(ackq)] = Append(told[Head(ackq)], "acked")
             /\ \A m \in Chats \ {Head(ackq)} : told'[m] = told[m]
    <3>1. /\ Unique(ackq') /\ ~Contains(ackq', Head(ackq)) /\ Contains(ackq, Head(ackq))
          /\ \A m \in Chats : Contains(ackq', m) => Contains(ackq, m) /\ m # Head(ackq)
      BY <1>0, <2>4, Types, UniqueTail, ContainsTail
    <3>2. OnePlace'
      BY <1>0, <2>1, <3>1 DEF Whereabouts, OnePlace, InHand
    <3>3. Head(ackq) \in handed /\ ~Contains(sendq, Head(ackq)) /\ ~InHand(Head(ackq))
      BY <2>4, <3>1 DEF Whereabouts, OnePlace
    <3>4. Untold'
      BY <2>1, <2>4, <3>1, <3>3 DEF Whereabouts, Untold, InHand
    <3>5. Len(told'[Head(ackq)]) = Len(told[Head(ackq)]) + 1 /\ Len(told[Head(ackq)]) = 0
      BY <2>4, <3>1, ToldOnceMore DEF Whereabouts, Untold, Verdicts
    <3>6. OneVerdict'
      BY <2>4, <3>5 DEF Whereabouts, OneVerdict
    <3> QED
      BY <3>2, <3>4, <3>6 DEF Whereabouts
  <2>5. UNCHANGED <<ackq, told>> \/ (rbuf # <<>> /\ ClearQueue(Head(rbuf)))
    BY <1>9 DEF Handle
  <2> QED
    BY <2>2, <2>3, <2>4, <2>5, ClearQueueTells
<1>10. CASE SendPop
  <2>1. /\ spc = "pop" /\ sendq # <<>> /\ smsg' = Head(sendq) /\ sendq' = Tail(sendq)
        /\ spc' = "send" /\ UNCHANGED <<ackq, told, handed>>
    BY <1>10 DEF SendPop, app
  <2>2. /\ Unique(sendq')
        /\ \A m \in Chats : Contains(sendq', m) => Contains(sendq, m) /\ m # Head(sendq)
        /\ Contains(sendq, Head(sendq))
    BY <1>0, <2>1, Types, UniqueTail, ContainsTail
  <2>3. OnePlace'
    BY <1>0, <2>1, <2>2 DEF Whereabouts, OnePlace, InHand
  <2>4. Untold'
    BY <2>1, <2>2 DEF Whereabouts, Untold, InHand
  <2>5. OneVerdict'
    BY <2>1 DEF Whereabouts, OneVerdict
  <2> QED
    BY <2>3, <2>4, <2>5 DEF Whereabouts
<1>11. CASE SendFail
  <2>1. Drain /\ UNCHANGED <<handed, sendq>> /\ spc' = "pop"
    BY <1>11 DEF SendFail, SendNext, app
  <2> QED
    BY <1>0, <2>1, DrainEmpties, NothingMoves
<1>12. CASE SendOk
  <2>1. /\ UNCHANGED <<handed, sendq, ackq, told>> /\ spc = "send"
        /\ spc' = "pop" \/ smsg' = smsg
    BY <1>12 DEF SendOk, SendNext, app
  <2> QED
    BY <1>0, <2>1, NothingMoves DEF InHand
<1>13. CASE SendAwait
  <2>1. /\ spc = "await" /\ smsg \in Chats /\ ackq' = Append(ackq, smsg) /\ spc' = "pop"
        /\ UNCHANGED <<handed, sendq, told>>
    BY <1>13 DEF SendAwait, SendNext, app, PlaceFits
  <2>2. InHand(smsg) /\ ~Contains(ackq, smsg) /\ ~Contains(sendq, smsg) /\ smsg \in handed
    BY <2>1 DEF Whereabouts, OnePlace, InHand
  <2>3. /\ Unique(ackq')
        /\ \A m \in Chats : Contains(ackq', m) => Contains(ackq, m) \/ m = smsg
    BY <1>0, <2>1, <2>2, Types, UniqueAppend, ContainsAppend
  <2>4. OnePlace'
    BY <1>0, <2>1, <2>2, <2>3 DEF Whereabouts, OnePlace, InHand
  <2>5. Untold'
    BY <2>1, <2>2, <2>3 DEF Whereabouts, Untold, InHand
  <2>6. OneVerdict'
    BY <2>1 DEF Whereabouts, OneVerdict
  <2> QED
    BY <2>4, <2>5, <2>6 DEF Whereabouts
<1>14. ASSUME NEW c \in ConnIds, ServerHandle(c) \/ ServerClose(c) PROVE Whereabouts'
  <2>1. UNCHANGED <<handed, sendq, spc, smsg, ackq, told>>
    BY <1>14 DEF ServerHandle, ServerClose, sender, app
  <2> QED
    BY <1>0, <2>1, NothingMoves DEF InHand
<1>15. CASE UNCHANGED vars
  <2>1. UNCHANGED <<handed, sendq, spc, smsg, ackq, told>>
    BY <1>15 DEF vars
  <2> QED
    BY <1>0, <2>1, NothingMoves DEF InHand
<1> QED
  BY <1>1, <1>2, <1>3, <1>4, <1>5, <1>6, <1>7, <1>8, <1>9, <1>10, <1>11, <1>12, <1>13,
     <1>14, <1>15
  DEF Next, RecvThread, SendThread

-----------------------------------------------------------------------------
(* On which connection a chat was sent.                                    *)

\* A step that makes no connection unmade, queues no chat again and sends none.
LEMMA NothingSent ==
  ASSUME SentOnMade, sentOn' = sentOn, handed \subseteq handed', Made \subseteq Made',
         fd' = 0 \/ fd' = fd \/ fd' \in Made',
         \A m \in Chats : Contains(sendq', m) => Contains(sendq, m) \/ m \notin handed,
         \A m \in Chats : (spc' = "send" /\ smsg' = m)
                            => (spc = "send" /\ smsg = m) \/ Contains(sendq, m)
  PROVE  SentOnMade'
BY DEF SentOnMade

\* A step keeps what is known of the connections chats were sent on.
LEMMA SentOnMadeStep ==
  ASSUME TypeOK, PlaceFits, Whereabouts, SentOnMade, [Next]_vars PROVE SentOnMade'
<1>1. CASE Start \/ Reset \/ Park \/ Unpark \/ ConnectFail \/ Recv \/ AckTimeout \/ RecvClosed
           \/ Peek \/ Top \/ Handle
  <2>1. UNCHANGED <<handed, sendq, spc, smsg, srv, sentOn>> /\ (fd' = fd \/ fd' = 0)
    <3>1. UNCHANGED <<handed, sendq, spc, smsg, srv, sentOn>>
      BY <1>1 DEF Start, Reset, Park, Unpark, ConnectFail, Recv, AckTimeout, RecvClosed, Peek, Top,
                  Handle, app, sender, server
    <3>2. fd' = fd \/ fd' = 0
      BY <1>1 DEF Start, Reset, Park, Unpark, ConnectFail, Recv, AckTimeout, RecvClosed, Peek, Top,
                  Handle, ClearQueue, Clear, Close, link
    <3> QED
      BY <3>1, <3>2
  <2> QED
    BY <2>1, NothingSent DEF Made
<1>2. CASE HandIn
  <2>1. PICK m \in Chats \ handed : handed' = handed \cup {m} /\ sendq' = Append(sendq, m)
    <3>1. \E x \in Chats \ handed : TRUE
      BY <1>2 DEF HandIn, TypeOK
    <3> QED
      BY <1>2, <3>1 DEF HandIn
  <2>2. \A x \in Chats : Contains(sendq', x) => Contains(sendq, x) \/ x \notin handed
    BY <2>1, Types, ContainsAppend
  <2>3. UNCHANGED <<spc, smsg, srv, sentOn, fd>>
    BY <1>2 DEF HandIn, sender, server, link
  <2> QED
    BY <2>1, <2>2, <2>3, NothingSent DEF Made
<1>3. ASSUME NEW n \in {0, 1}, SetNetworkStatus(n) PROVE SentOnMade'
  <2>1. UNCHANGED <<handed, sendq, spc, smsg, srv, sentOn, fd>>
    BY <1>3 DEF SetNetworkStatus, sender, server, link
  <2> QED
    BY <2>1, NothingSent DEF Made
<1>4. CASE ConnectOk \/ Quiet
  <2>1. UNCHANGED <<handed, spc, smsg, sentOn>>
    BY <1>4 DEF ConnectOk, Quiet, app, sender, server
  <2>2. sendq' = sendq \/ sendq' = Append(sendq, "login") \/ sendq' = Append(sendq, "alive")
    BY <1>4 DEF ConnectOk, Quiet
  <2>3. \A m \in Chats : Contains(sendq', m) => Contains(sendq, m)
    <3>1. CASE sendq' = Append(sendq, "login")
      BY <3>1, Types, ContainsAppend, ClientAssumption
    <3>2. CASE sendq' = Append(sendq, "alive")
      BY <3>2, Types, ContainsAppend, ClientAssumption
    <3> QED
      BY <2>2, <3>1, <3>2
  <2>4. Made \subseteq Made' /\ (fd' = fd \/ fd' \in Made')
    <3>1. CASE ConnectOk
      BY <3>1, NextConnNew DEF ConnectOk, Made, TypeOK
    <3>2. CASE Quiet
      BY <3>2 DEF Quiet, Made, link, server
    <3> QED
      BY <1>4, <3>1, <3>2
  <2> QED
    BY <2>1, <2>3, <2>4, NothingSent
<1>5. CASE SendPop
  <2>1. /\ smsg' = Head(sendq) /\ sendq' = Tail(sendq) /\ sendq # <<>>
        /\ UNCHANGED <<handed, srv, sentOn, fd>>
    BY <1>5 DEF SendPop, link, app, server
  <2>2. /\ \A m \in Chats : Contains(sendq', m) => Contains(sendq, m)
        /\ Contains(sendq, smsg')
    BY <2>1, Types, ContainsTail
  <2> QED
    BY <2>1, <2>2, NothingSent DEF Made
<1>6. CASE SendFail \/ SendAwait
  <2>1. UNCHANGED <<handed, sendq, srv, sentOn, fd>> /\ spc' = "pop"
    BY <1>6 DEF SendFail, SendAwait, SendNext, link, app, server
  <2> QED
    BY <2>1, NothingSent DEF Made
<1>7. CASE SendOk
  <2>1. /\ UNCHANGED <<handed, sendq, srv, fd>> /\ spc' # "send" /\ spc = "send" /\ fd # 0
        /\ sentOn' = [m \in Chats |-> IF m = smsg THEN fd ELSE sentOn[m]]
    BY <1>7 DEF SendOk, SendNext, link, app
  <2>2. Made' = Made
    BY <2>1 DEF Made
  <2>3. ASSUME NEW m \in Chats, m = smsg PROVE m \in handed /\ ~Contains(sendq, m)
    BY <2>1, <2>3 DEF Whereabouts, OnePlace, InHand
  <2> QED
    BY <2>1, <2>2, <2>3 DEF SentOnMade
<1>8. ASSUME NEW c \in ConnIds, ServerHandle(c) \/ ServerClose(c) PROVE SentOnMade'
  <2>1. UNCHANGED <<handed, sendq, spc, smsg, sentOn, fd>>
    BY <1>8 DEF ServerHandle, ServerClose, Answer, sender, app
  <2>2. srv' = srv \/ srv' = [srv EXCEPT ![c] = "gone"] \/ srv' = [srv EXCEPT ![c] = "logged"]
    BY <1>8 DEF ServerHandle, ServerClose
  <2>3. Made \subseteq Made'
    BY <2>2 DEF Made, TypeOK
  <2> QED
    BY <2>1, <2>3, NothingSent
<1>9. CASE UNCHANGED vars
  <2>1. UNCHANGED <<handed, sendq, spc, smsg, srv, sentOn, fd>>
    BY <1>9 DEF vars
  <2> QED
    BY <2>1, NothingSent DEF Made
<1> QED
  BY <1>1, <1>2, <1>3, <1>4, <1>5, <1>6, <1>7, <1>8, <1>9 DEF Next, RecvThread, SendThread

Silent == SilentOnlyWithoutConnection

\* No chat is on a connection that is closed.
LEMMA SilentWhenClosed == ASSUME fd' = 0 PROVE Silent'
BY DEF Silent, SilentOnlyWithoutConnection

\* A step on a connection that stands: what is gone after it without a word was
\* so before it, or was never sent.
LEMMA SilentKept ==
  ASSUME Silent, sentOn' = sentOn, fd' = fd,
         \A m \in Chats : (Gone(m) /\ told[m] = <<>>)'
                            => (Gone(m) /\ told[m] = <<>>) \/ sentOn[m] = 0
  PROVE  Silent'
BY DEF Silent, SilentOnlyWithoutConnection

\* A drain forgets no chat silently.
LEMMA SilentDrain ==
  ASSUME TypeOK, Silent, Drain, UNCHANGED <<sentOn, fd, sendq, handed>>,
         UNCHANGED <<spc, smsg>> \/ \A m \in Chats : InHand(m) => sentOn[m] = 0
  PROVE  Silent'
<1>1. ASSUME NEW m \in Chats, Contains(ackq, m) PROVE told'[m] # <<>>
  <2>1. told'[m] = Append(told[m], "failed") /\ "failed" \in Verdicts
    BY <1>1, DrainTells DEF Verdicts
  <2> QED
    BY <2>1, ToldOnceMore
<1>2. \A m \in Chats : ~Contains(ackq, m) => told'[m] = told[m]
  BY DrainTells
<1>3. ASSUME NEW m \in Chats, Gone(m)', told'[m] = <<>>
      PROVE  (Gone(m) /\ told[m] = <<>>) \/ sentOn[m] = 0
  BY <1>1, <1>2, <1>3 DEF Gone, InHand
<1> QED
  BY <1>3, SilentKept

\* A step keeps it true that only a lost connection makes a chat vanish silently.
LEMMA SilentStep ==
  ASSUME TypeOK, PlaceFits, Whereabouts, SentOnMade, Silent, [Next]_vars PROVE Silent'
<1>1. CASE Start \/ Reset
  BY <1>1, SilentWhenClosed DEF Start, Reset, Clear, Close
<1>2. CASE Park \/ Unpark \/ ConnectFail \/ Peek \/ Recv \/ Quiet
  <2>1. UNCHANGED <<handed, spc, smsg, ackq, told, sentOn, fd>>
    BY <1>2 DEF Park, Unpark, ConnectFail, Peek, Recv, Quiet, link, app, sender, server
  <2>2. \A m \in Chats : Contains(sendq, m) => Contains(sendq', m)
    <3>1. sendq' = sendq \/ sendq' = Append(sendq, "alive")
      BY <1>2 DEF Park, Unpark, ConnectFail, Peek, Recv, Quiet
    <3>2. CASE sendq' = Append(sendq, "alive")
      BY <3>2, Types, ContainsAppend
    <3> QED
      BY <3>1, <3>2
  <2> QED
    BY <2>1, <2>2, SilentKept DEF Gone
<1>3. ASSUME NEW n \in {0, 1}, SetNetworkStatus(n) PROVE Silent'
  <2>1. UNCHANGED <<handed, spc, smsg, sendq, ackq, told, sentOn, fd>>
    BY <1>3 DEF SetNetworkStatus, link, sender, server
  <2> QED
    BY <2>1, SilentKept DEF Gone
<1>4. CASE HandIn
  <2>1. PICK m \in Chats \ handed : handed' = handed \cup {m} /\ sendq' = Append(sendq, m)
    <3>1. \E x \in Chats \ handed : TRUE
      BY <1>4 DEF HandIn, TypeOK
    <3> QED
      BY <1>4, <3>1 DEF HandIn
  <2>2. \A x \in Chats : Contains(sendq', x) <=> Contains(sendq, x) \/ x = m
    BY <2>1, Types, ContainsAppend
  <2>3. UNCHANGED <<spc, smsg, ackq, told, sentOn, fd>>
    BY <1>4 DEF HandIn, sender, server, link
  <2> QED
    BY <2>1, <2>2, <2>3, SilentKept DEF Gone
<1>5. CASE Top
  <2>1. CASE fd = 0
    BY <1>5, <2>1, SilentWhenClosed DEF Top, Clear, Close
  <2>2. CASE fd # 0
    <3>1. UNCHANGED <<handed, spc, smsg, sendq, ackq, told, sentOn, fd>>
      BY <1>5, <2>2 DEF Top, link, app, sender, server
    <3> QED
      BY <3>1, SilentKept DEF Gone
  <2> QED
    BY <2>1, <2>2
<1>6. CASE ConnectOk
  <2>1. fd' \notin Made /\ fd' # 0 /\ sentOn' = sentOn
    BY <1>6, NextConnNew DEF ConnectOk, Made, ConnIds
  <2> QED
    BY <2>1 DEF SentOnMade, Silent, SilentOnlyWithoutConnection
<1>7. CASE AckTimeout \/ RecvClosed
  <2>1. Drain /\ UNCHANGED <<sentOn, fd, sendq, handed, spc, smsg>>
    BY <1>7 DEF AckTimeout, RecvClosed, link, app, sender, server
  <2> QED
    BY <2>1, SilentDrain
<1>8. CASE Handle
  <2>1. UNCHANGED <<handed, spc, smsg, sendq, sentOn>>
    BY <1>8 DEF Handle, app, sender, server
  <2>2. CASE fd' = 0
    BY <2>2, SilentWhenClosed
  <2>3. CASE UNCHANGED <<ackq, told, fd>>
    BY <2>1, <2>3, SilentKept DEF Gone
  <2>4. CASE /\ ackq # <<>> /\ Head(ackq) \in Chats /\ ackq' = Tail(ackq) /\ fd' = fd
             /\ told'[Head(ackq)] = Append(told[Head(ackq)], "acked")
             /\ \A m \in Chats \ {Head(ackq)} : told'[m] = told[m]
    <3>1. told'[Head(ackq)] # <<>>
      BY <2>4, ToldOnceMore DEF Verdicts
    <3>2. \A m \in Chats \ {Head(ackq)} : Contains(ackq, m) => Contains(ackq', m)
      BY <2>4, Types, ContainsTail
    <3> QED
      BY <2>1, <2>4, <3>1, <3>2, SilentKept DEF Gone
  <2>5. \/ UNCHANGED <<ackq, told, fd>> \/ fd' = 0
        \/ (rbuf # <<>> /\ ClearQueue(Head(rbuf)))
    BY <1>8 DEF Handle, Close, link
  <2> QED
    BY <2>2, <2>3, <2>4, <2>5, ClearQueueTells
<1>9. CASE SendPop
  <2>1. /\ spc = "pop" /\ sendq # <<>> /\ smsg' = Head(sendq) /\ sendq' = Tail(sendq)
        /\ spc' = "send" /\ UNCHANGED <<ackq, told, handed, sentOn, fd>>
    BY <1>9 DEF SendPop, link, app, server
  <2>2. \A m \in Chats : Contains(sendq, m) => Contains(sendq', m) \/ m = smsg'
    BY <2>1, Types, ContainsTail
  <2> QED
    BY <2>1, <2>2, SilentKept DEF Gone
<1>10. CASE SendFail
  <2>1. Drain /\ UNCHANGED <<sentOn, fd, sendq, handed>> /\ spc = "send"
    BY <1>10 DEF SendFail, link, app, server
  <2>2. \A m \in Chats : InHand(m) => sentOn[m] = 0
    BY <2>1 DEF InHand, SentOnMade
  <2> QED
    BY <2>1, <2>2, SilentDrain
<1>11. CASE SendOk
  <2>1. /\ UNCHANGED <<handed, sendq, ackq, told, fd>> /\ spc = "send"
        /\ sentOn' = [m \in Chats |-> IF m = smsg THEN fd ELSE sentOn[m]]
        /\ smsg \in Chats => spc' = "await" /\ smsg' = smsg
    BY <1>11 DEF SendOk, link, app
  <2>2. ASSUME NEW m \in Chats, Gone(m)', told'[m] = <<>>
        PROVE  Gone(m) /\ told[m] = <<>> /\ m # smsg
    BY <2>1, <2>2 DEF Gone
  <2> QED
    BY <2>1, <2>2 DEF Silent, SilentOnlyWithoutConnection
<1>12. CASE SendAwait
  <2>1. /\ spc = "await" /\ smsg \in Chats /\ ackq' = Append(ackq, smsg) /\ spc' = "pop"
        /\ UNCHANGED <<handed, sendq, told, sentOn, fd>>
    BY <1>12 DEF SendAwait, SendNext, link, app, server, PlaceFits
  <2>2. \A m \in Chats : Contains(ackq', m) <=> Contains(ackq, m) \/ m = smsg
    BY <2>1, Types, ContainsAppend
  <2> QED
    BY <2>1, <2>2, SilentKept DEF Gone
<1>13. ASSUME NEW c \in ConnIds, ServerHandle(c) \/ ServerClose(c) PROVE Silent'
  <2>1. UNCHANGED <<handed, spc, smsg, sendq, ackq, told, sentOn, fd>>
    BY <1>13 DEF ServerHandle, ServerClose, Answer, app, sender
  <2> QED
    BY <2>1, SilentKept DEF Gone
<1>14. CASE UNCHANGED vars
  <2>1. UNCHANGED <<handed, spc, smsg, sendq, ackq, told, sentOn, fd>>
    BY <1>14 DEF vars
  <2> QED
    BY <2>1, SilentKept DEF Gone
<1> QED
  BY <1>1, <1>2, <1>3, <1>4, <1>5, <1>6, <1>7, <1>8, <1>9, <1>10, <1>11, <1>12, <1>13,
     <1>14
  DEF Next, RecvThread, SendThread

-----------------------------------------------------------------------------
\* The first state: nothing was made, handed in or told.
LEMMA InitIInv == Init => IInv
<1> SUFFICES ASSUME Init PROVE IInv
  OBVIOUS
<1>1. TypeOK
  <2>1. /\ status \in {0, 1} /\ net \in {0, 1} /\ wake \in 0 .. bound /\ bound \in 0 .. MaxEvents
        /\ fd \in 0 .. MaxConns /\ rfd \in 0 .. MaxConns /\ sfd \in 0 .. MaxConns
        /\ tries \in 0 .. TryLimit + 1
    BY ClientAssumption DEF Init
  <2>2. /\ sendq \in Seq(Outgoing) /\ ackq \in Seq(Chats) /\ rbuf \in Seq(Incoming)
        /\ up \in [ConnIds -> Seq(Outgoing)] /\ down \in Seq(Incoming)
        /\ told \in [Chats -> Seq(Verdicts)]
    BY DEF Init
  <2>3. sentOn \in [Chats -> 0 .. MaxConns]
    BY ClientAssumption DEF Init
  <2> QED
    BY <2>1, <2>2, <2>3 DEF Init, TypeOK
<1>2. PlaceFits
  BY DEF Init, PlaceFits
<1>3. \A m : ~Contains(sendq, m) /\ ~Contains(ackq, m) /\ ~Contains(down, m) /\ ~Contains(rbuf, m)
  BY EmptyContains DEF Init
<1>4. \A m \in Chats : told[m] = <<>> /\ ~Contains(told[m], "acked")
  BY EmptyContains DEF Init
<1>5. AcksAreTrue /\ AckedWasTaken
  BY <1>3, <1>4 DEF AcksAreTrue, AckedWasTaken
<1>6. OnePlace
  BY <1>3, EmptyUnique DEF Init, OnePlace, InHand
<1>7. Untold /\ OneVerdict
  BY <1>4 DEF Untold, OneVerdict
<1>8. SentOnMade /\ SilentOnlyWithoutConnection
  BY DEF Init, SentOnMade, SilentOnlyWithoutConnection
<1> QED
  BY <1>1, <1>2, <1>5, <1>6, <1>7, <1>8 DEF IInv

LEMMA StepIInv == IInv /\ [Next]_vars => IInv'
<1> SUFFICES ASSUME IInv, [Next]_vars PROVE IInv'
  OBVIOUS
<1> USE DEF IInv, Acks, Whereabouts, Silent
<1>1. TypeOK' /\ PlaceFits'
  BY TypeStep, PlaceFitsStep
<1>2. Acks'
  BY AcksStep
<1>3. Whereabouts'
  BY WhereaboutsStep
<1>4. SentOnMade'
  BY SentOnMadeStep
<1>5. Silent'
  BY SilentStep
<1> QED
  BY <1>1, <1>2, <1>3, <1>4, <1>5

LEMMA Inductive == Spec => []IInv
<1> QED
  BY InitIInv, StepIInv, PTL DEF Spec

\* The client's variables keep their types, whatever the number of chats,
\* connections and events.
THEOREM TypeCorrect == Spec => []TypeOK
<1>1. IInv => TypeOK
  BY DEF IInv
<1> QED
  BY <1>1, Inductive, PTL

\* OnCallBack reports a chat as sent only if the server has stored it.
THEOREM AckedChatsWereTaken == Spec => []AckedWasTaken
<1>1. IInv => AckedWasTaken
  BY DEF IInv
<1> QED
  BY <1>1, Inductive, PTL

\* The application is told at most once what became of a chat.
THEOREM OneVerdictPerChat == Spec => []OneVerdict
<1>1. IInv => OneVerdict
  BY DEF IInv
<1> QED
  BY <1>1, Inductive, PTL

\* No chat is forgotten silently while the connection it was sent on stands.
THEOREM NoSilenceOnALiveConnection == Spec => []SilentOnlyWithoutConnection
<1>1. IInv => SilentOnlyWithoutConnection
  BY DEF IInv
<1> QED
  BY <1>1, Inductive, PTL
=============================================================================
