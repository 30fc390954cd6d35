--------------------------- MODULE UpstreamProofs ---------------------------
(***************************************************************************)
(* What Upstream loses, for any number of connections and messages: the    *)
(* login is in front of every message that was queued for its connection   *)
(* while no reconnect was under way, unless a send was broken off.         *)
(***************************************************************************)
EXTENDS Upstream, SequenceTheorems, TLAPS

Live(n) == Open(n) /\ ~closing[n]

\* Only the last connection stands, and m_addrinfo names it once it is copied.
LastStands ==
  /\ recon # "sleep" => made > 0
  /\ (recon # "copy" /\ made > 0 /\ link[made] # "removed") => addrinfo = made
  /\ \A n \in Conns : /\ n > made => link[n] = "none" /\ peer[n] = "none"
                      /\ n <= made => link[n] # "none" /\ peer[n] # "none"
                      /\ n < made => link[n] = "removed"
                      /\ peer[n] \in {"kicked", "gone"} => closing[n]
  /\ \A m \in Msgs : owned[m] \in 0..made \cup {Unsent}

\* A half message is only where a send was broken off.
WholeUnlessTorn ==
  \A n \in Conns \ torn : \A i \in 1..Len(wire[n]) : wire[n][i] # "torn"

\* What the peer reads of n up to i has no half message in it.
Whole(n, i) == \A k \in 1..i : wire[n][k] # "torn"

\* The peer has seen the login of n, or will before what is queued now.
LoginIsOut(n) ==
  peer[n] = "logged" \/ \E j \in 1..Len(wire[n]) : wire[n][j] = "login" /\ Whole(n, j)

QueuedBehindLogin(n, m) ==
  \E i \in 1..Len(sendq) :
    /\ sendq[i] = <<n, m>>
    /\ LoginIsOut(n) \/ \E j \in 1..(i - 1) : sendq[j] = <<n, "login">>

WiredBehindLogin(n, m) ==
  \E i \in 1..Len(wire[n]) :
    /\ wire[n][i] = m /\ Whole(n, i)
    /\ peer[n] = "logged" \/ \E j \in 1..(i - 1) : wire[n][j] = "login"

LoginComes ==
  \A n \in Conns : (Live(n) /\ recon = "sleep" /\ <<n, "login">> \notin spoilt) =>
    LoginIsOut(n) \/ \E j \in 1..Len(sendq) : sendq[j] = <<n, "login">>

Unspoilt(n, m) == <<n, m>> \notin spoilt /\ <<n, "login">> \notin spoilt

Behind(m) ==
  (Live(owned[m]) /\ Unspoilt(owned[m], m)) =>
    m \in served \/ QueuedBehindLogin(owned[m], m) \/ WiredBehindLogin(owned[m], m)

BehindLogin == \A m \in Msgs : Behind(m)

IInv == TypeOK /\ LastStands /\ WholeUnlessTorn /\ LoginComes /\ BehindLogin

-----------------------------------------------------------------------------
\* The elements of a sequence after an Append and after a Tail.
LEMMA AppendAt ==
  ASSUME NEW S, NEW s \in Seq(S), NEW e \in S
  PROVE  /\ Append(s, e) \in Seq(S)
         /\ Len(Append(s, e)) = Len(s) + 1
         /\ \A i \in 1..Len(s) : Append(s, e)[i] = s[i]
         /\ Append(s, e)[Len(s) + 1] = e
OBVIOUS

LEMMA TailAt ==
  ASSUME NEW S, NEW s \in Seq(S), s # <<>>
  PROVE  /\ Tail(s) \in Seq(S) /\ Head(s) \in S /\ Head(s) = s[1]
         /\ Len(s) \in Nat \ {0} /\ Len(Tail(s)) = Len(s) - 1
         /\ \A i \in 1..(Len(s) - 1) : Tail(s)[i] = s[i + 1]
OBVIOUS

LEMMA SubSeqType ==
  ASSUME NEW S, NEW s \in Seq(S), NEW k \in 0..Len(s)
  PROVE  SubSeq(s, 1, k) \in Seq(S)
OBVIOUS

\* The first state: nothing is owned, nothing stands.
LEMMA InitIInv == Init => IInv
<1> SUFFICES ASSUME Init PROVE IInv
  OBVIOUS
<1>1. TypeOK
  BY UpstreamAssumption DEF Init, TypeOK, Traffic, Unsent, Conns
<1>2. LastStands
  BY UpstreamAssumption DEF Init, LastStands, Conns
<1>3. WholeUnlessTorn /\ LoginComes /\ BehindLogin
  BY UpstreamAssumption
     DEF Init, WholeUnlessTorn, LoginComes, BehindLogin, Behind, Live, Open, Unsent, Conns
<1> QED
  BY <1>1, <1>2, <1>3 DEF IInv

\* A login keeps the types, and closes what it kicks out.
LEMMA LogInType ==
  ASSUME NEW n \in Conns, LogIn(n),
         peer \in [Conns -> {"none", "fresh", "logged", "kicked", "gone"}],
         closing \in [Conns -> BOOLEAN]
  PROVE  /\ peer' \in [Conns -> {"none", "fresh", "logged", "kicked", "gone"}]
         /\ closing' \in [Conns -> BOOLEAN]
         /\ \A o \in Conns : closing[o] => closing'[o]
         /\ \A o \in Conns : (peer'[o] = peer[o] \/ o = n \/ closing'[o])
         /\ \A o \in Conns : peer'[o] \in {"kicked", "gone"} => closing'[o] \/ peer'[o] = peer[o]
         /\ \A o \in Conns : o # n => (peer[o] = "none" <=> peer'[o] = "none")
         /\ ~closing'[n] => peer'[n] = "logged"
         /\ peer'[n] \in {peer[n], "logged"}
<1> DEFINE old == {o \in Conns : peer[o] = "logged"}
<1>1. CASE closing' = [closing EXCEPT ![n] = TRUE] /\ UNCHANGED peer
  BY <1>1
<1>2. CASE /\ peer' = [o \in Conns |-> IF o = n THEN "logged"
                                     ELSE IF o \in old THEN "kicked" ELSE peer[o]]
           /\ \E fails \in {FALSE, LoginFails} :
                closing' = [o \in Conns |-> closing[o] \/ o \in old \/ (fails /\ o = n)]
  <2>1. PICK fails \in {FALSE, LoginFails} :
          closing' = [o \in Conns |-> closing[o] \/ o \in old \/ (fails /\ o = n)]
    BY <1>2
  <2>2. /\ closing' \in [Conns -> BOOLEAN]
        /\ \A o \in Conns : closing[o] \/ o \in old => closing'[o]
    BY <2>1, ZenonT(60)
  <2>3. peer' \in [Conns -> {"none", "fresh", "logged", "kicked", "gone"}]
    BY <1>2
  <2>4. \A o \in Conns : peer'[o] = IF o = n THEN "logged"
                                     ELSE IF o \in old THEN "kicked" ELSE peer[o]
    BY <1>2
  <2> QED
    BY <2>2, <2>3, <2>4
<1> QED
  BY <1>1, <1>2 DEF LogIn

LEMMA TornType ==
  ASSUME NEW S, NEW e \in S, NEW s \in Seq(S), Len(s) > 1
  PROVE  /\ Tail(Tail(s)) \in Seq(S)
         /\ <<e>> \o Tail(Tail(s)) \in Seq(S)
<1>1. Len(<<>>) = 0
  BY EmptySeq
<1>7. Len(s) \in Nat
  BY LenProperties
<1>8. Len(s) # 0 /\ Len(s) - 1 # 0
  <2> DEFINE k == Len(s)
  <2>1. k \in Nat /\ k > 1
    BY <1>7
  <2> HIDE DEF k
  <2>2. k # 0 /\ k - 1 # 0
    BY <2>1
  <2> QED
    BY <2>2 DEF k
<1>2. s # <<>> /\ Len(s) - 1 # 0
  BY <1>1, <1>8, Zenon
<1>4. Tail(s) \in Seq(S) /\ Len(Tail(s)) = Len(s) - 1
  BY <1>2, HeadTailProperties
<1>6. Tail(s) # <<>>
  <2>1. Len(Tail(s)) # 0
    BY <1>2, <1>4
  <2> QED
    BY <1>1, <2>1, Zenon
<1>5. Tail(Tail(s)) \in Seq(S)
  BY <1>4, <1>6, HeadTailProperties
<1>3. <<e>> \in Seq(S)
  OBVIOUS
<1> QED
  BY <1>3, <1>5, ConcatProperties

\* A step keeps the types.
LEMMA TypeStep == ASSUME TypeOK, [Next]_vars PROVE TypeOK'
<1> USE UpstreamAssumption DEF TypeOK, Conns
<1>1. CASE Connect
  BY <1>1 DEF Connect, Sockets
<1>2. CASE CopyAddr
  BY <1>2 DEF CopyAddr
<1>3. CASE SendLogin
  <2>1. <<LoginTo, "login">> \in (0..MaxConns) \X Traffic
    BY DEF LoginTo, Traffic
  <2> QED
    BY <1>3, <2>1, AppendAt DEF SendLogin
<1>4. CASE KeepAlive
  <2>1. <<addrinfo, "alive">> \in (0..MaxConns) \X Traffic
    BY DEF Traffic
  <2> QED
    BY <1>4, <2>1, AppendAt DEF KeepAlive
<1>5. ASSUME NEW m \in Msgs, SendMsg(m) PROVE TypeOK'
  <2>1. PICK a \in Readable :
          /\ sendq' = Append(sendq, <<a, m>>)
          /\ owned' = [owned EXCEPT ![m] = IF recon = "sleep" /\ Open(a) THEN a ELSE 0]
    BY <1>5 DEF SendMsg
  <2>2. a \in 0..MaxConns
    BY DEF Readable
  <2>3. <<a, m>> \in (0..MaxConns) \X Traffic
    BY <2>2 DEF Traffic
  <2>4. sendq' \in Seq((0..MaxConns) \X Traffic)
    BY <2>1, <2>3, AppendAt
  <2> QED
    BY <1>5, <2>1, <2>2, <2>4 DEF SendMsg
<1>6. CASE SendOut
  <2> DEFINE n == Head(sendq)[1]
             m == Head(sendq)[2]
  <2>1. sendq' \in Seq((0..MaxConns) \X Traffic) /\ m \in Traffic
    BY <1>6, TailAt DEF SendOut
  <2>2. /\ \A o \in Conns : Append(wire[o], m) \in Seq(Arriving)
        /\ \A o \in Conns : Append(wire[o], "torn") \in Seq(Arriving)
    BY <2>1, AppendAt DEF Arriving
  <2>3. CASE ~Open(n)
    BY <1>6, <2>1, <2>3 DEF SendOut
  <2>4. CASE Open(n) /\ SentWhole(n, m)
    <3>1. n \in Conns /\ <<n, m>> \in Conns \X Traffic
      BY <2>1, <2>4 DEF Open
    <3>2. wire' \in [Conns -> Seq(Arriving)]
      BY <2>2, <2>4, <3>1 DEF SentWhole
    <3>3. spoilt' \subseteq Conns \X Traffic /\ torn' = torn
      BY <2>4, <3>1 DEF SentWhole
    <3> QED
      BY <1>6, <2>1, <3>2, <3>3 DEF SendOut
  <2>5. CASE Open(n) /\ BrokenOff(n, m)
    <3>1. n \in Conns /\ <<n, m>> \in Conns \X Traffic
      BY <2>1, <2>5 DEF Open
    <3>2. wire' \in [Conns -> Seq(Arriving)]
      <4>1. wire' = wire \/ wire' = [wire EXCEPT ![n] = Append(@, "torn")]
        BY <2>5 DEF BrokenOff
      <4>2. Append(wire[n], "torn") \in Seq(Arriving)
        BY <2>2, <3>1
      <4> QED
        BY <3>1, <4>1, <4>2
    <3>3. spoilt' \subseteq Conns \X Traffic /\ torn' \subseteq Conns
      BY <2>5, <3>1 DEF BrokenOff
    <3> QED
      BY <1>6, <2>1, <3>2, <3>3 DEF SendOut
  <2> QED
    BY <1>6, <2>3, <2>4, <2>5 DEF SendOut
<1>7. ASSUME NEW n \in Conns, Remove(n) PROVE TypeOK'
  BY <1>7 DEF Remove
<1>8. ASSUME NEW n \in Conns, Break(n) PROVE TypeOK'
  <2>1. \A k \in 0..Len(wire[n]) : SubSeq(wire[n], 1, k) \in Seq(Arriving)
    BY SubSeqType
  <2> QED
    BY <1>8, <2>1 DEF Break
<1>9. ASSUME NEW n \in Conns, PeerLogin(n) PROVE TypeOK'
  <2>1. Tail(wire[n]) \in Seq(Arriving)
    BY <1>9, TailAt DEF PeerLogin
  <2>2. peer' \in [Conns -> {"none", "fresh", "logged", "kicked", "gone"}]
        /\ closing' \in [Conns -> BOOLEAN]
    BY <1>9, LogInType DEF PeerLogin
  <2> QED
    BY <1>9, <2>1, <2>2 DEF PeerLogin
<1>10. ASSUME NEW n \in Conns, PeerHandle(n) PROVE TypeOK'
  <2>1. Tail(wire[n]) \in Seq(Arriving)
    BY <1>10, TailAt DEF PeerHandle
  <2> QED
    BY <1>10, <2>1 DEF PeerHandle
<1>13. ASSUME NEW n \in Conns, PeerTorn(n) PROVE TypeOK'
  <2> DEFINE rest == Tail(Tail(wire[n]))
  <2>1. rest \in Seq(Arriving) /\ <<"torn">> \o rest \in Seq(Arriving)
    <3>1. "torn" \in Arriving /\ wire[n] \in Seq(Arriving) /\ Len(wire[n]) > 1
      BY <1>13 DEF PeerTorn, Arriving
    <3> QED
      BY <3>1, TornType
  <2>2. peer' \in [Conns -> {"none", "fresh", "logged", "kicked", "gone"}]
        /\ closing' \in [Conns -> BOOLEAN]
    BY <1>13, LogInType DEF PeerTorn
  <2>3. wire' \in [Conns -> Seq(Arriving)]
    <3>1. PICK w \in {rest, <<"torn">> \o rest} : wire' = [wire EXCEPT ![n] = w]
      BY <1>13 DEF PeerTorn
    <3>2. w \in Seq(Arriving)
      BY <2>1, <3>1
    <3> QED
      BY <3>1, <3>2
  <2> QED
    BY <1>13, <2>2, <2>3 DEF PeerTorn
<1>11. ASSUME NEW n \in Conns, PeerClose(n) PROVE TypeOK'
  BY <1>11 DEF PeerClose
<1>12. CASE UNCHANGED vars
  BY <1>12 DEF vars
<1> QED
  BY <1>1, <1>2, <1>3, <1>4, <1>5, <1>6, <1>7, <1>8, <1>9, <1>10, <1>11, <1>12, <1>13
     DEF Next, Reconnect, Peer, Receives
\* A step keeps one connection standing: the thread connects when there is no
\* socket, and what the peer gives up it closes.
LEMMA LastStandsStep == ASSUME TypeOK, LastStands, [Next]_vars PROVE LastStands'
<1> USE UpstreamAssumption DEF TypeOK, Conns, LastStands, Unsent
<1>1. CASE Connect
  <2>1. ASSUME NEW n \in Conns, n <= made PROVE link[n] = "removed"
    <3>1. ~(n \in Conns /\ link[n] \in {"open", "broken"})
      BY <1>1 DEF Connect, Sockets
    <3>2. link[n] \in {"none", "open", "broken", "removed"} /\ link[n] # "none"
      BY <2>1
    <3> QED
      BY <3>1, <3>2, <2>1
  <2>2. made' = made + 1 /\ made' \in Conns /\ owned' = owned /\ closing' = closing
    BY <1>1 DEF Connect
  <2>3. /\ link' = [link EXCEPT ![made'] = "open"]
        /\ peer' = [peer EXCEPT ![made'] = "fresh"]
        /\ recon' = "copy"
    BY <1>1 DEF Connect
  <2> QED
    BY <2>1, <2>2, <2>3
<1>2. CASE CopyAddr
  BY <1>2 DEF CopyAddr
<1>3. CASE SendLogin
  BY <1>3 DEF SendLogin
<1>4. CASE KeepAlive
  BY <1>4 DEF KeepAlive
<1>5. ASSUME NEW m \in Msgs, SendMsg(m) PROVE LastStands'
  <2>1. PICK a \in Readable :
          owned' = [owned EXCEPT ![m] = IF recon = "sleep" /\ Open(a) THEN a ELSE 0]
    BY <1>5 DEF SendMsg
  <2>2. Open(a) => a \in 0..made
    BY DEF Open
  <2> QED
    BY <1>5, <2>1, <2>2 DEF SendMsg
<1>6. CASE SendOut
  BY <1>6 DEF SendOut
<1>7. ASSUME NEW n \in Conns, Remove(n) PROVE LastStands'
  BY <1>7 DEF Remove
<1>8. ASSUME NEW n \in Conns, Break(n) PROVE LastStands'
  BY <1>8 DEF Break, Open
<1>9. ASSUME NEW n \in Conns, PeerLogin(n) PROVE LastStands'
  <2>1. /\ \A o \in Conns : peer'[o] \in {"kicked", "gone"} => closing'[o]
        /\ \A o \in Conns : (peer[o] = "none" <=> peer'[o] = "none")
    <3>1. CASE peer[n] # "fresh"
      BY <1>9, <3>1 DEF PeerLogin
    <3>2. CASE peer[n] = "fresh"
      BY <1>9, <3>2, LogInType DEF PeerLogin
    <3> QED
      BY <3>1, <3>2
  <2> QED
    BY <1>9, <2>1 DEF PeerLogin
<1>13. ASSUME NEW n \in Conns, PeerTorn(n) PROVE LastStands'
  <2>1. /\ \A o \in Conns : peer'[o] \in {"kicked", "gone"} => closing'[o]
        /\ \A o \in Conns : (peer[o] = "none" <=> peer'[o] = "none")
    <3>1. CASE UNCHANGED peer /\ (UNCHANGED closing \/ closing' = [closing EXCEPT ![n] = TRUE])
      <4>1. \A o \in Conns : closing[o] => closing'[o]
        BY <3>1
      <4>2. \A o \in Conns : peer[o] \in {"kicked", "gone"} => closing[o]
        OBVIOUS
      <4>3. ASSUME NEW o \in Conns, peer'[o] \in {"kicked", "gone"} PROVE closing'[o]
        <5>1. peer[o] \in {"kicked", "gone"}
          BY <3>1, <4>3
        <5> QED
          BY <4>1, <4>2, <5>1
      <4> QED
        BY <3>1, <4>3
    <3>2. CASE peer[n] = "fresh" /\ LogIn(n)
      BY <3>2, LogInType
    <3>3. \/ UNCHANGED <<peer, closing>>
          \/ closing' = [closing EXCEPT ![n] = TRUE] /\ UNCHANGED peer
          \/ peer[n] = "fresh" /\ LogIn(n)
      BY <1>13 DEF PeerTorn
    <3> QED
      BY <3>1, <3>2, <3>3
  <2> QED
    BY <1>13, <2>1 DEF PeerTorn
<1>10. ASSUME NEW n \in Conns, PeerHandle(n) PROVE LastStands'
  BY <1>10 DEF PeerHandle
<1>11. ASSUME NEW n \in Conns, PeerClose(n) PROVE LastStands'
  BY <1>11 DEF PeerClose
<1>12. CASE UNCHANGED vars
  BY <1>12 DEF vars
<1> QED
  BY <1>1, <1>2, <1>3, <1>4, <1>5, <1>6, <1>7, <1>8, <1>9, <1>10, <1>11, <1>12, <1>13
     DEF Next, Reconnect, Peer, Receives

\* A half message gets on the wire only by a send that is broken off.
LEMMA TornStep == ASSUME TypeOK, WholeUnlessTorn, [Next]_vars PROVE WholeUnlessTorn'
<1> USE DEF WholeUnlessTorn
<1>1. CASE UNCHANGED wire /\ UNCHANGED torn
  BY <1>1
<1>2. CASE SendOut
  <2> DEFINE h == Head(sendq)
  <2>1. SUFFICES ASSUME NEW n \in Conns, n \notin torn', NEW i \in 1..Len(wire'[n])
                 PROVE  wire'[n][i] # "torn"
    OBVIOUS
  <2>2. n \notin torn /\ (wire'[n] = wire[n] \/ wire'[n] = Append(wire[n], h[2]))
    <3>1. CASE UNCHANGED <<wire, torn>>
      BY <2>1, <3>1
    <3>2. CASE Open(h[1]) /\ SentWhole(h[1], h[2])
      BY <2>1, <3>2 DEF SentWhole, TypeOK
    <3>3. CASE Open(h[1]) /\ BrokenOff(h[1], h[2])
      <4>1. \/ UNCHANGED <<wire, torn>>
            \/ wire' = [wire EXCEPT ![h[1]] = Append(@, "torn")] /\ torn' = torn \cup {h[1]}
        BY <3>3 DEF BrokenOff
      <4> QED
        BY <2>1, <3>1, <4>1 DEF TypeOK
    <3> QED
      BY <1>2, <3>1, <3>2, <3>3 DEF SendOut
  <2>3. h[2] \in Traffic /\ h[2] # "torn"
    <3>1. h \in (0..MaxConns) \X Traffic
      BY <1>2, TailAt DEF SendOut, TypeOK
    <3> QED
      BY <3>1, UpstreamAssumption DEF Traffic
  <2>4. wire[n] \in Seq(Arriving) /\ h[2] \in Arriving
    BY <2>3 DEF TypeOK, Arriving
  <2>5. CASE wire'[n] = Append(wire[n], h[2])
    BY <2>1, <2>2, <2>3, <2>4, <2>5, AppendAt
  <2> QED
    BY <2>1, <2>2, <2>5
<1>3. ASSUME NEW n \in Conns, PeerTorn(n) PROVE WholeUnlessTorn'
  <2>1. wire[n] \in Seq(Arriving) /\ wire[n][1] = "torn" /\ 1 \in 1..Len(wire[n])
    BY <1>3 DEF PeerTorn, TypeOK
  <2>2. n \in torn
    BY <2>1
  <2> QED
    BY <1>3, <2>2 DEF PeerTorn, TypeOK
<1>4. ASSUME NEW n \in Conns, torn' = torn, wire[n] # <<>>, wire' = [wire EXCEPT ![n] = Tail(@)]
      PROVE  WholeUnlessTorn'
  BY <1>4, TailAt DEF TypeOK
<1>5. ASSUME NEW n \in Conns, Break(n) PROVE WholeUnlessTorn'
  <2>1. PICK k \in 0..Len(wire[n]) : wire' = [wire EXCEPT ![n] = SubSeq(@, 1, k)]
    BY <1>5 DEF Break
  <2>2. wire[n] \in Seq(Arriving)
    BY DEF TypeOK
  <2>3. /\ \A i \in 1..Len(SubSeq(wire[n], 1, k)) :
             i \in 1..Len(wire[n]) /\ SubSeq(wire[n], 1, k)[i] = wire[n][i]
    BY <2>2
  <2> QED
    BY <1>5, <2>1, <2>3 DEF Break, TypeOK
<1>6. ASSUME NEW n \in Conns, PeerClose(n) PROVE WholeUnlessTorn'
  BY <1>6 DEF PeerClose, TypeOK
<1> QED
  BY <1>1, <1>2, <1>3, <1>4, <1>5, <1>6
     DEF Next, Reconnect, Peer, Receives, Connect, CopyAddr, SendLogin, KeepAlive, SendMsg,
         Remove, PeerLogin, PeerHandle, vars

-----------------------------------------------------------------------------
\* What a step that adds nothing to sendq and takes nothing from a wire or from
\* sendq keeps, for one connection that stands after it.
LEMMA Undisturbed ==
  ASSUME NEW n \in Conns, sendq' = sendq, wire'[n] = wire[n],
         peer[n] = "logged" => peer'[n] = "logged"
  PROVE  /\ LoginIsOut(n) => LoginIsOut(n)'
         /\ \A m : QueuedBehindLogin(n, m) => QueuedBehindLogin(n, m)'
         /\ \A m : WiredBehindLogin(n, m) => WiredBehindLogin(n, m)'
BY DEF LoginIsOut, QueuedBehindLogin, WiredBehindLogin, Whole

\* The same for a step that appends to sendq.
LEMMA Queues ==
  ASSUME TypeOK, NEW n \in Conns, NEW e \in (0..MaxConns) \X Traffic,
         sendq' = Append(sendq, e), wire'[n] = wire[n], peer'[n] = peer[n]
  PROVE  /\ LoginIsOut(n) => LoginIsOut(n)'
         /\ \A m : QueuedBehindLogin(n, m) => QueuedBehindLogin(n, m)'
         /\ \A m : WiredBehindLogin(n, m) => WiredBehindLogin(n, m)'
         /\ \A j \in 1..Len(sendq) : sendq'[j] = sendq[j]
         /\ Len(sendq') = Len(sendq) + 1 /\ sendq'[Len(sendq) + 1] = e
<1>1. /\ Len(sendq) \in Nat
      /\ \A j \in 1..Len(sendq) : sendq'[j] = sendq[j]
      /\ Len(sendq') = Len(sendq) + 1 /\ sendq'[Len(sendq) + 1] = e
  BY AppendAt DEF TypeOK
<1>2. LoginIsOut(n) <=> LoginIsOut(n)'
  BY DEF LoginIsOut, Whole
<1>3. ASSUME NEW m, QueuedBehindLogin(n, m) PROVE QueuedBehindLogin(n, m)'
  <2>1. PICK i \in 1..Len(sendq) :
          /\ sendq[i] = <<n, m>>
          /\ LoginIsOut(n) \/ \E j \in 1..(i - 1) : sendq[j] = <<n, "login">>
    BY <1>3 DEF QueuedBehindLogin
  <2>2. i \in 1..Len(sendq') /\ sendq'[i] = <<n, m>>
    BY <1>1, <2>1
  <2>3. LoginIsOut(n)' \/ \E j \in 1..(i - 1) : sendq'[j] = <<n, "login">>
    BY <1>1, <1>2, <2>1
  <2> QED
    BY <2>2, <2>3 DEF QueuedBehindLogin
<1> QED
  BY <1>1, <1>2, <1>3 DEF WiredBehindLogin, Whole

\* What is true of a connection that stays as it is stays true.
LEMMA Stays ==
  ASSUME TypeOK, LoginComes, BehindLogin, recon' = recon, owned' = owned, served \subseteq served',
         spoilt \subseteq spoilt',
         \A n \in Conns : Live(n)' => Live(n),
         \A n \in Conns : Live(n)' =>
            /\ LoginIsOut(n) => LoginIsOut(n)'
            /\ \A m \in Msgs : (Unspoilt(n, m)' /\ QueuedBehindLogin(n, m)) =>
                 QueuedBehindLogin(n, m)' \/ WiredBehindLogin(n, m)'
            /\ \A m \in Msgs : WiredBehindLogin(n, m) => m \in served' \/ WiredBehindLogin(n, m)',
         \A n \in Conns :
            (/\ Live(n)' /\ <<n, "login">> \notin spoilt'
             /\ \E j \in 1..Len(sendq) : sendq[j] = <<n, "login">>) =>
              LoginIsOut(n)' \/ (\E j \in 1..Len(sendq) : sendq[j] = <<n, "login">>)'
  PROVE  (LoginComes /\ BehindLogin)'
<1>1. LoginComes'
  BY DEF LoginComes
<1>2. BehindLogin'
  BY DEF BehindLogin, Behind, Live, Open, Unspoilt
<1> QED
  BY <1>1, <1>2

-----------------------------------------------------------------------------
\* A step keeps the login in front, ...
LEMMA BehindStep ==
  ASSUME TypeOK, LastStands, WholeUnlessTorn, LoginComes, BehindLogin, [Next]_vars,
         TypeOK', LastStands'
  PROVE  (LoginComes /\ BehindLogin)'
<1>1. CASE Connect
  <2>1. /\ made' = made + 1 /\ made' \in Conns /\ recon' = "copy"
        /\ link' = [link EXCEPT ![made'] = "open"]
        /\ peer' = [peer EXCEPT ![made'] = "fresh"]
        /\ UNCHANGED <<sendq, wire, closing, torn, spoilt, served, owned>>
    BY <1>1, UpstreamAssumption DEF Connect, TypeOK, Conns
  <2>2. LoginComes'
    BY <2>1 DEF LoginComes
  <2>3. ASSUME NEW m \in Msgs PROVE Behind(m)'
    <3>1. owned[m] # made'
      <4>1. owned[m] \in 0..made \cup {MaxConns + 1}
        BY DEF LastStands, Unsent
      <4>2. made \in Nat /\ MaxConns \in Nat /\ made + 1 <= MaxConns /\ made' = made + 1
        BY <2>1, UpstreamAssumption DEF TypeOK, Conns
      <4> QED
        BY <4>1, <4>2
    <3>2. Live(owned[m])' => Live(owned[m])
      BY <2>1, <3>1 DEF Live, Open
    <3>3. Live(owned[m])' => owned[m] \in Conns /\ peer'[owned[m]] = peer[owned[m]]
      BY <2>1, <3>1 DEF Live, Open
    <3> QED
      BY <2>1, <3>2, <3>3, Undisturbed DEF BehindLogin, Behind, Unspoilt
  <2> QED
    BY <2>2, <2>3 DEF BehindLogin
<1>2. CASE CopyAddr
  <2>1. UNCHANGED <<link, sendq, wire, peer, closing, torn, spoilt, served, owned>> /\ recon' = "login"
    BY <1>2 DEF CopyAddr
  <2>2. ASSUME NEW m \in Msgs PROVE Behind(m)'
    <3>1. (owned[m] \in Conns) =>
            /\ QueuedBehindLogin(owned[m], m) => QueuedBehindLogin(owned[m], m)'
            /\ WiredBehindLogin(owned[m], m) => WiredBehindLogin(owned[m], m)'
      BY <2>1, Undisturbed
    <3> QED
      BY <2>1, <3>1 DEF BehindLogin, Behind, Live, Open, Unspoilt
  <2> QED
    BY <2>1, <2>2 DEF LoginComes, BehindLogin
<1>3. CASE SendLogin
  <2> DEFINE e == <<addrinfo, "login">>
  <2>1. /\ UNCHANGED <<link, wire, peer, closing, spoilt, served, owned, made, addrinfo>>
        /\ sendq' = Append(sendq, e) /\ e \in (0..MaxConns) \X Traffic
        /\ recon = "login"
    BY <1>3 DEF SendLogin, LoginTo, Traffic, TypeOK
  <2>2. ASSUME NEW n \in Conns, Live(n)'
        PROVE  n = addrinfo
    <3>1. n = made /\ link[made] # "removed"
      BY <2>1, <2>2, UpstreamAssumption DEF LastStands, Live, Open, TypeOK, Conns
    <3> QED
      BY <3>1, <2>1, UpstreamAssumption DEF LastStands, Conns, TypeOK
  <2>3. LoginComes'
    <3>1. ASSUME NEW n \in Conns, Live(n)'
          PROVE  \E j \in 1..Len(sendq') : sendq'[j] = <<n, "login">>
      BY <2>1, <2>2, <3>1, Queues
    <3> QED
      BY <3>1 DEF LoginComes
  <2>4. ASSUME NEW m \in Msgs PROVE Behind(m)'
    BY <2>1, <2>4, Queues DEF BehindLogin, Behind, Live, Open, Unspoilt
  <2> QED
    BY <2>3, <2>4 DEF BehindLogin
<1>4. CASE KeepAlive
  <2> DEFINE e == <<addrinfo, "alive">>
  <2>1. /\ UNCHANGED <<link, wire, peer, closing, spoilt, served, owned, recon>>
        /\ sendq' = Append(sendq, e) /\ e \in (0..MaxConns) \X Traffic
    BY <1>4 DEF KeepAlive, Traffic, TypeOK
  <2>2. LoginComes'
    <3>1. ASSUME NEW n \in Conns, Live(n)', recon' = "sleep", <<n, "login">> \notin spoilt'
          PROVE  LoginIsOut(n)' \/ \E j \in 1..Len(sendq') : sendq'[j] = <<n, "login">>
      <4>1. LoginIsOut(n) \/ \E j \in 1..Len(sendq) : sendq[j] = <<n, "login">>
        BY <2>1, <3>1 DEF LoginComes, Live, Open
      <4> QED
        BY <2>1, <4>1, Queues
    <3> QED
      BY <3>1 DEF LoginComes
  <2>4. ASSUME NEW m \in Msgs PROVE Behind(m)'
    BY <2>1, <2>4, Queues DEF BehindLogin, Behind, Live, Open, Unspoilt
  <2> QED
    BY <2>2, <2>4 DEF BehindLogin
<1>5. ASSUME NEW x \in Msgs, SendMsg(x) PROVE (LoginComes /\ BehindLogin)'
  <2>1. PICK a \in Readable :
          /\ sendq' = Append(sendq, <<a, x>>)
          /\ owned' = [owned EXCEPT ![x] = IF recon = "sleep" /\ Open(a) THEN a ELSE 0]
    BY <1>5 DEF SendMsg
  <2>2. /\ UNCHANGED <<link, wire, peer, closing, spoilt, served, recon>>
        /\ <<a, x>> \in (0..MaxConns) \X Traffic
    <3>1. a \in 0..MaxConns
      BY UpstreamAssumption DEF Readable, TypeOK
    <3> QED
      BY <1>5, <3>1 DEF SendMsg, Traffic
  <2>3. LoginComes'
    <3>1. ASSUME NEW n \in Conns, Live(n)', recon' = "sleep", <<n, "login">> \notin spoilt'
          PROVE  LoginIsOut(n)' \/ \E j \in 1..Len(sendq') : sendq'[j] = <<n, "login">>
      <4>1. LoginIsOut(n) \/ \E j \in 1..Len(sendq) : sendq[j] = <<n, "login">>
        BY <2>2, <3>1 DEF LoginComes, Live, Open
      <4> QED
        BY <2>1, <2>2, <4>1, Queues
    <3> QED
      BY <3>1 DEF LoginComes
  <2>4. ASSUME NEW m \in Msgs, m # x PROVE Behind(m)'
    <3>1. owned'[m] = owned[m]
      BY <2>1, <2>4 DEF TypeOK
    <3> QED
      BY <2>1, <2>2, <3>1, Queues DEF BehindLogin, Behind, Live, Open, Unspoilt
  <2>5. Behind(x)'
    <3>1. SUFFICES ASSUME Live(owned[x])', Unspoilt(owned[x], x)'
                   PROVE  QueuedBehindLogin(owned[x], x)'
      BY DEF Behind
    <3>2. recon = "sleep" /\ Open(a) /\ owned'[x] = a /\ Live(a)
      BY <2>1, <2>2, <3>1 DEF Live, Open, TypeOK, Conns
    <3>3. LoginIsOut(a) \/ \E j \in 1..Len(sendq) : sendq[j] = <<a, "login">>
      BY <2>2, <3>1, <3>2 DEF LoginComes, Open, Unspoilt
    <3>4. /\ LoginIsOut(a) => LoginIsOut(a)'
          /\ \A j \in 1..Len(sendq) : sendq'[j] = sendq[j]
          /\ Len(sendq') = Len(sendq) + 1 /\ sendq'[Len(sendq) + 1] = <<a, x>>
          /\ Len(sendq) \in Nat
      BY <2>1, <2>2, <3>2, Queues DEF Open
    <3>5. /\ Len(sendq) + 1 \in 1..Len(sendq')
          /\ LoginIsOut(a)' \/ \E j \in 1..((Len(sendq) + 1) - 1) : sendq'[j] = <<a, "login">>
      BY <3>3, <3>4
    <3> QED
      BY <3>2, <3>4, <3>5 DEF QueuedBehindLogin
  <2> QED
    BY <2>3, <2>4, <2>5 DEF BehindLogin
<1>6. CASE SendOut
  <2> DEFINE h == Head(sendq)
  <2>1. /\ sendq' = Tail(sendq) /\ sendq # <<>> /\ spoilt \subseteq spoilt'
        /\ UNCHANGED <<link, recon, peer, closing, served, owned>>
    BY <1>6 DEF SendOut, SentWhole, BrokenOff
  <2>2. /\ h = sendq[1] /\ h[2] \in Traffic
        /\ Len(sendq) \in Nat \ {0} /\ Len(sendq') = Len(sendq) - 1
        /\ \A i \in 1..(Len(sendq) - 1) : sendq'[i] = sendq[i + 1]
    <3>1. sendq \in Seq((0..MaxConns) \X Traffic)
      BY DEF TypeOK
    <3> QED
      BY <2>1, <3>1, TailAt
  <2>12. ASSUME NEW n \in Conns
        PROVE  /\ Len(wire[n]) \in Nat /\ Len(wire'[n]) \in Nat
               /\ Len(wire[n]) <= Len(wire'[n])
               /\ \A i \in 1..Len(wire[n]) : wire'[n][i] = wire[n][i]
               /\ (h[1] = n /\ Open(n) /\ <<n, h[2]>> \notin spoilt') =>
                    /\ Len(wire'[n]) = Len(wire[n]) + 1
                    /\ wire'[n][Len(wire[n]) + 1] = h[2]
                    /\ \A k \in 1..(Len(wire[n]) + 1) : wire'[n][k] # "torn"
    <3>1. wire[n] \in Seq(Arriving) /\ h[2] \in Arriving /\ "torn" \in Arriving
      BY <2>2 DEF TypeOK, Arriving
    <3>2. CASE wire'[n] = wire[n] /\ ~(h[1] = n /\ Open(n) /\ <<n, h[2]>> \notin spoilt')
      BY <3>1, <3>2
    <3>3. CASE wire'[n] = Append(wire[n], "torn") /\ <<h[1], h[2]>> \in spoilt'
      BY <3>1, <3>3, AppendAt
    <3>4. CASE h[1] = n /\ Open(n) /\ SentWhole(n, h[2])
      <4>1. wire'[n] = Append(wire[n], h[2])
        BY <3>4 DEF SentWhole, TypeOK
      <4>2. /\ Len(wire[n]) \in Nat /\ Len(wire'[n]) = Len(wire[n]) + 1
            /\ \A i \in 1..Len(wire[n]) : wire'[n][i] = wire[n][i]
            /\ wire'[n][Len(wire[n]) + 1] = h[2]
        BY <3>1, <4>1, AppendAt
      <4>3. ASSUME <<n, h[2]>> \notin spoilt'
            PROVE  \A i \in 1..(Len(wire[n]) + 1) : wire'[n][i] # "torn"
        <5>1. n \notin torn
          BY <3>4, <4>3 DEF SentWhole
        <5>2. \A i \in 1..Len(wire[n]) : wire[n][i] # "torn"
          BY <5>1 DEF WholeUnlessTorn
        <5>3. h[2] # "torn"
          BY <2>2, UpstreamAssumption DEF Traffic
        <5>4. ASSUME NEW i \in 1..(Len(wire[n]) + 1) PROVE wire'[n][i] # "torn"
          <6>1. i \in 1..Len(wire[n]) \/ i = Len(wire[n]) + 1
            BY <4>2
          <6> QED
            BY <4>2, <5>2, <5>3, <6>1
        <5> QED
          BY <5>4
      <4> QED
        BY <4>2, <4>3
    <3>5. h[1] # n => wire'[n] = wire[n]
      BY <1>6 DEF SendOut, SentWhole, BrokenOff, TypeOK
    <3>6. (h[1] = n /\ Open(n)) =>
            \/ SentWhole(n, h[2])
            \/ wire'[n] = wire[n] /\ <<n, h[2]>> \in spoilt'
            \/ wire'[n] = Append(wire[n], "torn") /\ <<n, h[2]>> \in spoilt'
      <4>1. ASSUME h[1] = n, Open(n), BrokenOff(n, h[2])
            PROVE  /\ <<n, h[2]>> \in spoilt'
                   /\ wire'[n] = wire[n] \/ wire'[n] = Append(wire[n], "torn")
        BY <4>1 DEF BrokenOff, TypeOK
      <4>2. (h[1] = n /\ Open(n)) => SentWhole(n, h[2]) \/ BrokenOff(n, h[2])
        BY <1>6 DEF SendOut
      <4> QED
        BY <4>1, <4>2
    <3>7. ~Open(h[1]) => wire'[n] = wire[n]
      BY <1>6 DEF SendOut
    <3> QED
      BY <3>2, <3>3, <3>4, <3>5, <3>6, <3>7
  <2>3. ASSUME NEW n \in Conns
        PROVE  /\ Len(wire[n]) \in Nat /\ Len(wire'[n]) \in Nat
               /\ Len(wire[n]) <= Len(wire'[n])
               /\ \A i \in 1..Len(wire[n]) : wire'[n][i] = wire[n][i]
    BY <2>12
  <2>11. ASSUME NEW n \in Conns, h[1] = n, Open(n), <<n, h[2]>> \notin spoilt'
         PROVE  /\ Len(wire'[n]) = Len(wire[n]) + 1
                /\ wire'[n][Len(wire[n]) + 1] = h[2]
                /\ \A k \in 1..(Len(wire[n]) + 1) : wire'[n][k] # "torn"
    BY <2>11, <2>12
  <2>10. ASSUME NEW n \in Conns, NEW i \in 1..Len(wire[n]), Whole(n, i)
         PROVE  Whole(n, i)'
    <3>1. Len(wire[n]) \in Nat /\ \A k \in 1..Len(wire[n]) : wire'[n][k] = wire[n][k]
      BY <2>3
    <3>2. \A k \in 1..i : k \in 1..Len(wire[n]) /\ wire[n][k] # "torn"
      BY <2>10, <3>1 DEF Whole
    <3> QED
      BY <3>1, <3>2 DEF Whole
  <2>4. ASSUME NEW n \in Conns, LoginIsOut(n) PROVE LoginIsOut(n)'
    <3>1. CASE peer[n] = "logged"
      BY <2>1, <3>1 DEF LoginIsOut
    <3>2. ASSUME NEW j \in 1..Len(wire[n]), wire[n][j] = "login", Whole(n, j)
          PROVE  LoginIsOut(n)'
      <4>1. j \in 1..Len(wire'[n]) /\ wire'[n][j] = "login"
        BY <2>3, <3>2
      <4>2. Whole(n, j)'
        BY <2>10, <3>2
      <4> QED
        BY <4>1, <4>2 DEF LoginIsOut
    <3> QED
      BY <2>4, <3>1, <3>2 DEF LoginIsOut
  <2>5. ASSUME NEW n \in Conns, Live(n), <<n, "login">> \notin spoilt',
               NEW i \in 1..Len(sendq), sendq[i] = <<n, "login">>
        PROVE  LoginIsOut(n)' \/ (i - 1 \in 1..Len(sendq') /\ sendq'[i - 1] = <<n, "login">>)
    <3>1. CASE i = 1
      <4>1. /\ wire'[n][Len(wire[n]) + 1] = "login" /\ Len(wire'[n]) = Len(wire[n]) + 1
            /\ \A k \in 1..(Len(wire[n]) + 1) : wire'[n][k] # "torn"
            /\ Len(wire[n]) \in Nat
        BY <2>2, <2>3, <2>5, <2>11, <3>1 DEF Live
      <4> QED
        BY <4>1 DEF LoginIsOut, Whole
    <3>2. CASE i # 1
      BY <2>2, <2>5, <3>2
    <3> QED
      BY <3>1, <3>2
  <2>6. ASSUME NEW n \in Conns, Live(n), NEW m \in Msgs, Unspoilt(n, m)', QueuedBehindLogin(n, m)
        PROVE  QueuedBehindLogin(n, m)' \/ WiredBehindLogin(n, m)'
    <3>1. PICK i \in 1..Len(sendq) :
            /\ sendq[i] = <<n, m>>
            /\ LoginIsOut(n) \/ \E j \in 1..(i - 1) : sendq[j] = <<n, "login">>
      BY <2>6 DEF QueuedBehindLogin
    <3>2. CASE i = 1
      <4>1. /\ wire'[n][Len(wire[n]) + 1] = m /\ Len(wire'[n]) = Len(wire[n]) + 1
            /\ LoginIsOut(n)
            /\ \A k \in 1..(Len(wire[n]) + 1) : wire'[n][k] # "torn"
        BY <2>2, <2>6, <2>11, <3>1, <3>2 DEF Live, Unspoilt
      <4>2. peer'[n] = "logged" \/ \E j \in 1..((Len(wire[n]) + 1) - 1) : wire'[n][j] = "login"
        <5>1. CASE peer[n] = "logged"
          BY <2>1, <5>1
        <5>2. ASSUME NEW j \in 1..Len(wire[n]), wire[n][j] = "login"
              PROVE  j \in 1..((Len(wire[n]) + 1) - 1) /\ wire'[n][j] = "login"
          BY <2>3, <5>2
        <5>3. peer[n] = "logged" \/ \E j \in 1..Len(wire[n]) : wire[n][j] = "login"
          BY <4>1 DEF LoginIsOut
        <5> QED
          BY <5>1, <5>2, <5>3
      <4>3. Len(wire[n]) + 1 \in 1..Len(wire'[n])
        BY <4>1, <2>3
      <4>4. \E i0 \in 1..Len(wire'[n]) :
              /\ wire'[n][i0] = m /\ \A k \in 1..i0 : wire'[n][k] # "torn"
              /\ peer'[n] = "logged" \/ \E j \in 1..(i0 - 1) : wire'[n][j] = "login"
        <5> WITNESS Len(wire[n]) + 1 \in 1..Len(wire'[n])
        <5> QED
          BY <4>1, <4>2, Zenon
      <4>5. PICK i0 \in 1..Len(wire'[n]) :
              /\ wire'[n][i0] = m /\ \A k \in 1..i0 : wire'[n][k] # "torn"
              /\ peer'[n] = "logged" \/ \E j \in 1..(i0 - 1) : wire'[n][j] = "login"
        BY <4>4
      <4>6. Whole(n, i0)'
        BY <4>5 DEF Whole
      <4>7. WiredBehindLogin(n, m)'
        BY ONLY <4>5, <4>6 DEF WiredBehindLogin
      <4> QED
        BY <4>7
    <3>3. CASE i # 1
      <4>1. i - 1 \in 1..Len(sendq') /\ sendq'[i - 1] = <<n, m>>
        <5>1. /\ i - 1 \in 1..Len(sendq') /\ i - 1 \in 1..(Len(sendq) - 1)
              /\ (i - 1) + 1 = i
          BY <2>2, <3>3
        <5>2. sendq'[i - 1] = sendq[i]
          BY <2>2, <5>1
        <5> QED
          BY <3>1, <5>1, <5>2
      <4>2. LoginIsOut(n)' \/ \E j \in 1..((i - 1) - 1) : sendq'[j] = <<n, "login">>
        <5>1. CASE LoginIsOut(n)
          BY <2>4, <5>1
        <5>2. ASSUME NEW j \in 1..(i - 1), sendq[j] = <<n, "login">>
              PROVE  LoginIsOut(n)' \/ \E k \in 1..((i - 1) - 1) : sendq'[k] = <<n, "login">>
          <6>1. LoginIsOut(n)' \/ (j - 1 \in 1..Len(sendq') /\ sendq'[j - 1] = <<n, "login">>)
            BY <2>2, <2>5, <2>6, <5>2 DEF Unspoilt
          <6> QED
            BY <6>1
        <5> QED
          BY <3>1, <5>1, <5>2
      <4> QED
        BY <4>1, <4>2 DEF QueuedBehindLogin
    <3> QED
      BY <3>2, <3>3
  <2>7. ASSUME NEW n \in Conns, NEW m \in Msgs, WiredBehindLogin(n, m)
        PROVE  WiredBehindLogin(n, m)'
    <3>1. PICK i \in 1..Len(wire[n]) :
            /\ wire[n][i] = m /\ Whole(n, i)
            /\ peer[n] = "logged" \/ \E j \in 1..(i - 1) : wire[n][j] = "login"
      BY <2>7 DEF WiredBehindLogin
    <3>2. i \in 1..Len(wire'[n]) /\ wire'[n][i] = m
      BY <2>3, <3>1
    <3>4. Whole(n, i)'
      BY <2>10, <3>1
    <3>3. peer'[n] = "logged" \/ \E j \in 1..(i - 1) : wire'[n][j] = "login"
      <4>1. ASSUME NEW j \in 1..(i - 1), wire[n][j] = "login"
            PROVE  wire'[n][j] = "login"
        <5>1. j \in 1..Len(wire[n])
          BY <2>3, <4>1
        <5> QED
          BY <2>3, <4>1, <5>1
      <4> QED
        BY <2>1, <3>1, <4>1
    <3> QED
      BY <3>2, <3>3, <3>4 DEF WiredBehindLogin
  <2>8. \A n \in Conns : Live(n)' <=> Live(n)
    BY <2>1 DEF Live, Open
  <2>9. \A n \in Conns :
          (/\ Live(n)' /\ <<n, "login">> \notin spoilt'
           /\ \E j \in 1..Len(sendq) : sendq[j] = <<n, "login">>) =>
            LoginIsOut(n)' \/ (\E j \in 1..Len(sendq) : sendq[j] = <<n, "login">>)'
    BY <2>5, <2>8
  <2> QED
    BY <2>1, <2>4, <2>6, <2>7, <2>8, <2>9, Stays
<1>7. ASSUME NEW n \in Conns, Remove(n) PROVE (LoginComes /\ BehindLogin)'
  <2>1. /\ UNCHANGED <<recon, sendq, wire, peer, closing, served, spoilt, owned>>
        /\ \A o \in Conns : Live(o)' => Live(o)
    BY <1>7 DEF Remove, Live, Open
  <2> QED
    BY <2>1, Undisturbed, Stays
<1>8. ASSUME NEW n \in Conns, Break(n) PROVE (LoginComes /\ BehindLogin)'
  <2>1. /\ UNCHANGED <<recon, sendq, peer, served, spoilt, owned>>
        /\ \A o \in Conns : Live(o)' => Live(o) /\ o # n
        /\ \A o \in Conns \ {n} : wire'[o] = wire[o]
    BY <1>8 DEF Break, Live, Open, TypeOK
  <2> QED
    BY <2>1, Undisturbed, Stays
<1>9. ASSUME NEW n \in Conns, PeerLogin(n) PROVE (LoginComes /\ BehindLogin)'
  <2>1. /\ wire[n] # <<>> /\ Head(wire[n]) = "login"
        /\ wire' = [wire EXCEPT ![n] = Tail(@)]
        /\ UNCHANGED <<made, link, recon, sendq, served, spoilt, owned>>
    BY <1>9 DEF PeerLogin
  <2>2. ASSUME NEW o \in Conns, o # n, Live(o)'
        PROVE  Live(o) /\ wire'[o] = wire[o] /\ (peer[o] = "logged" => peer'[o] = "logged")
    <3>1. wire'[o] = wire[o] /\ link'[o] = link[o]
      BY <2>1, <2>2 DEF TypeOK
    <3>2. CASE UNCHANGED <<peer, closing>>
      BY <2>1, <2>2, <3>1, <3>2 DEF Live, Open
    <3>3. CASE LogIn(n)
      BY <2>2, <3>1, <3>3, LogInType DEF Live, Open, TypeOK
    <3> QED
      BY <1>9, <3>2, <3>3 DEF PeerLogin
  <2>3. ASSUME Live(n)' PROVE Live(n) /\ peer'[n] = "logged"
    <3>1. CASE UNCHANGED <<peer, closing>> /\ peer[n] # "fresh"
      <4>1. Live(n)
        BY <2>1, <2>3, <3>1 DEF Live, Open
      <4>2. link[n] # "none" /\ n \in 1..MaxConns /\ made \in 0..MaxConns /\ MaxConns \in Nat
        BY <4>1, UpstreamAssumption DEF Live, Open, TypeOK, Conns
      <4>3. n <= made
        BY <4>2 DEF LastStands
      <4> QED
        BY <3>1, <4>1, <4>3 DEF LastStands, Live, Open, TypeOK
    <3>2. CASE LogIn(n)
      BY <2>1, <2>3, <3>2, LogInType DEF Live, Open, TypeOK
    <3> QED
      BY <1>9, <3>1, <3>2 DEF PeerLogin
  <2>4. ASSUME NEW m \in Msgs, WiredBehindLogin(n, m), peer'[n] = "logged"
        PROVE  WiredBehindLogin(n, m)'
    <3>1. PICK i \in 1..Len(wire[n]) : wire[n][i] = m /\ Whole(n, i)
      BY <2>4 DEF WiredBehindLogin
    <3>2. wire'[n] = Tail(wire[n]) /\ wire[n] \in Seq(Arriving)
      BY <2>1 DEF TypeOK
    <3>3. i # 1
      <4>1. m # "login" /\ wire[n][1] = "login"
        BY <2>1, <3>2, TailAt, UpstreamAssumption
      <4> QED
        BY <3>1, <4>1
    <3>4. i - 1 \in 1..Len(wire'[n]) /\ wire'[n][i - 1] = m /\ Whole(n, i - 1)'
      <4>1. /\ Len(wire[n]) \in Nat /\ Len(wire'[n]) = Len(wire[n]) - 1
            /\ \A k \in 1..(Len(wire[n]) - 1) : wire'[n][k] = wire[n][k + 1]
        BY <2>1, <3>2, TailAt
      <4> QED
        BY <3>1, <3>3, <4>1 DEF Whole
    <3> QED
      BY <2>4, <3>4 DEF WiredBehindLogin
  <2>5. ASSUME NEW o \in Conns, Live(o)'
        PROVE  /\ Live(o)
               /\ LoginIsOut(o) => LoginIsOut(o)'
               /\ \A m \in Msgs : QueuedBehindLogin(o, m) =>
                    QueuedBehindLogin(o, m)' \/ WiredBehindLogin(o, m)'
               /\ \A m \in Msgs : WiredBehindLogin(o, m) => m \in served' \/ WiredBehindLogin(o, m)'
    <3>1. CASE o = n
      BY <2>1, <2>3, <2>4, <2>5, <3>1 DEF LoginIsOut, QueuedBehindLogin
    <3>2. CASE o # n
      BY <2>1, <2>2, <2>5, <3>2, Undisturbed
    <3> QED
      BY <3>1, <3>2
  <2> QED
    BY <2>1, <2>5, Stays
<1>10. ASSUME NEW n \in Conns, PeerHandle(n) PROVE (LoginComes /\ BehindLogin)'
  <2>1. /\ wire[n] # <<>> /\ Head(wire[n]) \in Msgs \cup {"alive"}
        /\ wire' = [wire EXCEPT ![n] = Tail(@)]
        /\ UNCHANGED <<made, link, recon, sendq, peer, spoilt, owned>>
        /\ served' = IF peer[n] = "logged" /\ Head(wire[n]) \in Msgs
                     THEN served \cup {Head(wire[n])} ELSE served
        /\ \A o \in Conns : Live(o)' => Live(o)
    BY <1>10 DEF PeerHandle, Live, Open, TypeOK
  <2>2. /\ Head(wire[n]) = wire[n][1]
        /\ Len(wire[n]) \in Nat \ {0} /\ Len(wire'[n]) = Len(wire[n]) - 1
        /\ \A i \in 1..(Len(wire[n]) - 1) : wire'[n][i] = wire[n][i + 1]
    <3>1. wire'[n] = Tail(wire[n]) /\ wire[n] \in Seq(Arriving)
      BY <2>1 DEF TypeOK
    <3> QED
      BY <2>1, <3>1, TailAt
  <2>3. LoginIsOut(n) => LoginIsOut(n)'
    <3>1. ASSUME NEW j \in 1..Len(wire[n]), wire[n][j] = "login", Whole(n, j)
          PROVE  j - 1 \in 1..Len(wire'[n]) /\ wire'[n][j - 1] = "login" /\ Whole(n, j - 1)'
      BY <2>1, <2>2, <3>1, UpstreamAssumption DEF Whole
    <3> QED
      BY <2>1, <3>1 DEF LoginIsOut
  <2>4. ASSUME NEW m \in Msgs, WiredBehindLogin(n, m)
        PROVE  m \in served' \/ WiredBehindLogin(n, m)'
    <3>1. PICK i \in 1..Len(wire[n]) :
            /\ wire[n][i] = m /\ Whole(n, i)
            /\ peer[n] = "logged" \/ \E j \in 1..(i - 1) : wire[n][j] = "login"
      BY <2>4 DEF WiredBehindLogin
    <3>2. CASE i = 1
      BY <2>1, <2>2, <3>1, <3>2
    <3>3. CASE i # 1
      <4>3. i - 1 \in 1..Len(wire'[n]) /\ wire'[n][i - 1] = m
        BY <2>2, <3>1, <3>3
      <4>1. i - 1 \in 1..Len(wire'[n]) /\ wire'[n][i - 1] = m /\ Whole(n, i - 1)'
        <5>1. \A k \in 1..(i - 1) : k + 1 \in 1..i /\ wire'[n][k] = wire[n][k + 1]
          BY <2>2, <3>1, <3>3
        <5>2. \A k \in 1..(i - 1) : wire'[n][k] # "torn"
          BY <3>1, <5>1 DEF Whole
        <5> QED
          BY <4>3, <5>2 DEF Whole
      <4>2. ASSUME NEW j \in 1..(i - 1), wire[n][j] = "login"
            PROVE  j - 1 \in 1..((i - 1) - 1) /\ wire'[n][j - 1] = "login"
        BY <2>1, <2>2, <4>2, UpstreamAssumption
      <4> QED
        BY <2>1, <3>1, <4>1, <4>2 DEF WiredBehindLogin
    <3> QED
      BY <3>2, <3>3
  <2>5. ASSUME NEW o \in Conns
        PROVE  /\ LoginIsOut(o) => LoginIsOut(o)'
               /\ \A m \in Msgs : QueuedBehindLogin(o, m) => QueuedBehindLogin(o, m)'
               /\ \A m \in Msgs : WiredBehindLogin(o, m) => m \in served' \/ WiredBehindLogin(o, m)'
    <3>1. CASE o = n
      BY <2>1, <2>3, <2>4, <3>1 DEF QueuedBehindLogin
    <3>2. CASE o # n
      BY <2>1, <3>2, Undisturbed
    <3> QED
      BY <3>1, <3>2
  <2> QED
    BY <2>1, <2>5, Stays
<1>13. ASSUME NEW n \in Conns, PeerTorn(n) PROVE (LoginComes /\ BehindLogin)'
  <2>1. /\ Head(wire[n]) = "torn" /\ Len(wire[n]) > 1 /\ wire[n] \in Seq(Arriving)
        /\ UNCHANGED <<made, link, recon, sendq, spoilt, served, owned>>
        /\ \A o \in Conns \ {n} : wire'[o] = wire[o]
    BY <1>13 DEF PeerTorn, TypeOK
  <2>2. wire[n][1] = "torn"
    BY <2>1
  <2>3. ASSUME NEW o \in Conns, Live(o)'
        PROVE  Live(o) /\ (peer[o] = "logged" => peer'[o] = "logged")
    <3>1. CASE UNCHANGED peer /\ (UNCHANGED closing \/ closing' = [closing EXCEPT ![n] = TRUE])
      BY <2>1, <2>3, <3>1 DEF Live, Open, TypeOK
    <3>2. CASE LogIn(n)
      BY <2>1, <2>3, <3>2, LogInType DEF Live, Open, TypeOK
    <3> QED
      BY <1>13, <3>1, <3>2 DEF PeerTorn
  <2>4. /\ LoginIsOut(n) => peer[n] = "logged"
        /\ \A m \in Msgs : ~WiredBehindLogin(n, m)
    <3>1. \A i \in 1..Len(wire[n]) : ~Whole(n, i)
      BY <2>2 DEF Whole
    <3> QED
      BY <3>1 DEF LoginIsOut, WiredBehindLogin
  <2>5. ASSUME NEW o \in Conns, Live(o)'
        PROVE  /\ LoginIsOut(o) => LoginIsOut(o)'
               /\ \A m \in Msgs : QueuedBehindLogin(o, m) => QueuedBehindLogin(o, m)'
               /\ \A m \in Msgs : WiredBehindLogin(o, m) => WiredBehindLogin(o, m)'
    <3>1. CASE o = n
      BY <2>1, <2>3, <2>4, <2>5, <3>1 DEF LoginIsOut, QueuedBehindLogin
    <3>2. CASE o # n
      BY <2>1, <2>3, <2>5, <3>2, Undisturbed
    <3> QED
      BY <3>1, <3>2
  <2> QED
    BY <2>1, <2>3, <2>5, Stays
<1>11. ASSUME NEW n \in Conns, PeerClose(n) PROVE (LoginComes /\ BehindLogin)'
  <2>1. /\ UNCHANGED <<recon, sendq, served, spoilt, owned>>
        /\ \A o \in Conns : Live(o)' => Live(o) /\ o # n
        /\ \A o \in Conns \ {n} : wire'[o] = wire[o] /\ peer'[o] = peer[o]
    BY <1>11 DEF PeerClose, Live, Open, TypeOK
  <2> QED
    BY <2>1, Undisturbed, Stays
<1>12. CASE UNCHANGED vars
  <2>1. /\ UNCHANGED <<recon, spoilt, owned, served, sendq, wire, peer, link, closing>>
        /\ \A n \in Conns : Live(n)' => Live(n)
    BY <1>12 DEF vars, Live, Open
  <2> QED
    BY <2>1, Undisturbed, Stays
<1> QED
  BY <1>1, <1>2, <1>3, <1>4, <1>5, <1>6, <1>7, <1>8, <1>9, <1>10, <1>11, <1>12, <1>13
     DEF Next, Reconnect, Peer, Receives

\* ... so it is in front of everything that is queued for a standing connection.
THEOREM UpstreamInvariant == Spec => []IInv
<1>1. IInv /\ [Next]_vars => IInv'
  BY TypeStep, LastStandsStep, TornStep, BehindStep DEF IInv
<1> QED
  BY <1>1, InitIInv, PTL DEF Spec

\* The variables of a connection between servers keep their types.
THEOREM UpstreamTypeOK == Spec => []TypeOK
<1>1. IInv => TypeOK
  BY DEF IInv
<1> QED
  BY <1>1, UpstreamInvariant, PTL

\* A message that the router queues for a standing connection while no
\* reconnect is under way is lost only with that connection, or by a send that is
\* broken off.
THEOREM UpstreamLostWithItsConnection == Spec => []LostWithItsConnection
<1>1. IInv => LostWithItsConnection
  BY DEF IInv, BehindLogin, Behind, Live, Unspoilt, QueuedBehindLogin, WiredBehindLogin,
         LostWithItsConnection, OnItsWay
<1> QED
  BY <1>1, UpstreamInvariant, PTL
=============================================================================
