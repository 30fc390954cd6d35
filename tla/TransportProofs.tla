-------------------------- MODULE TransportProofs --------------------------
(***************************************************************************)
(* Why a send thread may write to the file descriptor it has looked up     *)
(* long ago, for any number of connections, descriptors and threads: a     *)
(* removed socket keeps its descriptor while its read thread counts three  *)
(* passes, and a send that began before the removal has seen each of them. *)
(* At the end, what the modules see of the connections: Transport          *)
(* implements ConnEvents.                                                  *)
(***************************************************************************)
EXTENDS Transport, TLAPS

\* An open connection holds its file descriptor.
FdHeld ==
  \A a \in Addrs :
    /\ stage[a] # "unused" => fd[a] \in Fds
    /\ stage[a] \notin {"unused", "freed"} => fdtab[fd[a]] = a

\* What a read thread has been handed is listed and its own, each socket once, ...
InfoListed ==
  \A t \in ReadThreads :
    /\ \A i \in 1..Len(info[t]) :
         stage[info[t][i]] = "listed" /\ ReadThreadOf[fd[info[t][i]]] = t
    /\ \A i, j \in 1..Len(info[t]) : info[t][i] = info[t][j] => i = j

\* ... and what it sweeps is polled by it.
TodoPolled ==
  \A t \in ReadThreads : \A a \in todo[t] : stage[a] = "polled" /\ ReadThreadOf[fd[a]] = t

\* Passes are counted from the close event on.
CountedWhenDying == \A a \in Addrs : stage[a] \notin {"dying", "freed"} => delTimes[a] = 0

\* A send has seen every pass that brings its connection nearer to its end.
SendCovered ==
  \A s \in SendThreads : sending[s] # Idle =>
    /\ stage[sending[s].to] # "unused"
    /\ sending[s].fd = fd[sending[s].to]
    /\ stage[sending[s].to] = "dying" => delTimes[sending[s].to] <= sending[s].age
    /\ stage[sending[s].to] = "freed" => sending[s].age > CoveredPasses

Safe ==
  /\ FdHeld /\ InfoListed /\ TodoPolled /\ CountedWhenDying /\ SendCovered
  /\ NoMisdirectedSend

IInv == TypeOK /\ Safe

-----------------------------------------------------------------------------
\* A queue gets one more element.
LEMMA AppendTyped ==
  ASSUME NEW K, NEW S, NEW f \in [K -> Seq(S)], NEW k, NEW e \in S
  PROVE  [f EXCEPT ![k] = Append(@, e)] \in [K -> Seq(S)]
<1>1. \A x \in K : Append(f[x], e) \in Seq(S)
  OBVIOUS
<1> QED
  BY <1>1

\* An event that is put in a queue leaves the queues well-typed.
LEMMA PutTyped ==
  ASSUME TypeOK, NEW a \in Addrs, NEW kind \in Kinds, NEW n \in 0..MaxMsgs, Put(a, kind, n)
  PROVE  events' \in [WorkThreads -> Seq(Addrs \X Kinds \X (0..MaxMsgs))]
<1> DEFINE E == Addrs \X Kinds \X (0..MaxMsgs)
           e == <<a, kind, n>>
<1>1. e \in E /\ events \in [WorkThreads -> Seq(E)]
  BY DEF TypeOK
<1>2. events' = [events EXCEPT ![WorkThreadOf[fd[a]]] = Append(@, e)]
  BY DEF Put
<1> HIDE DEF E, e
<1>3. events' \in [WorkThreads -> Seq(E)]
  BY <1>1, <1>2, AppendTyped
<1> QED
  BY <1>3 DEF E

LEMMA KindsAre == {"connect", "message", "close", "sendfail"} = Kinds /\ 0 \in 0..MaxMsgs
BY TransportAssumption DEF Kinds

\* A read thread takes at most the first socket it was handed.
LEMMA TailTyped ==
  ASSUME TypeOK, NEW t \in ReadThreads, info[t] # <<>>
  PROVE  /\ Head(info[t]) \in Addrs /\ Tail(info[t]) \in Seq(Addrs)
         /\ [info EXCEPT ![t] = Tail(@)] \in [ReadThreads -> Seq(Addrs)]
BY DEF TypeOK

\* The first send of a queue.
LEMMA SendTyped ==
  ASSUME TypeOK, NEW s \in SendThreads, sendq[s] # <<>>
  PROVE  /\ Head(sendq[s]) \in Sends
         /\ [sendq EXCEPT ![s] = Tail(@)] \in [SendThreads -> Seq(Sends)]
BY DEF TypeOK

\* A pass begins well-typed.
LEMMA StartPassTyped ==
  ASSUME TypeOK, NEW t \in ReadThreads, StartPass(t)
  PROVE  TypeOK'
<1> DEFINE taken == IF info[t] = <<>> THEN {} ELSE {Head(info[t])}
<1>1. taken \subseteq Addrs
  BY TailTyped
<1>2. info' \in [ReadThreads -> Seq(Addrs)]
  BY TailTyped DEF StartPass, TypeOK
<1>3. stage' \in [Addrs -> Stages]
  <2>1. stage' = [a \in Addrs |-> IF a \in Due(t) THEN "freed"
                                  ELSE IF a \in taken THEN "polled" ELSE stage[a]]
    BY DEF StartPass
  <2> QED
    BY <2>1 DEF TypeOK, Stages
<1>4. flag' \in [Addrs -> BOOLEAN]
  <2>1. PICK failed \in SUBSET taken : flag' = [a \in Addrs |-> flag[a] \/ a \in failed]
    BY DEF StartPass
  <2> QED
    BY <2>1 DEF TypeOK
<1>5. todo' \in [ReadThreads -> SUBSET Addrs]
  <2>1. todo' = [todo EXCEPT ![t] = At(t, "polled") \cup taken]
    BY DEF StartPass
  <2> QED
    BY <1>1, <2>1 DEF TypeOK, At
<1>6. delTimes' \in [Addrs -> 0..2]
  <2>1. ASSUME NEW a \in At(t, "dying") \ Due(t) PROVE delTimes[a] + 1 \in 0..2
    <3>1. a \in Addrs /\ delTimes[a] \in 0..2
      BY DEF At, TypeOK
    <3>2. ~(delTimes[a] >= 2)
      BY DEF Due
    <3> QED
      BY <3>1, <3>2
  <2> QED
    BY <2>1 DEF StartPass, TypeOK
<1>7. fdtab' \in [Fds -> Addrs \cup {None}]
  BY DEF StartPass, TypeOK
<1>8. ASSUME NEW s \in SendThreads
      PROVE  sending'[s] = Idle \/ sending'[s] \in [to : Addrs, fd : Fds, close : BOOLEAN,
                                                    age : 0..SendPasses]
  <2>1. CASE sending[s] # Idle /\ ReadThreadOf[sending[s].fd] = t
    <3>1. sending[s] \in [to : Addrs, fd : Fds, close : BOOLEAN, age : 0..SendPasses]
      BY <2>1 DEF TypeOK
    <3>2. sending'[s] = [sending[s] EXCEPT !.age = @ + 1] /\ sending[s].age < SendPasses
      BY <2>1 DEF StartPass
    <3>3. sending[s].age + 1 \in 0..SendPasses
      BY <3>1, <3>2, TransportAssumption
    <3> QED
      BY <3>1, <3>2, <3>3
  <2>2. CASE ~(sending[s] # Idle /\ ReadThreadOf[sending[s].fd] = t)
    BY <2>2 DEF StartPass, TypeOK
  <2> QED
    BY <2>1, <2>2
<1>9. inpass' \in [ReadThreads -> BOOLEAN]
  BY DEF StartPass, TypeOK
<1>10. UNCHANGED <<fd, heard, events, sendq, sent, misdirected, seen, count>>
  BY DEF StartPass
<1> QED
  BY <1>2, <1>3, <1>4, <1>5, <1>6, <1>7, <1>8, <1>9, <1>10 DEF TypeOK, Idle

\* Every step keeps the types.
LEMMA TypeStep == ASSUME TypeOK, FdHeld, [Next]_vars PROVE TypeOK'
<1>1. ASSUME NEW a \in Addrs, NEW f \in Fds, Accept(a, f) PROVE TypeOK'
  BY <1>1 DEF Accept, TypeOK, Stages, Idle
<1>2. ASSUME NEW a \in Addrs, EnterMap(a) PROVE TypeOK'
  BY <1>2 DEF EnterMap, TypeOK, Stages, Idle
<1>3. ASSUME NEW a \in Addrs, Announce(a) PROVE TypeOK'
  <2>1. events' \in [WorkThreads -> Seq(Addrs \X Kinds \X (0..MaxMsgs))]
    BY <1>3, PutTyped, KindsAre DEF Announce
  <2> QED
    BY <1>3, <2>1 DEF Announce, TypeOK, Stages, Idle
<1>4. ASSUME NEW a \in Addrs, HandOver(a) PROVE TypeOK'
  <2>1. info' \in [ReadThreads -> Seq(Addrs)]
    <3>1. info \in [ReadThreads -> Seq(Addrs)]
      BY DEF TypeOK
    <3> QED
      BY <1>4, <3>1, AppendTyped DEF HandOver
  <2> QED
    BY <1>4, <2>1 DEF HandOver, TypeOK, Stages, Idle
<1>5. ASSUME NEW a \in Addrs, NEW body \in BOOLEAN, NEW close \in BOOLEAN,
             SendMsg(a, body, close)
      PROVE  TypeOK'
  <2> DEFINE e == [to |-> a, body |-> body, close |-> close]
  <2>1. e \in Sends /\ sendq' = [sendq EXCEPT ![SendThreadOf[fd[a]]] = Append(@, e)]
    BY <1>5 DEF SendMsg, Sends
  <2> HIDE DEF e
  <2>2. sendq' \in [SendThreads -> Seq(Sends)]
    <3>1. sendq \in [SendThreads -> Seq(Sends)]
      BY DEF TypeOK
    <3> QED
      BY <2>1, <3>1, AppendTyped
  <2>3. sent' \in 0..MaxSends
    BY <1>5, TransportAssumption DEF SendMsg, TypeOK
  <2> QED
    BY <1>5, <2>2, <2>3 DEF SendMsg, TypeOK, Idle, tvars
<1>6. ASSUME NEW t \in ReadThreads, StartPass(t) PROVE TypeOK'
  BY <1>6, StartPassTyped
<1>7. ASSUME NEW t \in ReadThreads, EndPass(t) PROVE TypeOK'
  BY <1>7 DEF EndPass, TypeOK, Idle
<1>8. ASSUME NEW t \in ReadThreads, NEW a \in Addrs, Sweep(t, a) PROVE TypeOK'
  <2>1. stage' \in [Addrs -> Stages]
    BY <1>8 DEF Sweep, TypeOK, Stages
  <2>2. todo' \in [ReadThreads -> SUBSET Addrs]
    BY <1>8 DEF Sweep, TypeOK
  <2> QED
    BY <1>8, <2>1, <2>2 DEF Sweep, TypeOK, Idle
<1>9. ASSUME NEW a \in Addrs, AnnounceClose(a) PROVE TypeOK'
  <2>1. events' \in [WorkThreads -> Seq(Addrs \X Kinds \X (0..MaxMsgs))]
    BY <1>9, PutTyped, KindsAre DEF AnnounceClose
  <2> QED
    BY <1>9, <2>1 DEF AnnounceClose, TypeOK, Stages, Idle
<1>10. ASSUME NEW t \in ReadThreads, NEW a \in Addrs, Read(t, a) PROVE TypeOK'
  <2>1. heard' \in [Addrs -> 0..MaxMsgs] /\ flag' \in [Addrs -> BOOLEAN]
    <3>1. CASE heard[a] < MaxMsgs /\ heard' = [heard EXCEPT ![a] = @ + 1] /\ UNCHANGED flag
      <4>1. heard[a] + 1 \in 0..MaxMsgs
        BY <3>1, TransportAssumption DEF TypeOK
      <4> QED
        BY <3>1, <4>1 DEF TypeOK
    <3>2. CASE flag' = [flag EXCEPT ![a] = TRUE] /\ UNCHANGED heard
      BY <3>2 DEF TypeOK
    <3> QED
      BY <1>10, <3>1, <3>2 DEF Read
  <2>2. events' \in [WorkThreads -> Seq(Addrs \X Kinds \X (0..MaxMsgs))]
    <3>1. CASE heard[a] < MaxMsgs /\ Put(a, "message", heard[a] + 1)
      <4>1. heard[a] + 1 \in 0..MaxMsgs
        BY <3>1, TransportAssumption DEF TypeOK
      <4> QED
        BY <3>1, <4>1, PutTyped, KindsAre
    <3>2. CASE UNCHANGED events
      BY <3>2 DEF TypeOK
    <3> QED
      BY <1>10, <3>1, <3>2 DEF Read
  <2> QED
    BY <1>10, <2>1, <2>2 DEF Read, TypeOK, Idle
<1>11. ASSUME NEW w \in WorkThreads, Handle(w) PROVE TypeOK'
  <2>1. Head(events[w]) \in Addrs \X Kinds \X (0..MaxMsgs)
    BY <1>11 DEF Handle, TypeOK
  <2>2. events' \in [WorkThreads -> Seq(Addrs \X Kinds \X (0..MaxMsgs))]
    BY SMTT(30), <1>11 DEF Handle, TypeOK
  <2>3. seen' \in [Addrs -> {"none", "live", "gone"}] /\ count' \in [Addrs -> 0..MaxMsgs]
    BY <1>11, <2>1 DEF Handle, TypeOK
  <2> QED
    BY <1>11, <2>2, <2>3 DEF Handle, TypeOK, Idle, tvars
<1>12. ASSUME NEW s \in SendThreads, PopSend(s) PROVE TypeOK'
  <2> DEFINE p == Head(sendq[s])
  <2>1. p \in Sends /\ sendq' \in [SendThreads -> Seq(Sends)]
    BY <1>12, SendTyped DEF PopSend
  <2>2. p.to \in Addrs /\ p.close \in BOOLEAN
    BY <2>1 DEF Sends
  <2>3. events' \in [WorkThreads -> Seq(Addrs \X Kinds \X (0..MaxMsgs))]
    <3>1. CASE Put(p.to, "sendfail", 0)
      BY <2>2, <3>1, PutTyped, KindsAre
    <3>2. CASE UNCHANGED events
      BY <3>2 DEF TypeOK
    <3> QED
      BY <1>12, <3>1, <3>2 DEF PopSend
  <2>4. flag' \in [Addrs -> BOOLEAN]
    BY <1>12, <2>2 DEF PopSend, CloseSocket, TypeOK
  <2>5. ASSUME NEW r \in SendThreads
        PROVE  sending'[r] = Idle \/ sending'[r] \in [to : Addrs, fd : Fds, close : BOOLEAN,
                                                      age : 0..SendPasses]
    <3>1. CASE UNCHANGED sending
      BY <3>1 DEF TypeOK
    <3>2. CASE /\ Mapped(p.to)
               /\ sending' = [sending EXCEPT ![s] =
                                [to |-> p.to, fd |-> fd[p.to], close |-> p.close, age |-> 0]]
      <4>1. fd[p.to] \in Fds
        BY <2>2, <3>2 DEF FdHeld, Mapped
      <4>2. 0 \in 0..SendPasses
        BY TransportAssumption
      <4>3. [to |-> p.to, fd |-> fd[p.to], close |-> p.close, age |-> 0]
              \in [to : Addrs, fd : Fds, close : BOOLEAN, age : 0..SendPasses]
        BY <2>2, <4>1, <4>2
      <4> QED
        BY <3>2, <4>3 DEF TypeOK
    <3> QED
      BY <1>12, <3>1, <3>2 DEF PopSend
  <2> QED
    BY <1>12, <2>1, <2>3, <2>4, <2>5 DEF PopSend, TypeOK, Idle
<1>13. ASSUME NEW s \in SendThreads, FinishSend(s) PROVE TypeOK'
  <2> DEFINE p == sending[s]
  <2>1. p \in [to : Addrs, fd : Fds, close : BOOLEAN, age : 0..SendPasses]
    BY <1>13 DEF FinishSend, TypeOK
  <2>2. p.to \in Addrs
    BY <2>1
  <2>3. events' \in [WorkThreads -> Seq(Addrs \X Kinds \X (0..MaxMsgs))]
    <3>1. CASE Put(p.to, "sendfail", 0)
      BY <2>2, <3>1, PutTyped, KindsAre
    <3>2. CASE UNCHANGED events
      BY <3>2 DEF TypeOK
    <3> QED
      BY <1>13, <3>1, <3>2 DEF FinishSend
  <2>4. flag' \in [Addrs -> BOOLEAN]
    BY <1>13, <2>2 DEF FinishSend, CloseSocket, TypeOK
  <2>5. misdirected' \in BOOLEAN
    BY <1>13 DEF FinishSend, TypeOK
  <2>6. ASSUME NEW r \in SendThreads
        PROVE  sending'[r] = Idle \/ sending'[r] = sending[r]
    BY <1>13 DEF FinishSend
  <2> QED
    BY <1>13, <2>3, <2>4, <2>5, <2>6 DEF FinishSend, TypeOK, Idle
<1>14. CASE UNCHANGED vars
  BY <1>14 DEF vars, tvars, TypeOK, Idle
<1> QED
  BY <1>1, <1>2, <1>3, <1>4, <1>5, <1>6, <1>7, <1>8, <1>9, <1>10, <1>11, <1>12, <1>13, <1>14
  DEF Next, Reader, Listener, Sender
-----------------------------------------------------------------------------
\* What changes the stage of a connection that has been accepted.
LEMMA FdHeldByStage ==
  ASSUME TypeOK, FdHeld, NEW a \in Addrs, NEW st, stage[a] \notin {"unused", "freed"},
         stage' = [stage EXCEPT ![a] = st], UNCHANGED <<fdtab, fd>>
  PROVE  FdHeld'
BY DEF TypeOK, FdHeld

\* A descriptor is given away only when it is free, and freed only with the
\* connection that holds it.
LEMMA FdHeldStep ==
  ASSUME TypeOK, FdHeld, InfoListed, TodoPolled, [Next]_vars PROVE FdHeld'
<1>1. ASSUME NEW a \in Addrs, NEW f \in Fds, Accept(a, f) PROVE FdHeld'
  <2>1. /\ fdtab[f] = None /\ fdtab' = [fdtab EXCEPT ![f] = a]
        /\ fd' = [fd EXCEPT ![a] = f] /\ stage' = [stage EXCEPT ![a] = "accepted"]
    BY <1>1 DEF Accept
  <2>2. ASSUME NEW b \in Addrs \ {a}, stage[b] \notin {"unused", "freed"}
        PROVE  fd[b] \in Fds /\ fd[b] # f /\ fdtab[fd[b]] = b
    BY <2>1, <2>2, TransportAssumption DEF FdHeld
  <2>3. fd'[a] = f /\ fdtab'[f] = a
    BY <2>1 DEF TypeOK
  <2>4. \A b \in Addrs \ {a} : fd'[b] = fd[b] /\ stage'[b] = stage[b]
    BY <2>1 DEF TypeOK
  <2>5. \A g \in Fds \ {f} : fdtab'[g] = fdtab[g]
    BY <2>1 DEF TypeOK
  <2> QED
    BY <2>2, <2>3, <2>4, <2>5 DEF FdHeld
<1>2. ASSUME NEW a \in Addrs, EnterMap(a) PROVE FdHeld'
  BY <1>2, FdHeldByStage DEF EnterMap
<1>3. ASSUME NEW a \in Addrs, Announce(a) PROVE FdHeld'
  BY <1>3, FdHeldByStage DEF Announce
<1>4. ASSUME NEW a \in Addrs, HandOver(a) PROVE FdHeld'
  BY <1>4, FdHeldByStage DEF HandOver, MayHandOver
<1>5. ASSUME NEW a \in Addrs, AnnounceClose(a) PROVE FdHeld'
  BY <1>5, FdHeldByStage DEF AnnounceClose
<1>6. ASSUME NEW t \in ReadThreads, NEW a \in Addrs, Sweep(t, a) PROVE FdHeld'
  <2>1. CASE UNCHANGED stage
    BY <1>6, <2>1 DEF Sweep, FdHeld
  <2>2. CASE stage' = [stage EXCEPT ![a] = "erased"]
    <3>1. stage[a] = "polled"
      BY <1>6 DEF Sweep, TodoPolled
    <3> QED
      BY <1>6, <2>2, <3>1, FdHeldByStage DEF Sweep
  <2> QED
    BY <1>6, <2>1, <2>2 DEF Sweep
<1>7. ASSUME NEW t \in ReadThreads, StartPass(t) PROVE FdHeld'
  <2> DEFINE taken == IF info[t] = <<>> THEN {} ELSE {Head(info[t])}
  <2>1. ASSUME NEW b \in Addrs, b \in taken
        PROVE  stage[b] = "listed"
    BY <2>1 DEF InfoListed, TypeOK
  <2>2. ASSUME NEW b \in Addrs
        PROVE  stage'[b] = IF b \in Due(t) THEN "freed"
                           ELSE IF b \in taken THEN "polled" ELSE stage[b]
    BY <1>7 DEF StartPass
  <2>3. fdtab' = [f \in Fds |-> IF \E a \in Due(t) : fd[a] = f THEN None ELSE fdtab[f]]
    BY <1>7 DEF StartPass
  <2>4. fd' = fd
    BY <1>7 DEF StartPass
  <2>5. \A c \in Due(t) : c \in Addrs /\ stage[c] = "dying"
    BY DEF Due, At
  <2>6. ASSUME NEW b \in Addrs, stage'[b] # "unused"
        PROVE  fd'[b] \in Fds
    BY <2>1, <2>2, <2>4, <2>5, <2>6 DEF FdHeld
  <2>7. ASSUME NEW b \in Addrs, stage'[b] \notin {"unused", "freed"}
        PROVE  fdtab'[fd'[b]] = b
    <3>1. b \notin Due(t) /\ stage[b] \notin {"unused", "freed"}
      BY <2>1, <2>2, <2>7
    <3>2. fd[b] \in Fds /\ fdtab[fd[b]] = b
      BY <3>1 DEF FdHeld
    <3>3. ASSUME NEW c \in Due(t), fd[c] = fd[b] PROVE FALSE
      BY <2>5, <3>1, <3>2, <3>3 DEF FdHeld
    <3> QED
      BY <2>3, <2>4, <3>2, <3>3
  <2> QED
    BY <2>6, <2>7 DEF FdHeld
<1>8. ASSUME UNCHANGED <<fdtab, fd, stage>> PROVE FdHeld'
  BY <1>8 DEF FdHeld
<1> QED
  BY <1>1, <1>2, <1>3, <1>4, <1>5, <1>6, <1>7, <1>8
  DEF Next, vars, tvars, Reader, Listener, Sender, SendMsg, EndPass, Read, Handle, PopSend,
      FinishSend

\* What a read thread has been handed.
LEMMA InfoListedStep ==
  ASSUME TypeOK, InfoListed, TodoPolled, [Next]_vars PROVE InfoListed'
<1>1. ASSUME NEW a \in Addrs, NEW st, stage[a] # "listed", stage' = [stage EXCEPT ![a] = st],
             UNCHANGED info, \A b \in Addrs \ {a} : fd'[b] = fd[b]
      PROVE  InfoListed'
  <2>1. ASSUME NEW t \in ReadThreads, NEW i \in 1..Len(info[t])
        PROVE  info[t][i] \in Addrs \ {a}
    BY <1>1 DEF InfoListed, TypeOK
  <2>2. \A b \in Addrs \ {a} : stage'[b] = stage[b]
    BY <1>1 DEF TypeOK
  <2> QED
    BY <1>1, <2>1, <2>2 DEF InfoListed
<1>2. ASSUME NEW a \in Addrs, NEW f \in Fds, Accept(a, f) PROVE InfoListed'
  <2>1. \A b \in Addrs \ {a} : fd'[b] = fd[b]
    BY <1>2 DEF Accept, TypeOK
  <2> QED
    BY <1>1, <1>2, <2>1 DEF Accept
<1>3. ASSUME NEW a \in Addrs, EnterMap(a) PROVE InfoListed'
  BY <1>1, <1>3 DEF EnterMap
<1>4. ASSUME NEW a \in Addrs, Announce(a) PROVE InfoListed'
  BY <1>1, <1>4 DEF Announce
<1>5. ASSUME NEW a \in Addrs, HandOver(a) PROVE InfoListed'
  <2> DEFINE r == ReadThreadOf[fd[a]]
  <2>1. stage[a] = "announced" /\ stage' = [stage EXCEPT ![a] = "listed"] /\ fd' = fd
    BY <1>5 DEF HandOver, MayHandOver
  <2>2. info' = [info EXCEPT ![r] = Append(@, a)]
    BY <1>5 DEF HandOver
  <2>3. info \in [ReadThreads -> Seq(Addrs)] /\ stage \in [Addrs -> Stages]
    BY DEF TypeOK
  <2>4. ASSUME NEW t \in ReadThreads, NEW i \in 1..Len(info[t])
        PROVE  /\ info[t][i] \in Addrs /\ info[t][i] # a
               /\ stage'[info[t][i]] = "listed" /\ ReadThreadOf[fd[info[t][i]]] = t
    BY <2>1, <2>3 DEF InfoListed
  <2>5. ASSUME NEW t \in ReadThreads \ {r}
        PROVE  info'[t] = info[t]
    BY <2>2, <2>3
  <2>6. CASE r \in ReadThreads
    <3>1. info'[r] = Append(info[r], a) /\ info[r] \in Seq(Addrs)
      BY <2>2, <2>3, <2>6
    <3>2. Len(info'[r]) = Len(info[r]) + 1 /\ info'[r][Len(info[r]) + 1] = a
      BY <3>1
    <3>3. \A i \in 1..Len(info[r]) : info'[r][i] = info[r][i]
      BY <3>1
    <3>4. stage'[a] = "listed"
      BY <2>1, <2>3
    <3>5. \A i \in 1..Len(info'[r]) : i \in 1..Len(info[r]) \/ i = Len(info[r]) + 1
      BY <3>1, <3>2
    <3>6. ASSUME NEW i \in 1..Len(info'[r])
          PROVE  stage'[info'[r][i]] = "listed" /\ ReadThreadOf[fd[info'[r][i]]] = r
      <4>1. CASE i \in 1..Len(info[r])
        BY <2>4, <2>6, <3>3, <4>1
      <4>2. CASE i = Len(info[r]) + 1
        BY <3>2, <3>4, <4>2
      <4> QED
        BY <3>5, <4>1, <4>2
    <3>7. ASSUME NEW i \in 1..Len(info'[r]), NEW j \in 1..Len(info'[r]),
                 info'[r][i] = info'[r][j]
          PROVE  i = j
      <4> DEFINE n == Len(info[r])
      <4>1. CASE i \in 1..n /\ j \in 1..n
        <5>1. info[r][i] = info[r][j]
          BY <3>3, <3>7, <4>1
        <5> QED
          BY <2>6, <4>1, <5>1 DEF InfoListed
      <4>2. CASE i \in 1..n /\ j = n + 1
        BY <2>4, <2>6, <3>2, <3>3, <3>7, <4>2
      <4>3. CASE i = n + 1 /\ j \in 1..n
        BY <2>4, <2>6, <3>2, <3>3, <3>7, <4>3
      <4> QED
        BY <3>5, <4>1, <4>2, <4>3
    <3> QED
      BY <2>1, <2>4, <2>5, <3>6, <3>7 DEF InfoListed
  <2>7. CASE r \notin ReadThreads
    BY <2>1, <2>4, <2>5, <2>7 DEF InfoListed
  <2> QED
    BY <2>6, <2>7
<1>6. ASSUME NEW a \in Addrs, AnnounceClose(a) PROVE InfoListed'
  BY <1>1, <1>6 DEF AnnounceClose
<1>7. ASSUME NEW t \in ReadThreads, NEW a \in Addrs, Sweep(t, a) PROVE InfoListed'
  <2>1. stage[a] = "polled"
    BY <1>7 DEF Sweep, TodoPolled
  <2>2. CASE UNCHANGED stage
    BY <1>7, <2>2 DEF Sweep, InfoListed
  <2>3. CASE stage' = [stage EXCEPT ![a] = "erased"]
    BY <1>1, <1>7, <2>1, <2>3 DEF Sweep
  <2> QED
    BY <1>7, <2>2, <2>3 DEF Sweep
<1>8. ASSUME NEW t \in ReadThreads, StartPass(t) PROVE InfoListed'
  <2> DEFINE taken == IF info[t] = <<>> THEN {} ELSE {Head(info[t])}
  <2>1. info \in [ReadThreads -> Seq(Addrs)] /\ fd' = fd
    BY <1>8 DEF StartPass, TypeOK
  <2>2. ASSUME NEW b \in Addrs, stage[b] = "listed", b \notin taken
        PROVE  stage'[b] = "listed"
    <3>1. b \notin Due(t)
      BY <2>2 DEF Due, At
    <3> QED
      BY <1>8, <2>2, <3>1 DEF StartPass
  <2>3. ASSUME NEW r \in ReadThreads \ {t}
        PROVE  /\ info'[r] = info[r]
               /\ \A i \in 1..Len(info[r]) : info[r][i] \in Addrs /\ info[r][i] \notin taken
    <3>1. info'[r] = info[r]
      BY <1>8, <2>1 DEF StartPass
    <3>2. ASSUME NEW i \in 1..Len(info[r]), info[r][i] \in taken PROVE FALSE
      <4>1. info[t] # <<>> /\ info[r][i] = info[t][1] /\ 1 \in 1..Len(info[t])
        BY <2>1, <3>2
      <4> QED
        BY <4>1 DEF InfoListed
    <3> QED
      BY <2>1, <3>1, <3>2
  <2>4. CASE info[t] = <<>>
    <3>1. info' = info /\ taken = {}
      BY <1>8, <2>4 DEF StartPass
    <3>2. ASSUME NEW r \in ReadThreads, NEW i \in 1..Len(info[r])
          PROVE  stage'[info[r][i]] = "listed" /\ ReadThreadOf[fd[info[r][i]]] = r
      <4>1. info[r][i] \in Addrs
        BY <2>1
      <4>2. stage[info[r][i]] = "listed" /\ ReadThreadOf[fd[info[r][i]]] = r
        BY DEF InfoListed
      <4> QED
        BY <2>2, <3>1, <4>1, <4>2
    <3> QED
      BY <2>1, <3>1, <3>2 DEF InfoListed
  <2>5. CASE info[t] # <<>>
    <3>1. info'[t] = Tail(info[t]) /\ taken = {info[t][1]}
      <4>1. taken = {Head(info[t])} /\ Head(info[t]) = info[t][1]
        BY <2>1, <2>5
      <4>2. info' = IF taken = {} THEN info ELSE [info EXCEPT ![t] = Tail(@)]
        BY <1>8 DEF StartPass
      <4> QED
        BY <2>1, <4>1, <4>2
    <3>2. \A i \in 1..Len(info'[t]) :
            i + 1 \in 1..Len(info[t]) /\ info'[t][i] = info[t][i + 1]
      BY <2>1, <2>5, <3>1
    <3>3. ASSUME NEW i \in 1..Len(info'[t])
          PROVE  info'[t][i] \in Addrs /\ info'[t][i] \notin taken
      <4>1. info[t][i + 1] # info[t][1]
        <5>1. i + 1 # 1 /\ 1 \in 1..Len(info[t]) /\ i + 1 \in 1..Len(info[t])
          BY <2>1, <2>5, <3>2
        <5> QED
          BY <5>1 DEF InfoListed
      <4> QED
        BY <2>1, <3>1, <3>2, <4>1
    <3>4. \A i \in 1..Len(info'[t]) :
            stage'[info'[t][i]] = "listed" /\ ReadThreadOf[fd[info'[t][i]]] = t
      <4> TAKE i \in 1..Len(info'[t])
      <4>1. i + 1 \in 1..Len(info[t]) /\ info'[t][i] = info[t][i + 1]
        BY <3>2
      <4>2. stage[info[t][i + 1]] = "listed" /\ ReadThreadOf[fd[info[t][i + 1]]] = t
        BY <4>1 DEF InfoListed
      <4> QED
        BY <2>2, <3>3, <4>1, <4>2
    <3>5. \A i, j \in 1..Len(info'[t]) : info'[t][i] = info'[t][j] => i = j
      <4> TAKE i, j \in 1..Len(info'[t])
      <4> HAVE info'[t][i] = info'[t][j]
      <4>1. i + 1 \in 1..Len(info[t]) /\ j + 1 \in 1..Len(info[t])
        BY <3>2
      <4>2. info[t][i + 1] = info[t][j + 1]
        BY <3>2
      <4>3. i + 1 = j + 1
        BY <4>1, <4>2 DEF InfoListed
      <4>4. i \in Nat /\ j \in Nat
        OBVIOUS
      <4> QED
        BY <4>3, <4>4
    <3> QED
      BY SMTT(30), <2>1, <2>2, <2>3, <3>4, <3>5 DEF InfoListed
  <2> QED
    BY <2>4, <2>5
<1>9. ASSUME UNCHANGED <<info, stage, fd>> PROVE InfoListed'
  BY <1>9 DEF InfoListed
<1> QED
  BY <1>2, <1>3, <1>4, <1>5, <1>6, <1>7, <1>8, <1>9
  DEF Next, vars, tvars, Reader, Listener, Sender, SendMsg, EndPass, Read, Handle, PopSend,
      FinishSend

\* The sockets of a sweep.
LEMMA TodoPolledStep ==
  ASSUME TypeOK, InfoListed, TodoPolled, [Next]_vars PROVE TodoPolled'
<1>1. ASSUME NEW a \in Addrs, NEW st, stage[a] # "polled", stage' = [stage EXCEPT ![a] = st],
             UNCHANGED todo, \A b \in Addrs \ {a} : fd'[b] = fd[b]
      PROVE  TodoPolled'
  <2>1. ASSUME NEW t \in ReadThreads, NEW b \in todo[t] PROVE b \in Addrs \ {a}
    BY <1>1 DEF TodoPolled, TypeOK
  <2>2. \A b \in Addrs \ {a} : stage'[b] = stage[b]
    BY <1>1 DEF TypeOK
  <2> QED
    BY <1>1, <2>1, <2>2 DEF TodoPolled
<1>2. ASSUME NEW a \in Addrs, NEW f \in Fds, Accept(a, f) PROVE TodoPolled'
  <2>1. \A b \in Addrs \ {a} : fd'[b] = fd[b]
    BY <1>2 DEF Accept, TypeOK
  <2> QED
    BY <1>1, <1>2, <2>1 DEF Accept
<1>3. ASSUME NEW a \in Addrs, EnterMap(a) PROVE TodoPolled'
  BY <1>1, <1>3 DEF EnterMap
<1>4. ASSUME NEW a \in Addrs, Announce(a) PROVE TodoPolled'
  BY <1>1, <1>4 DEF Announce
<1>5. ASSUME NEW a \in Addrs, HandOver(a) PROVE TodoPolled'
  BY <1>1, <1>5 DEF HandOver, MayHandOver
<1>6. ASSUME NEW a \in Addrs, AnnounceClose(a) PROVE TodoPolled'
  BY <1>1, <1>6 DEF AnnounceClose
<1>7. ASSUME NEW t \in ReadThreads, NEW a \in Addrs, Sweep(t, a) PROVE TodoPolled'
  <2>1. a \in todo[t] /\ todo' = [todo EXCEPT ![t] = @ \ {a}] /\ fd' = fd
    BY <1>7 DEF Sweep
  <2>2. \A b \in Addrs \ {a} : stage'[b] = stage[b]
    BY <1>7 DEF Sweep, TypeOK
  <2>3. ASSUME NEW r \in ReadThreads, NEW b \in todo'[r]
        PROVE  b \in todo[r] /\ b \in Addrs \ {a}
    <3>1. b \in todo[r] /\ (r = t => b # a)
      BY <2>1, <2>3 DEF TypeOK
    <3>2. b \in Addrs
      BY <3>1 DEF TypeOK
    <3>3. r # t => b # a
      BY <2>1, <3>1 DEF TodoPolled
    <3> QED
      BY <3>1, <3>2, <3>3
  <2> QED
    BY <2>1, <2>2, <2>3 DEF TodoPolled
<1>8. ASSUME NEW t \in ReadThreads, StartPass(t) PROVE TodoPolled'
  <2> DEFINE taken == IF info[t] = <<>> THEN {} ELSE {Head(info[t])}
  <2>1. todo' = [todo EXCEPT ![t] = At(t, "polled") \cup taken] /\ fd' = fd
    BY <1>8 DEF StartPass
  <2>2. ASSUME NEW b \in Addrs
        PROVE  stage'[b] = IF b \in Due(t) THEN "freed"
                           ELSE IF b \in taken THEN "polled" ELSE stage[b]
    BY <1>8 DEF StartPass
  <2>3. ASSUME NEW b \in taken
        PROVE  b \in Addrs /\ stage[b] = "listed" /\ ReadThreadOf[fd[b]] = t
    <3>1. info[t] # <<>> /\ b = info[t][1] /\ 1 \in 1..Len(info[t]) /\ b \in Addrs
      BY <2>3 DEF TypeOK
    <3> QED
      BY <3>1 DEF InfoListed
  <2>4. \A b \in Due(t) : stage[b] = "dying"
    BY DEF Due, At
  <2>5. ASSUME NEW r \in ReadThreads, NEW b \in todo'[r]
        PROVE  stage'[b] = "polled" /\ ReadThreadOf[fd[b]] = r
    <3>1. CASE b \in todo[r]
      <4>1. b \in Addrs /\ stage[b] = "polled" /\ ReadThreadOf[fd[b]] = r
        BY <3>1 DEF TodoPolled, TypeOK
      <4> QED
        BY <2>2, <2>4, <4>1
    <3>2. CASE r = t /\ b \in At(t, "polled")
      <4>1. b \in Addrs /\ stage[b] = "polled" /\ ReadThreadOf[fd[b]] = r
        BY <3>2 DEF At
      <4> QED
        BY <2>2, <2>4, <4>1
    <3>3. CASE r = t /\ b \in taken
      BY <2>2, <2>3, <2>4, <3>3
    <3> QED
      BY <2>1, <2>5, <3>1, <3>2, <3>3 DEF TypeOK
  <2> QED
    BY <2>1, <2>5 DEF TodoPolled
<1>9. ASSUME UNCHANGED <<todo, stage, fd>> PROVE TodoPolled'
  BY <1>9 DEF TodoPolled
<1> QED
  BY <1>2, <1>3, <1>4, <1>5, <1>6, <1>7, <1>8, <1>9
  DEF Next, vars, tvars, Reader, Listener, Sender, SendMsg, EndPass, Read, Handle, PopSend,
      FinishSend

\* The passes a removed socket has waited.
LEMMA CountedStep ==
  ASSUME TypeOK, InfoListed, TodoPolled, CountedWhenDying, [Next]_vars
  PROVE  CountedWhenDying'
<1>1. ASSUME NEW a \in Addrs, NEW st, stage[a] \notin {"dying", "freed"},
             stage' = [stage EXCEPT ![a] = st], UNCHANGED delTimes
      PROVE  CountedWhenDying'
  BY <1>1 DEF CountedWhenDying, TypeOK
<1>2. ASSUME NEW a \in Addrs, NEW f \in Fds, Accept(a, f) PROVE CountedWhenDying'
  BY <1>1, <1>2 DEF Accept
<1>3. ASSUME NEW a \in Addrs, EnterMap(a) PROVE CountedWhenDying'
  BY <1>1, <1>3 DEF EnterMap
<1>4. ASSUME NEW a \in Addrs, Announce(a) PROVE CountedWhenDying'
  BY <1>1, <1>4 DEF Announce
<1>5. ASSUME NEW a \in Addrs, HandOver(a) PROVE CountedWhenDying'
  BY <1>1, <1>5 DEF HandOver, MayHandOver
<1>6. ASSUME NEW a \in Addrs, AnnounceClose(a) PROVE CountedWhenDying'
  BY <1>1, <1>6 DEF AnnounceClose
<1>7. ASSUME NEW t \in ReadThreads, NEW a \in Addrs, Sweep(t, a) PROVE CountedWhenDying'
  <2>1. stage[a] = "polled"
    BY <1>7 DEF Sweep, TodoPolled
  <2> QED
    BY <1>1, <1>7, <2>1 DEF Sweep, CountedWhenDying
<1>8. ASSUME NEW t \in ReadThreads, StartPass(t) PROVE CountedWhenDying'
  <2>1. ASSUME NEW b \in Addrs, stage'[b] \notin {"dying", "freed"}
        PROVE  delTimes'[b] = 0
    <3>1. stage[b] \notin {"dying", "freed"}
      <4> DEFINE taken == IF info[t] = <<>> THEN {} ELSE {Head(info[t])}
      <4>1. stage'[b] = IF b \in Due(t) THEN "freed"
                        ELSE IF b \in taken THEN "polled" ELSE stage[b]
        BY <1>8 DEF StartPass
      <4>2. b \in taken => stage[b] = "listed"
        BY DEF InfoListed, TypeOK
      <4> QED
        BY <2>1, <4>1, <4>2
    <3>2. b \notin At(t, "dying")
      BY <3>1 DEF At
    <3> QED
      BY <1>8, <3>1, <3>2 DEF StartPass, CountedWhenDying
  <2> QED
    BY <2>1 DEF CountedWhenDying
<1>9. ASSUME UNCHANGED <<stage, delTimes>> PROVE CountedWhenDying'
  BY <1>9 DEF CountedWhenDying
<1> QED
  BY <1>2, <1>3, <1>4, <1>5, <1>6, <1>7, <1>8, <1>9
  DEF Next, vars, tvars, Reader, Listener, Sender, SendMsg, EndPass, Read, Handle, PopSend,
      FinishSend

\* A send that is under way has the descriptor of its connection.
LEMMA UnderWay ==
  ASSUME TypeOK, NEW s \in SendThreads, sending[s] # Idle
  PROVE  /\ sending[s] \in [to : Addrs, fd : Fds, close : BOOLEAN, age : 0..SendPasses]
         /\ sending[s].to \in Addrs /\ sending[s].fd \in Fds
         /\ sending[s].age \in Nat
BY TransportAssumption DEF TypeOK

\* What a send has seen of its connection's end.
LEMMA SendCoveredStep ==
  ASSUME TypeOK, InfoListed, TodoPolled, CountedWhenDying, SendCovered, [Next]_vars
  PROVE  SendCovered'
<1>1. ASSUME NEW a \in Addrs, NEW st \in Stages \ {"unused", "freed"},
             stage[a] \notin {"unused", "dying", "freed"},
             stage' = [stage EXCEPT ![a] = st], UNCHANGED <<sending, delTimes, fd>>
      PROVE  SendCovered'
  <2>1. ASSUME NEW s \in SendThreads, sending[s] # Idle, sending[s].to = a
        PROVE  stage'[a] = st /\ delTimes[a] <= sending[s].age
    BY <1>1, <2>1, UnderWay DEF CountedWhenDying, TypeOK
  <2>2. ASSUME NEW s \in SendThreads, sending[s] # Idle, sending[s].to # a
        PROVE  stage'[sending[s].to] = stage[sending[s].to]
    BY <1>1, <2>2, UnderWay DEF TypeOK
  <2> QED
    BY <1>1, <2>1, <2>2 DEF SendCovered
<1>2. ASSUME NEW a \in Addrs, NEW f \in Fds, Accept(a, f) PROVE SendCovered'
  <2>1. UNCHANGED <<sending, delTimes>>
    BY <1>2 DEF Accept
  <2>2. ASSUME NEW s \in SendThreads, sending[s] # Idle
        PROVE  /\ stage'[sending[s].to] = stage[sending[s].to]
               /\ fd'[sending[s].to] = fd[sending[s].to]
    <3>1. sending[s].to \in Addrs /\ sending[s].to # a
      BY <1>2, <2>2, UnderWay DEF Accept, SendCovered
    <3> QED
      BY <1>2, <3>1 DEF Accept, TypeOK
  <2> QED
    BY <2>1, <2>2 DEF SendCovered
<1>3. ASSUME NEW a \in Addrs, EnterMap(a) PROVE SendCovered'
  BY <1>1, <1>3 DEF EnterMap, Stages
<1>4. ASSUME NEW a \in Addrs, Announce(a) PROVE SendCovered'
  BY <1>1, <1>4 DEF Announce, Stages
<1>5. ASSUME NEW a \in Addrs, HandOver(a) PROVE SendCovered'
  BY <1>1, <1>5 DEF HandOver, MayHandOver, Stages
<1>6. ASSUME NEW a \in Addrs, AnnounceClose(a) PROVE SendCovered'
  BY <1>1, <1>6 DEF AnnounceClose, Stages
<1>7. ASSUME NEW t \in ReadThreads, NEW a \in Addrs, Sweep(t, a) PROVE SendCovered'
  <2>1. stage[a] = "polled"
    BY <1>7 DEF Sweep, TodoPolled
  <2>2. CASE UNCHANGED stage
    BY <1>7, <2>2 DEF Sweep, SendCovered
  <2>3. CASE stage' = [stage EXCEPT ![a] = "erased"]
    BY <1>1, <1>7, <2>1, <2>3 DEF Sweep, Stages
  <2> QED
    BY <1>7, <2>2, <2>3 DEF Sweep
<1>8. ASSUME NEW t \in ReadThreads, StartPass(t) PROVE SendCovered'
  <2> DEFINE taken == IF info[t] = <<>> THEN {} ELSE {Head(info[t])}
  <2>1. ASSUME NEW s \in SendThreads, sending'[s] # Idle
        PROVE  LET p == sending'[s] IN
               /\ stage'[p.to] # "unused"
               /\ p.fd = fd'[p.to]
               /\ stage'[p.to] = "dying" => delTimes'[p.to] <= p.age
               /\ stage'[p.to] = "freed" => p.age > CoveredPasses
    <3> DEFINE q == sending[s]
               a == q.to
               own == ReadThreadOf[q.fd] = t
    <3>1. q # Idle
      BY <1>8, <2>1 DEF StartPass
    <3>2. /\ a \in Addrs /\ q.age \in Nat
          /\ q \in [to : Addrs, fd : Fds, close : BOOLEAN, age : 0..SendPasses]
      BY <3>1, UnderWay
    <3>3. /\ stage[a] # "unused" /\ q.fd = fd[a]
          /\ stage[a] = "dying" => delTimes[a] <= q.age
          /\ stage[a] = "freed" => q.age > CoveredPasses
      BY <3>1 DEF SendCovered
    <3>4. sending'[s] = IF own THEN [q EXCEPT !.age = @ + 1] ELSE q
      BY <1>8, <3>1 DEF StartPass
    <3>5. /\ sending'[s].to = a /\ sending'[s].fd = q.fd
          /\ sending'[s].age = IF own THEN q.age + 1 ELSE q.age
      BY <3>2, <3>4
    <3>6. /\ stage'[a] = IF a \in Due(t) THEN "freed"
                         ELSE IF a \in taken THEN "polled" ELSE stage[a]
          /\ delTimes'[a] = IF a \in At(t, "dying") \ Due(t) THEN delTimes[a] + 1
                            ELSE delTimes[a]
          /\ fd' = fd
      BY <1>8, <3>2 DEF StartPass
    <3>7. delTimes[a] \in 0..2
      BY <3>2 DEF TypeOK
    <3>8. CASE a \in Due(t)
      <4>1. stage[a] = "dying" /\ delTimes[a] >= 2 /\ own
        BY <3>3, <3>8 DEF Due, At
      <4>2. stage'[a] = "freed" /\ sending'[s].age > CoveredPasses
        BY <3>2, <3>3, <3>5, <3>6, <3>7, <3>8, <4>1 DEF CoveredPasses
      <4> QED
        BY <3>3, <3>5, <3>6, <4>2
    <3>9. CASE a \notin Due(t) /\ a \in taken
      BY <3>3, <3>5, <3>6, <3>9
    <3>10. CASE a \notin Due(t) /\ a \notin taken /\ a \in At(t, "dying")
      <4>1. stage[a] = "dying" /\ own
        BY <3>3, <3>10 DEF At
      <4>2. /\ stage'[a] = "dying" /\ delTimes'[a] = delTimes[a] + 1
            /\ sending'[s].age = q.age + 1
        BY <3>5, <3>6, <3>10, <4>1
      <4>3. delTimes'[a] <= sending'[s].age
        BY <3>2, <3>3, <3>7, <4>1, <4>2
      <4> QED
        BY <3>3, <3>5, <3>6, <4>2, <4>3
    <3>11. CASE a \notin Due(t) /\ a \notin taken /\ a \notin At(t, "dying")
      <4>1. stage'[a] = stage[a] /\ delTimes'[a] = delTimes[a]
        BY <3>6, <3>11
      <4>2. sending'[s].age \in Nat /\ sending'[s].age >= q.age
        BY <3>2, <3>5
      <4>3. stage[a] = "dying" => delTimes'[a] <= sending'[s].age
        BY <3>2, <3>3, <3>7, <4>1, <4>2
      <4>4. stage[a] = "freed" => sending'[s].age > CoveredPasses
        BY <3>2, <3>3, <4>2 DEF CoveredPasses
      <4> QED
        BY <3>3, <3>5, <3>6, <4>1, <4>3, <4>4
    <3> QED
      BY <3>8, <3>9, <3>10, <3>11
  <2> QED
    BY <2>1 DEF SendCovered, CoveredPasses
<1>9. ASSUME NEW s \in SendThreads, PopSend(s) PROVE SendCovered'
  <2> DEFINE p == Head(sendq[s])
  <2>1. UNCHANGED <<fd, stage, delTimes>>
    BY <1>9 DEF PopSend
  <2>2. CASE UNCHANGED sending
    BY <2>1, <2>2 DEF SendCovered
  <2>3. CASE /\ Mapped(p.to)
             /\ sending' = [sending EXCEPT ![s] =
                              [to |-> p.to, fd |-> fd[p.to], close |-> p.close, age |-> 0]]
    <3>1. stage[p.to] \notin {"unused", "dying", "freed"}
      BY <2>3 DEF Mapped
    <3>2. ASSUME NEW r \in SendThreads \ {s} PROVE sending'[r] = sending[r]
      BY <2>3
    <3>3. ASSUME sending'[s] # Idle
          PROVE  sending'[s] = sending[s] \/ (sending'[s].to = p.to /\ sending'[s].fd = fd[p.to])
      BY <2>3
    <3> QED
      BY <2>1, <3>1, <3>2, <3>3 DEF SendCovered
  <2> QED
    BY <1>9, <2>2, <2>3 DEF PopSend
<1>10. ASSUME NEW s \in SendThreads, FinishSend(s) PROVE SendCovered'
  <2>1. UNCHANGED <<fd, stage, delTimes>>
    BY <1>10 DEF FinishSend
  <2>2. \A r \in SendThreads : sending'[r] = Idle \/ sending'[r] = sending[r]
    BY <1>10 DEF FinishSend
  <2> QED
    BY <2>1, <2>2 DEF SendCovered
<1>11. ASSUME UNCHANGED <<stage, delTimes, fd, sending>> PROVE SendCovered'
  BY <1>11 DEF SendCovered
<1> QED
  BY <1>2, <1>3, <1>4, <1>5, <1>6, <1>7, <1>8, <1>9, <1>10, <1>11
  DEF Next, vars, tvars, Reader, Listener, Sender, SendMsg, EndPass, Read, Handle

\* A send that its connection's end has not outlasted writes to its own
\* connection.
LEMMA NoMisdirectedStep ==
  ASSUME TypeOK, FdHeld, SendCovered, NoMisdirectedSend, [Next]_vars
  PROVE  NoMisdirectedSend'
<1>1. ASSUME NEW s \in SendThreads, FinishSend(s) PROVE NoMisdirectedSend'
  <2> DEFINE p == sending[s]
  <2>1. p # Idle
    BY <1>1 DEF FinishSend
  <2>2. p.to \in Addrs /\ p.age \in Nat
    BY <2>1, UnderWay
  <2>3. p.fd = fd[p.to] /\ stage[p.to] # "unused"
        /\ (stage[p.to] = "freed" => p.age > CoveredPasses)
    BY <2>1 DEF SendCovered
  <2>4. ASSUME p.age <= CoveredPasses PROVE fdtab[p.fd] = p.to
    <3>1. stage[p.to] # "freed"
      BY <2>2, <2>3, <2>4 DEF CoveredPasses
    <3> QED
      BY <2>2, <2>3, <3>1 DEF FdHeld
  <2>5. misdirected' =
          (misdirected \/ (p.age <= CoveredPasses /\ fdtab[p.fd] \notin {p.to, None}))
    BY <1>1 DEF FinishSend
  <2> QED
    BY <2>4, <2>5 DEF NoMisdirectedSend
<1>2. ASSUME UNCHANGED misdirected PROVE NoMisdirectedSend'
  BY <1>2 DEF NoMisdirectedSend
<1> QED
  BY <1>1, <1>2
  DEF Next, vars, tvars, Reader, Listener, Sender, Accept, EnterMap, Announce, HandOver,
      SendMsg, StartPass, EndPass, Sweep, AnnounceClose, Read, Handle, PopSend

-----------------------------------------------------------------------------
LEMMA InvStep == ASSUME IInv, [Next]_vars PROVE IInv'
BY TypeStep, FdHeldStep, InfoListedStep, TodoPolledStep, CountedStep, SendCoveredStep,
   NoMisdirectedStep
DEF IInv, Safe

LEMMA InvInit == ASSUME Init PROVE IInv
<1>1. 0 \in 0..MaxMsgs /\ 0 \in 0..MaxSends /\ 0 \in 0..2
  BY TransportAssumption
<1>2. TypeOK
  <2>1. /\ info \in [ReadThreads -> Seq(Addrs)]
        /\ events \in [WorkThreads -> Seq(Addrs \X Kinds \X (0..MaxMsgs))]
        /\ sendq \in [SendThreads -> Seq(Sends)]
    BY DEF Init
  <2>2. \A s \in SendThreads : sending[s] = Idle
    BY DEF Init
  <2>3. /\ fdtab \in [Fds -> Addrs \cup {None}] /\ fd \in [Addrs -> Fds \cup {None}]
        /\ stage \in [Addrs -> Stages] /\ flag \in [Addrs -> BOOLEAN]
        /\ inpass \in [ReadThreads -> BOOLEAN] /\ todo \in [ReadThreads -> SUBSET Addrs]
        /\ misdirected \in BOOLEAN /\ seen \in [Addrs -> {"none", "live", "gone"}]
    BY DEF Init, Stages
  <2>4. /\ delTimes \in [Addrs -> 0..2] /\ heard \in [Addrs -> 0..MaxMsgs]
        /\ sent \in 0..MaxSends /\ count \in [Addrs -> 0..MaxMsgs]
    BY <1>1 DEF Init
  <2> QED
    BY <2>1, <2>2, <2>3, <2>4 DEF TypeOK
<1>3. Safe
  BY DEF Init, Safe, FdHeld, InfoListed, TodoPolled, CountedWhenDying, SendCovered,
         NoMisdirectedSend, Idle
<1> QED
  BY <1>2, <1>3 DEF IInv

LEMMA InvHolds == Spec => []IInv
BY InvInit, InvStep, PTL DEF Spec

\* The state of listener, read, send and work threads is well-typed: a send
\* that is under way has a real descriptor, passes are counted up to two.
THEOREM TypeCorrect == Spec => []TypeOK
<1>1. IInv => TypeOK
  BY DEF IInv
<1> QED
  BY <1>1, InvHolds, PTL

\* However descriptors are given away again, a send that lasts no longer than
\* the passes CheckSocketsAndFree waits for never writes to another client.
THEOREM SendsStayOnTheirConnection == Spec => []NoMisdirectedSend
<1>1. IInv => NoMisdirectedSend
  BY DEF IInv, Safe
<1> QED
  BY <1>1, InvHolds, PTL

\* A closeflag is set by what happened to that very connection: a late close
\* never hits the next client on the descriptor.
LEMMA ClosedStep ==
  ASSUME TypeOK, [Next]_vars, NEW a \in Addrs, flag'[a], ~flag[a]
  PROVE  \/ \E t \in ReadThreads :
              Read(t, a) \/ (StartPass(t) /\ info[t] # <<>> /\ Head(info[t]) = a)
         \/ \E s \in SendThreads :
              \/ PopSend(s) /\ Head(sendq[s]).to = a
              \/ FinishSend(s) /\ sending[s].to = a
<1> DEFINE Goal ==
      \/ \E t \in ReadThreads :
           Read(t, a) \/ (StartPass(t) /\ info[t] # <<>> /\ Head(info[t]) = a)
      \/ \E s \in SendThreads :
           \/ PopSend(s) /\ Head(sendq[s]).to = a
           \/ FinishSend(s) /\ sending[s].to = a
<1>1. ASSUME NEW t \in ReadThreads, NEW b \in Addrs, Read(t, b) PROVE Goal
  <2>1. b = a
    BY <1>1 DEF Read, TypeOK
  <2> QED
    BY <1>1, <2>1
<1>2. ASSUME NEW t \in ReadThreads, StartPass(t) PROVE Goal
  <2>1. info[t] # <<>> /\ Head(info[t]) = a
    BY <1>2 DEF StartPass
  <2> QED
    BY <1>2, <2>1
<1>3. ASSUME NEW s \in SendThreads, PopSend(s) PROVE Goal
  <2>1. flag' = flag \/ flag' = CloseSocket(Head(sendq[s]).to)
    BY <1>3 DEF PopSend
  <2>2. Head(sendq[s]).to = a
    BY <2>1 DEF CloseSocket, TypeOK
  <2> QED
    BY <1>3, <2>2
<1>4. ASSUME NEW s \in SendThreads, FinishSend(s) PROVE Goal
  <2>1. flag' = flag \/ flag' = CloseSocket(sending[s].to)
    BY <1>4 DEF FinishSend
  <2>2. sending[s].to = a
    BY <2>1 DEF CloseSocket, TypeOK
  <2> QED
    BY <1>4, <2>2
<1>5. flag' # flag
  OBVIOUS
<1> HIDE DEF Goal
<1>6. Goal
  BY <1>1, <1>2, <1>3, <1>4, <1>5
  DEF Next, vars, tvars, Reader, Listener, Sender, Accept, EnterMap, Announce, HandOver,
      SendMsg, EndPass, Sweep, AnnounceClose, Handle
<1> QED
  BY <1>6 DEF Goal

\* For every set of connections and descriptors: no request to close is taken
\* for one of another connection.
THEOREM ClosesStayOnTheirConnection == Spec => ClosedForAReason
<1> DEFINE A == \A a \in Addrs :
       flag[a]' /\ ~flag[a] =>
         \/ \E t \in ReadThreads :
              Read(t, a) \/ (StartPass(t) /\ info[t] # <<>> /\ Head(info[t]) = a)
         \/ \E s \in SendThreads :
              \/ PopSend(s) /\ Head(sendq[s]).to = a
              \/ FinishSend(s) /\ sending[s].to = a
<1>1. TypeOK /\ [Next]_vars => A
  BY ClosedStep
<1> HIDE DEF A
<1>2. TypeOK /\ [Next]_vars => [A]_vars
  BY <1>1
<1>3. Spec => [][A]_vars
  BY <1>2, TypeCorrect, PTL DEF Spec
<1> QED
  BY <1>3 DEF ClosedForAReason, A

-----------------------------------------------------------------------------
(* What the work threads of a module see of a connection.                  *)

\* Stages before the connect event, and after the close event.
Early == {"unused", "accepted", "mapped"}
Over == {"dying", "freed"}

\* The event at place i of a queue is one of the client's on a.
About(w, i, a) == events[w][i][1] = a /\ events[w][i][2] # "sendfail"

\* An event waits in the queue of its connection's work thread.
AtHome ==
  \A w \in WorkThreads : \A i \in 1..Len(events[w]) : \A a \in Addrs :
    About(w, i, a) => stage[a] \notin Early /\ WorkThreadOf[fd[a]] = w /\ seen[a] # "gone"

\* The connect event is the first of its connection, ...
ConnectFirst ==
  \A w \in WorkThreads : \A i \in 1..Len(events[w]) : \A a \in Addrs :
    About(w, i, a) /\ events[w][i][2] = "connect" =>
      /\ seen[a] = "none"
      /\ \A k \in 1..Len(events[w]) : About(w, k, a) => i <= k

\* ... the close event the last, ...
CloseLast ==
  \A w \in WorkThreads : \A i \in 1..Len(events[w]) : \A a \in Addrs :
    About(w, i, a) /\ events[w][i][2] = "close" =>
      /\ stage[a] \in Over
      /\ \A k \in 1..Len(events[w]) : About(w, k, a) => k <= i

\* ... and the messages come in their order.
MessagesInOrder ==
  \A w \in WorkThreads : \A i \in 1..Len(events[w]) : \A a \in Addrs :
    About(w, i, a) /\ events[w][i][2] = "message" =>
      /\ count[a] < events[w][i][3] /\ events[w][i][3] <= heard[a]
      /\ \A k \in 1..Len(events[w]) :
           About(w, k, a) /\ events[w][k][2] = "message" /\ i < k =>
             events[w][i][3] < events[w][k][3]

\* The connect event of a connection, and a message of it, wait in the queue.
ConnectWaits(a) ==
  \E i \in 1..Len(events[WorkThreadOf[fd[a]]]) :
    events[WorkThreadOf[fd[a]]][i] = <<a, "connect", 0>>

MessageWaits(a, n) ==
  \E i \in 1..Len(events[WorkThreadOf[fd[a]]]) :
    events[WorkThreadOf[fd[a]]][i] = <<a, "message", n>>

\* What a client has done and the module not seen yet waits in the queue.
NothingLost ==
  \A a \in Addrs :
    /\ stage[a] \in Early => seen[a] = "none" /\ heard[a] = 0
    /\ seen[a] = "gone" => stage[a] \in Over
    /\ count[a] <= heard[a]
    /\ stage[a] \notin Early /\ seen[a] = "none" => ConnectWaits(a)
    /\ \A m \in Nat : count[a] < m /\ m <= heard[a] => MessageWaits(a, m)

EventInv == AtHome /\ ConnectFirst /\ CloseLast /\ MessagesInOrder /\ NothingLost

\* What a step that handles no event does.  It puts one in a queue at its end,
\* unless the event is about a send that failed: then it may put none.
Grows(b, k, n) ==
  \A w \in WorkThreads :
    /\ \A i \in 1..Len(events[w]) : i \in 1..Len(events'[w]) /\ events'[w][i] = events[w][i]
    /\ \A i \in 1..Len(events'[w]) :
         \/ i \in 1..Len(events[w])
         \/ /\ i = Len(events[w]) + 1 /\ events'[w][i] = <<b, k, n>>
            /\ k # "sendfail" => w = WorkThreadOf[fd[b]]
    /\ k # "sendfail" /\ w = WorkThreadOf[fd[b]] =>
         \E i \in 1..Len(events'[w]) : events'[w][i] = <<b, k, n>>

\* Connections go on, and only the event's own hears or leaves the early stages.
GoesOn(b, k) ==
  \A a \in Addrs :
    /\ stage[a] \notin Early => stage'[a] \notin Early
    /\ stage[a] \in Over => stage'[a] \in Over
    /\ stage[a] # "unused" => fd'[a] = fd[a] /\ WorkThreadOf[fd[a]] \in WorkThreads
    /\ stage[a] \in Early /\ stage'[a] \notin Early => k = "connect" /\ a = b
    /\ heard'[a] = heard[a] \/ (k = "message" /\ a = b)

\* The event is the next one of its connection.
ComesNext(b, k, n) ==
  /\ k # "sendfail" =>
       b \in Addrs /\ stage[b] \notin Over \cup {"unused"} /\ stage'[b] \notin Early
  /\ k = "connect" => stage[b] \in Early /\ n = 0
  /\ k = "close" => stage'[b] \in Over
  /\ k = "message" => stage[b] \notin Early /\ n = heard[b] + 1 /\ heard'[b] = n

\* PutMsgToQueue is such a step.
LEMMA PutPlaces ==
  ASSUME TypeOK, NEW b, NEW k, NEW n, Put(b, k, n)
  PROVE  Grows(b, k, n)
<1> SUFFICES ASSUME NEW w \in WorkThreads
             PROVE  /\ \A i \in 1..Len(events[w]) :
                         i \in 1..Len(events'[w]) /\ events'[w][i] = events[w][i]
                    /\ \A i \in 1..Len(events'[w]) :
                         \/ i \in 1..Len(events[w])
                         \/ /\ i = Len(events[w]) + 1 /\ events'[w][i] = <<b, k, n>>
                            /\ w = WorkThreadOf[fd[b]]
                    /\ w = WorkThreadOf[fd[b]] =>
                         \E i \in 1..Len(events'[w]) : events'[w][i] = <<b, k, n>>
  BY DEF Grows
<1> DEFINE e == <<b, k, n>>
           q == events[w]
<1>1. q \in Seq(Addrs \X Kinds \X (0..MaxMsgs))
  BY DEF TypeOK
<1>2. events'[w] = IF w = WorkThreadOf[fd[b]] THEN Append(q, e) ELSE q
  BY DEF Put, TypeOK
<1> HIDE DEF e, q
<1>3. /\ Len(q) \in Nat /\ Len(Append(q, e)) = Len(q) + 1 /\ Append(q, e)[Len(q) + 1] = e
      /\ \A i \in 1..Len(q) : Append(q, e)[i] = q[i]
  BY <1>1
<1>4. CASE w # WorkThreadOf[fd[b]]
  BY <1>2, <1>4 DEF q
<1>5. CASE w = WorkThreadOf[fd[b]]
  <2>1. events'[w] = Append(q, e)
    BY <1>2, <1>5
  <2>2. /\ \A i \in 1..Len(q) : i \in 1..Len(events'[w]) /\ events'[w][i] = q[i]
        /\ \A i \in 1..Len(events'[w]) :
             i \in 1..Len(q) \/ (i = Len(q) + 1 /\ events'[w][i] = e)
        /\ \E i \in 1..Len(events'[w]) : events'[w][i] = e
    BY <1>3, <2>1
  <2> QED
    BY <1>5, <2>2 DEF e, q
<1> QED
  BY <1>4, <1>5

\* A connection goes through its stages in their order and keeps its descriptor.
LEMMA StageMoves ==
  ASSUME TypeOK, InfoListed, TodoPolled, [Next]_vars, NEW a \in Addrs
  PROVE  /\ stage[a] \notin Early => stage'[a] \notin Early
         /\ stage[a] \in Over => stage'[a] \in Over
         /\ stage[a] # "unused" => fd'[a] = fd[a]
         /\ stage[a] \in Early /\ stage'[a] \notin Early => Announce(a)
<1> DEFINE Moves == /\ stage[a] \notin Early => stage'[a] \notin Early
                    /\ stage[a] \in Over => stage'[a] \in Over
                    /\ stage[a] # "unused" => fd'[a] = fd[a]
                    /\ stage[a] \in Early /\ stage'[a] \notin Early => Announce(a)
<1> USE DEF Early, Over
<1>1. ASSUME NEW b \in Addrs, NEW f \in Fds, Accept(b, f) PROVE Moves
  BY <1>1 DEF Accept, TypeOK
<1>2. ASSUME NEW b \in Addrs, EnterMap(b) \/ HandOver(b) \/ AnnounceClose(b) PROVE Moves
  BY <1>2 DEF EnterMap, HandOver, MayHandOver, AnnounceClose, TypeOK
<1>3. ASSUME NEW b \in Addrs, Announce(b) PROVE Moves
  <2>1. stage[b] = "mapped" /\ stage' = [stage EXCEPT ![b] = "announced"] /\ fd' = fd
    BY <1>3 DEF Announce
  <2>2. b # a => stage'[a] = stage[a]
    BY <2>1 DEF TypeOK
  <2>3. b = a => stage[a] = "mapped" /\ Announce(a)
    BY <1>3, <2>1
  <2> QED
    BY <2>1, <2>2, <2>3
<1>4. ASSUME NEW t \in ReadThreads, NEW b \in Addrs, Sweep(t, b) PROVE Moves
  <2>1. stage[b] = "polled" /\ fd' = fd
    BY <1>4 DEF Sweep, TodoPolled
  <2>2. stage' = stage \/ stage' = [stage EXCEPT ![b] = "erased"]
    BY <1>4 DEF Sweep
  <2> QED
    BY <2>1, <2>2 DEF TypeOK
<1>5. ASSUME NEW t \in ReadThreads, StartPass(t) PROVE Moves
  <2>1. \/ stage'[a] = stage[a]
        \/ stage[a] = "dying" /\ stage'[a] = "freed"
        \/ stage[a] = "listed" /\ stage'[a] = "polled"
    <3> DEFINE taken == IF info[t] = <<>> THEN {} ELSE {Head(info[t])}
    <3>1. stage'[a] = IF a \in Due(t) THEN "freed"
                      ELSE IF a \in taken THEN "polled" ELSE stage[a]
      BY <1>5 DEF StartPass
    <3>2. a \in taken => stage[a] = "listed"
      BY DEF InfoListed, TypeOK
    <3>3. a \in Due(t) => stage[a] = "dying"
      BY DEF Due, At
    <3> HIDE DEF taken
    <3> QED
      BY <3>1, <3>2, <3>3
  <2>2. fd' = fd
    BY <1>5 DEF StartPass
  <2> QED
    BY <2>1, <2>2
<1>6. ASSUME UNCHANGED <<stage, fd>> PROVE Moves
  BY <1>6
<1> HIDE DEF Moves
<1>7. Moves
  BY <1>1, <1>2, <1>3, <1>4, <1>5, <1>6
  DEF Next, vars, tvars, Reader, Listener, Sender, SendMsg, EndPass, Read, Handle, PopSend,
      FinishSend
<1> QED
  BY <1>7 DEF Moves

\* A step that handles no event puts one in a queue, <<b, k, n>>, or none.
LEMMA GrownStep ==
  ASSUME TypeOK, EventInv, TypeOK', UNCHANGED <<seen, count>>,
         NEW b, NEW k \in Kinds, NEW n,
         Grows(b, k, n), GoesOn(b, k), ComesNext(b, k, n)
  PROVE  EventInv'
<1> USE DEF Kinds, Grows, GoesOn, ComesNext
<1> USE DEF EventInv
<1>1. \A w \in WorkThreads : Len(events[w]) \in Nat /\ Len(events'[w]) \in Nat
  BY DEF TypeOK
<1>2. \A a \in Addrs : heard[a] \in Nat /\ heard'[a] \in Nat /\ count[a] \in Nat
                       /\ count[a] <= heard[a] /\ heard[a] <= heard'[a]
  BY TransportAssumption DEF TypeOK, NothingLost
<1>3. ASSUME NEW w \in WorkThreads, NEW i \in 1..Len(events'[w]), NEW a \in Addrs, About(w, i, a)'
      PROVE  \/ i \in 1..Len(events[w]) /\ About(w, i, a) /\ events'[w][i] = events[w][i]
             \/ /\ i = Len(events[w]) + 1 /\ a = b /\ k # "sendfail"
                /\ w = WorkThreadOf[fd[b]] /\ events'[w][i] = <<b, k, n>>
  BY <1>3 DEF About
<1>4. AtHome'
  <2> SUFFICES ASSUME NEW w \in WorkThreads, NEW i \in 1..Len(events'[w]), NEW a \in Addrs,
                      About(w, i, a)'
               PROVE  stage'[a] \notin Early /\ WorkThreadOf[fd'[a]] = w /\ seen[a] # "gone"
    BY DEF AtHome
  <2>1. CASE i \in 1..Len(events[w]) /\ About(w, i, a)
    <3>1. stage[a] \notin Early /\ WorkThreadOf[fd[a]] = w /\ seen[a] # "gone"
      BY <2>1 DEF AtHome
    <3> QED
      BY <3>1 DEF Early
  <2>2. CASE a = b /\ k # "sendfail" /\ w = WorkThreadOf[fd[b]]
    BY <2>2 DEF NothingLost
  <2> QED
    BY <1>3, <2>1, <2>2
<1>5. ConnectFirst'
  <2> SUFFICES ASSUME NEW w \in WorkThreads, NEW i \in 1..Len(events'[w]), NEW a \in Addrs,
                      About(w, i, a)', events'[w][i][2] = "connect"
               PROVE  /\ seen[a] = "none"
                      /\ \A l \in 1..Len(events'[w]) : About(w, l, a)' => i <= l
    BY DEF ConnectFirst
  <2>1. CASE i \in 1..Len(events[w]) /\ About(w, i, a) /\ events'[w][i] = events[w][i]
    <3>1. /\ seen[a] = "none"
          /\ \A l \in 1..Len(events[w]) : About(w, l, a) => i <= l
      BY <2>1 DEF ConnectFirst
    <3>2. ASSUME NEW l \in 1..Len(events'[w]), About(w, l, a)' PROVE i <= l
      BY <1>1, <1>3, <2>1, <3>1, <3>2
    <3> QED
      BY <3>1, <3>2
  <2>2. CASE a = b /\ k # "sendfail" /\ i = Len(events[w]) + 1 /\ events'[w][i] = <<b, k, n>>
    <3>1. stage[a] \in Early
      BY <2>2
    <3>2. \A l \in 1..Len(events[w]) : ~About(w, l, a)
      BY <3>1 DEF AtHome
    <3>3. \A l \in 1..Len(events'[w]) : About(w, l, a)' => l = i
      BY <1>3, <2>2, <3>2
    <3>4. seen[a] = "none"
      BY <3>1 DEF NothingLost
    <3> QED
      BY <1>1, <3>3, <3>4
  <2> QED
    BY <1>3, <2>1, <2>2
<1>6. CloseLast'
  <2> SUFFICES ASSUME NEW w \in WorkThreads, NEW i \in 1..Len(events'[w]), NEW a \in Addrs,
                      About(w, i, a)', events'[w][i][2] = "close"
               PROVE  /\ stage'[a] \in Over
                      /\ \A l \in 1..Len(events'[w]) : About(w, l, a)' => l <= i
    BY DEF CloseLast
  <2>1. CASE i \in 1..Len(events[w]) /\ About(w, i, a) /\ events'[w][i] = events[w][i]
    <3>1. /\ stage[a] \in Over
          /\ \A l \in 1..Len(events[w]) : About(w, l, a) => l <= i
      BY <2>1 DEF CloseLast
    <3>2. ASSUME NEW l \in 1..Len(events'[w]), About(w, l, a)' PROVE l <= i
      BY <1>3, <2>1, <3>1, <3>2
    <3> QED
      BY <3>1, <3>2
  <2>2. CASE a = b /\ k # "sendfail" /\ i = Len(events[w]) + 1 /\ events'[w][i] = <<b, k, n>>
    <3>1. ASSUME NEW l \in 1..Len(events'[w]), About(w, l, a)' PROVE l <= i
      BY <1>1, <1>3, <2>2, <3>1
    <3> QED
      BY <2>2, <3>1
  <2> QED
    BY <1>3, <2>1, <2>2
<1>7. MessagesInOrder'
  <2> SUFFICES ASSUME NEW w \in WorkThreads, NEW i \in 1..Len(events'[w]), NEW a \in Addrs,
                      About(w, i, a)', events'[w][i][2] = "message"
               PROVE  /\ count[a] < events'[w][i][3] /\ events'[w][i][3] <= heard'[a]
                      /\ \A l \in 1..Len(events'[w]) :
                           About(w, l, a)' /\ events'[w][l][2] = "message" /\ i < l =>
                             events'[w][i][3] < events'[w][l][3]
    BY DEF MessagesInOrder
  <2>0. events'[w][i][3] \in Nat
    <3>1. events'[w][i] \in Addrs \X Kinds \X (0..MaxMsgs)
      BY DEF TypeOK
    <3> QED
      BY <3>1, TransportAssumption
  <2>1. CASE i \in 1..Len(events[w]) /\ About(w, i, a) /\ events'[w][i] = events[w][i]
    <3>1. /\ count[a] < events[w][i][3] /\ events[w][i][3] <= heard[a]
          /\ \A l \in 1..Len(events[w]) :
               About(w, l, a) /\ events[w][l][2] = "message" /\ i < l =>
                 events[w][i][3] < events[w][l][3]
      BY <2>1 DEF MessagesInOrder
    <3>2. ASSUME NEW l \in 1..Len(events'[w]), About(w, l, a)', events'[w][l][2] = "message",
                 i < l
          PROVE  events'[w][i][3] < events'[w][l][3]
      <4>1. CASE l \in 1..Len(events[w]) /\ About(w, l, a) /\ events'[w][l] = events[w][l]
        <5>1. events[w][i][3] < events[w][l][3]
          BY <3>1, <3>2, <4>1
        <5> QED
          BY <2>1, <4>1, <5>1
      <4>2. CASE a = b /\ k # "sendfail" /\ events'[w][l] = <<b, k, n>>
        <5>1. k = "message" /\ events'[w][l][3] = n
          BY <3>2, <4>2
        <5>2. n = heard[a] + 1 /\ heard[a] \in Nat
          BY <1>2, <4>2, <5>1
        <5>3. events'[w][i][3] <= heard[a]
          BY <2>1, <3>1
        <5> QED
          BY <2>0, <5>1, <5>2, <5>3
      <4> QED
        BY <1>3, <3>2, <4>1, <4>2
    <3> QED
      BY <1>2, <2>0, <2>1, <3>1, <3>2
  <2>2. CASE a = b /\ k # "sendfail" /\ i = Len(events[w]) + 1 /\ events'[w][i] = <<b, k, n>>
    <3>1. \A l \in 1..Len(events'[w]) : l <= i
      BY <1>1, <2>2
    <3> QED
      BY <1>1, <1>2, <2>2, <3>1
  <2> QED
    BY <1>3, <2>1, <2>2
<1>8. NothingLost'
  <2> SUFFICES ASSUME NEW a \in Addrs
               PROVE  /\ stage'[a] \in Early => seen[a] = "none" /\ heard'[a] = 0
                      /\ seen[a] = "gone" => stage'[a] \in Over
                      /\ count[a] <= heard'[a]
                      /\ stage'[a] \notin Early /\ seen[a] = "none" => ConnectWaits(a)'
                      /\ \A m \in Nat : count[a] < m /\ m <= heard'[a] => MessageWaits(a, m)'
    BY DEF NothingLost
  <2>1. stage'[a] \in Early => seen[a] = "none" /\ heard'[a] = 0
    BY DEF NothingLost
  <2>2. (seen[a] = "gone" => stage'[a] \in Over) /\ count[a] <= heard'[a]
    BY <1>2 DEF NothingLost
  <2>3. ASSUME stage'[a] \notin Early, seen[a] = "none" PROVE ConnectWaits(a)'
    <3>1. CASE stage[a] \notin Early
      <4>1. fd'[a] = fd[a] /\ WorkThreadOf[fd[a]] \in WorkThreads
        BY <3>1 DEF Early
      <4>2. PICK i \in 1..Len(events[WorkThreadOf[fd[a]]]) :
              events[WorkThreadOf[fd[a]]][i] = <<a, "connect", 0>>
        BY <2>3, <3>1 DEF NothingLost, ConnectWaits
      <4>3. i \in 1..Len(events'[WorkThreadOf[fd[a]]])
            /\ events'[WorkThreadOf[fd[a]]][i] = events[WorkThreadOf[fd[a]]][i]
        BY <4>1, <4>2
      <4> QED
        BY <4>1, <4>2, <4>3 DEF ConnectWaits
    <3>2. CASE stage[a] \in Early
      <4>1. k = "connect" /\ a = b /\ n = 0 /\ stage[a] # "unused"
        BY <2>3, <3>2
      <4>2. fd'[a] = fd[a] /\ WorkThreadOf[fd[a]] \in WorkThreads
        BY <4>1
      <4>3. PICK i \in 1..Len(events'[WorkThreadOf[fd[a]]]) :
              events'[WorkThreadOf[fd[a]]][i] = <<a, "connect", 0>>
        BY <4>1, <4>2
      <4> QED
        BY <4>2, <4>3 DEF ConnectWaits
    <3> QED
      BY <3>1, <3>2
  <2>4. ASSUME NEW m \in Nat, count[a] < m, m <= heard'[a] PROVE MessageWaits(a, m)'
    <3>1. CASE m <= heard[a]
      <4>1. stage[a] \notin Early
        BY <1>2, <2>4, <3>1 DEF NothingLost
      <4>2. fd'[a] = fd[a] /\ WorkThreadOf[fd[a]] \in WorkThreads
        BY <4>1 DEF Early
      <4>3. MessageWaits(a, m)
        BY <2>4, <3>1 DEF NothingLost
      <4>4. PICK i \in 1..Len(events[WorkThreadOf[fd[a]]]) :
              events[WorkThreadOf[fd[a]]][i] = <<a, "message", m>>
        BY <4>3 DEF MessageWaits
      <4>5. i \in 1..Len(events'[WorkThreadOf[fd[a]]])
            /\ events'[WorkThreadOf[fd[a]]][i] = events[WorkThreadOf[fd[a]]][i]
        BY <4>2, <4>4
      <4> QED
        BY <4>2, <4>4, <4>5 DEF MessageWaits
    <3>2. CASE ~(m <= heard[a])
      <4>1. heard'[a] # heard[a]
        BY <1>2, <2>4, <3>2
      <4>2. k = "message" /\ a = b
        BY <4>1
      <4>3. m = n /\ stage[a] # "unused"
        BY <1>2, <2>4, <3>2, <4>2
      <4>4. fd'[a] = fd[a] /\ WorkThreadOf[fd[a]] \in WorkThreads
        BY <4>3
      <4>5. PICK i \in 1..Len(events'[WorkThreadOf[fd[a]]]) :
              events'[WorkThreadOf[fd[a]]][i] = <<a, "message", m>>
        BY <4>2, <4>3, <4>4
      <4> QED
        BY <4>4, <4>5 DEF MessageWaits
    <3> QED
      BY <3>1, <3>2
  <2> QED
    BY <2>1, <2>2, <2>3, <2>4
<1> QED
  BY <1>4, <1>5, <1>6, <1>7, <1>8

\* The event a work thread takes is the first of its queue; the others move up a
\* place.
LEMMA TakePlaces ==
  ASSUME TypeOK, NEW w \in WorkThreads, Handle(w)
  PROVE  /\ 1 \in 1..Len(events[w]) /\ Head(events[w]) = events[w][1]
         /\ events[w][1] \in Addrs \X Kinds \X (0..MaxMsgs)
         /\ \A v \in WorkThreads : v # w => events'[v] = events[v]
         /\ \A i \in 1..Len(events'[w]) :
              i + 1 \in 1..Len(events[w]) /\ events'[w][i] = events[w][i + 1]
         /\ \A i \in 1..Len(events[w]) :
              i # 1 => i - 1 \in 1..Len(events'[w]) /\ events'[w][i - 1] = events[w][i]
<1> DEFINE q == events[w]
           E == Addrs \X Kinds \X (0..MaxMsgs)
<1>1. q \in Seq(E) /\ q # <<>> /\ events' = [events EXCEPT ![w] = Tail(@)]
  BY DEF TypeOK, Handle
<1>2. events'[w] = Tail(q) /\ \A v \in WorkThreads : v # w => events'[v] = events[v]
  BY <1>1 DEF TypeOK
<1> HIDE DEF q, E
<1>3. /\ Len(q) \in Nat /\ 1 \in 1..Len(q) /\ Head(q) = q[1] /\ q[1] \in E
      /\ Len(Tail(q)) = Len(q) - 1
      /\ \A i \in 1..Len(Tail(q)) : i + 1 \in 1..Len(q) /\ Tail(q)[i] = q[i + 1]
  BY <1>1
<1>4. \A i \in 1..Len(q) : i # 1 => i - 1 \in 1..Len(Tail(q)) /\ Tail(q)[i - 1] = q[i]
  <2> SUFFICES ASSUME NEW i \in 1..Len(q), i # 1
               PROVE  i - 1 \in 1..Len(Tail(q)) /\ Tail(q)[i - 1] = q[i]
    OBVIOUS
  <2>1. i - 1 \in 1..Len(Tail(q)) /\ (i - 1) + 1 = i
    BY <1>3
  <2> QED
    BY <1>3, <2>1
<1> QED
  BY <1>2, <1>3, <1>4 DEF q, E

\* What the module has seen of a connection whose event it takes: it is new to it
\* when it is the connect event, it is live otherwise, and a message is the next.
LEMMA HeadIsNext ==
  ASSUME TypeOK, EventInv, NEW w \in WorkThreads, Handle(w)
  PROVE  LET a == events[w][1][1]
             kind == events[w][1][2]
             n == events[w][1][3]
         IN  /\ a \in Addrs
             /\ kind = "connect" => seen[a] = "none"
             /\ kind = "message" => seen[a] = "live" /\ n = count[a] + 1
             /\ kind = "close" => seen[a] = "live"
<1> DEFINE a == events[w][1][1]
           kind == events[w][1][2]
           n == events[w][1][3]
<1>1. /\ 1 \in 1..Len(events[w]) /\ a \in Addrs /\ kind \in Kinds /\ n \in 0..MaxMsgs
      /\ Len(events[w]) \in Nat /\ events[w][1] = <<a, kind, n>>
  BY TakePlaces DEF TypeOK
<1>2. kind # "sendfail" => About(w, 1, a)
  BY DEF About
<1> HIDE DEF a, kind, n
<1>3. ASSUME kind = "connect" PROVE seen[a] = "none"
  BY <1>1, <1>2, <1>3 DEF EventInv, ConnectFirst, kind
<1>4. ASSUME kind \in {"message", "close"} PROVE seen[a] = "live" /\ WorkThreadOf[fd[a]] = w
  <2>1. stage[a] \notin Early /\ WorkThreadOf[fd[a]] = w /\ seen[a] # "gone"
    BY <1>1, <1>2, <1>4 DEF EventInv, AtHome
  <2>2. ASSUME seen[a] = "none" PROVE FALSE
    <3>1. PICK i \in 1..Len(events[w]) : events[w][i] = <<a, "connect", 0>>
      BY <1>1, <2>1, <2>2 DEF EventInv, NothingLost, ConnectWaits
    <3>2. About(w, i, a) /\ events[w][i][2] = "connect"
      BY <3>1 DEF About
    <3>3. i <= 1
      BY <1>1, <1>2, <1>4, <3>2 DEF EventInv, ConnectFirst
    <3> QED
      BY <1>1, <1>4, <3>1, <3>3
  <2> QED
    BY <1>1, <2>1, <2>2 DEF TypeOK
<1>5. ASSUME kind = "message" PROVE n = count[a] + 1
  <2>1. /\ count[a] < n /\ n <= heard[a]
        /\ \A i \in 1..Len(events[w]) :
             About(w, i, a) /\ events[w][i][2] = "message" /\ 1 < i => n < events[w][i][3]
    BY <1>1, <1>2, <1>5 DEF EventInv, MessagesInOrder, kind, n
  <2>2. count[a] \in Nat /\ heard[a] \in Nat /\ n \in Nat
    BY <1>1, TransportAssumption DEF TypeOK
  <2>3. ASSUME n # count[a] + 1 PROVE FALSE
    <3>1. count[a] + 1 < n /\ count[a] + 1 <= heard[a] /\ count[a] + 1 \in Nat
      BY <2>1, <2>2, <2>3
    <3>2. MessageWaits(a, count[a] + 1)
      BY <1>1, <2>2, <3>1 DEF EventInv, NothingLost
    <3>3. PICK i \in 1..Len(events[w]) : events[w][i] = <<a, "message", count[a] + 1>>
      BY <1>4, <1>5, <3>2 DEF MessageWaits
    <3>4. i # 1
      BY <1>1, <3>1, <3>3
    <3>5. About(w, i, a) /\ events[w][i][2] = "message" /\ events[w][i][3] = count[a] + 1
      BY <3>3 DEF About
    <3>6. 1 < i
      BY <1>1, <3>4
    <3>7. n < count[a] + 1
      BY <2>1, <3>5, <3>6
    <3> QED
      BY <2>2, <3>1, <3>7
  <2> QED
    BY <2>3
<1> QED
  BY <1>1, <1>3, <1>4, <1>5 DEF a, kind, n

\* What the module has seen changes with the event that is taken.
LEMMA HandledStep ==
  ASSUME TypeOK, NEW w \in WorkThreads, Handle(w)
  PROVE  LET h == events[w][1]
         IN  /\ UNCHANGED <<stage, fd, heard>>
             /\ \A a \in Addrs :
                  /\ seen'[a] = IF a = h[1] /\ h[2] = "connect" THEN "live"
                                ELSE IF a = h[1] /\ h[2] = "close" THEN "gone" ELSE seen[a]
                  /\ count'[a] = IF a = h[1] /\ h[2] = "message" THEN h[3] ELSE count[a]
<1>1. Head(events[w]) = events[w][1] /\ events[w][1] \in Addrs \X Kinds \X (0..MaxMsgs)
  BY TakePlaces
<1> DEFINE h == events[w][1]
<1>2. /\ seen' = IF h[2] = "connect" THEN [seen EXCEPT ![h[1]] = "live"]
                 ELSE IF h[2] = "close" THEN [seen EXCEPT ![h[1]] = "gone"] ELSE seen
      /\ count' = IF h[2] = "message" THEN [count EXCEPT ![h[1]] = h[3]] ELSE count
      /\ UNCHANGED <<stage, fd, heard>>
  BY <1>1 DEF Handle, tvars
<1> HIDE DEF h
<1>3. \A a \in Addrs :
        /\ seen'[a] = IF a = h[1] /\ h[2] = "connect" THEN "live"
                      ELSE IF a = h[1] /\ h[2] = "close" THEN "gone" ELSE seen[a]
        /\ count'[a] = IF a = h[1] /\ h[2] = "message" THEN h[3] ELSE count[a]
  BY <1>2 DEF TypeOK
<1> QED
  BY <1>2, <1>3 DEF h

\* The events that stay in the queues are still in order.
LEMMA TakenStep ==
  ASSUME TypeOK, EventInv, NEW w \in WorkThreads, Handle(w),
         \A a \in Addrs : stage[a] # "unused" => WorkThreadOf[fd[a]] \in WorkThreads
  PROVE  EventInv'
<1> USE DEF EventInv
<1> DEFINE h == events[w][1]
<1>0. /\ 1 \in 1..Len(events[w]) /\ h \in Addrs \X Kinds \X (0..MaxMsgs)
      /\ \A v \in WorkThreads : Len(events[v]) \in Nat
  BY TakePlaces DEF TypeOK
<1>1. /\ stage' = stage /\ fd' = fd /\ heard' = heard
      /\ \A a \in Addrs :
           /\ seen'[a] = IF a = h[1] /\ h[2] = "connect" THEN "live"
                         ELSE IF a = h[1] /\ h[2] = "close" THEN "gone" ELSE seen[a]
           /\ count'[a] = IF a = h[1] /\ h[2] = "message" THEN h[3] ELSE count[a]
  BY HandledStep
<1>2. \A a \in Addrs : a = h[1] /\ h[2] # "sendfail" =>
        About(w, 1, a) /\ WorkThreadOf[fd[a]] = w /\ stage[a] \notin Early
  BY <1>0 DEF About, AtHome
<1> DEFINE Before(v, i) == IF v = w THEN i + 1 ELSE i
<1>3. \A v \in WorkThreads : \A i \in 1..Len(events'[v]) :
        /\ i \in Nat /\ Before(v, i) \in 1..Len(events[v])
        /\ events'[v][i] = events[v][Before(v, i)]
        /\ v = w => 1 < Before(v, i)
        /\ \A k \in 1..Len(events'[v]) :
             /\ i < k => Before(v, i) < Before(v, k)
             /\ Before(v, i) <= Before(v, k) => i <= k
  <2>1. \A i \in 1..Len(events'[w]) :
          i + 1 \in 1..Len(events[w]) /\ events'[w][i] = events[w][i + 1]
    BY TakePlaces
  <2>2. \A v \in WorkThreads : v # w => events'[v] = events[v]
    BY TakePlaces
  <2> SUFFICES ASSUME NEW v \in WorkThreads, NEW i \in 1..Len(events'[v])
               PROVE  /\ i \in Nat /\ Before(v, i) \in 1..Len(events[v])
                      /\ events'[v][i] = events[v][Before(v, i)]
                      /\ v = w => 1 < Before(v, i)
                      /\ \A k \in 1..Len(events'[v]) :
                           /\ i < k => Before(v, i) < Before(v, k)
                           /\ Before(v, i) <= Before(v, k) => i <= k
    OBVIOUS
  <2>3. CASE v = w
    BY <2>1, <2>3
  <2>4. CASE v # w
    BY <2>2, <2>4
  <2> QED
    BY <2>3, <2>4
<1>4. \A v \in WorkThreads : \A i \in 1..Len(events'[v]) : \A a \in Addrs :
        About(v, i, a)' => About(v, Before(v, i), a)
  BY <1>3 DEF About
<1>5. \A v \in WorkThreads : \A i \in 1..Len(events[v]) :
        \/ v = w /\ i = 1
        \/ \E k \in 1..Len(events'[v]) : events'[v][k] = events[v][i]
  BY TakePlaces
<1> HIDE DEF h, Before
<1>6. AtHome'
  <2> SUFFICES ASSUME NEW v \in WorkThreads, NEW i \in 1..Len(events'[v]), NEW a \in Addrs,
                      About(v, i, a)'
               PROVE  stage[a] \notin Early /\ WorkThreadOf[fd[a]] = v /\ seen'[a] # "gone"
    BY <1>1 DEF AtHome
  <2>1. About(v, Before(v, i), a) /\ Before(v, i) \in 1..Len(events[v])
    BY <1>3, <1>4
  <2>2. stage[a] \notin Early /\ WorkThreadOf[fd[a]] = v /\ seen[a] # "gone"
    BY <2>1 DEF AtHome
  <2>3. ASSUME a = h[1], h[2] = "close" PROVE FALSE
    <3>1. About(w, 1, a) /\ v = w
      BY <1>2, <2>2, <2>3
    <3>2. Before(w, i) <= 1
      BY <1>0, <2>1, <2>3, <3>1 DEF CloseLast, h
    <3> QED
      BY <1>0, <1>3, <2>1, <3>1, <3>2
  <2> QED
    BY <1>1, <2>2, <2>3
<1>7. ConnectFirst'
  <2> SUFFICES ASSUME NEW v \in WorkThreads, NEW i \in 1..Len(events'[v]), NEW a \in Addrs,
                      About(v, i, a)', events'[v][i][2] = "connect"
               PROVE  /\ seen'[a] = "none"
                      /\ \A k \in 1..Len(events'[v]) : About(v, k, a)' => i <= k
    BY DEF ConnectFirst
  <2>1. /\ About(v, Before(v, i), a) /\ Before(v, i) \in 1..Len(events[v])
        /\ events[v][Before(v, i)][2] = "connect"
    BY <1>3, <1>4
  <2>2. /\ seen[a] = "none"
        /\ \A k \in 1..Len(events[v]) : About(v, k, a) => Before(v, i) <= k
    BY <2>1 DEF ConnectFirst
  <2>3. ASSUME a = h[1], h[2] # "sendfail" PROVE FALSE
    <3>1. About(w, 1, a) /\ v = w
      BY <1>2, <2>1, <2>3 DEF AtHome
    <3>2. Before(w, i) <= 1
      BY <1>0, <2>2, <3>1
    <3> QED
      BY <1>0, <1>3, <2>1, <3>1, <3>2
  <2>4. \A k \in 1..Len(events'[v]) : About(v, k, a)' => i <= k
    BY <1>3, <1>4, <2>2
  <2> QED
    BY <1>1, <2>2, <2>3, <2>4
<1>8. CloseLast'
  <2> SUFFICES ASSUME NEW v \in WorkThreads, NEW i \in 1..Len(events'[v]), NEW a \in Addrs,
                      About(v, i, a)', events'[v][i][2] = "close"
               PROVE  /\ stage[a] \in Over
                      /\ \A k \in 1..Len(events'[v]) : About(v, k, a)' => k <= i
    BY <1>1 DEF CloseLast
  <2>1. /\ About(v, Before(v, i), a) /\ Before(v, i) \in 1..Len(events[v])
        /\ events[v][Before(v, i)][2] = "close"
    BY <1>3, <1>4
  <2>2. /\ stage[a] \in Over
        /\ \A k \in 1..Len(events[v]) : About(v, k, a) => k <= Before(v, i)
    BY <2>1 DEF CloseLast
  <2>3. \A k \in 1..Len(events'[v]) : About(v, k, a)' => k <= i
    BY <1>3, <1>4, <2>2
  <2> QED
    BY <2>2, <2>3
<1>9. MessagesInOrder'
  <2> SUFFICES ASSUME NEW v \in WorkThreads, NEW i \in 1..Len(events'[v]), NEW a \in Addrs,
                      About(v, i, a)', events'[v][i][2] = "message"
               PROVE  /\ count'[a] < events'[v][i][3] /\ events'[v][i][3] <= heard[a]
                      /\ \A k \in 1..Len(events'[v]) :
                           About(v, k, a)' /\ events'[v][k][2] = "message" /\ i < k =>
                             events'[v][i][3] < events'[v][k][3]
    BY <1>1 DEF MessagesInOrder
  <2>1. /\ About(v, Before(v, i), a) /\ Before(v, i) \in 1..Len(events[v])
        /\ events[v][Before(v, i)][2] = "message"
        /\ events'[v][i] = events[v][Before(v, i)]
    BY <1>3, <1>4
  <2>2. /\ count[a] < events'[v][i][3] /\ events'[v][i][3] <= heard[a]
        /\ \A k \in 1..Len(events[v]) :
             About(v, k, a) /\ events[v][k][2] = "message" /\ Before(v, i) < k =>
               events'[v][i][3] < events[v][k][3]
    BY <2>1 DEF MessagesInOrder
  <2>3. ASSUME a = h[1], h[2] = "message" PROVE h[3] < events'[v][i][3]
    <3>1. About(w, 1, a) /\ v = w
      BY <1>2, <2>1, <2>3 DEF AtHome
    <3>2. 1 < Before(w, i)
      BY <1>3, <3>1
    <3>3. \A k \in 1..Len(events[w]) :
            About(w, k, a) /\ events[w][k][2] = "message" /\ 1 < k => h[3] < events[w][k][3]
      BY <1>0, <2>3, <3>1 DEF MessagesInOrder, h
    <3>4. h[3] < events[w][Before(w, i)][3]
      <4> DEFINE k == Before(w, i)
      <4>1. k \in 1..Len(events[w]) /\ About(w, k, a) /\ events[w][k][2] = "message" /\ 1 < k
        BY <2>1, <3>1, <3>2
      <4> HIDE DEF k
      <4>2. h[3] < events[w][k][3]
        BY <3>3, <4>1
      <4> QED
        BY <4>2 DEF k
    <3> QED
      BY <2>1, <3>1, <3>4
  <2>4. \A k \in 1..Len(events'[v]) :
          About(v, k, a)' /\ events'[v][k][2] = "message" /\ i < k =>
            events'[v][i][3] < events'[v][k][3]
    BY <1>3, <1>4, <2>2
  <2> QED
    BY <1>1, <2>2, <2>3, <2>4
<1>10. NothingLost'
  <2> SUFFICES ASSUME NEW a \in Addrs
               PROVE  /\ stage[a] \in Early => seen'[a] = "none" /\ heard[a] = 0
                      /\ seen'[a] = "gone" => stage[a] \in Over
                      /\ count'[a] <= heard[a]
                      /\ stage[a] \notin Early /\ seen'[a] = "none" => ConnectWaits(a)'
                      /\ \A m \in Nat : count'[a] < m /\ m <= heard[a] => MessageWaits(a, m)'
    BY <1>1 DEF NothingLost
  <2>1. stage[a] \in Early => seen'[a] = "none" /\ heard[a] = 0
    BY <1>1, <1>2 DEF NothingLost
  <2>2. seen'[a] = "gone" => stage[a] \in Over
    BY <1>0, <1>1, <1>2 DEF NothingLost, CloseLast, h
  <2>3. count'[a] <= heard[a]
    <3>1. a = h[1] /\ h[2] = "message" => h[3] <= heard[a]
      BY <1>0, <1>2 DEF MessagesInOrder, h
    <3>2. count[a] <= heard[a]
      BY DEF NothingLost
    <3> QED
      BY <1>1, <3>1, <3>2
  <2>4. ASSUME stage[a] \notin Early, seen'[a] = "none" PROVE ConnectWaits(a)'
    <3>1. seen[a] = "none" /\ ~(a = h[1] /\ h[2] = "connect")
      BY <1>1, <2>4
    <3>2. PICK i \in 1..Len(events[WorkThreadOf[fd[a]]]) :
            events[WorkThreadOf[fd[a]]][i] = <<a, "connect", 0>>
      BY <2>4, <3>1 DEF NothingLost, ConnectWaits
    <3>3. ~(WorkThreadOf[fd[a]] = w /\ i = 1)
      BY <3>1, <3>2 DEF h
    <3>4. \E k \in 1..Len(events'[WorkThreadOf[fd[a]]]) :
            events'[WorkThreadOf[fd[a]]][k] = <<a, "connect", 0>>
      <4>1. WorkThreadOf[fd[a]] \in WorkThreads
        BY <2>4 DEF Early
      <4> QED
        BY <1>5, <3>2, <3>3, <4>1
    <3> QED
      BY <1>1, <3>4 DEF ConnectWaits
  <2>5. ASSUME NEW m \in Nat, count'[a] < m, m <= heard[a] PROVE MessageWaits(a, m)'
    <3>1. count[a] < m /\ ~(a = h[1] /\ h[2] = "message" /\ h[3] = m)
      <4>1. count[a] \in Nat /\ heard[a] \in Nat /\ h[3] \in Nat
        BY <1>0, TransportAssumption DEF TypeOK
      <4>2. a = h[1] /\ h[2] = "message" => count[a] < h[3]
        BY <1>0, <1>2 DEF MessagesInOrder, h
      <4> QED
        BY <1>1, <2>5, <4>1, <4>2
    <3>2. WorkThreadOf[fd[a]] \in WorkThreads
      <4>1. heard[a] # 0
        BY <2>5, <3>1, TransportAssumption DEF TypeOK
      <4> QED
        BY <4>1 DEF NothingLost, Early
    <3>3. PICK i \in 1..Len(events[WorkThreadOf[fd[a]]]) :
            events[WorkThreadOf[fd[a]]][i] = <<a, "message", m>>
      <4>1. MessageWaits(a, m)
        BY <2>5, <3>1 DEF NothingLost
      <4> QED
        BY <4>1 DEF MessageWaits
    <3>4. ~(WorkThreadOf[fd[a]] = w /\ i = 1)
      BY <3>1, <3>3 DEF h
    <3>5. \E k \in 1..Len(events'[WorkThreadOf[fd[a]]]) :
            events'[WorkThreadOf[fd[a]]][k] = <<a, "message", m>>
      BY <1>5, <3>2, <3>3, <3>4
    <3> QED
      BY <1>1, <3>5 DEF MessageWaits
  <2> QED
    BY <2>1, <2>2, <2>3, <2>4, <2>5
<1> QED
  BY <1>6, <1>7, <1>8, <1>9, <1>10

\* A connection's stages and its read thread keep to that.
LEMMA StagesGoOn ==
  ASSUME IInv, [Next]_vars, NEW b, NEW k, UNCHANGED heard,
         \A a \in Addrs : Announce(a) => k = "connect" /\ a = b
  PROVE  GoesOn(b, k)
<1> SUFFICES ASSUME NEW a \in Addrs
             PROVE  /\ stage[a] \notin Early => stage'[a] \notin Early
                    /\ stage[a] \in Over => stage'[a] \in Over
                    /\ stage[a] # "unused" => fd'[a] = fd[a] /\ WorkThreadOf[fd[a]] \in WorkThreads
                    /\ stage[a] \in Early /\ stage'[a] \notin Early => k = "connect" /\ a = b
                    /\ heard'[a] = heard[a]
  BY DEF GoesOn
<1>1. /\ stage[a] \notin Early => stage'[a] \notin Early
      /\ stage[a] \in Over => stage'[a] \in Over
      /\ stage[a] # "unused" => fd'[a] = fd[a]
      /\ stage[a] \in Early /\ stage'[a] \notin Early => Announce(a)
  BY StageMoves DEF IInv, Safe
<1>2. stage[a] # "unused" => WorkThreadOf[fd[a]] \in WorkThreads
  BY TransportAssumption DEF IInv, Safe, FdHeld
<1> QED
  BY <1>1, <1>2

\* The listener puts the connect event, ...
LEMMA NewConnect ==
  ASSUME IInv, EventInv, TypeOK', [Next]_vars, NEW b \in Addrs, Announce(b)
  PROVE  EventInv'
<1>1. /\ TypeOK /\ Put(b, "connect", 0) /\ stage[b] = "mapped"
      /\ UNCHANGED <<seen, count>> /\ heard' = heard /\ stage' = [stage EXCEPT ![b] = "announced"]
  BY DEF Announce, IInv
<1>2. ComesNext(b, "connect", 0)
  BY <1>1 DEF ComesNext, Early, Over, TypeOK
<1>3. GoesOn(b, "connect")
  <2>1. ASSUME NEW a \in Addrs, Announce(a) PROVE a = b
    BY <1>1, <2>1 DEF Announce, TypeOK
  <2> QED
    BY <1>1, <2>1, StagesGoOn
<1>4. Grows(b, "connect", 0)
  BY <1>1, PutPlaces
<1> QED
  BY <1>1, <1>2, <1>3, <1>4, GrownStep DEF Kinds

\* ... the read thread the close event ...
LEMMA NewClose ==
  ASSUME IInv, EventInv, TypeOK', [Next]_vars, NEW b \in Addrs, AnnounceClose(b)
  PROVE  EventInv'
<1>1. /\ TypeOK /\ Put(b, "close", 0) /\ stage[b] = "erased"
      /\ UNCHANGED <<seen, count>> /\ heard' = heard /\ stage' = [stage EXCEPT ![b] = "dying"]
  BY DEF AnnounceClose, IInv
<1>2. ComesNext(b, "close", 0)
  BY <1>1 DEF ComesNext, Early, Over, TypeOK
<1>3. GoesOn(b, "close")
  <2>1. ASSUME NEW a \in Addrs, Announce(a) PROVE FALSE
    BY <1>1, <2>1 DEF Announce, TypeOK
  <2> QED
    BY <1>1, <2>1, StagesGoOn
<1>4. Grows(b, "close", 0)
  BY <1>1, PutPlaces
<1> QED
  BY <1>1, <1>2, <1>3, <1>4, GrownStep DEF Kinds

\* ... and the messages, ...
LEMMA NewMessage ==
  ASSUME IInv, EventInv, TypeOK', [Next]_vars, NEW t \in ReadThreads, NEW b \in Addrs,
         Read(t, b), events' # events
  PROVE  EventInv'
<1> DEFINE n == heard[b] + 1
<1>1. /\ TypeOK /\ Put(b, "message", n) /\ stage[b] = "polled" /\ UNCHANGED <<seen, count, stage, fd>>
      /\ heard' = [heard EXCEPT ![b] = n]
  BY DEF Read, At, IInv
<1>2. ComesNext(b, "message", n)
  BY <1>1 DEF ComesNext, Early, Over, TypeOK
<1>3. GoesOn(b, "message")
  <2>1. \A a \in Addrs : stage[a] # "unused" => WorkThreadOf[fd[a]] \in WorkThreads
    BY TransportAssumption DEF IInv, Safe, FdHeld
  <2> QED
    BY <1>1, <2>1 DEF GoesOn, TypeOK
<1> HIDE DEF n
<1>4. Grows(b, "message", n)
  BY <1>1, PutPlaces
<1> QED
  BY <1>1, <1>2, <1>3, <1>4, GrownStep DEF Kinds

\* ... a send thread that a send failed, ...
LEMMA NewSendFail ==
  ASSUME IInv, EventInv, TypeOK', [Next]_vars, NEW s \in SendThreads,
         PopSend(s) \/ FinishSend(s)
  PROVE  EventInv'
<1>1. TypeOK /\ UNCHANGED <<seen, count, stage, fd, heard>>
  BY DEF PopSend, FinishSend, IInv
<1>2. PICK b : events' = events \/ Put(b, "sendfail", 0)
  BY DEF PopSend, FinishSend
<1>3. ComesNext(b, "sendfail", 0)
  BY DEF ComesNext
<1>4. GoesOn(b, "sendfail")
  <2>1. \A a \in Addrs : stage[a] # "unused" => WorkThreadOf[fd[a]] \in WorkThreads
    BY TransportAssumption DEF IInv, Safe, FdHeld
  <2> QED
    BY <1>1, <2>1 DEF GoesOn
<1>5. Grows(b, "sendfail", 0)
  <2>1. CASE events' = events
    BY <2>1 DEF Grows
  <2> QED
    BY <1>1, <1>2, <2>1, PutPlaces
<1> QED
  BY <1>1, <1>3, <1>4, <1>5, GrownStep DEF Kinds

\* ... and nothing else puts any.
LEMMA NoNewEvent ==
  ASSUME IInv, EventInv, TypeOK', [Next]_vars, UNCHANGED <<events, heard, seen, count>>,
         \A a \in Addrs : ~Announce(a)
  PROVE  EventInv'
<1>1. TypeOK
  BY DEF IInv
<1>2. ComesNext(None, "sendfail", 0)
  BY DEF ComesNext
<1>3. GoesOn(None, "sendfail")
  BY StagesGoOn
<1>4. Grows(None, "sendfail", 0)
  BY DEF Grows
<1> QED
  BY <1>1, <1>2, <1>3, <1>4, GrownStep DEF Kinds

LEMMA EventStep ==
  ASSUME IInv, EventInv, TypeOK', [Next]_vars
  PROVE  EventInv'
<1>1. ASSUME NEW b \in Addrs, Announce(b) PROVE EventInv'
  BY <1>1, NewConnect
<1>2. ASSUME NEW b \in Addrs, AnnounceClose(b) PROVE EventInv'
  BY <1>2, NewClose
<1>3. ASSUME NEW s \in SendThreads, PopSend(s) \/ FinishSend(s) PROVE EventInv'
  BY <1>3, NewSendFail
<1>4. ASSUME NEW w \in WorkThreads, Handle(w) PROVE EventInv'
  <2>1. \A a \in Addrs : stage[a] # "unused" => WorkThreadOf[fd[a]] \in WorkThreads
    BY TransportAssumption DEF IInv, Safe, FdHeld
  <2> QED
    BY <1>4, <2>1, TakenStep DEF IInv
<1>5. ASSUME UNCHANGED <<events, heard, seen, count>> PROVE EventInv'
  BY <1>1, <1>5, NoNewEvent
<1>6. ASSUME NEW t \in ReadThreads, NEW b \in Addrs, Read(t, b) PROVE EventInv'
  <2>1. CASE events' # events
    BY <1>6, <2>1, NewMessage
  <2>2. CASE events' = events /\ heard' = heard
    <3>1. UNCHANGED <<events, heard, seen, count>>
      BY <1>6, <2>2 DEF Read
    <3> QED
      BY <1>5, <3>1
  <2>3. heard' = heard \/ Put(b, "message", heard[b] + 1)
    BY <1>6 DEF Read
  <2>4. ASSUME Put(b, "message", heard[b] + 1) PROVE events' # events
    <3>1. WorkThreadOf[fd[b]] \in WorkThreads
      BY <1>6, TransportAssumption DEF IInv, Safe, FdHeld, Read, At
    <3> DEFINE q == events[WorkThreadOf[fd[b]]]
               e == <<b, "message", heard[b] + 1>>
    <3>2. q \in Seq(Addrs \X Kinds \X (0..MaxMsgs))
      BY <3>1 DEF IInv, TypeOK
    <3>3. events'[WorkThreadOf[fd[b]]] = Append(q, e)
      BY <2>4, <3>1 DEF Put, IInv, TypeOK
    <3>4. Append(q, e) # q
      <4> HIDE DEF q, e
      <4>1. Len(Append(q, e)) = Len(q) + 1 /\ Len(q) \in Nat
        BY <3>2
      <4> QED
        BY <4>1
    <3> QED
      BY <3>3, <3>4
  <2> QED
    BY <2>1, <2>2, <2>3, <2>4
<1> QED
  BY <1>1, <1>2, <1>3, <1>4, <1>5, <1>6
  DEF Next, vars, tvars, Reader, Listener, Sender, Accept, EnterMap, HandOver, SendMsg,
      StartPass, EndPass, Sweep

LEMMA EventInit == ASSUME Init PROVE EventInv
<1>1. \A w \in WorkThreads : events[w] = <<>> /\ 1..Len(events[w]) = {}
  BY DEF Init
<1>2. AtHome /\ ConnectFirst /\ CloseLast /\ MessagesInOrder
  BY <1>1 DEF AtHome, ConnectFirst, CloseLast, MessagesInOrder
<1>3. NothingLost
  BY DEF Init, NothingLost, Early
<1> QED
  BY <1>2, <1>3 DEF EventInv

\* Only a work thread changes what the module has seen, and it does so as
\* promised; everything else stutters.
LEMMA ConnEventsStep ==
  ASSUME IInv, EventInv, [Next]_vars
  PROVE  [C!Next]_(C!vars)
<1>1. ASSUME NEW w \in WorkThreads, Handle(w) PROVE [C!Next]_(C!vars)
  <2> DEFINE a == events[w][1][1]
             kind == events[w][1][2]
             n == events[w][1][3]
  <2>1. /\ a \in Addrs
        /\ kind = "connect" => seen[a] = "none"
        /\ kind = "message" => seen[a] = "live" /\ n = count[a] + 1
        /\ kind = "close" => seen[a] = "live"
    BY <1>1, HeadIsNext DEF IInv
  <2>2. Head(events[w]) = events[w][1] /\ kind \in Kinds
    BY <1>1, TakePlaces DEF IInv
  <2>3. /\ seen' = IF kind = "connect" THEN [seen EXCEPT ![a] = "live"]
                   ELSE IF kind = "close" THEN [seen EXCEPT ![a] = "gone"] ELSE seen
        /\ count' = IF kind = "message" THEN [count EXCEPT ![a] = n] ELSE count
    BY <1>1, <2>2 DEF Handle
  <2> HIDE DEF a, kind, n
  <2>4. CASE kind = "connect"
    <3>1. C!ConnectEvent(a)
      BY <2>1, <2>3, <2>4 DEF C!ConnectEvent
    <3> QED
      BY <2>1, <3>1 DEF C!Next
  <2>5. CASE kind = "message"
    <3>1. C!MessageEvent(a, count[a] + 1)
      BY <2>1, <2>3, <2>5 DEF C!MessageEvent
    <3> QED
      BY <2>1, <3>1 DEF C!Next
  <2>6. CASE kind = "close"
    <3>1. C!CloseEvent(a)
      BY <2>1, <2>3, <2>6 DEF C!CloseEvent
    <3> QED
      BY <2>1, <3>1 DEF C!Next
  <2>7. CASE kind = "sendfail"
    BY <2>3, <2>7 DEF C!vars
  <2> QED
    BY <2>2, <2>4, <2>5, <2>6, <2>7 DEF Kinds
<1>2. ASSUME UNCHANGED <<seen, count>> PROVE [C!Next]_(C!vars)
  BY <1>2 DEF C!vars
<1> QED
  BY <1>1, <1>2
  DEF Next, vars, tvars, Reader, Listener, Sender, Accept, EnterMap, Announce, HandOver,
      SendMsg, StartPass, EndPass, Sweep, AnnounceClose, Read, PopSend, FinishSend

\* For any number of connections, descriptors and threads: whatever the listener,
\* the read threads and the send threads do, the module handles of each connection
\* one connect event, then its messages in the order they were read, none lost and
\* none twice, then one close event, and nothing after it.
THEOREM TransportImplementsConnEvents == Spec => ImplementsConnEvents
<1>1. Init => EventInv
  BY EventInit
<1>2. IInv /\ IInv' /\ EventInv /\ [Next]_vars => EventInv'
  <2>1. IInv' => TypeOK'
    BY DEF IInv
  <2> QED
    BY <2>1, EventStep
<1>3. IInv /\ EventInv /\ [Next]_vars => [C!Next]_(C!vars)
  BY ConnEventsStep
<1>4. Init => C!Init
  BY DEF Init, C!Init
<1> QED
  BY <1>1, <1>2, <1>3, <1>4, InvHolds, PTL DEF Spec, ImplementsConnEvents, C!Spec
=============================================================================
