--------------------------- MODULE PresenceProofs ---------------------------
(***************************************************************************)
(* Proofs about Presence, for any number of processes, work threads,       *)
(* connections and users, with statements that fail or do not.             *)
(***************************************************************************)
EXTENDS Presence, TLAPS

\* A running handler has the jid it works for, and a handler past the
\* critical section of its login still owns the jid or was kicked out.
HandlerOwnsJid ==
  \A c \in Conns :
    /\ pc[c] # "idle" => want[c] \in Jids /\ conn[c] = "live"
    /\ pc[c] \in {"replace", "fetch", "logout"} => addrmap[c] = want[c] \/ c \in superseded

\* A process that is down has no connection and no handler.
DownIsEmpty ==
  \A c \in Conns : ~up[ModuleOf[c]] => addrmap[c] = Absent /\ pc[c] = "idle"

\* A row with status 1 names a process; a kicked connection had connected.
OnlineAtModule == \A j \in Jids : online[j].st = "on" => online[j].at \in Modules
SupersededConnected == \A c \in superseded : conn[c] # "new"

\* What the maps, the handlers and the kicked connections satisfy together;
\* it is inductive.
Registry ==
  /\ TypeOK
  /\ MapsAgree
  /\ LoginFindsUser
  /\ SupersededIsClosing
  /\ SupersededConnected
  /\ HandlerOwnsJid
  /\ DownIsEmpty
  /\ OnlineAtModule

-----------------------------------------------------------------------------
\* Every process starts with empty maps and no handler.
LEMMA RegistryInit == Init => Registry
<1> SUFFICES ASSUME Init PROVE Registry
  OBVIOUS
<1> USE PresenceAssumption DEF Init
<1>1. TypeOK
  BY DEF TypeOK, Rows, PCs
<1>2. MapsAgree /\ LoginFindsUser /\ SupersededIsClosing /\ SupersededConnected
  BY DEF MapsAgree, LoginFindsUser, SupersededIsClosing, SupersededConnected, Registered
<1>3. HandlerOwnsJid /\ DownIsEmpty /\ OnlineAtModule
  BY DEF HandlerOwnsJid, DownIsEmpty, OnlineAtModule
<1> QED
  BY <1>1, <1>2, <1>3 DEF Registry

\* sync_exec_sql of an UPDATE by jid keeps the table well formed and never
\* makes a row say online.
LEMMA UpdateRowKeeps ==
  ASSUME TypeOK, NEW j \in Jids, NEW s \in {"off", "out"}, NEW c \in Conns,
         NEW ok \in BOOLEAN, UpdateRow(j, s, c, ok)
  PROVE  /\ online' \in [Jids -> Rows]
         /\ author' \in [Jids -> Conns \cup {None}]
         /\ \A i \in Jids : \/ online'[i] = online[i] /\ author'[i] = author[i]
                            \/ i = j /\ online'[i].st = s /\ author'[i] = c
<1>1. online[j] \in Rows
  BY DEF TypeOK
<1>2. CASE ok /\ online[j].st # "none"
  <2>1. online' = [online EXCEPT ![j] = [online[j] EXCEPT !.st = s]]
        /\ author' = [author EXCEPT ![j] = c]
    BY <1>2 DEF UpdateRow
  <2>2. [online[j] EXCEPT !.st = s] \in Rows /\ [online[j] EXCEPT !.st = s].st = s
    BY <1>1 DEF Rows
  <2> QED
    BY <2>1, <2>2 DEF TypeOK
<1>3. CASE ~(ok /\ online[j].st # "none")
  BY <1>3 DEF TypeOK, UpdateRow
<1> QED
  BY <1>2, <1>3

\* OnRun's UPDATE leaves a row as it is or not online.
LEMMA ClearedEffect ==
  ASSUME TypeOK, NEW m \in Modules, online' = RowsCleared(m)
  PROVE  /\ online' \in [Jids -> Rows]
         /\ \A j \in Jids : online'[j] = online[j] \/ online'[j].st # "on"
BY DEF TypeOK, RowsCleared, Rows

\* An event is only handled by a running process with no handler under way.
LEMMA CanRunIdle ==
  ASSUME NEW c \in Conns, CanRun(c)
  PROVE  up[ModuleOf[c]] /\ pc[c] = "idle"
BY DEF CanRun

\* Writing one entry of m_usermap.
LEMMA UsermapWrite ==
  ASSUME TypeOK, NEW m \in Modules, NEW j \in Jids, NEW x \in Conns \cup {None},
         usermap' = [usermap EXCEPT ![m][j] = x]
  PROVE  /\ usermap' \in [Modules -> [Jids -> Conns \cup {None}]]
         /\ \A n \in Modules, i \in Jids :
              usermap'[n][i] = IF n = m /\ i = j THEN x ELSE usermap[n][i]
<1> DEFINE um == [usermap[m] EXCEPT ![j] = x]
<1>1. um \in [Jids -> Conns \cup {None}]
  BY DEF TypeOK
<1>2. \A i \in Jids : um[i] = IF i = j THEN x ELSE usermap[m][i]
  BY DEF TypeOK
<1>3. usermap' = [usermap EXCEPT ![m] = um]
  OBVIOUS
<1> HIDE DEF um
<1>4. /\ usermap \in [Modules -> [Jids -> Conns \cup {None}]]
      /\ usermap'[m] = um /\ \A n \in Modules : n # m => usermap'[n] = usermap[n]
  BY <1>3 DEF TypeOK
<1>5. usermap' \in [Modules -> [Jids -> Conns \cup {None}]]
  BY <1>1, <1>3, <1>4
<1>6. \A n \in Modules, i \in Jids :
        usermap'[n][i] = IF n = m /\ i = j THEN x ELSE usermap[n][i]
  BY <1>2, <1>4
<1> QED
  BY <1>5, <1>6

-----------------------------------------------------------------------------
\* What the larger actions do, read point by point.

\* CLOSE frees the jid of its connection, which m_usermap held for it.
LEMMA CloseEffect ==
  ASSUME Registry, NEW c \in Conns, Close(c)
  PROVE  /\ usermap' \in [Modules -> [Jids -> Conns \cup {None}]]
         /\ \A m \in Modules, j \in Jids :
              usermap'[m][j] = IF m = ModuleOf[c] /\ j = addrmap[c] THEN None
                               ELSE usermap[m][j]
         /\ online' \in [Jids -> Rows] /\ author' \in [Jids -> Conns \cup {None}]
         /\ \A j \in Jids :
              \/ online'[j] = online[j] /\ author'[j] = author[j]
              \/ j = addrmap[c] /\ online'[j].st = "off" /\ author'[j] = c
         /\ ~DbFaults /\ addrmap[c] \in Jids => online'[addrmap[c]].st # "on"
<1> USE PresenceAssumption DEF Registry
<1>1. ModuleOf[c] \in Modules
  OBVIOUS
<1>2. CASE addrmap[c] \in Jids
  <2>1. usermap[ModuleOf[c]][addrmap[c]] = c
    BY <1>2 DEF MapsAgree, Registered
  <2>2. /\ usermap' = [usermap EXCEPT ![ModuleOf[c]][addrmap[c]] = None]
        /\ \E ok \in SqlResults : UpdateRow(addrmap[c], "off", c, ok)
    BY <1>2, <2>1 DEF Close
  <2>3. PICK ok \in BOOLEAN : UpdateRow(addrmap[c], "off", c, ok) /\ (~DbFaults => ok)
    BY <2>2 DEF SqlResults
  <2>4. /\ online' \in [Jids -> Rows] /\ author' \in [Jids -> Conns \cup {None}]
        /\ \A j \in Jids :
             \/ online'[j] = online[j] /\ author'[j] = author[j]
             \/ j = addrmap[c] /\ online'[j].st = "off" /\ author'[j] = c
    BY <1>2, <2>3, UpdateRowKeeps
  <2>5. /\ usermap' \in [Modules -> [Jids -> Conns \cup {None}]]
        /\ \A n \in Modules, i \in Jids :
             usermap'[n][i] = IF n = ModuleOf[c] /\ i = addrmap[c] THEN None
                              ELSE usermap[n][i]
    <3>1. TypeOK /\ None \in Conns \cup {None}
      OBVIOUS
    <3> HIDE DEF Registry
    <3> QED
      BY ONLY ZenonT(60), <1>1, <1>2, <2>2, <3>1, UsermapWrite
  <2>6. ~DbFaults => online'[addrmap[c]].st # "on"
    <3>1. CASE online[addrmap[c]].st = "none"
      BY <2>3, <3>1 DEF UpdateRow
    <3>2. CASE online[addrmap[c]].st # "none"
      <4>1. SUFFICES ASSUME ~DbFaults PROVE online'[addrmap[c]].st = "off"
        OBVIOUS
      <4>2. online' = [online EXCEPT ![addrmap[c]] = [online[addrmap[c]] EXCEPT !.st = "off"]]
        BY <2>3, <3>2, <4>1 DEF UpdateRow
      <4>3. online[addrmap[c]] \in Rows
        BY <1>2 DEF TypeOK
      <4>4. [online[addrmap[c]] EXCEPT !.st = "off"].st = "off"
        BY <4>3 DEF Rows
      <4> QED
        BY <1>2, <4>2, <4>4 DEF TypeOK
    <3> QED
      BY <3>1, <3>2
  <2> QED
    BY <2>4, <2>5, <2>6
<1>3. CASE addrmap[c] \notin Jids
  BY <1>3 DEF Close, TypeOK
<1> QED
  BY <1>2, <1>3

\* A login that registers finds its unnamed User; the connection it kicks out
\* is another one, of the same process, with the jid.
LEMMA RegisterEffect ==
  ASSUME Registry, NEW c \in Conns, LoginRegister(c),
         NEW old, old = usermap[ModuleOf[c]][want[c]]
  PROVE  /\ want[c] \in Jids /\ ModuleOf[c] \in Modules
         /\ addrmap[c] = Fresh /\ conn[c] = "live"
         /\ \/ old = None
            \/ /\ old \in Conns /\ old # c /\ ModuleOf[old] = ModuleOf[c]
               /\ addrmap[old] = want[c]
         /\ pc' = [pc EXCEPT ![c] = "replace"] /\ want' = want
         /\ addrmap' = [d \in Conns |-> IF d = old THEN Absent
                                        ELSE IF d = c THEN want[c] ELSE addrmap[d]]
         /\ closing' = [d \in Conns |-> closing[d] \/ d = old]
         /\ superseded' = superseded \cup ({old} \ {None})
         /\ usermap' \in [Modules -> [Jids -> Conns \cup {None}]]
         /\ \A m \in Modules, j \in Jids :
              usermap'[m][j] = IF m = ModuleOf[c] /\ j = want[c] THEN c
                               ELSE usermap[m][j]
<1> USE PresenceAssumption DEF Registry
<1>1. pc[c] = "register" /\ want[c] \in Jids /\ ModuleOf[c] \in Modules
  BY DEF LoginRegister, HandlerOwnsJid
<1>2. addrmap[c] = Fresh /\ conn[c] = "live"
  BY <1>1 DEF LoginFindsUser
<1>3. old \in Conns \cup {None}
  BY <1>1 DEF TypeOK
<1>4. \/ old = None
      \/ /\ old \in Conns /\ old # c /\ ModuleOf[old] = ModuleOf[c]
         /\ addrmap[old] = want[c]
  BY <1>1, <1>2, <1>3 DEF MapsAgree
<1>5. /\ usermap' = [usermap EXCEPT ![ModuleOf[c]][want[c]] = c]
      /\ pc' = [pc EXCEPT ![c] = "replace"] /\ want' = want
      /\ addrmap' = [d \in Conns |-> IF d = old THEN Absent
                                     ELSE IF d = c THEN want[c] ELSE addrmap[d]]
      /\ closing' = [d \in Conns |-> closing[d] \/ d = old]
      /\ superseded' = superseded \cup ({old} \ {None})
  BY <1>2 DEF LoginRegister, AddrmapAfterLogin, KickoutCloses, Kicked
<1>6. /\ usermap' \in [Modules -> [Jids -> Conns \cup {None}]]
      /\ \A m \in Modules, j \in Jids :
           usermap'[m][j] = IF m = ModuleOf[c] /\ j = want[c] THEN c
                            ELSE usermap[m][j]
  <2>1. TypeOK /\ c \in Conns \cup {None}
    OBVIOUS
  <2> QED
    BY ONLY ZenonT(60), <1>1, <1>5, <2>1, UsermapWrite
<1> QED
  BY <1>1, <1>2, <1>4, <1>5, <1>6

\* REPLACE writes the row of the jid, or the connection is closed.
LEMMA ReplaceEffect ==
  ASSUME Registry, NEW c \in Conns, LoginReplace(c)
  PROVE  /\ want[c] \in Jids /\ ModuleOf[c] \in Modules
         /\ online' \in [Jids -> Rows] /\ author' \in [Jids -> Conns \cup {None}]
         /\ \A j \in Jids :
              j # want[c] => online'[j] = online[j] /\ author'[j] = author[j]
         /\ closing' = closing \/ closing' = [closing EXCEPT ![c] = TRUE]
         /\ \/ /\ online'[want[c]] = [st |-> "on", at |-> ModuleOf[c]]
               /\ author'[want[c]] = c
            \/ /\ closing' = [closing EXCEPT ![c] = TRUE]
               /\ online' = online /\ author' = author
<1> USE PresenceAssumption DEF Registry
<1>1. want[c] \in Jids /\ ModuleOf[c] \in Modules
  BY DEF LoginReplace, HandlerOwnsJid
<1>2. [st |-> "on", at |-> ModuleOf[c]] \in Rows
  BY <1>1 DEF Rows
<1>3. /\ closing' = closing \/ closing' = [closing EXCEPT ![c] = TRUE]
      /\ \/ /\ online' = [online EXCEPT ![want[c]] = [st |-> "on", at |-> ModuleOf[c]]]
            /\ author' = [author EXCEPT ![want[c]] = c]
         \/ /\ closing' = [closing EXCEPT ![c] = TRUE]
            /\ online' = online /\ author' = author
  BY DEF LoginReplace, ReplaceRow, ReplaceFails, Effects
<1>4. CASE /\ online' = [online EXCEPT ![want[c]] = [st |-> "on", at |-> ModuleOf[c]]]
           /\ author' = [author EXCEPT ![want[c]] = c]
  <2>1. online' \in [Jids -> Rows] /\ author' \in [Jids -> Conns \cup {None}]
    BY <1>1, <1>2, <1>4 DEF TypeOK
  <2>2. \A j \in Jids : /\ j # want[c] => online'[j] = online[j]
                        /\ j = want[c] => online'[j] = [st |-> "on", at |-> ModuleOf[c]]
    BY <1>1, <1>4, Zenon DEF TypeOK
  <2>3. \A j \in Jids : author'[j] = IF j = want[c] THEN c ELSE author[j]
    BY <1>1, <1>4 DEF TypeOK
  <2> QED
    BY <1>1, <1>3, <1>4, <2>1, <2>2, <2>3
<1>5. CASE /\ closing' = [closing EXCEPT ![c] = TRUE]
           /\ online' = online /\ author' = author
  BY <1>1, <1>5 DEF TypeOK
<1> QED
  BY <1>3, <1>4, <1>5

\* A logout changes nothing but the row of the jid, which it never puts online.
LEMMA LogoutEffect ==
  ASSUME Registry, NEW c \in Conns, LogoutUpdate(c)
  PROVE  /\ want[c] \in Jids
         /\ closing' \in [Conns -> BOOLEAN]
         /\ \A d \in Conns : closing[d] => closing'[d]
         /\ online' \in [Jids -> Rows] /\ author' \in [Jids -> Conns \cup {None}]
         /\ \A j \in Jids :
              \/ online'[j] = online[j] /\ author'[j] = author[j]
              \/ /\ j = want[c] /\ online'[j].st = "out" /\ author'[j] = c
                 /\ closing'[c] \/ DbFaults
<1> USE PresenceAssumption DEF Registry
<1>1. want[c] \in Jids
  BY DEF LogoutUpdate, HandlerOwnsJid
<1>2. PICK ok \in BOOLEAN, done \in BOOLEAN :
        /\ UpdateRow(want[c], "out", c, done)
        /\ closing' = [closing EXCEPT ![c] = @ \/ ok]
        /\ ok \/ DbFaults
  BY DEF LogoutUpdate, SqlResults, Effects
<1>3. /\ online' \in [Jids -> Rows] /\ author' \in [Jids -> Conns \cup {None}]
      /\ \A j \in Jids :
           \/ online'[j] = online[j] /\ author'[j] = author[j]
           \/ j = want[c] /\ online'[j].st = "out" /\ author'[j] = c
  BY <1>1, <1>2, UpdateRowKeeps
<1>5. \A d \in Conns : closing'[d] = (closing[d] \/ (d = c /\ ok))
  BY <1>2, Zenon DEF TypeOK
<1>6. closing' \in [Conns -> BOOLEAN]
  BY <1>2 DEF TypeOK
<1> QED
  BY <1>1, <1>2, <1>3, <1>5, <1>6

-----------------------------------------------------------------------------
\* Every step keeps the types.
LEMMA TypeOKStep == Registry /\ [Next]_vars => TypeOK'
<1> SUFFICES ASSUME Registry, [Next]_vars PROVE TypeOK'
  OBVIOUS
<1> USE PresenceAssumption DEF Registry
<1>1. ASSUME NEW c \in Conns, Connect(c) PROVE TypeOK'
  BY ZenonT(60), <1>1 DEF TypeOK, Connect
<1>2. ASSUME NEW c \in Conns, Close(c) PROVE TypeOK'
  BY <1>2, CloseEffect DEF Close, TypeOK
<1>3. ASSUME NEW c \in Conns, FirstMessageNotLogin(c) PROVE TypeOK'
  BY <1>3 DEF TypeOK, FirstMessageNotLogin
<1>4. ASSUME NEW c \in Conns, NEW j \in Jids, LoginStart(c, j) PROVE TypeOK'
  BY <1>4 DEF TypeOK, LoginStart, PCs
<1>5. ASSUME NEW c \in Conns, LogoutStart(c) PROVE TypeOK'
  BY <1>5 DEF TypeOK, LogoutStart, PCs
<1>6. ASSUME NEW c \in Conns, LoginSelect(c) PROVE TypeOK'
  <2>1. want[c] \in Jids
    BY <1>6 DEF LoginSelect, HandlerOwnsJid
  <2>2. want[c][1] \in Names
    BY <2>1 DEF Jids
  <2>3. OnlineElsewhere(want[c][1], ModuleOf[c]) \subseteq Modules
    BY DEF OnlineElsewhere
  <2>4. closeReqs' \subseteq Names \X Modules
    BY <1>6, <2>2, <2>3 DEF LoginSelect, TypeOK
  <2> QED
    BY ZenonT(60), <1>6, <2>4 DEF TypeOK, LoginSelect, PCs
<1>7. ASSUME NEW c \in Conns, LoginRegister(c) PROVE TypeOK'
  <2> DEFINE old == usermap[ModuleOf[c]][want[c]]
  <2>1. old \in Conns \cup {None}
    BY <1>7, RegisterEffect
  <2>2. /\ want[c] \in Jids
        /\ pc' = [pc EXCEPT ![c] = "replace"] /\ want' = want
        /\ addrmap' = [d \in Conns |-> IF d = old THEN Absent
                                       ELSE IF d = c THEN want[c] ELSE addrmap[d]]
        /\ closing' = [d \in Conns |-> closing[d] \/ d = old]
        /\ superseded' = superseded \cup ({old} \ {None})
        /\ usermap' \in [Modules -> [Jids -> Conns \cup {None}]]
    BY <1>7, RegisterEffect
  <2> HIDE DEF old
  <2> QED
    BY <1>7, <2>1, <2>2 DEF TypeOK, LoginRegister, PCs
<1>8. ASSUME NEW c \in Conns, LoginReplace(c) PROVE TypeOK'
  <2>1. /\ online' \in [Jids -> Rows] /\ author' \in [Jids -> Conns \cup {None}]
        /\ closing' = closing \/ closing' = [closing EXCEPT ![c] = TRUE]
    BY <1>8, ReplaceEffect
  <2>2. /\ \/ pc' = [pc EXCEPT ![c] = "fetch"] /\ want' = want
           \/ pc' = [pc EXCEPT ![c] = "idle"] /\ want' = [want EXCEPT ![c] = None]
        /\ UNCHANGED <<up, conn, addrmap, usermap, closeReqs, superseded>>
    BY <1>8 DEF LoginReplace
  <2>3. closing' \in [Conns -> BOOLEAN]
    BY <2>1 DEF TypeOK
  <2>4. pc' \in [Conns -> PCs]
    BY <2>2 DEF TypeOK, PCs
  <2>5. want' \in [Conns -> Jids \cup {None}]
    BY <2>2 DEF TypeOK
  <2> QED
    BY <2>1, <2>2, <2>3, <2>4, <2>5 DEF TypeOK
<1>9. ASSUME NEW c \in Conns, LogoutUpdate(c) PROVE TypeOK'
  BY <1>9, LogoutEffect DEF TypeOK, LogoutUpdate, PCs
<1>10. ASSUME NEW m \in Modules, NEW n \in Names, ProcessClose(n, m) PROVE TypeOK'
  BY <1>10 DEF TypeOK, ProcessClose
<1>11. ASSUME NEW m \in Modules, NEW n \in Names, LoseClose(n, m) PROVE TypeOK'
  BY <1>11 DEF TypeOK, LoseClose
<1>12. ASSUME NEW m \in Modules, Crash(m) PROVE TypeOK'
  BY <1>12 DEF TypeOK, Crash, PCs
<1>13. ASSUME NEW m \in Modules, Restart(m) \/ RestartFails(m) PROVE TypeOK'
  <2>1. online' \in [Jids -> Rows]
    BY <1>13, ClearedEffect DEF Restart, RestartFails
  <2>2. up' \in [Modules -> BOOLEAN]
    BY <1>13, Zenon DEF TypeOK, Restart, RestartFails
  <2>3. UNCHANGED <<conn, pc, want, addrmap, usermap, closing, closeReqs, author, superseded>>
    BY <1>13 DEF Restart, RestartFails
  <2> QED
    BY <2>1, <2>2, <2>3 DEF TypeOK
<1>14. ASSUME NEW c \in Conns, LoginFetch(c) PROVE TypeOK'
  BY <1>14 DEF TypeOK, LoginFetch, PCs
<1>15. CASE UNCHANGED vars
  BY <1>15 DEF TypeOK, vars
<1> QED
  BY <1>1, <1>2, <1>3, <1>4, <1>5, <1>6, <1>7, <1>8, <1>9, <1>10, <1>11, <1>12,
     <1>13, <1>14, <1>15 DEF Next, SessionStep


\* Every step keeps the registry's invariant.
LEMMA RegistryStep == Registry /\ [Next]_vars => Registry'
<1> SUFFICES ASSUME Registry, [Next]_vars PROVE Registry'
  OBVIOUS
<1>0. TypeOK'
  BY TypeOKStep
<1> DEFINE Maps == /\ MapsAgree /\ LoginFindsUser /\ SupersededIsClosing
                   /\ SupersededConnected
           Handlers == HandlerOwnsJid /\ DownIsEmpty /\ OnlineAtModule
<1> SUFFICES Maps' /\ Handlers'
  BY <1>0 DEF Registry
<1> USE PresenceAssumption DEF Registry
<1>1. ASSUME NEW c \in Conns, Connect(c) PROVE Maps' /\ Handlers'
  <2>1. addrmap[c] = Absent /\ c \notin superseded /\ up[ModuleOf[c]] /\ pc[c] = "idle"
    BY <1>1, CanRunIdle DEF Connect, LoginFindsUser, SupersededConnected
  <2>a. /\ conn[c] = "new" /\ conn' = [conn EXCEPT ![c] = "live"]
        /\ addrmap' = [addrmap EXCEPT ![c] = Fresh]
        /\ UNCHANGED <<up, pc, want, usermap, closing, superseded>>
    BY <1>1, <2>1 DEF Connect
  <2>b. MapsAgree'
    BY <2>1, <2>a DEF TypeOK, MapsAgree, Registered
  <2>c. LoginFindsUser'
    BY <2>1, <2>a DEF TypeOK, LoginFindsUser
  <2>d. SupersededIsClosing' /\ SupersededConnected'
    BY <2>1, <2>a DEF TypeOK, SupersededIsClosing, SupersededConnected
  <2>2. Maps'
    BY <2>b, <2>c, <2>d
  <2>3. Handlers'
    BY <1>1, <2>1 DEF Connect, TypeOK, HandlerOwnsJid, DownIsEmpty, OnlineAtModule
  <2> QED
    BY <2>2, <2>3
<1>2. ASSUME NEW c \in Conns, Close(c) PROVE Maps' /\ Handlers'
  <2>1. up[ModuleOf[c]] /\ pc[c] = "idle"
    BY <1>2, CanRunIdle DEF Close
  <2>2. /\ conn' = [conn EXCEPT ![c] = "gone"] /\ addrmap' = [addrmap EXCEPT ![c] = Absent]
        /\ UNCHANGED <<up, pc, want, closing, closeReqs, superseded>>
    BY <1>2 DEF Close
  <2>3. \A m \in Modules, j \in Jids :
          usermap'[m][j] = IF m = ModuleOf[c] /\ j = addrmap[c] THEN None
                           ELSE usermap[m][j]
    BY <1>2, CloseEffect
  <2>4. \A j \in Jids : online'[j] = online[j] \/ online'[j].st = "off"
    BY <1>2, CloseEffect
  <2>a. ASSUME NEW m \in Modules, NEW j \in Jids, usermap'[m][j] # None
        PROVE  /\ ModuleOf[usermap'[m][j]] = m
               /\ addrmap'[usermap'[m][j]] = j
    <3> DEFINE d == usermap[m][j]
    <3>1. usermap'[m][j] = d /\ d # None /\ ~(m = ModuleOf[c] /\ j = addrmap[c])
      BY <2>a, <2>3
    <3>2. d \in Conns /\ ModuleOf[d] = m /\ addrmap[d] = j
      BY <3>1 DEF TypeOK, MapsAgree
    <3> QED
      BY <3>1, <3>2, <2>2 DEF TypeOK
  <2>b. ASSUME NEW d \in Conns, addrmap'[d] \in Jids
        PROVE  usermap'[ModuleOf[d]][addrmap'[d]] = d
    <3>1. d # c /\ addrmap'[d] = addrmap[d]
      BY <2>b, <2>2 DEF TypeOK
    <3>2. usermap[ModuleOf[d]][addrmap[d]] = d
      BY <2>b, <3>1 DEF MapsAgree, Registered
    <3>3. ~(ModuleOf[d] = ModuleOf[c] /\ addrmap[d] = addrmap[c])
      BY <2>b, <3>1, <3>2 DEF MapsAgree, Registered
    <3> QED
      BY <2>b, <2>3, <3>1, <3>2, <3>3
  <2>5. MapsAgree'
    BY <2>a, <2>b DEF MapsAgree, Registered
  <2>6. LoginFindsUser' /\ SupersededIsClosing' /\ SupersededConnected'
    BY <2>1, <2>2 DEF TypeOK, LoginFindsUser, SupersededIsClosing, SupersededConnected
  <2>7. HandlerOwnsJid' /\ DownIsEmpty'
    BY <2>1, <2>2 DEF TypeOK, HandlerOwnsJid, DownIsEmpty
  <2>8. OnlineAtModule'
    BY <2>4 DEF OnlineAtModule
  <2> QED
    BY <2>5, <2>6, <2>7, <2>8
<1>3. ASSUME NEW c \in Conns, FirstMessageNotLogin(c) PROVE Maps' /\ Handlers'
  BY <1>3 DEF FirstMessageNotLogin, TypeOK, MapsAgree, Registered, LoginFindsUser,
     SupersededIsClosing, SupersededConnected, HandlerOwnsJid, DownIsEmpty, OnlineAtModule
<1>4. ASSUME NEW c \in Conns, NEW j \in Jids, LoginStart(c, j) PROVE Maps' /\ Handlers'
  <2>1. up[ModuleOf[c]] /\ conn[c] = "live"
    BY <1>4, CanRunIdle DEF LoginStart, LoginFindsUser
  <2> QED
    BY <1>4, <2>1 DEF LoginStart, TypeOK, MapsAgree, Registered, LoginFindsUser,
       SupersededIsClosing, SupersededConnected, HandlerOwnsJid, DownIsEmpty, OnlineAtModule
<1>5. ASSUME NEW c \in Conns, LogoutStart(c) PROVE Maps' /\ Handlers'
  <2>1. up[ModuleOf[c]] /\ conn[c] = "live"
    BY <1>5, CanRunIdle DEF LogoutStart, LoginFindsUser
  <2> QED
    BY <1>5, <2>1 DEF LogoutStart, TypeOK, MapsAgree, Registered, LoginFindsUser,
       SupersededIsClosing, SupersededConnected, HandlerOwnsJid, DownIsEmpty, OnlineAtModule
<1>6. ASSUME NEW c \in Conns, LoginSelect(c) PROVE Maps' /\ Handlers'
  <2>1. /\ pc[c] = "select" /\ UNCHANGED <<up, conn, addrmap, usermap, online, superseded>>
        /\ \/ pc' = [pc EXCEPT ![c] = "register"] /\ UNCHANGED <<want, closing>>
           \/ /\ pc' = [pc EXCEPT ![c] = "idle"] /\ want' = [want EXCEPT ![c] = None]
              /\ closing' = [closing EXCEPT ![c] = TRUE]
    BY <1>6 DEF LoginSelect
  <2>2. MapsAgree' /\ SupersededConnected' /\ OnlineAtModule'
    BY <2>1 DEF MapsAgree, Registered, SupersededConnected, OnlineAtModule
  <2>3. LoginFindsUser' /\ SupersededIsClosing'
    BY <2>1 DEF TypeOK, LoginFindsUser, SupersededIsClosing
  <2>4. HandlerOwnsJid'
    <3>1. CASE pc' = [pc EXCEPT ![c] = "register"] /\ UNCHANGED <<want, closing>>
      BY <2>1, <3>1 DEF TypeOK, HandlerOwnsJid
    <3>2. CASE pc' = [pc EXCEPT ![c] = "idle"] /\ want' = [want EXCEPT ![c] = None]
      BY <2>1, <3>2 DEF TypeOK, HandlerOwnsJid
    <3> QED
      BY <2>1, <3>1, <3>2
  <2>5. DownIsEmpty'
    BY <2>1 DEF TypeOK, DownIsEmpty
  <2> QED
    BY <2>2, <2>3, <2>4, <2>5
<1>7. ASSUME NEW c \in Conns, LoginRegister(c) PROVE Maps' /\ Handlers'
  <2> DEFINE old == usermap[ModuleOf[c]][want[c]]
  <2>1. /\ want[c] \in Jids /\ ModuleOf[c] \in Modules
        /\ addrmap[c] = Fresh /\ conn[c] = "live"
        /\ \/ old = None
           \/ /\ old \in Conns /\ old # c /\ ModuleOf[old] = ModuleOf[c]
              /\ addrmap[old] = want[c]
    BY <1>7, RegisterEffect
  <2>2. /\ pc' = [pc EXCEPT ![c] = "replace"] /\ want' = want
        /\ addrmap' = [d \in Conns |-> IF d = old THEN Absent
                                       ELSE IF d = c THEN want[c] ELSE addrmap[d]]
        /\ closing' = [d \in Conns |-> closing[d] \/ d = old]
        /\ superseded' = superseded \cup ({old} \ {None})
    BY <1>7, RegisterEffect
  <2>3. \A m \in Modules, j \in Jids :
          usermap'[m][j] = IF m = ModuleOf[c] /\ j = want[c] THEN c ELSE usermap[m][j]
    BY <1>7, RegisterEffect
  <2>4. UNCHANGED <<up, conn, online, closeReqs, author>> /\ pc[c] = "register"
    BY <1>7 DEF LoginRegister
  <2>5. \A d \in Conns : d # c /\ addrmap[d] = want[c] /\ ModuleOf[d] = ModuleOf[c] => d = old
    BY <2>1 DEF MapsAgree, Registered
  <2>6. c \notin superseded
    BY <2>1 DEF SupersededIsClosing
  <2> HIDE DEF old
  <2>7. MapsAgree'
    BY <2>1, <2>2, <2>3, <2>5 DEF TypeOK, MapsAgree, Registered
  <2>8. LoginFindsUser' /\ SupersededConnected'
    BY SMTT(30), <2>1, <2>2, <2>4 DEF TypeOK, LoginFindsUser, SupersededConnected
  <2>9. SupersededIsClosing'
    BY <2>1, <2>2, <2>4, <2>6 DEF TypeOK, SupersededIsClosing
  <2>10. HandlerOwnsJid' /\ DownIsEmpty' /\ OnlineAtModule'
    BY <2>1, <2>2, <2>4 DEF TypeOK, HandlerOwnsJid, DownIsEmpty, OnlineAtModule
  <2> QED
    BY <2>7, <2>8, <2>9, <2>10
<1>8. ASSUME NEW c \in Conns, LoginReplace(c) PROVE Maps' /\ Handlers'
  <2>1. /\ pc[c] = "replace"
        /\ \/ pc' = [pc EXCEPT ![c] = "fetch"] /\ want' = want
           \/ pc' = [pc EXCEPT ![c] = "idle"] /\ want' = [want EXCEPT ![c] = None]
        /\ UNCHANGED <<up, conn, addrmap, usermap, closeReqs, superseded>>
    BY <1>8 DEF LoginReplace
  <2>2. /\ ModuleOf[c] \in Modules
        /\ closing' = closing \/ closing' = [closing EXCEPT ![c] = TRUE]
        /\ \A j \in Jids : \/ online'[j] = online[j]
                           \/ online'[j] = [st |-> "on", at |-> ModuleOf[c]]
    BY <1>8, ReplaceEffect
  <2>3. MapsAgree' /\ SupersededConnected'
    BY <2>1 DEF MapsAgree, Registered, SupersededConnected
  <2>4. LoginFindsUser'
    BY <2>1 DEF TypeOK, LoginFindsUser
  <2>5. SupersededIsClosing'
    BY <2>1, <2>2 DEF TypeOK, SupersededIsClosing
  <2>6. HandlerOwnsJid' /\ DownIsEmpty'
    BY <2>1 DEF TypeOK, HandlerOwnsJid, DownIsEmpty
  <2>7. OnlineAtModule'
    BY <2>2 DEF OnlineAtModule
  <2> QED
    BY <2>3, <2>4, <2>5, <2>6, <2>7
<1>9. ASSUME NEW c \in Conns, LogoutUpdate(c) PROVE Maps' /\ Handlers'
  <2>1. /\ pc[c] = "logout" /\ pc' = [pc EXCEPT ![c] = "idle"]
        /\ want' = [want EXCEPT ![c] = None]
        /\ UNCHANGED <<up, conn, addrmap, usermap, closeReqs, superseded>>
    BY <1>9 DEF LogoutUpdate
  <2>2. /\ \A d \in Conns : closing[d] => closing'[d]
        /\ \A j \in Jids : online'[j] = online[j] \/ online'[j].st = "out"
    BY <1>9, LogoutEffect
  <2>3. MapsAgree' /\ SupersededConnected'
    BY <2>1 DEF MapsAgree, Registered, SupersededConnected
  <2>4. LoginFindsUser'
    BY <2>1 DEF TypeOK, LoginFindsUser
  <2>5. SupersededIsClosing'
    BY <2>1, <2>2 DEF TypeOK, SupersededIsClosing
  <2>6. HandlerOwnsJid' /\ DownIsEmpty'
    BY <2>1 DEF TypeOK, HandlerOwnsJid, DownIsEmpty
  <2>7. OnlineAtModule'
    BY <2>2 DEF OnlineAtModule
  <2> QED
    BY <2>3, <2>4, <2>5, <2>6, <2>7
<1>10. ASSUME NEW m \in Modules, NEW n \in Names, ProcessClose(n, m)
       PROVE Maps' /\ Handlers'
  BY <1>10 DEF ProcessClose, TypeOK, MapsAgree, Registered, LoginFindsUser,
     SupersededIsClosing, SupersededConnected, HandlerOwnsJid, DownIsEmpty, OnlineAtModule
<1>11. ASSUME NEW m \in Modules, NEW n \in Names, LoseClose(n, m)
       PROVE Maps' /\ Handlers'
  BY <1>11 DEF LoseClose, TypeOK, MapsAgree, Registered, LoginFindsUser,
     SupersededIsClosing, SupersededConnected, HandlerOwnsJid, DownIsEmpty, OnlineAtModule
<1>12. ASSUME NEW m \in Modules, Crash(m) PROVE Maps' /\ Handlers'
  <2>1. MapsAgree'
    BY <1>12 DEF Crash, TypeOK, MapsAgree, Registered
  <2>2. LoginFindsUser' /\ SupersededIsClosing' /\ SupersededConnected'
    BY <1>12 DEF Crash, TypeOK, LoginFindsUser, SupersededIsClosing, SupersededConnected
  <2>3. HandlerOwnsJid' /\ DownIsEmpty' /\ OnlineAtModule'
    BY <1>12 DEF Crash, TypeOK, HandlerOwnsJid, DownIsEmpty, OnlineAtModule
  <2> QED
    BY <2>1, <2>2, <2>3
<1>13. ASSUME NEW m \in Modules, Restart(m) \/ RestartFails(m) PROVE Maps' /\ Handlers'
  <2>1. UNCHANGED <<conn, pc, want, addrmap, usermap, closing, closeReqs, author, superseded>>
    BY <1>13 DEF Restart, RestartFails
  <2>5. \A o \in Modules : up[o] => up'[o]
    BY <1>13, Zenon DEF Restart, RestartFails, TypeOK
  <2>2. \A j \in Jids : online'[j] = online[j] \/ online'[j].st # "on"
    BY <1>13, ClearedEffect DEF Restart, RestartFails
  <2>3. Maps'
    BY <2>1 DEF TypeOK, MapsAgree, Registered, LoginFindsUser, SupersededIsClosing,
                SupersededConnected
  <2>4. Handlers'
    BY <2>1, <2>2, <2>5 DEF TypeOK, HandlerOwnsJid, DownIsEmpty, OnlineAtModule
  <2> QED
    BY <2>3, <2>4
<1>14. ASSUME NEW c \in Conns, LoginFetch(c) PROVE Maps' /\ Handlers'
  <2>1. Maps'
    BY <1>14 DEF LoginFetch, TypeOK, MapsAgree, Registered, LoginFindsUser,
                 SupersededIsClosing, SupersededConnected
  <2>2. Handlers'
    BY <1>14 DEF LoginFetch, TypeOK, HandlerOwnsJid, DownIsEmpty, OnlineAtModule
  <2> QED
    BY <2>1, <2>2
<1>15. CASE UNCHANGED vars
  BY <1>15 DEF vars, MapsAgree, Registered, LoginFindsUser,
     SupersededIsClosing, SupersededConnected, HandlerOwnsJid, DownIsEmpty, OnlineAtModule
<1> QED
  BY <1>1, <1>2, <1>3, <1>4, <1>5, <1>6, <1>7, <1>8, <1>9, <1>10, <1>11, <1>12,
     <1>13, <1>14, <1>15 DEF Next, SessionStep

-----------------------------------------------------------------------------
\* A User is made once for a connection, by its CONNECT, gets its name once,
\* and is then only erased.
LEMMA AddrmapMoves ==
  ASSUME Registry, [Next]_vars, NEW c \in Conns
  PROVE  /\ conn'[c] = "new" => conn[c] = "new"
         /\ \/ addrmap'[c] = addrmap[c]
            \/ addrmap'[c] = Absent
            \/ addrmap[c] = Fresh
            \/ conn[c] = "new"
<1> USE PresenceAssumption DEF Registry, TypeOK
<1>1. ASSUME NEW d \in Conns,
             Connect(d) \/ Close(d) \/ FirstMessageNotLogin(d) \/ LoginSelect(d)
             \/ LoginReplace(d) \/ LogoutStart(d) \/ LogoutUpdate(d) \/ LoginFetch(d)
      PROVE  /\ conn' = conn \/ conn' = [conn EXCEPT ![d] = "live"]
                \/ conn' = [conn EXCEPT ![d] = "gone"]
             /\ \/ addrmap' = addrmap \/ addrmap' = [addrmap EXCEPT ![d] = Absent]
                \/ conn[d] = "new" /\ addrmap' = [addrmap EXCEPT ![d] = Fresh]
  BY <1>1 DEF Connect, Close, FirstMessageNotLogin, LoginSelect, LoginReplace,
     LogoutStart, LogoutUpdate, LoginFetch
<1>2. ASSUME NEW d \in Conns, LoginRegister(d)
      PROVE  UNCHANGED conn /\ (addrmap'[c] \in {addrmap[c], Absent} \/ addrmap[c] = Fresh)
  <2> DEFINE old == usermap[ModuleOf[d]][want[d]]
  <2>1. /\ addrmap[d] = Fresh
        /\ addrmap' = [e \in Conns |-> IF e = old THEN Absent
                                       ELSE IF e = d THEN want[d] ELSE addrmap[e]]
    BY <1>2, RegisterEffect
  <2>2. UNCHANGED conn
    BY <1>2 DEF LoginRegister
  <2> HIDE DEF old
  <2> QED
    BY <2>1, <2>2
<1>3. ASSUME NEW m \in Modules, Crash(m)
      PROVE  /\ conn'[c] \in {conn[c], "gone"}
             /\ addrmap'[c] \in {addrmap[c], Absent}
  BY <1>3 DEF Crash
<1>4. ASSUME \/ \E d \in Conns, j \in Jids : LoginStart(d, j)
             \/ \E m \in Modules : Restart(m) \/ RestartFails(m) \/ \E n \in Names :
                  ProcessClose(n, m) \/ LoseClose(n, m)
             \/ UNCHANGED vars
      PROVE  UNCHANGED <<conn, addrmap>>
  BY <1>4 DEF LoginStart, Restart, RestartFails, ProcessClose, LoseClose, vars
<1> QED
  BY SMTT(30), <1>1, <1>2, <1>3, <1>4 DEF Next, SessionStep

\* The registry's invariant holds in every state.
THEOREM RegistryInvariant == Spec => []Registry
<1>1. Registry /\ UNCHANGED vars => Registry'
  BY RegistryStep
<1> QED
  BY RegistryInit, RegistryStep, PTL DEF Spec

\* The variables of the registry keep their types.
THEOREM PresenceTypeOK == Spec => []TypeOK
<1>1. Registry => TypeOK
  BY DEF Registry
<1> QED
  BY <1>1, RegistryInvariant, PTL

\* m_addrmap and m_usermap always agree (ProcessLogin and CLOSE rely on it).
THEOREM PresenceMapsAgree == Spec => []MapsAgree
<1>1. Registry => MapsAgree
  BY DEF Registry
<1> QED
  BY <1>1, RegistryInvariant, PTL

\* The User of a connection lives until its CLOSE or its kick-out, and a login
\* finds its own in the critical section.
THEOREM PresenceLoginFindsUser == Spec => []LoginFindsUser
<1>1. Registry => LoginFindsUser
  BY DEF Registry
<1> QED
  BY <1>1, RegistryInvariant, PTL

\* Every connection that a login kicked out is being closed.
THEOREM PresenceSupersededIsClosing == Spec => []SupersededIsClosing
<1>1. Registry => SupersededIsClosing
  BY DEF Registry
<1> QED
  BY <1>1, RegistryInvariant, PTL

-----------------------------------------------------------------------------
\* SessionHasOnlineRow also while the session's own logout is running.
SessionRows ==
  \A c \in Conns, j \in Jids :
    (Registered(c, j) /\ pc[c] \in {"idle", "fetch", "logout"} /\ ~closing[c]) =>
      \/ online[j] = [st |-> "on", at |-> ModuleOf[c]]
      \/ author[j] \in superseded
      \/ author[j] \in Conns /\ ModuleOf[author[j]] # ModuleOf[c]
      \/ DbFaults /\ author[j] = c /\ online[j].st = "out"

\* The steps that leave the rows, the handlers of sessions and the sessions
\* themselves alone.
LEMMA SessionRowsKept ==
  ASSUME Registry, SessionRows,
         UNCHANGED <<online, author>>, superseded \subseteq superseded',
         \A c \in Conns, j \in Jids : Registered(c, j)' => Registered(c, j),
         \A c \in Conns : closing[c] => closing'[c],
         \A c \in Conns : addrmap[c] \in Jids /\ pc'[c] \in {"idle", "fetch", "logout"}
                            => pc[c] \in {"idle", "fetch", "logout"} \/ closing'[c]
                               \/ \A j \in Jids : ~Registered(c, j)'
  PROVE  SessionRows'
<1> SUFFICES ASSUME NEW c \in Conns, NEW j \in Jids,
                    Registered(c, j)', pc'[c] \in {"idle", "fetch", "logout"}, ~closing'[c]
             PROVE  \/ online'[j] = [st |-> "on", at |-> ModuleOf[c]]
                    \/ author'[j] \in superseded'
                    \/ author'[j] \in Conns /\ ModuleOf[author'[j]] # ModuleOf[c]
                    \/ DbFaults /\ author'[j] = c /\ online'[j].st = "out"
  BY DEF SessionRows
<1>1. Registered(c, j)
  OBVIOUS
<1>2. addrmap[c] = j
  BY <1>1, PresenceAssumption DEF Registry, MapsAgree, Registered
<1>3. pc[c] \in {"idle", "fetch", "logout"} /\ ~closing[c]
  BY <1>2
<1> QED
  BY <1>1, <1>3 DEF SessionRows

\* Every step keeps SessionRows.
LEMMA SessionRowsStep == Registry /\ SessionRows /\ [Next]_vars => SessionRows'
<1> SUFFICES ASSUME Registry, SessionRows, [Next]_vars PROVE SessionRows'
  OBVIOUS
<1> USE PresenceAssumption
<1>1. ASSUME NEW c \in Conns,
             Connect(c) \/ FirstMessageNotLogin(c) \/ LoginSelect(c)
             \/ LoginFetch(c) \/ LogoutStart(c) \/ \E j \in Jids : LoginStart(c, j)
      PROVE SessionRows'
  <2>1. UNCHANGED <<usermap, online, author, superseded>>
    BY <1>1 DEF Connect, FirstMessageNotLogin, LoginSelect, LoginFetch,
              LogoutStart, LoginStart
  <2>2. \A d \in Conns : closing[d] => closing'[d]
    BY <1>1 DEF Registry, TypeOK, Connect, FirstMessageNotLogin, LoginSelect,
                LoginFetch, LogoutStart, LoginStart
  <2>3. \A d \in Conns : pc'[d] \in {"idle", "fetch", "logout"} =>
          pc[d] \in {"idle", "fetch", "logout"} \/ closing'[d]
    BY <1>1, CanRunIdle DEF Registry, TypeOK, Connect, FirstMessageNotLogin,
                LoginSelect, LoginFetch, LogoutStart, LoginStart
  <2> QED
    BY <2>1, <2>2, <2>3, SessionRowsKept DEF Registered
<1>2. ASSUME NEW c \in Conns, Close(c) PROVE SessionRows'
  <2>1. UNCHANGED <<pc, closing, superseded>>
    BY <1>2 DEF Close
  <2>2. /\ \A m \in Modules, j \in Jids :
             usermap'[m][j] = IF m = ModuleOf[c] /\ j = addrmap[c] THEN None
                              ELSE usermap[m][j]
        /\ \A j \in Jids :
             \/ online'[j] = online[j] /\ author'[j] = author[j]
             \/ j = addrmap[c] /\ online'[j].st = "off" /\ author'[j] = c
    BY <1>2, CloseEffect
  <2> QED
    BY <2>1, <2>2 DEF SessionRows, Registered
<1>3. ASSUME NEW c \in Conns, LoginRegister(c) PROVE SessionRows'
  <2> DEFINE old == usermap[ModuleOf[c]][want[c]]
  <2>1. /\ pc' = [pc EXCEPT ![c] = "replace"]
        /\ closing' = [d \in Conns |-> closing[d] \/ d = old]
        /\ superseded' = superseded \cup ({old} \ {None})
        /\ \A m \in Modules, j \in Jids :
             usermap'[m][j] = IF m = ModuleOf[c] /\ j = want[c] THEN c ELSE usermap[m][j]
    BY <1>3, RegisterEffect
  <2>2. UNCHANGED <<online, author>>
    BY <1>3 DEF LoginRegister
  <2> HIDE DEF old
  <2> QED
    BY <2>1, <2>2 DEF Registry, TypeOK, SessionRows, Registered
<1>4. ASSUME NEW c \in Conns, LoginReplace(c) PROVE SessionRows'
  <2>1. /\ pc[c] = "replace"
        /\ pc' = [pc EXCEPT ![c] = "fetch"] \/ pc' = [pc EXCEPT ![c] = "idle"]
        /\ UNCHANGED <<usermap, superseded>>
    BY <1>4 DEF LoginReplace
  <2>2. /\ want[c] \in Jids
        /\ \A j \in Jids :
              j # want[c] => online'[j] = online[j] /\ author'[j] = author[j]
        /\ closing' = closing \/ closing' = [closing EXCEPT ![c] = TRUE]
        /\ \/ /\ online'[want[c]] = [st |-> "on", at |-> ModuleOf[c]]
              /\ author'[want[c]] = c
           \/ /\ closing' = [closing EXCEPT ![c] = TRUE]
              /\ online' = online /\ author' = author
    BY <1>4, ReplaceEffect
  <2>3. \A j \in Jids : Registered(c, j) => j = want[c]
    BY <2>1 DEF Registry, MapsAgree, Registered, HandlerOwnsJid, SupersededIsClosing
  <2>4. CASE /\ online'[want[c]] = [st |-> "on", at |-> ModuleOf[c]]
             /\ author'[want[c]] = c
    <3>0. \A d \in Conns : closing[d] => closing'[d]
      BY <2>2 DEF Registry, TypeOK
    <3> SUFFICES ASSUME NEW d \in Conns, NEW j \in Jids, Registered(d, j),
                        pc'[d] \in {"idle", "fetch", "logout"}, ~closing[d]
                 PROVE  \/ online'[j] = [st |-> "on", at |-> ModuleOf[d]]
                        \/ author'[j] \in superseded
                        \/ author'[j] \in Conns /\ ModuleOf[author'[j]] # ModuleOf[d]
                        \/ DbFaults /\ author'[j] = d /\ online'[j].st = "out"
      BY <2>1, <3>0 DEF SessionRows, Registered
    <3>1. CASE j = want[c]
      BY <2>4, <3>1
    <3>2. CASE j # want[c]
      <4>1. d # c /\ pc'[d] = pc[d]
        BY <2>1, <2>3, <3>2 DEF Registry, TypeOK
      <4> QED
        BY <2>2, <3>2, <4>1 DEF SessionRows
    <3> QED
      BY <3>1, <3>2
  <2>5. CASE /\ closing' = [closing EXCEPT ![c] = TRUE]
             /\ online' = online /\ author' = author
    BY <2>1, <2>5 DEF Registry, TypeOK, SessionRows, Registered
  <2> QED
    BY <2>2, <2>4, <2>5
<1>5. ASSUME NEW c \in Conns, LogoutUpdate(c) PROVE SessionRows'
  <2>1. /\ pc[c] = "logout" /\ pc' = [pc EXCEPT ![c] = "idle"]
        /\ UNCHANGED <<usermap, superseded>>
    BY <1>5 DEF LogoutUpdate
  <2>2. /\ \A d \in Conns : closing[d] => closing'[d]
        /\ \A j \in Jids :
             \/ online'[j] = online[j] /\ author'[j] = author[j]
             \/ /\ j = want[c] /\ author'[j] = c /\ online'[j].st = "out"
                /\ closing'[c] \/ DbFaults
    BY <1>5, LogoutEffect
  <2>3. want[c] \in Jids /\ (Registered(c, want[c]) \/ c \in superseded)
    BY <2>1 DEF Registry, MapsAgree, Registered, HandlerOwnsJid
  <2> SUFFICES ASSUME NEW d \in Conns, NEW j \in Jids, Registered(d, j),
                      pc'[d] \in {"idle", "fetch", "logout"}, ~closing'[d]
               PROVE  \/ online'[j] = [st |-> "on", at |-> ModuleOf[d]]
                      \/ author'[j] \in superseded
                      \/ author'[j] \in Conns /\ ModuleOf[author'[j]] # ModuleOf[d]
                      \/ DbFaults /\ author'[j] = d /\ online'[j].st = "out"
    BY <2>1 DEF SessionRows, Registered
  <2>4. pc[d] \in {"idle", "fetch", "logout"} /\ ~closing[d]
    BY <2>1, <2>2 DEF Registry, TypeOK
  <2>5. CASE online'[j] = online[j] /\ author'[j] = author[j]
    BY <2>4, <2>5 DEF SessionRows
  <2>6. CASE /\ j = want[c] /\ author'[j] = c /\ online'[j].st = "out"
             /\ closing'[c] \/ DbFaults
    BY <2>3, <2>6 DEF Registered
  <2> QED
    BY <2>2, <2>5, <2>6
<1>6. ASSUME NEW m \in Modules, NEW n \in Names, ProcessClose(n, m) \/ LoseClose(n, m)
      PROVE SessionRows'
  <2>1. /\ UNCHANGED <<pc, usermap, online, author, superseded>>
        /\ \A d \in Conns : closing[d] => closing'[d]
    BY <1>6 DEF Registry, TypeOK, ProcessClose, LoseClose
  <2> QED
    BY <2>1, SessionRowsKept DEF Registered
<1>7. ASSUME NEW m \in Modules, Crash(m) PROVE SessionRows'
  BY <1>7 DEF Registry, TypeOK, Crash, SessionRows, Registered
<1>8. ASSUME NEW m \in Modules, Restart(m) \/ RestartFails(m) PROVE SessionRows'
  <2>1. UNCHANGED <<pc, usermap, closing, author, superseded>> /\ ~up[m]
    BY <1>8 DEF Restart, RestartFails, RowsCleared
  <2>2. \A j \in Jids : online[j] # [st |-> "on", at |-> m] => online'[j] = online[j]
    BY <1>8 DEF Restart, RestartFails, RowsCleared
  <2>3. \A c \in Conns, j \in Jids : Registered(c, j) => ModuleOf[c] # m
    BY <2>1 DEF Registry, MapsAgree, Registered, DownIsEmpty
  <2>4. \A c \in Conns : [st |-> "on", at |-> ModuleOf[c]] = [st |-> "on", at |-> m]
                           => ModuleOf[c] = m
    OBVIOUS
  <2> QED
    BY <2>1, <2>2, <2>3, <2>4 DEF SessionRows, Registered
<1>9. CASE UNCHANGED vars
  BY <1>9 DEF vars, SessionRows, Registered
<1> QED
  BY <1>1, <1>2, <1>3, <1>4, <1>5, <1>6, <1>7, <1>8, <1>9 DEF Next, SessionStep

LEMMA SessionRowsInvariant == Spec => []SessionRows
<1>1. Init => SessionRows
  BY PresenceAssumption DEF Init, SessionRows, Registered
<1> QED
  BY <1>1, RegistryInvariant, SessionRowsStep, PTL DEF Spec

\* A session that was told its login succeeded has its row, or the row was
\* last written for a connection that was kicked out or for another process, or by
\* a logout of its own that was reported as failed.
THEOREM PresenceSessionHasOnlineRow == Spec => []SessionHasOnlineRow
<1>1. SessionRows => SessionHasOnlineRow
  BY DEF SessionRows, SessionHasOnlineRow
<1> QED
  BY <1>1, SessionRowsInvariant, PTL

-----------------------------------------------------------------------------
\* The row of j was last written for a connection that had been kicked out, or
\* for one of another process than c's.
RowOfAnother(j, c) ==
  \/ author[j] \in superseded
  \/ author[j] \in Conns /\ ModuleOf[author[j]] # ModuleOf[c]

\* A handler that writes the row of a session that is not its own.
LEMMA WriterIsAnother ==
  ASSUME Registry, NEW c \in Conns, NEW j \in Jids, Registered(c, j),
         NEW d \in Conns, d # c, addrmap[d] = j \/ d \in superseded
  PROVE  d \in superseded \/ ModuleOf[d] # ModuleOf[c]
BY PresenceAssumption DEF Registry, MapsAgree, Registered

\* A session at rest after a step that is not the end of its login was at rest
\* before, and what was written over its row by others stays so.
LEMMA RestingSession ==
  ASSUME Registry, ~DbFaults, NEW c \in Conns, NEW j \in Jids, j[1] \notin Upstreams,
         \/ SessionStep
         \/ \E m \in Modules : Crash(m)
         \/ \E d \in Conns \ {c} : LoginFetch(d)
         \/ UNCHANGED vars,
         usermap'[ModuleOf[c]][j] = c, pc'[c] = "idle", ~closing'[c]
  PROVE  /\ Registered(c, j) /\ pc[c] = "idle" /\ ~closing[c]
         /\ RowOfAnother(j, c) => RowOfAnother(j, c)'
<1> DEFINE Rested == /\ Registered(c, j) /\ pc[c] = "idle" /\ ~closing[c]
                     /\ RowOfAnother(j, c) => RowOfAnother(j, c)'
<1> USE PresenceAssumption
<1>a. TypeOK /\ ModuleOf[c] \in Modules /\ c # None
  BY DEF Registry
<1>b. ASSUME usermap[ModuleOf[c]][j] = c, pc[c] = "idle", ~closing[c],
             UNCHANGED <<author, superseded>>
      PROVE  Rested
  BY <1>b DEF Registered, RowOfAnother
<1>1. ASSUME NEW d \in Conns,
             Connect(d) \/ FirstMessageNotLogin(d)
             \/ \E i \in Jids : LoginStart(d, i) \/ LogoutStart(d)
      PROVE  Rested
  <2>1. UNCHANGED <<usermap, author, superseded>>
    BY <1>1 DEF Connect, FirstMessageNotLogin, LoginStart, LogoutStart
  <2>2. pc[c] = "idle"
    BY <1>1, <1>a DEF Connect, FirstMessageNotLogin, LoginStart, LogoutStart, TypeOK
  <2>3. ~closing[c]
    BY <1>1, <1>a DEF Connect, FirstMessageNotLogin, LoginStart, LogoutStart, TypeOK
  <2> QED
    BY <1>b, <2>1, <2>2, <2>3
<1>2. ASSUME NEW d \in Conns, LoginSelect(d) PROVE Rested
  <2>1. UNCHANGED <<usermap, author, superseded, closing>> /\ pc' = [pc EXCEPT ![d] = "register"]
    BY <1>2 DEF LoginSelect, SqlResults
  <2> QED
    BY <1>a, <1>b, <2>1 DEF TypeOK
<1>3. ASSUME NEW d \in Conns \ {c}, LoginFetch(d) PROVE Rested
  BY <1>3, <1>a, <1>b DEF LoginFetch, TypeOK
<1>4. ASSUME NEW d \in Conns, Close(d) PROVE Rested
  <2>1. UNCHANGED <<pc, closing, superseded>>
    BY <1>4 DEF Close
  <2>2. /\ usermap[ModuleOf[c]][j] = c
        /\ ~(ModuleOf[c] = ModuleOf[d] /\ j = addrmap[d])
    BY <1>4, <1>a, CloseEffect
  <2>3. author'[j] = author[j] \/ (j = addrmap[d] /\ author'[j] = d)
    BY <1>4, CloseEffect
  <2> QED
    BY <2>1, <2>2, <2>3 DEF Registered, RowOfAnother
<1>5. ASSUME NEW d \in Conns, LoginRegister(d) PROVE Rested
  <2>1. /\ pc' = [pc EXCEPT ![d] = "replace"]
        /\ \A e \in Conns : closing[e] => closing'[e]
        /\ superseded \subseteq superseded'
        /\ \A m \in Modules, i \in Jids : usermap'[m][i] \in {d, usermap[m][i]}
    BY <1>5, <1>a, RegisterEffect DEF TypeOK
  <2>2. author' = author /\ d # c
    BY <1>5, <1>a, <2>1 DEF LoginRegister, TypeOK
  <2> QED
    BY <1>a, <2>1, <2>2 DEF Registered, RowOfAnother, TypeOK
<1>6. ASSUME NEW d \in Conns, LoginReplace(d) PROVE Rested
  <2>1. pc[d] = "replace" /\ UNCHANGED <<usermap, superseded>>
    BY <1>6 DEF LoginReplace
  <2>2. addrmap[d] = want[d] \/ d \in superseded
    BY <2>1 DEF Registry, HandlerOwnsJid
  <2>3. d # c
    <3> SUFFICES ASSUME d = c PROVE FALSE
      OBVIOUS
    <3>1. want[c][1] \in Upstreams
      BY <1>6, <1>a DEF LoginReplace, SqlResults, TypeOK
    <3>2. addrmap[c] = j
      BY <1>a, <2>1 DEF Registry, MapsAgree
    <3>3. c \notin superseded
      BY <3>2 DEF Registry, SupersededIsClosing
    <3> QED
      BY <2>2, <3>1, <3>2, <3>3
  <2>4. pc'[c] = pc[c]
    BY <1>6, <1>a, <2>3 DEF LoginReplace, TypeOK
  <2>5. closing' = closing
    BY <1>6 DEF LoginReplace, SqlResults
  <2>6. author'[j] = author[j] \/ (j = want[d] /\ author'[j] = d)
    BY <1>6, ReplaceEffect
  <2>7. Registered(c, j)
    BY <2>1 DEF Registered
  <2>8. j = want[d] => d \in superseded \/ ModuleOf[d] # ModuleOf[c]
    BY <2>2, <2>3, <2>7, WriterIsAnother
  <2> QED
    BY <2>1, <2>4, <2>5, <2>6, <2>7, <2>8 DEF RowOfAnother
<1>7. ASSUME NEW d \in Conns, LogoutUpdate(d) PROVE Rested
  <2>1. pc[d] = "logout" /\ UNCHANGED <<usermap, superseded>>
    BY <1>7 DEF LogoutUpdate
  <2>2. addrmap[d] = want[d] \/ d \in superseded
    BY <2>1 DEF Registry, HandlerOwnsJid
  <2>3. closing' = [closing EXCEPT ![d] = TRUE] /\ pc' = [pc EXCEPT ![d] = "idle"]
    BY <1>7, <1>a DEF LogoutUpdate, SqlResults, TypeOK
  <2>4. d # c /\ pc'[c] = pc[c] /\ closing'[c] = closing[c]
    BY <1>a, <2>3 DEF TypeOK
  <2>5. author'[j] = author[j] \/ (j = want[d] /\ author'[j] = d)
    BY <1>7, LogoutEffect
  <2>6. Registered(c, j)
    BY <2>1 DEF Registered
  <2>7. j = want[d] => d \in superseded \/ ModuleOf[d] # ModuleOf[c]
    BY <2>2, <2>4, <2>6, WriterIsAnother
  <2> QED
    BY <2>1, <2>4, <2>5, <2>6, <2>7 DEF RowOfAnother
<1>8. ASSUME NEW m \in Modules, Crash(m) PROVE Rested
  <2>1. usermap' = [usermap EXCEPT ![m] = [i \in Jids |-> None]]
        /\ UNCHANGED <<closing, author, superseded>>
    BY <1>8 DEF Crash
  <2>2. ModuleOf[c] # m
    BY <1>a, <2>1 DEF TypeOK
  <2>3. usermap[ModuleOf[c]][j] = c /\ pc[c] = "idle"
    BY <1>8, <1>a, <2>1, <2>2 DEF Crash, TypeOK
  <2> QED
    BY <1>b, <2>1, <2>3
<1>9. ASSUME NEW m \in Modules,
             Restart(m) \/ RestartFails(m)
             \/ \E n \in Names : ProcessClose(n, m) \/ LoseClose(n, m)
      PROVE  Rested
  <2>1. UNCHANGED <<usermap, pc, author, superseded>> /\ (closing[c] => closing'[c])
    BY <1>9 DEF Restart, RestartFails, ProcessClose, LoseClose
  <2> QED
    BY <1>b, <2>1
<1>10. CASE UNCHANGED vars
  BY <1>10, <1>b DEF vars
<1> QED
  BY <1>1, <1>2, <1>3, <1>4, <1>5, <1>6, <1>7, <1>8, <1>9, <1>10 DEF SessionStep

-----------------------------------------------------------------------------
\* Every step keeps OnlineRowIsServed.
LEMMA OnlineRowStep ==
  Registry /\ OnlineRowIsServed /\ [Next]_vars => OnlineRowIsServed'
<1> SUFFICES ASSUME Registry, OnlineRowIsServed, [Next]_vars, ~DbFaults,
                    NEW j \in Jids, online'[j].st = "on", up'[online'[j].at],
                    usermap'[online'[j].at][j] = None
             PROVE  author'[j] \in superseded'
  BY DEF OnlineRowIsServed
<1> USE PresenceAssumption
<1>0. ASSUME online'[j] = online[j], author'[j] = author[j], superseded \subseteq superseded',
             up[online[j].at], usermap[online[j].at][j] = None
      PROVE author'[j] \in superseded'
  BY <1>0 DEF OnlineRowIsServed
<1>1. ASSUME NEW c \in Conns,
             Connect(c) \/ FirstMessageNotLogin(c) \/ LoginSelect(c)
             \/ LoginFetch(c) \/ LogoutStart(c) \/ \E i \in Jids : LoginStart(c, i)
      PROVE author'[j] \in superseded'
  <2>1. UNCHANGED <<up, usermap, online, author, superseded>>
    BY <1>1 DEF Connect, FirstMessageNotLogin, LoginSelect, LoginFetch,
              LogoutStart, LoginStart
  <2> QED
    BY <1>0, <2>1
<1>2. ASSUME NEW c \in Conns, Close(c) PROVE author'[j] \in superseded'
  <2>1. UNCHANGED <<up, superseded>>
    BY <1>2 DEF Close
  <2>2. /\ j # addrmap[c] /\ online'[j] = online[j] /\ author'[j] = author[j]
        /\ \A m \in Modules : usermap'[m][j] = usermap[m][j]
    BY <1>2, CloseEffect
  <2>3. online[j].at \in Modules
    BY <2>2 DEF Registry, OnlineAtModule
  <2> QED
    BY <1>0, <2>1, <2>2, <2>3
<1>3. ASSUME NEW c \in Conns, LoginRegister(c) PROVE author'[j] \in superseded'
  <2>1. UNCHANGED <<up, online, author>> /\ superseded \subseteq superseded'
    BY <1>3 DEF LoginRegister
  <2>2. online[j].at \in Modules
    BY <2>1 DEF Registry, OnlineAtModule
  <2>3. \A m \in Modules : usermap'[m][j] = usermap[m][j] \/ usermap'[m][j] = c
    BY <1>3, RegisterEffect
  <2> QED
    BY <1>0, <2>1, <2>2, <2>3
<1>4. ASSUME NEW c \in Conns, LoginReplace(c) PROVE author'[j] \in superseded'
  <2>1. pc[c] = "replace" /\ UNCHANGED <<up, usermap, superseded>>
    BY <1>4 DEF LoginReplace
  <2>2. /\ j # want[c] => online'[j] = online[j] /\ author'[j] = author[j]
        /\ \/ /\ online'[want[c]] = [st |-> "on", at |-> ModuleOf[c]]
              /\ author'[want[c]] = c
           \/ online' = online /\ author' = author
    BY <1>4, ReplaceEffect
  <2>3. CASE online'[j] = online[j] /\ author'[j] = author[j]
    BY <1>0, <2>1, <2>3
  <2>4. CASE j = want[c] /\ online'[j] = [st |-> "on", at |-> ModuleOf[c]] /\ author'[j] = c
    <3>1. usermap[ModuleOf[c]][want[c]] = None
      BY <2>1, <2>4
    <3>2. addrmap[c] # want[c]
      BY <2>4, <3>1 DEF Registry, MapsAgree, Registered
    <3> QED
      BY <2>1, <2>4, <3>2 DEF Registry, HandlerOwnsJid
  <2> QED
    BY <2>2, <2>3, <2>4
<1>5. ASSUME NEW c \in Conns, LogoutUpdate(c) PROVE author'[j] \in superseded'
  <2>1. UNCHANGED <<up, usermap, superseded>>
    BY <1>5 DEF LogoutUpdate
  <2>2. online'[j] = online[j] /\ author'[j] = author[j]
    BY <1>5, LogoutEffect
  <2> QED
    BY <1>0, <2>1, <2>2
<1>6. ASSUME NEW m \in Modules, NEW n \in Names, ProcessClose(n, m) \/ LoseClose(n, m)
      PROVE author'[j] \in superseded'
  <2>1. UNCHANGED <<up, usermap, online, author, superseded>>
    BY <1>6 DEF ProcessClose, LoseClose
  <2> QED
    BY <1>0, <2>1
<1>7. ASSUME NEW m \in Modules, Crash(m) PROVE author'[j] \in superseded'
  <2>1. UNCHANGED <<online, author, superseded>> /\ up' = [up EXCEPT ![m] = FALSE]
        /\ usermap' = [usermap EXCEPT ![m] = [i \in Jids |-> None]]
    BY <1>7 DEF Crash
  <2>2. online[j].at \in Modules /\ online[j].at # m
    BY <2>1 DEF Registry, TypeOK, OnlineAtModule
  <2> QED
    BY <1>0, <2>1, <2>2 DEF Registry, TypeOK
<1>a. ASSUME NEW m \in Modules, RestartFails(m) PROVE FALSE
  BY <1>a DEF RestartFails
<1>8. ASSUME NEW m \in Modules, Restart(m) PROVE author'[j] \in superseded'
  <2>1. UNCHANGED <<usermap, author, superseded>> /\ up' = [up EXCEPT ![m] = TRUE]
    BY <1>8 DEF Restart, RowsCleared
  <2>2. online[j] \in Rows
    BY DEF Registry, TypeOK
  <2>3. online[j] # [st |-> "on", at |-> m]
    <3> SUFFICES ASSUME online[j] = [st |-> "on", at |-> m] PROVE FALSE
      OBVIOUS
    <3>1. online'[j] = [online[j] EXCEPT !.st = "off"]
      BY <1>8 DEF Restart, RowsCleared
    <3> QED
      BY <2>2, <3>1 DEF Rows
  <2>4. online'[j] = online[j]
    BY <1>8, <2>3 DEF Restart, RowsCleared
  <2>5. online[j].at # m
    BY <2>2, <2>3, <2>4 DEF Rows
  <2> QED
    BY <1>0, <2>1, <2>4, <2>5 DEF Registry, TypeOK
<1>9. CASE UNCHANGED vars
  BY <1>0, <1>9 DEF vars
<1> QED
  BY <1>1, <1>2, <1>3, <1>4, <1>5, <1>6, <1>7, <1>8, <1>9, <1>a DEF Next, SessionStep

\* While no statement fails, a row that says online without a session was
\* written by a login that had been kicked out.
THEOREM PresenceOnlineRowIsServed == Spec => []OnlineRowIsServed
<1>1. Init => OnlineRowIsServed
  BY DEF Init, OnlineRowIsServed
<1> QED
  BY <1>1, RegistryInvariant, OnlineRowStep, PTL DEF Spec

-----------------------------------------------------------------------------
\* A session ends by its own connection or by being kicked out.
THEOREM PresenceEviction == Spec => EvictedByItsOwnClose
<1> DEFINE Evicted == \A c \in Conns, j \in Jids :
                        Registered(c, j) /\ ~Registered(c, j)' =>
                          conn[c]' = "gone" \/ c \in superseded'
<1>1. Registry /\ [Next]_vars => [Evicted]_vars
  <2> SUFFICES ASSUME Registry, Next, NEW d \in Conns, NEW j \in Jids,
                      usermap[ModuleOf[d]][j] = d, usermap'[ModuleOf[d]][j] # d
               PROVE  conn'[d] = "gone" \/ d \in superseded'
    BY DEF Registered
  <2> USE PresenceAssumption
  <2>1. addrmap[d] = j
    BY DEF Registry, MapsAgree
  <2>2. ASSUME NEW c \in Conns, Close(c) PROVE conn'[d] = "gone"
    <3>1. j = addrmap[c] /\ ModuleOf[d] = ModuleOf[c]
      BY <2>2, CloseEffect
    <3>2. c = d
      BY <3>1 DEF Registry, MapsAgree, Registered
    <3> QED
      BY <2>2, <3>2 DEF Close, Registry, TypeOK
  <2>3. ASSUME NEW c \in Conns, LoginRegister(c) PROVE d \in superseded'
    <3>1. d = usermap[ModuleOf[c]][want[c]]
          /\ superseded' = superseded \cup ({usermap[ModuleOf[c]][want[c]]} \ {None})
      BY <2>3, RegisterEffect
    <3> QED
      BY <3>1
  <2>4. ASSUME NEW m \in Modules, Crash(m) PROVE conn'[d] = "gone"
    <3>1. ModuleOf[d] = m
      BY <2>4 DEF Crash, Registry, TypeOK
    <3>2. conn[d] = "live"
      BY <2>1 DEF Registry, LoginFindsUser
    <3> QED
      BY <2>4, <3>1, <3>2 DEF Crash
  <2> QED
    BY <2>2, <2>3, <2>4 DEF Next, SessionStep, Connect, FirstMessageNotLogin, LoginStart,
       LoginSelect, LoginReplace, LoginFetch,
       LogoutStart, LogoutUpdate, ProcessClose, LoseClose, Restart, RestartFails
<1> QED
  BY <1>1, RegistryInvariant, PTL DEF Spec, EvictedByItsOwnClose

-----------------------------------------------------------------------------
\* Every step of the processes is a step of the abstract sessions or leaves
\* them alone.
LEMMA SessionsStep == Registry /\ [Next]_vars => [S!Next]_(S!vars)
<1> SUFFICES ASSUME Registry, [Next]_vars PROVE [S!Next]_(S!vars)
  OBVIOUS
<1> USE PresenceAssumption
<1>1. ASSUME NEW c \in Conns, Close(c) PROVE S!Next
  <2>1. /\ conn' = [conn EXCEPT ![c] = "gone"] /\ superseded' = superseded
        /\ usermap' \in [Modules -> [Jids -> Conns \cup {None}]]
        /\ \A m \in Modules, j \in Jids :
             usermap'[m][j] = IF m = ModuleOf[c] /\ j = addrmap[c] THEN None
                              ELSE usermap[m][j]
    BY <1>1, CloseEffect DEF Close
  <2>2. Ended' = Ended \cup {c}
    BY <2>1 DEF Ended, Registry, TypeOK
  <2>3. \A m \in Modules, j \in Jids :
          usermap[m][j] = c <=> m = ModuleOf[c] /\ j = addrmap[c]
    BY DEF Registry, MapsAgree, Registered
  <2>4. usermap' = [m \in Modules |-> [j \in Jids |->
                      IF usermap[m][j] \in {c} THEN None ELSE usermap[m][j]]]
    <3>1. \A m \in Modules : usermap'[m] = [j \in Jids |->
                      IF usermap[m][j] \in {c} THEN None ELSE usermap[m][j]]
      BY <2>1, <2>3
    <3> QED
      BY <2>1, <3>1
  <2>5. S!End({c})
    BY <2>2, <2>4 DEF S!End
  <2> QED
    BY <2>5 DEF S!Next
<1>2. ASSUME NEW c \in Conns, LoginRegister(c) PROVE S!Next
  <2>1. /\ want[c] \in Jids /\ addrmap[c] = Fresh /\ conn[c] = "live"
        /\ superseded' = superseded \cup ({usermap[ModuleOf[c]][want[c]]} \ {None})
    BY <1>2, RegisterEffect
  <2>2. /\ usermap' = [usermap EXCEPT ![ModuleOf[c]][want[c]] = c] /\ conn' = conn
    BY <1>2, <2>1 DEF LoginRegister
  <2>3. c \notin Ended
    BY <2>1 DEF Ended, Registry, SupersededIsClosing
  <2>4. S!HoldsNothing(c)
    BY <2>1 DEF S!HoldsNothing, Registry, MapsAgree
  <2>5. Ended' = Ended \cup ({usermap[ModuleOf[c]][want[c]]} \ {None})
    BY <2>1, <2>2 DEF Ended
  <2>6. S!Take(c, want[c])
    BY <2>2, <2>3, <2>4, <2>5 DEF S!Take
  <2> QED
    BY <2>1, <2>6 DEF S!Next
<1>3. ASSUME NEW m \in Modules, Crash(m) PROVE S!Next
  <2> DEFINE C == {c \in Conns : ModuleOf[c] = m /\ conn[c] = "live"}
  <2>1. /\ conn' = [c \in Conns |-> IF ModuleOf[c] = m /\ conn[c] = "live" THEN "gone"
                                    ELSE conn[c]]
        /\ superseded' = superseded
        /\ usermap' = [usermap EXCEPT ![m] = [j \in Jids |-> None]]
    BY <1>3 DEF Crash
  <2>2. Ended' = Ended \cup C
    BY <2>1 DEF Ended
  <2>3. \A n \in Modules, j \in Jids : usermap[n][j] \in C <=> n = m /\ usermap[n][j] # None
    BY DEF Registry, TypeOK, MapsAgree, LoginFindsUser
  <2>4. usermap' \in [Modules -> [Jids -> Conns \cup {None}]]
    BY <2>1 DEF Registry, TypeOK
  <2>5. \A n \in Modules, j \in Jids :
          usermap'[n][j] = IF usermap[n][j] \in C THEN None ELSE usermap[n][j]
    BY <2>1, <2>3 DEF Registry, TypeOK
  <2> HIDE DEF C
  <2>6. usermap' = [n \in Modules |-> [j \in Jids |->
                      IF usermap[n][j] \in C THEN None ELSE usermap[n][j]]]
    <3>1. \A n \in Modules : usermap'[n] = [j \in Jids |->
                      IF usermap[n][j] \in C THEN None ELSE usermap[n][j]]
      BY <2>4, <2>5
    <3> QED
      BY <2>4, <3>1
  <2>7. C \in SUBSET Conns
    BY DEF C
  <2>8. S!End(C)
    BY <2>2, <2>6 DEF S!End
  <2> QED
    BY <2>7, <2>8 DEF S!Next
<1>4. ASSUME NEW c \in Conns, Connect(c) PROVE UNCHANGED S!vars
  BY <1>4 DEF Connect, S!vars, Ended, Registry, TypeOK
<1>5. ASSUME UNCHANGED <<conn, usermap, superseded>> PROVE UNCHANGED S!vars
  BY <1>5 DEF S!vars, Ended
<1> QED
  BY <1>1, <1>2, <1>3, <1>4, <1>5 DEF Next, SessionStep, FirstMessageNotLogin, LoginStart,
     LoginSelect, LoginReplace, LoginFetch,
       LogoutStart, LogoutUpdate, ProcessClose, LoseClose,
     Restart, RestartFails, vars

\* The presence processes implement the abstract sessions.
THEOREM PresenceImplementsSessions == Spec => ImplementsSessions
<1>1. Init => S!Init
  BY DEF Init, S!Init, Ended
<1>2. Registry /\ [Next]_vars => [S!Next]_(S!vars)
  BY SessionsStep
<1> QED
  BY <1>1, <1>2, RegistryInvariant, PTL DEF Spec, ImplementsSessions, S!Spec

=============================================================================
