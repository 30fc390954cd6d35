------------------------------ MODULE Presence ------------------------------
(***************************************************************************)
(* The session registry of the presence servers (server/imserver/presence).*)
(*                                                                         *)
(* Each presence process keeps two maps under one mutex: m_addrmap, from a *)
(* connection (addrinfo) to its User object, and m_usermap, from a user    *)
(* and a resource to the same User object.  A User is allocated by the     *)
(* CONNECT event of its connection, so the pointer stored in m_usermap is  *)
(* modelled by the connection that owns the object.  All the processes     *)
(* share the table im_online_info, with one row per jid.                   *)
(*                                                                         *)
(* The maps are only read or written inside the mutex, so one critical     *)
(* section is one step.  SQL statements run outside it (but for the UPDATE *)
(* of the CLOSE event) and are steps of their own: a login is five steps   *)
(* and a logout two, interleaved with those of the other work threads and  *)
(* of the other presence processes.                                        *)
(***************************************************************************)
EXTENDS Integers, FiniteSets

CONSTANTS
  Modules,      \* presence processes, by moduleaddr
  Conns,        \* connections, by addrinfo: encodeAddrInfo never repeats one
  Names,        \* user names
  Resources,    \* "@domain/resource" parts of a jid
  Upstreams,    \* names the router's connections use: they log in by IM_UPSTREAM
  Threads,      \* work threads of all the processes
  ModuleOf,     \* the process that accepted a connection
  ThreadOf,     \* the work thread fd % workcount that runs its events
  DbFaults,     \* may a SQL statement fail?
  Lossy,        \* processes to which the router may lose an IM_CLOSE
  Xml,          \* do the processes speak XML?  Otherwise BYTE
  None,         \* no connection / no module
  Absent,       \* addrinfo is not a key of m_addrmap
  Fresh         \* a User whose _username is still empty

Jids == Names \X Resources

ASSUME PresenceAssumption ==
  /\ ModuleOf \in [Conns -> Modules]
  /\ ThreadOf \in [Conns -> Threads]
  /\ \A c, d \in Conns : ThreadOf[c] = ThreadOf[d] => ModuleOf[c] = ModuleOf[d]
  /\ Upstreams \subseteq Names /\ Lossy \subseteq Modules
  /\ None \notin Conns /\ None \notin Modules
  /\ Absent \notin Jids /\ Fresh \notin Jids /\ Absent # Fresh
  /\ DbFaults \in BOOLEAN /\ Xml \in BOOLEAN

VARIABLES
  up,          \* is the process running (started and past OnRun)?
  conn,        \* events of the connection handled so far: "new", "live", "gone"
  pc,          \* where the handler of the connection's current message stands
  want,        \* the jid in the handler's local copy of the User
  addrmap,     \* m_addrmap
  usermap,     \* m_usermap: module -> jid -> connection
  closing,     \* the server asked the transport to close the connection
  online,      \* im_online_info, the row of each jid
  closeReqs,   \* IM_CLOSE messages <<user, moduleaddr>> under way
  author,      \* history: the connection a jid's row was last written for
  superseded   \* history: connections kicked out by a later login

vars == <<up, conn, pc, want, addrmap, usermap, closing, online, closeReqs,
          author, superseded>>

PCs == {"idle", "select", "register", "replace", "fetch", "logout"}

\* A row: no row yet, status 0 (off), 1 (on) or 2 (out), and moduleaddr.
Rows == [st : {"none", "off", "on", "out"}, at : Modules \cup {None}]

TypeOK ==
  /\ up \in [Modules -> BOOLEAN]
  /\ conn \in [Conns -> {"new", "live", "gone"}]
  /\ pc \in [Conns -> PCs]
  /\ want \in [Conns -> Jids \cup {None}]
  /\ addrmap \in [Conns -> Jids \cup {Absent, Fresh}]
  /\ usermap \in [Modules -> [Jids -> Conns \cup {None}]]
  /\ closing \in [Conns -> BOOLEAN]
  /\ online \in [Jids -> Rows]
  /\ closeReqs \subseteq Names \X Modules
  /\ author \in [Jids -> Conns \cup {None}]
  /\ superseded \subseteq Conns

Init ==
  /\ up = [m \in Modules |-> TRUE]
  /\ conn = [c \in Conns |-> "new"]
  /\ pc = [c \in Conns |-> "idle"]
  /\ want = [c \in Conns |-> None]
  /\ addrmap = [c \in Conns |-> Absent]
  /\ usermap = [m \in Modules |-> [j \in Jids |-> None]]
  /\ closing = [c \in Conns |-> FALSE]
  /\ online = [j \in Jids |-> [st |-> "none", at |-> None]]
  /\ closeReqs = {}
  /\ author = [j \in Jids |-> None]
  /\ superseded = {}

-----------------------------------------------------------------------------
\* Outcomes of sync_exec_sql.
SqlResults == IF DbFaults THEN BOOLEAN ELSE {TRUE}

\* Whether a statement with that outcome took effect: one that failed may have,
\* because the agent's first try is not undone.
Effects(ok) == IF ok THEN {TRUE} ELSE BOOLEAN

\* UPDATE im_online_info SET status=s WHERE jid=j, for the user of c: if it takes
\* effect it hits the row whatever its moduleaddr.
UpdateRow(j, s, c, done) ==
  IF done /\ online[j].st # "none"
  THEN /\ online' = [online EXCEPT ![j].st = s]
       /\ author' = [author EXCEPT ![j] = c]
  ELSE UNCHANGED <<online, author>>

\* REPLACE INTO im_online_info with status 1 and this module.
ReplaceRow(j, c, done) ==
  IF done
  THEN /\ online' = [online EXCEPT ![j] = [st |-> "on", at |-> ModuleOf[c]]]
       /\ author' = [author EXCEPT ![j] = c]
  ELSE UNCHANGED <<online, author>>

\* The work thread of c takes the next event of its queue.
CanRun(c) ==
  /\ up[ModuleOf[c]]
  /\ \A d \in Conns : ThreadOf[d] = ThreadOf[c] => pc[d] = "idle"

\* SOCK_TYPE_CONNECT: a User without a name is added.
Connect(c) ==
  /\ CanRun(c) /\ conn[c] = "new"
  /\ conn' = [conn EXCEPT ![c] = "live"]
  /\ IF addrmap[c] = Absent
     THEN /\ addrmap' = [addrmap EXCEPT ![c] = Fresh]
          /\ UNCHANGED closing
     ELSE /\ closing' = [closing EXCEPT ![c] = TRUE]
          /\ UNCHANGED addrmap
  /\ UNCHANGED <<up, pc, want, usermap, online, closeReqs, author, superseded>>

\* SOCK_TYPE_CLOSE: the whole handler holds the mutex, its UPDATE included.
\* It erases what m_usermap holds under the user's jid, and does not compare
\* the pointer it erases with its own.
Close(c) ==
  /\ CanRun(c) /\ conn[c] = "live"
  /\ conn' = [conn EXCEPT ![c] = "gone"]
  /\ addrmap' = [addrmap EXCEPT ![c] = Absent]
  /\ LET m == ModuleOf[c]
         j == addrmap[c]
     IN  IF j \in Jids /\ usermap[m][j] # None
         THEN /\ usermap' = [usermap EXCEPT ![m][j] = None]
              /\ \E done \in SqlResults : UpdateRow(j, "off", c, done)
         ELSE UNCHANGED <<usermap, online, author>>
  /\ UNCHANGED <<up, pc, want, closing, closeReqs, superseded>>

\* The first message is neither a login nor one of those that are ignored.
\* The handler closes with the prototypes "XML" and "BINARY", and DoImResponse
\* knows "XML" and "BYTE": a binary connection stays open until it times out.
FirstMessageNotLogin(c) ==
  /\ CanRun(c) /\ addrmap[c] = Fresh
  /\ closing' = [closing EXCEPT ![c] = @ \/ Xml]
  /\ UNCHANGED <<up, conn, pc, want, addrmap, usermap, online, closeReqs,
                 author, superseded>>

-----------------------------------------------------------------------------
\* IM_LOGIN or IM_UPSTREAM on a connection without a name: IsClose copies the
\* User, ProcessLogin fills in the copy.
LoginStart(c, j) ==
  /\ CanRun(c) /\ addrmap[c] = Fresh
  /\ pc' = [pc EXCEPT ![c] = "select"]
  /\ want' = [want EXCEPT ![c] = j]
  /\ UNCHANGED <<up, conn, addrmap, usermap, closing, online, closeReqs,
                 author, superseded>>

\* The other modules at which the user has a row with status 1.
OnlineElsewhere(n, m) ==
  {o \in Modules \ {m} :
     \E r \in Resources : online[<<n, r>>] = [st |-> "on", at |-> o]}

\* SELECT moduleaddr ... WHERE name and status=1 and moduleaddr<>me, and one
\* IM_CLOSE upstream for each module found.
LoginSelect(c) ==
  /\ pc[c] = "select"
  /\ \E ok \in SqlResults :
       IF ok
       THEN /\ pc' = [pc EXCEPT ![c] = "register"]
            /\ closeReqs' = closeReqs \cup
                 {<<want[c][1], o>> : o \in OnlineElsewhere(want[c][1], ModuleOf[c])}
            /\ UNCHANGED <<want, closing>>
       ELSE /\ pc' = [pc EXCEPT ![c] = "idle"]
            /\ want' = [want EXCEPT ![c] = None]
            /\ closing' = [closing EXCEPT ![c] = TRUE]
            /\ UNCHANGED closeReqs
  /\ UNCHANGED <<up, conn, addrmap, usermap, online, author, superseded>>

\* m_addrmap when c has taken jid j from old (None if nobody held it).  The
\* mutant leaves the entry of the connection that is kicked out.
AddrmapKeepsKicked(c, j, old) == [addrmap EXCEPT ![c] = j]

AddrmapAfterLogin(c, j, old) ==
  [d \in Conns |-> IF d = old THEN Absent ELSE IF d = c THEN j ELSE addrmap[d]]

\* The kickout message closes the connection.  Mutant: sent without the flag.
KickoutStaysOpen(old) == closing

KickoutCloses(old) == [d \in Conns |-> closing[d] \/ d = old]

\* The connections kicked out.
Kicked(old) == {old} \ {None}

\* The critical section of ProcessLogin: the connection takes the jid and the
\* connection that held it is kicked out, its User deleted and its entry of
\* m_addrmap erased.
LoginRegister(c) ==
  /\ pc[c] = "register"
  /\ LET m   == ModuleOf[c]
         j   == want[c]
         old == usermap[m][j]
     IN  IF addrmap[c] = Absent
         THEN /\ pc' = [pc EXCEPT ![c] = "idle"]
              /\ want' = [want EXCEPT ![c] = None]
              /\ UNCHANGED <<addrmap, usermap, closing, superseded>>
         ELSE /\ pc' = [pc EXCEPT ![c] = "replace"]
              /\ addrmap' = AddrmapAfterLogin(c, j, old)
              /\ usermap' = [usermap EXCEPT ![m][j] = c]
              /\ closing' = KickoutCloses(old)
              /\ superseded' = superseded \cup Kicked(old)
              /\ UNCHANGED want
  /\ UNCHANGED <<up, conn, online, closeReqs, author>>

\* A login whose REPLACE failed closes the connection.  Mutant: it does not.
ReplaceFailsOpen(c) == closing

ReplaceFails(c) == [closing EXCEPT ![c] = TRUE]

\* REPLACE INTO im_online_info, then the answer to the client, which closes
\* the connection when the statement failed.
LoginReplace(c) ==
  /\ pc[c] = "replace"
  /\ \E ok \in SqlResults :
       /\ \E done \in Effects(ok) : ReplaceRow(want[c], c, done)
       /\ closing' = IF ok THEN closing ELSE ReplaceFails(c)
       /\ IF ok /\ want[c][1] \notin Upstreams
          THEN pc' = [pc EXCEPT ![c] = "fetch"] /\ UNCHANGED want
          ELSE pc' = [pc EXCEPT ![c] = "idle"] /\ want' = [want EXCEPT ![c] = None]
  /\ UNCHANGED <<up, conn, addrmap, usermap, closeReqs, superseded>>

\* A user, not an upstream, then gets the messages that wait in im_msg_chat.
LoginFetch(c) ==
  /\ pc[c] = "fetch"
  /\ pc' = [pc EXCEPT ![c] = "idle"]
  /\ want' = [want EXCEPT ![c] = None]
  /\ UNCHANGED <<up, conn, addrmap, usermap, closing, online, closeReqs, author,
                 superseded>>

-----------------------------------------------------------------------------
\* IM_LOGOUT: IsClose copies the User, ...
LogoutStart(c) ==
  /\ CanRun(c) /\ addrmap[c] \in Jids
  /\ pc' = [pc EXCEPT ![c] = "logout"]
  /\ want' = [want EXCEPT ![c] = addrmap[c]]
  /\ UNCHANGED <<up, conn, addrmap, usermap, closing, online, closeReqs,
                 author, superseded>>

\* ... and ProcessLogout sets status=2 for the jid of the copy.  The answer
\* closes the connection when the statement succeeded.
LogoutUpdate(c) ==
  /\ pc[c] = "logout"
  /\ pc' = [pc EXCEPT ![c] = "idle"]
  /\ want' = [want EXCEPT ![c] = None]
  /\ \E ok \in SqlResults :
       /\ \E done \in Effects(ok) : UpdateRow(want[c], "out", c, done)
       /\ closing' = [closing EXCEPT ![c] = @ \/ ok]
  /\ UNCHANGED <<up, conn, addrmap, usermap, closeReqs, superseded>>

\* The connections ProcessClose tells to reconnect, closing them.  Mutant:
\* without the close flag.
ReconnectStaysOpen(n, m) == {}

ToldToReconnect(n, m) == {c \in Conns : \E r \in Resources : usermap[m][<<n, r>>] = c}

\* IM_CLOSE from the router: every connection of the user is told to reconnect.
ProcessClose(n, m) ==
  /\ up[m] /\ <<n, m>> \in closeReqs
  /\ closeReqs' = closeReqs \ {<<n, m>>}
  /\ closing' = [c \in Conns |->
                   closing[c] \/ c \in ToldToReconnect(n, m)]
  /\ UNCHANGED <<up, conn, pc, want, addrmap, usermap, online, author, superseded>>

\* message, router or the connection between them drops an IM_CLOSE.
LoseClose(n, m) ==
  /\ m \in Lossy /\ <<n, m>> \in closeReqs
  /\ closeReqs' = closeReqs \ {<<n, m>>}
  /\ UNCHANGED <<up, conn, pc, want, addrmap, usermap, closing, online,
                 author, superseded>>

-----------------------------------------------------------------------------
\* The process dies: its maps, handlers and connections go with it.
Crash(m) ==
  /\ up[m]
  /\ up' = [up EXCEPT ![m] = FALSE]
  /\ conn' = [c \in Conns |->
                IF ModuleOf[c] = m /\ conn[c] = "live" THEN "gone" ELSE conn[c]]
  /\ pc' = [c \in Conns |-> IF ModuleOf[c] = m THEN "idle" ELSE pc[c]]
  /\ want' = [c \in Conns |-> IF ModuleOf[c] = m THEN None ELSE want[c]]
  /\ addrmap' = [c \in Conns |-> IF ModuleOf[c] = m THEN Absent ELSE addrmap[c]]
  /\ usermap' = [usermap EXCEPT ![m] = [j \in Jids |-> None]]
  /\ UNCHANGED <<closing, online, closeReqs, author, superseded>>

\* The rows after OnRun's UPDATE.  Mutant: the rows are kept.
RowsKept(m) == online

RowsCleared(m) ==
  [j \in Jids |->
     IF online[j] = [st |-> "on", at |-> m] THEN [online[j] EXCEPT !.st = "off"]
     ELSE online[j]]

\* The parent forks a new child, whose OnRun clears the rows of this module
\* before the server socket is opened.
Restart(m) ==
  /\ ~up[m]
  /\ up' = [up EXCEPT ![m] = TRUE]
  /\ online' = RowsCleared(m)
  /\ UNCHANGED <<conn, pc, want, addrmap, usermap, closing, closeReqs, author,
                 superseded>>

\* The child exits when the UPDATE fails, with an effect or without.
RestartFails(m) ==
  /\ ~up[m] /\ DbFaults
  /\ online' = RowsCleared(m)
  /\ UNCHANGED <<up, conn, pc, want, addrmap, usermap, closing, closeReqs, author,
                 superseded>>

-----------------------------------------------------------------------------
\* The steps of a handler that is running.
Handler(c) ==
  \/ LoginSelect(c) \/ LoginRegister(c) \/ LoginReplace(c) \/ LoginFetch(c)
  \/ LogoutUpdate(c)

\* The steps that only sessions and their rows take part in.
SessionStep ==
  \/ \E c \in Conns :
       \/ Connect(c) \/ Close(c) \/ FirstMessageNotLogin(c)
       \/ \E j \in Jids : LoginStart(c, j)
       \/ LoginSelect(c) \/ LoginRegister(c) \/ LoginReplace(c)
       \/ LogoutStart(c) \/ LogoutUpdate(c)
  \/ \E m \in Modules :
       \/ Restart(m) \/ RestartFails(m)
       \/ \E n \in Names : ProcessClose(n, m) \/ LoseClose(n, m)

Next ==
  \/ SessionStep
  \/ \E c \in Conns : LoginFetch(c)
  \/ \E m \in Modules : Crash(m)

Spec == Init /\ [][Next]_vars

\* Work threads run the handlers they start and the transport reports the
\* closing of a socket it was told to close; the event waits its turn in the
\* FIFO queue of its thread, hence strong fairness.  Clients, crashes and the
\* loss of messages are not fair; a child that died is restarted.
Fairness ==
  /\ \A c \in Conns : WF_vars(Handler(c)) /\ SF_vars(closing[c] /\ Close(c))
  /\ \A m \in Modules : WF_vars(Restart(m))
                        /\ \A n \in Names : SF_vars(ProcessClose(n, m))

FairSpec == Spec /\ Fairness

-----------------------------------------------------------------------------
Registered(c, j) == usermap[ModuleOf[c]][j] = c

\* The two maps agree: m_usermap holds, under a jid, exactly the connection
\* whose User has that jid.  ProcessLogin erases m_addrmap.find(kickout)
\* without testing for end(), and CLOSE erases the resource entry without
\* comparing pointers: both are right only because of this.
MapsAgree ==
  /\ \A m \in Modules, j \in Jids :
       usermap[m][j] # None => /\ ModuleOf[usermap[m][j]] = m
                               /\ addrmap[usermap[m][j]] = j
  /\ \A c \in Conns : addrmap[c] \in Jids => Registered(c, addrmap[c])

\* Only a connection whose CLOSE has not been handled has a User, and a login
\* that reaches the critical section still finds its own, unnamed: the test
\* for "has removed" there never succeeds.
LoginFindsUser ==
  \A c \in Conns :
    /\ addrmap[c] # Absent => conn[c] = "live"
    /\ pc[c] \in {"select", "register"} => addrmap[c] = Fresh

\* A connection that was kicked out has lost its User and is being closed, so
\* it cannot stay connected without being served.
SupersededIsClosing ==
  \A c \in superseded : addrmap[c] = Absent /\ (conn[c] = "live" => closing[c])

\* A row that says online at a running process with no such session was
\* written by a login that had been kicked out before its REPLACE ran: no
\* other interleaving of logins, logouts, closes and restarts leaves one
\* behind (as long as the statements themselves succeed).
OnlineRowIsServed ==
  ~DbFaults =>
    \A j \in Jids :
      (/\ online[j].st = "on" /\ up[online[j].at]
       /\ usermap[online[j].at][j] = None) => author[j] \in superseded

\* A session whose login was answered with success, and that is not being
\* closed, has its row saying so, unless the row was last written for a
\* connection it kicked out or for one of another process, or by a logout of its
\* own that was reported as failed although it took effect.
SessionHasOnlineRow ==
  \A c \in Conns, j \in Jids :
    (Registered(c, j) /\ pc[c] \in {"idle", "fetch"} /\ ~closing[c]) =>
      \/ online[j] = [st |-> "on", at |-> ModuleOf[c]]
      \/ author[j] \in superseded
      \/ author[j] \in Conns /\ ModuleOf[author[j]] # ModuleOf[c]
      \/ DbFaults /\ author[j] = c /\ online[j].st = "out"

\* A session leaves m_usermap by the end of its own connection or by being
\* kicked out, never through the CLOSE of another connection of the user.
EvictedByItsOwnClose ==
  [][\A c \in Conns, j \in Jids :
       Registered(c, j) /\ ~Registered(c, j)' =>
         conn[c]' = "gone" \/ c \in superseded']_vars

\* A connection that was kicked out is closed in the end.
SupersededGoes == \A c \in Conns : (c \in superseded) ~> (conn[c] = "gone")

\* A login elsewhere that saw the user online here ends the sessions the user
\* has here, on every resource, if the router loses nothing on the way.
CloseReaches ==
  \A c \in Conns, j \in Jids :
    ModuleOf[c] \notin Lossy =>
      (Registered(c, j) /\ <<j[1], ModuleOf[c]>> \in closeReqs) ~> (conn[c] = "gone")

\* The processes implement the abstract sessions: m_usermap says who holds a
\* jid, and a connection has ended when it was kicked out or closed.
Ended == superseded \cup {c \in Conns : conn[c] = "gone"}

S == INSTANCE Sessions WITH holder <- usermap, ended <- Ended

ImplementsSessions == S!Spec
=============================================================================
