------------------------------ MODULE Discovery -----------------------------
(***************************************************************************)
(* How servers become known: every module keeps its row of im_module_info  *)
(* fresh, a presence server only while the row of its message server is;   *)
(* the dispatch server reads the rows into the pool it answers clients     *)
(* from, the router into the presence servers it forwards to.  (OnRun and  *)
(* ProcessTimer of presence.cpp, message.cpp, xdm.cpp, router.cpp and      *)
(* dispatch.cpp, and dispatch.cpp's GetPoolInfo.)                          *)
(*                                                                         *)
(* Time is in minutes: a process calls ProcessTimer every second and acts  *)
(* on every 60th call, so each process that runs has its turn once between *)
(* two Ticks.  now() is the database's, so one clock stands for all.       *)
(* Addresses are the servers themselves: im_addr_info is left out.         *)
(***************************************************************************)
EXTENDS Integers, FiniteSets

CONSTANTS
  Presence,    \* presence servers: rows named 'xmpp'
  Xdm,         \* xdm servers: rows named 'xcap'
  Version,     \* the version a server of either kind enters in its row
  ClientVersions,
  FreshFor,    \* minutes a row counts as fresh: 3
  PoolPeriod,  \* minutes between two readings of the rows: 3
  MaxFaults,   \* SQL statements that fail
  MaxCrashes   \* processes that end

Servers == Presence \cup Xdm
Modules == Servers \cup {"message"}              \* those whose row is read
Processes == Modules \cup {"router", "dispatch"}

ASSUME DiscoveryAssumption ==
  /\ {"message", "router", "dispatch"} \cap Servers = {}
  /\ Presence \cap Xdm = {}
  /\ Version \in [Servers -> Nat] /\ ClientVersions \subseteq Nat
  /\ FreshFor \in Nat \ {0} /\ PoolPeriod \in Nat \ {0}
  /\ MaxFaults \in Nat /\ MaxCrashes \in Nat

\* How long the row of a server in the pool, and that of its message server,
\* can have been left alone.
PoolAge == FreshFor + PoolPeriod - 1
MaxAge == PoolAge + FreshFor

VARIABLES
  up,       \* processes that run
  due,      \* those that have not had their turn this minute
  age,      \* minutes since uptime was written, MaxAge for more
  vouched,  \* history: the last write followed a look at the message server
  phase,    \* the router's and the dispatch server's count, in minutes
  known,    \* the router's m_upstreammap
  pool,     \* the dispatch server's m_poolmap, as the servers in it
  pub,      \* its m_pubinfo is not empty
  faults, crashes

vars == <<up, due, age, vouched, phase, known, pool, pub, faults, crashes>>

TypeOK ==
  /\ up \subseteq Processes /\ due \subseteq up
  /\ age \in [Modules -> 0 .. MaxAge]
  /\ vouched \subseteq Presence
  /\ phase \in [{"router", "dispatch"} -> 0 .. PoolPeriod - 1]
  /\ known \subseteq Presence /\ pool \subseteq Servers /\ pub \in BOOLEAN
  /\ faults \in 0 .. MaxFaults /\ crashes \in 0 .. MaxCrashes

Init ==
  /\ up = {} /\ due = {}
  /\ age = [m \in Modules |-> MaxAge]
  /\ vouched = {}
  /\ phase = [p \in {"router", "dispatch"} |-> 0]
  /\ known = {} /\ pool = {} /\ pub = FALSE
  /\ faults = 0 /\ crashes = 0

-----------------------------------------------------------------------------
\* adddate(uptime, interval 3 minute) > now()
Fresh(m) == age[m] < FreshFor

Fault == faults < MaxFaults /\ faults' = faults + 1

Turn(p) == p \in due /\ due' = due \ {p}

\* Mutant of NextPhase: the count stops and does not come round.
NextPhaseStopping(p) ==
  phase' = [phase EXCEPT ![p] = IF @ + 1 = PoolPeriod THEN @ ELSE @ + 1]

NextPhase(p) == phase' = [phase EXCEPT ![p] = (@ + 1) % PoolPeriod]

-----------------------------------------------------------------------------
\* A process is started, or started again by its parent: it enters its row
\* (or ends at once, when that fails) and knows nothing.
Run(p) ==
  /\ p \notin up
  /\ up' = up \cup {p} /\ due' = due \cup {p}
  /\ age' = IF p \in Modules THEN [age EXCEPT ![p] = 0] ELSE age
  /\ vouched' = vouched \ {p}
  /\ UNCHANGED <<phase, known, pool, pub, faults, crashes>>

\* A process ends and with it what it kept in memory; its row stays.  Between
\* two minutes: nobody sees the difference before it has its next turn.
Crash(p) ==
  /\ p \in up /\ due = {} /\ crashes < MaxCrashes
  /\ crashes' = crashes + 1
  /\ up' = up \ {p} /\ UNCHANGED due
  /\ phase' = [q \in DOMAIN phase |-> IF q = p THEN 0 ELSE phase[q]]
  /\ known' = IF p = "router" THEN {} ELSE known
  /\ pool' = IF p = "dispatch" THEN {} ELSE pool
  /\ pub' = (p # "dispatch" /\ pub)
  /\ UNCHANGED <<age, vouched, faults>>

\* Mutant of MayRefresh: presence servers refresh their rows whatever the
\* message server does.
MayRefreshAlways(p) == TRUE

\* A presence server first looks for a fresh row of its message server.
MayRefresh(p) == p \in Presence => Fresh("message")

\* ProcessTimer of a server or the message server.
Refresh(p) ==
  /\ p \in Modules /\ Turn(p)
  /\ \/ /\ MayRefresh(p)
        /\ age' = [age EXCEPT ![p] = 0]
        /\ vouched' = IF p \in Presence THEN vouched \cup {p} ELSE vouched
        /\ UNCHANGED faults
     \/ /\ ~MayRefresh(p)
        /\ UNCHANGED <<age, vouched, faults>>
     \/ /\ Fault
        /\ UNCHANGED <<age, vouched>>
  /\ UNCHANGED <<up, phase, known, pool, pub, crashes>>

\* 0 == count % 180
RouterReads == phase["router"] = 0

\* ProcessTimer of the router (its own row is read by nobody).  A server that
\* is known once is never taken out.
RouterTimer ==
  /\ Turn("router") /\ NextPhase("router")
  /\ \/ RouterReads /\ known' = known \cup {p \in Presence : Fresh(p)}
        /\ UNCHANGED faults
     \/ RouterReads /\ Fault /\ UNCHANGED known
     \/ ~RouterReads /\ UNCHANGED <<known, faults>>
  /\ UNCHANGED <<up, age, vouched, pool, pub, crashes>>

-----------------------------------------------------------------------------
\* Mutant of GetModules: rows that cannot be read leave the pool as it is.
GetModulesKeeping ==
  \/ pool' = {s \in Servers : Fresh(s)} /\ UNCHANGED faults
  \/ Fault /\ UNCHANGED pool

\* The new pool is put in place even when the rows could not be read.
GetModules ==
  \/ pool' = {s \in Servers : Fresh(s)} /\ UNCHANGED faults
  \/ Fault /\ pool' = {}

\* GetPubInfo and GetModules, whose statements fail together.
Reload ==
  \/ GetModules /\ pub' = TRUE
  \/ Fault /\ pub' = FALSE /\ pool' = {s \in Servers : Fresh(s)}

\* Mutant of DispatchReads: the pool is read again only when it is empty.
DispatchReadsWhenEmpty == pool = {}

\* 0 == count % 180 || m_poolmap.empty()
DispatchReads == phase["dispatch"] = 0 \/ pool = {}

\* The dispatch server's ProcessTimer, at a full minute.
DispatchTimer ==
  /\ Turn("dispatch") /\ NextPhase("dispatch")
  /\ \/ DispatchReads /\ Reload
     \/ ~DispatchReads /\ UNCHANGED <<pool, pub, faults>>
  /\ UNCHANGED <<up, age, vouched, known, crashes>>

\* At any other second it reads only when the pool is empty.
DispatchRetry ==
  /\ "dispatch" \in up \ due
  /\ pool = {}
  /\ Reload
  /\ UNCHANGED <<up, due, age, vouched, phase, known, crashes>>

\* The minute is over.
Tick ==
  /\ due = {}
  /\ due' = up
  /\ age' = [m \in Modules |-> IF age[m] < MaxAge THEN age[m] + 1 ELSE MaxAge]
  /\ UNCHANGED <<up, vouched, phase, known, pool, pub, faults, crashes>>

Next ==
  \/ \E p \in Processes : Run(p) \/ Crash(p) \/ Refresh(p)
  \/ RouterTimer
  \/ DispatchTimer
  \/ DispatchRetry
  \/ Tick

Spec == Init /\ [][Next]_vars

\* Timers fire and time passes.
Fairness ==
  /\ \A p \in Modules : WF_vars(Refresh(p))
  /\ WF_vars(RouterTimer) /\ WF_vars(DispatchTimer)
  /\ WF_vars(Tick)

FairSpec == Spec /\ Fairness

-----------------------------------------------------------------------------
(* ProcessHttpMsg and GetPoolInfo: what a client of version v is told.     *)

PoolVersions == {Version[s] : s \in pool}

\* The version of the pool that clients of version v use: the highest one that
\* is not above it.
PoolVersion(v) ==
  CHOOSE w \in PoolVersions : w <= v /\ \A x \in PoolVersions : x <= v => x <= w

OfKind(K, v) == {s \in pool \cap K : Version[s] = v}

\* The pairs of a presence and an xdm server a client may be sent to, whatever
\* its user's hash: none unless the version has both.
Offer(v) ==
  IF pub /\ \E w \in PoolVersions : w <= v
  THEN OfKind(Presence, PoolVersion(v)) \X OfKind(Xdm, PoolVersion(v))
  ELSE {}

-----------------------------------------------------------------------------
\* No client is sent to a server that has not written its row for longer than
\* a row stays fresh and a pool is kept, though the servers never leave the
\* pool themselves.
OfferIsRecent ==
  \A v \in ClientVersions : \A o \in Offer(v) : age[o[1]] <= PoolAge /\ age[o[2]] <= PoolAge

\* A message server that is gone takes its presence servers out of the offer:
\* their rows are refreshed for a while and the pool kept for a while, and
\* nothing more, unless a presence server was just started.
OfferNeedsMessageServer ==
  \A v \in ClientVersions : \A o \in Offer(v) :
    o[1] \in vouched => age["message"] <= PoolAge + FreshFor - 1

\* The router comes to know every presence server that stays.
RouterLearns ==
  \A p \in Presence :
    <>[]({p, "message", "router"} \subseteq up) => <>[](p \in known)

\* Clients of a version whose servers stay are served in the end, whatever
\* failed before: the pool is read again even when it is not empty.
OfferRecovers ==
  \A v \in ClientVersions :
    <>[](/\ {"message", "dispatch"} \subseteq up
         /\ \A K \in {Presence, Xdm} : \E s \in K \cap up : Version[s] = v)
      => <>[](Offer(v) # {})
=============================================================================
