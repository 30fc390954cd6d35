----------------------------- MODULE MySQLAgent -----------------------------
(***************************************************************************)
(* A database connection of the servers (TMySQLAgent in core/db/src), the  *)
(* threads that execute statements on it (sync_exec_sql, SynExecSql) and   *)
(* the thread that keeps idle connections alive (CCheckSyncMysql).         *)
(*                                                                         *)
(* setMySQLParam writes mysqlparam_ outside m_mutex; excute reads it twice *)
(* inside, the text and then the parameter the result goes to, as the      *)
(* arguments of Execute_SQL are evaluated.  Each work thread has an agent  *)
(* of its own, but xdm's timer, on any thread, uses that of the first.     *)
(*                                                                         *)
(* A parameter is named by its thread: a thread makes one call at a time.  *)
(* It is gone when the call is over, and using it then is undefined: the   *)
(* statement fails, or another text is executed, or the process ends.      *)
(***************************************************************************)
EXTENDS Integers, FiniteSets

CONSTANTS
  Users,   \* work threads that execute statements on the agent
  Connects \* attempts to reconnect in one call, RECONNECT_COUNT: 3

Threads == Users \cup {"keeper"}

ASSUME AgentAssumption ==
  /\ {"keeper", "none", "stale"} \cap Users = {} /\ IsFiniteSet(Users)
  /\ Connects \in Nat \ {0}

VARIABLES
  pc,       \* where a thread stands in its call
  mp,       \* mysqlparam_, by its thread
  lock,     \* the thread that holds m_mutex
  conn,     \* bhasconnect_
  left,     \* attempts to reconnect that are left
  idle,     \* m_excutetime is more than three minutes old
  text,     \* the statement an execution has read
  par,      \* the parameter its result goes to
  last,     \* whose result waits on the connection
  ran,      \* how often the statement of a thread's call took effect
  res,      \* whose result stands in a thread's parameter
  outcome,  \* what excute has returned
  crossed   \* history: mysqlparam_ was overwritten between Set and the reads

vars == <<pc, mp, lock, conn, left, idle, text, par, last, ran, res, outcome, crossed>>

call == <<text, par, last, ran, res, outcome, crossed>>

Params == Threads \cup {"none", "stale"}

Places == {"idle", "due", "lock", "connect", "text", "param", "query", "ping",
           "again", "store", "done", "ended"}

TypeOK ==
  /\ pc \in [Threads -> Places]
  /\ mp \in Threads \cup {"none"} /\ lock \in Threads \cup {"none"}
  /\ conn \in BOOLEAN /\ idle \in BOOLEAN /\ left \in 0 .. Connects
  /\ text \in [Threads -> Params] /\ par \in [Threads -> Params]
  /\ last \in Params
  /\ ran \in [Threads -> Nat]
  /\ res \in [Threads -> Params]
  /\ outcome \in [Threads -> {"none", "ok", "failed"}]
  /\ crossed \subseteq Threads

\* After SynStart.  m_excutetime was given no value yet.
Init ==
  /\ pc = [t \in Threads |-> "idle"]
  /\ mp = "none" /\ lock = "none" /\ conn = TRUE /\ left = 0
  /\ idle \in BOOLEAN
  /\ text = [t \in Threads |-> "none"] /\ par = [t \in Threads |-> "none"]
  /\ last = "none"
  /\ ran = [t \in Threads |-> 0] /\ res = [t \in Threads |-> "none"]
  /\ outcome = [t \in Threads |-> "none"] /\ crossed = {}

-----------------------------------------------------------------------------
Goto(t, p) == pc' = [pc EXCEPT ![t] = p]

\* The parameter mysqlparam_ points to, if its call is not over.
Pointed == IF mp = "none" \/ pc[mp] \in {"idle", "due"} THEN "stale" ELSE mp

\* Threads between their setMySQLParam and the reads of excute.
Exposed == {t \in Threads : pc[t] \in {"lock", "connect", "text", "param"}}

\* setMySQLParam: a new parameter, for a user's statement or the keep-alive's.
Set(t) ==
  /\ IF t = "keeper" THEN pc[t] = "due" ELSE pc[t] = "idle"
  /\ Goto(t, "lock")
  /\ mp' = t
  /\ crossed' = crossed \cup Exposed
  /\ UNCHANGED <<lock, conn, left, idle, text, par, last, ran, res, outcome>>

\* CCheckSyncMysql::Run looks at m_excutetime without the mutex.
KeeperLooks ==
  /\ pc["keeper"] = "idle" /\ idle
  /\ Goto("keeper", "due")
  /\ UNCHANGED <<mp, lock, conn, left, idle, call>>

\* Three minutes without an excute.
Rest ==
  /\ ~idle /\ idle' = TRUE
  /\ UNCHANGED <<pc, mp, lock, conn, left, call>>

\* Mutant of MayLock: excute does without the mutex.
MayLockAlways(t) == TRUE

MayLock(t) == lock = "none"

\* excute: the mutex, and a new connection when the last statement lost it.
Lock(t) ==
  /\ pc[t] = "lock" /\ MayLock(t)
  /\ lock' = t
  /\ idle' = FALSE
  /\ left' = IF conn THEN 0 ELSE Connects
  /\ Goto(t, IF conn THEN "text" ELSE "connect")
  /\ UNCHANGED <<mp, conn, call>>

\* Mutant of Return: a call that fails keeps the mutex.
ReturnHolding(t, r) ==
  /\ Goto(t, "done")
  /\ outcome' = [outcome EXCEPT ![t] = r]
  /\ lock' = IF r = "ok" THEN "none" ELSE lock
  /\ left' = 0
  /\ text' = [text EXCEPT ![t] = "none"] /\ par' = [par EXCEPT ![t] = "none"]

\* The end of excute.
Return(t, r) ==
  /\ Goto(t, "done")
  /\ outcome' = [outcome EXCEPT ![t] = r]
  /\ lock' = "none"
  /\ left' = 0
  /\ text' = [text EXCEPT ![t] = "none"] /\ par' = [par EXCEPT ![t] = "none"]

\* excute goes on.
Proceed(t, p) == Goto(t, p) /\ UNCHANGED <<lock, left, text, par, outcome>>

Connect(t) ==
  /\ pc[t] = "connect"
  /\ \/ /\ conn' = TRUE
        /\ Goto(t, "text") /\ left' = 0
        /\ UNCHANGED <<lock, text, par, outcome>>
     \/ /\ left > 1
        /\ left' = left - 1
        /\ UNCHANGED <<pc, lock, conn, text, par, outcome>>
     \/ left = 1 /\ Return(t, "failed") /\ UNCHANGED conn
  /\ UNCHANGED <<mp, idle, last, ran, res, crossed>>

\* The arguments of Execute_SQL: first mysqlparam_->sqlcommandtext_ ...
ReadText(t) ==
  /\ pc[t] = "text"
  /\ text' = [text EXCEPT ![t] = Pointed]
  /\ Goto(t, "param")
  /\ UNCHANGED <<mp, lock, conn, left, idle, par, last, ran, res, outcome, crossed>>

\* ... then mysqlparam_.
ReadParam(t) ==
  /\ pc[t] = "param"
  /\ par' = [par EXCEPT ![t] = Pointed]
  /\ Goto(t, "query")
  /\ UNCHANGED <<mp, lock, conn, left, idle, text, last, ran, res, outcome, crossed>>

-----------------------------------------------------------------------------
(* Execute_SQL.                                                            *)

\* The statement t has read takes effect in the database.
Effect(t) ==
  /\ ran' = [u \in Threads |-> IF u = text[t] THEN ran[u] + 1 ELSE ran[u]]
  /\ last' = text[t]

\* Mutant of Query: the second try that fails is followed by a third.
QueryOnAndOn(t) ==
  /\ pc[t] \in {"query", "again"}
  /\ \/ Effect(t) /\ Proceed(t, "store")
     \/ (Effect(t) \/ UNCHANGED <<ran, last>>) /\ Proceed(t, "ping")
  /\ UNCHANGED <<mp, conn, idle, res, crossed>>

\* mysql_real_query: done; or failed, with or without an effect (the answer may
\* be late for MYSQL_OPT_READ_TIMEOUT, one second).
Query(t) ==
  /\ pc[t] \in {"query", "again"}
  /\ \/ Effect(t) /\ Proceed(t, "store") /\ UNCHANGED conn
     \/ /\ Effect(t) \/ UNCHANGED <<ran, last>>
        /\ \/ pc[t] = "query" /\ Proceed(t, "ping") /\ UNCHANGED conn
           \/ pc[t] = "again" /\ Return(t, "failed") /\ conn' = FALSE
  /\ UNCHANGED <<mp, idle, res, crossed>>

\* mysql_ping, which reconnects by itself (MYSQL_OPT_RECONNECT).
Ping(t) ==
  /\ pc[t] = "ping"
  /\ \/ Proceed(t, "again") /\ UNCHANGED conn
     \/ Return(t, "failed") /\ conn' = FALSE
  /\ UNCHANGED <<mp, idle, last, ran, res, crossed>>

\* mysql_store_result into the parameter.
Store(t) ==
  /\ pc[t] = "store"
  /\ res' = [u \in Threads |-> IF u = par[t] THEN last ELSE res[u]]
  /\ last' = "none"
  /\ Return(t, "ok")
  /\ UNCHANGED <<mp, conn, idle, ran, crossed>>

Dropped(f, t) == [u \in Threads |-> IF f[u] = t THEN "stale" ELSE f[u]]

\* The caller has read the result; the parameter is gone.
Leave(t) ==
  /\ pc[t] = "done"
  /\ Goto(t, "idle")
  /\ ran' = [ran EXCEPT ![t] = 0]
  /\ res' = [res EXCEPT ![t] = "none"]
  /\ outcome' = [outcome EXCEPT ![t] = "none"]
  /\ crossed' = crossed \ {t}
  /\ text' = Dropped(text, t) /\ par' = Dropped(par, t)
  /\ UNCHANGED <<mp, lock, conn, left, idle, last>>

\* A parameter that is gone was used, be it to log that no connection was made.
End(t) ==
  /\ \/ pc[t] \in {"param", "query", "again", "store"} /\ "stale" \in {text[t], par[t]}
     \/ pc[t] = "connect" /\ Pointed = "stale"
  /\ pc' = [u \in Threads |-> "ended"]
  /\ mp' = "none" /\ lock' = "none" /\ conn' = FALSE /\ left' = 0 /\ idle' = TRUE
  /\ text' = [u \in Threads |-> "none"] /\ par' = [u \in Threads |-> "none"]
  /\ last' = "none"
  /\ ran' = [u \in Threads |-> 0] /\ res' = [u \in Threads |-> "none"]
  /\ outcome' = [u \in Threads |-> "none"] /\ crossed' = {}

Excute(t) == Lock(t) \/ Connect(t) \/ ReadText(t) \/ ReadParam(t) \/ Query(t)
             \/ Ping(t) \/ Store(t) \/ Leave(t) \/ End(t)

Next ==
  \/ \E t \in Threads : Set(t) \/ Excute(t)
  \/ KeeperLooks
  \/ Rest

Spec == Init /\ [][Next]_vars

\* Threads run, and a mutex that is freed again and again is taken in the end.
Fairness ==
  \A t \in Threads :
    /\ WF_vars(Connect(t) \/ ReadText(t) \/ ReadParam(t) \/ Query(t) \/ Ping(t)
               \/ Store(t) \/ Leave(t))
    /\ SF_vars(Lock(t))

FairSpec == Spec /\ Fairness

-----------------------------------------------------------------------------
\* A call that returns success has executed its statement, and the result it
\* reads is that of its own statement, unless another thread has set its
\* parameter between this one's setMySQLParam and excute's reads: the mutex
\* covers the rest of the call, the retry after a ping included.
SuccessIsOwn ==
  \A t \in Threads \ crossed :
    outcome[t] = "ok" => ran[t] > 0 /\ res[t] = t

\* A statement takes effect at most twice for its own call, and twice more for
\* each other thread that picks it up: the retry after a ping is not repeated,
\* though the first try may have taken effect.
EffectBound == \A t \in Threads : ran[t] <= 2 * Cardinality(Threads)

\* Every call returns, whatever the database does: no path through excute
\* keeps the mutex, on which the keep-alive thread waits with that of its list.
CallReturns ==
  \A t \in Threads : pc[t] = "lock" ~> pc[t] \in {"done", "ended"}
=============================================================================
