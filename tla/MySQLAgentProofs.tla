-------------------------- MODULE MySQLAgentProofs --------------------------
(***************************************************************************)
(* Whose result a call of excute reads, for any number of threads that     *)
(* share the agent: a call is in excute only with the mutex, and           *)
(* mysqlparam_ is the caller's own from setMySQLParam on as long as nobody *)
(* else has called that before excute's reads.  And how often a statement   *)
(* can take effect: by what the calls under way may still add to it.        *)
(***************************************************************************)
EXTENDS MySQLAgent, FiniteSetTheorems, TLAPS

Executing == {"query", "ping", "again", "store"}
Inside == {"connect", "text", "param"} \cup Executing

\* excute runs with the mutex.
Mutex == \A t \in Threads : pc[t] \in Inside => lock = t

\* A call nobody has crossed works on its own parameter.
OwnParameter ==
  \A t \in Threads \ crossed :
    /\ pc[t] \in {"lock", "connect", "text", "param"} => mp = t
    /\ pc[t] \in {"param"} \cup Executing => text[t] = t
    /\ pc[t] \in Executing => par[t] = t
    /\ pc[t] = "store" => ran[t] > 0

\* A thread that stores into the parameter of a call that is done already has
\* executed that call's statement again.
DoneParameter ==
  \A u, t \in Threads :
    pc[t] = "done" =>
      /\ (pc[u] = "param" /\ mp = t) => text[u] = t
      /\ (pc[u] \in Executing /\ par[u] = t) => text[u] = t

\* The result that waits is that of the statement just executed.
LastIsOwn == \A u \in Threads : pc[u] = "store" /\ text[u] \in Threads => last = text[u]

OkIsDone == \A t \in Threads : outcome[t] = "ok" => pc[t] = "done"

IInv ==
  /\ TypeOK /\ Mutex /\ OwnParameter /\ DoneParameter /\ LastIsOwn /\ OkIsDone
  /\ SuccessIsOwn

-----------------------------------------------------------------------------
\* A step to another place.
LEMMA GotoPlace ==
  ASSUME TypeOK, NEW t \in Threads, NEW p \in Places, Goto(t, p)
  PROVE  pc' \in [Threads -> Places] /\ pc'[t] = p /\ \A u \in Threads \ {t} : pc'[u] = pc[u]
BY DEF TypeOK, Goto

\* The end of a call.
LEMMA ReturnTypes ==
  ASSUME TypeOK, NEW t \in Threads, NEW r \in {"ok", "failed"}, Return(t, r)
  PROVE  /\ pc' \in [Threads -> Places] /\ pc'[t] = "done"
         /\ outcome' \in [Threads -> {"none", "ok", "failed"}]
         /\ lock' = "none" /\ left' \in 0 .. Connects
         /\ text' \in [Threads -> Params] /\ par' \in [Threads -> Params]
<1>1. "done" \in Places
  BY DEF Places
<1>2. pc' \in [Threads -> Places] /\ pc'[t] = "done"
  BY <1>1, GotoPlace DEF Return
<1>3. /\ outcome' \in [Threads -> {"none", "ok", "failed"}]
      /\ lock' = "none" /\ left' \in 0 .. Connects
  BY AgentAssumption DEF Return, TypeOK
<1>4. text' \in [Threads -> Params] /\ par' \in [Threads -> Params]
  BY DEF Return, TypeOK, Params
<1> QED
  BY <1>2, <1>3, <1>4

\* A step of a call that goes on.
LEMMA ProceedTypes ==
  ASSUME TypeOK, NEW t \in Threads, NEW p \in Places, Proceed(t, p)
  PROVE  /\ pc' \in [Threads -> Places]
         /\ UNCHANGED <<lock, left, text, par, outcome>>
BY GotoPlace DEF Proceed

LEMMA PointedType == ASSUME TypeOK PROVE Pointed \in Params
BY DEF TypeOK, Pointed, Params

\* A step keeps the types.
LEMMA TypeStep == ASSUME TypeOK, [Next]_vars PROVE TypeOK'
<1>0. {"idle", "due", "lock", "connect", "text", "param", "query", "ping",
       "again", "store", "done"} \subseteq Places
  BY DEF Places
<1>1. ASSUME NEW t \in Threads, Set(t) PROVE TypeOK'
  <2>1. pc' \in [Threads -> Places]
    BY <1>0, <1>1, GotoPlace DEF Set
  <2> QED
    BY <1>1, <2>1 DEF Set, Exposed, TypeOK
<1>2. CASE KeeperLooks
  BY <1>0, <1>2, GotoPlace DEF KeeperLooks, call, TypeOK, Threads
<1>3. CASE Rest
  BY <1>3 DEF Rest, call, TypeOK
<1>4. ASSUME NEW t \in Threads, Lock(t) PROVE TypeOK'
  <2>1. (IF conn THEN "text" ELSE "connect") \in Places
    BY <1>0
  <2>2. pc' \in [Threads -> Places]
    BY <1>4, <2>1, GotoPlace DEF Lock
  <2>3. left' \in 0 .. Connects
    BY <1>4, AgentAssumption DEF Lock
  <2>4. lock' = t /\ idle' \in BOOLEAN
    BY <1>4 DEF Lock
  <2>5. UNCHANGED <<mp, conn, call>>
    BY <1>4 DEF Lock
  <2> QED
    BY <2>2, <2>3, <2>4, <2>5 DEF TypeOK, call
<1>5. ASSUME NEW t \in Threads, Connect(t) PROVE TypeOK'
  <2>1. /\ pc' \in [Threads -> Places] /\ left' \in 0 .. Connects /\ conn' \in BOOLEAN
        /\ outcome' \in [Threads -> {"none", "ok", "failed"}]
        /\ lock' \in Threads \cup {"none"}
        /\ text' \in [Threads -> Params] /\ par' \in [Threads -> Params]
    <3>1. CASE Goto(t, "text") /\ left' = 0 /\ conn' = TRUE /\ UNCHANGED <<lock, text, par, outcome>>
      BY <1>0, <3>1, GotoPlace, AgentAssumption DEF TypeOK
    <3>2. CASE left' = left - 1 /\ left > 1 /\ UNCHANGED <<pc, lock, conn, text, par, outcome>>
      BY <3>2, AgentAssumption DEF TypeOK
    <3>3. CASE Return(t, "failed") /\ UNCHANGED conn
      BY <3>3, ReturnTypes DEF TypeOK
    <3> QED
      BY <1>5, <3>1, <3>2, <3>3 DEF Connect
  <2> QED
    BY <1>5, <2>1 DEF Connect, TypeOK
<1>6. ASSUME NEW t \in Threads, ReadText(t) PROVE TypeOK'
  <2>1. pc' \in [Threads -> Places] /\ text' \in [Threads -> Params]
    BY <1>0, <1>6, GotoPlace, PointedType DEF ReadText, TypeOK
  <2> QED
    BY <1>6, <2>1 DEF ReadText, TypeOK
<1>7. ASSUME NEW t \in Threads, ReadParam(t) PROVE TypeOK'
  <2>1. pc' \in [Threads -> Places] /\ par' \in [Threads -> Params]
    BY <1>0, <1>7, GotoPlace, PointedType DEF ReadParam, TypeOK
  <2> QED
    BY <1>7, <2>1 DEF ReadParam, TypeOK
<1>8. ASSUME NEW t \in Threads, Query(t) PROVE TypeOK'
  <2>1. ran' \in [Threads -> Nat] /\ last' \in Params
    BY <1>8 DEF Query, Effect, TypeOK
  <2>2. /\ pc' \in [Threads -> Places] /\ left' \in 0 .. Connects /\ conn' \in BOOLEAN
        /\ outcome' \in [Threads -> {"none", "ok", "failed"}]
        /\ lock' \in Threads \cup {"none"}
        /\ text' \in [Threads -> Params] /\ par' \in [Threads -> Params]
    BY <1>0, <1>8, ProceedTypes, ReturnTypes DEF Query, TypeOK
  <2> QED
    BY <1>8, <2>1, <2>2 DEF Query, TypeOK
<1>9. ASSUME NEW t \in Threads, Ping(t) PROVE TypeOK'
  <2>1. /\ pc' \in [Threads -> Places] /\ left' \in 0 .. Connects /\ conn' \in BOOLEAN
        /\ outcome' \in [Threads -> {"none", "ok", "failed"}]
        /\ lock' \in Threads \cup {"none"}
        /\ text' \in [Threads -> Params] /\ par' \in [Threads -> Params]
    BY <1>0, <1>9, ProceedTypes, ReturnTypes DEF Ping, TypeOK
  <2> QED
    BY <1>9, <2>1 DEF Ping, TypeOK
<1>10. ASSUME NEW t \in Threads, Store(t) PROVE TypeOK'
  <2>1. res' \in [Threads -> Params] /\ last' \in Params
    BY <1>10 DEF Store, TypeOK, Params
  <2> QED
    BY <1>10, <2>1, ReturnTypes DEF Store, TypeOK
<1>11. ASSUME NEW t \in Threads, Leave(t) PROVE TypeOK'
  <2>1. pc' \in [Threads -> Places]
    BY <1>0, <1>11, GotoPlace DEF Leave
  <2>2. text' \in [Threads -> Params] /\ par' \in [Threads -> Params]
    BY <1>11 DEF Leave, Dropped, TypeOK, Params
  <2>3. /\ ran' \in [Threads -> Nat] /\ res' \in [Threads -> Params]
        /\ outcome' \in [Threads -> {"none", "ok", "failed"}]
    BY <1>11 DEF Leave, TypeOK, Params
  <2>4. crossed' \subseteq Threads
    BY <1>11 DEF Leave, TypeOK
  <2>5. UNCHANGED <<mp, lock, conn, left, idle, last>>
    BY <1>11 DEF Leave
  <2> QED
    BY <2>1, <2>2, <2>3, <2>4, <2>5 DEF TypeOK
<1>12. ASSUME NEW t \in Threads, End(t) PROVE TypeOK'
  <2>1. pc' \in [Threads -> Places]
    BY <1>12 DEF End, Places
  <2>2. /\ text' \in [Threads -> Params] /\ par' \in [Threads -> Params]
        /\ res' \in [Threads -> Params] /\ last' \in Params
        /\ mp' \in Threads \cup {"none"} /\ lock' \in Threads \cup {"none"}
    BY <1>12 DEF End, Params
  <2>3. /\ left' \in 0 .. Connects /\ ran' \in [Threads -> Nat]
        /\ outcome' \in [Threads -> {"none", "ok", "failed"}]
        /\ crossed' \subseteq Threads
    BY <1>12, AgentAssumption DEF End
  <2>4. conn' \in BOOLEAN /\ idle' \in BOOLEAN
    BY <1>12 DEF End
  <2> QED
    BY <2>1, <2>2, <2>3, <2>4 DEF TypeOK
<1>13. CASE UNCHANGED vars
  BY <1>13 DEF vars, call, TypeOK
<1> QED
  BY <1>1, <1>2, <1>3, <1>4, <1>5, <1>6, <1>7, <1>8, <1>9, <1>10, <1>11, <1>12, <1>13
  DEF Next, Excute

-----------------------------------------------------------------------------
\* A step keeps what is known of excute runs with the mutex.
LEMMA MutexStep == ASSUME IInv, [Next]_vars PROVE Mutex'
<1> USE AgentAssumption DEF IInv, TypeOK, Mutex, Inside, Executing, Threads, Params
<1>1. CASE KeeperLooks
  BY <1>1 DEF KeeperLooks, Goto, call
<1>2. CASE Rest
  BY <1>2 DEF Rest, call
<1>3. ASSUME NEW t \in Threads, Set(t) PROVE Mutex'
  BY <1>3 DEF Set, Goto, Exposed
<1>4. ASSUME NEW t \in Threads, Lock(t) PROVE Mutex'
  BY <1>4 DEF Lock, MayLock, Goto, call
<1>5. ASSUME NEW t \in Threads, Connect(t) PROVE Mutex'
  BY <1>5 DEF Connect, Goto, Return
<1>6. ASSUME NEW t \in Threads, ReadText(t) PROVE Mutex'
  BY <1>6 DEF ReadText, Goto, Pointed
<1>7. ASSUME NEW t \in Threads, ReadParam(t) PROVE Mutex'
  BY <1>7 DEF ReadParam, Goto, Pointed
<1>8. ASSUME NEW t \in Threads, Query(t) PROVE Mutex'
  BY <1>8 DEF Query, Effect, Proceed, Goto, Return
<1>9. ASSUME NEW t \in Threads, Ping(t) PROVE Mutex'
  BY <1>9 DEF Ping, Proceed, Goto, Return
<1>10. ASSUME NEW t \in Threads, Store(t) PROVE Mutex'
  BY <1>10 DEF Store, Goto, Return
<1>11. ASSUME NEW t \in Threads, Leave(t) PROVE Mutex'
  BY <1>11 DEF Leave, Goto, Dropped
<1>12. ASSUME NEW t \in Threads, End(t) PROVE Mutex'
  BY <1>12 DEF End
<1>13. CASE UNCHANGED vars
  BY <1>13 DEF vars, call
<1> QED
  BY <1>1, <1>2, <1>3, <1>4, <1>5, <1>6, <1>7, <1>8, <1>9, <1>10, <1>11, <1>12, <1>13
  DEF Next, Excute

\* A step keeps what is known of the parameter of a call nobody has crossed.
LEMMA OwnParameterStep == ASSUME IInv, [Next]_vars PROVE OwnParameter'
<1> USE AgentAssumption DEF IInv, TypeOK, Mutex, OwnParameter, Inside, Executing, Threads, Params
<1>1. CASE KeeperLooks
  BY <1>1 DEF KeeperLooks, Goto, call
<1>2. CASE Rest
  BY <1>2 DEF Rest, call
<1>3. ASSUME NEW t \in Threads, Set(t) PROVE OwnParameter'
  BY <1>3 DEF Set, Goto, Exposed
<1>4. ASSUME NEW t \in Threads, Lock(t) PROVE OwnParameter'
  BY <1>4 DEF Lock, MayLock, Goto, call
<1>5. ASSUME NEW t \in Threads, Connect(t) PROVE OwnParameter'
  BY <1>5 DEF Connect, Goto, Return
<1>6. ASSUME NEW t \in Threads, ReadText(t) PROVE OwnParameter'
  BY <1>6 DEF ReadText, Goto, Pointed
<1>7. ASSUME NEW t \in Threads, ReadParam(t) PROVE OwnParameter'
  BY <1>7 DEF ReadParam, Goto, Pointed
<1>8. ASSUME NEW t \in Threads, Query(t) PROVE OwnParameter'
  BY <1>8 DEF Query, Effect, Proceed, Goto, Return
<1>9. ASSUME NEW t \in Threads, Ping(t) PROVE OwnParameter'
  BY <1>9 DEF Ping, Proceed, Goto, Return
<1>10. ASSUME NEW t \in Threads, Store(t) PROVE OwnParameter'
  BY <1>10 DEF Store, Goto, Return
<1>11. ASSUME NEW t \in Threads, Leave(t) PROVE OwnParameter'
  BY <1>11 DEF Leave, Goto, Dropped
<1>12. ASSUME NEW t \in Threads, End(t) PROVE OwnParameter'
  BY <1>12 DEF End
<1>13. CASE UNCHANGED vars
  BY <1>13 DEF vars, call
<1> QED
  BY <1>1, <1>2, <1>3, <1>4, <1>5, <1>6, <1>7, <1>8, <1>9, <1>10, <1>11, <1>12, <1>13
  DEF Next, Excute

\* A step keeps what is known of a call that is done.
LEMMA DoneParameterStep == ASSUME IInv, [Next]_vars PROVE DoneParameter'
<1> USE AgentAssumption DEF IInv, TypeOK, Mutex, DoneParameter, Inside, Executing, Threads, Params
<1>1. CASE KeeperLooks
  BY <1>1 DEF KeeperLooks, Goto, call
<1>2. CASE Rest
  BY <1>2 DEF Rest, call
<1>3. ASSUME NEW t \in Threads, Set(t) PROVE DoneParameter'
  BY <1>3 DEF Set, Goto, Exposed
<1>4. ASSUME NEW t \in Threads, Lock(t) PROVE DoneParameter'
  BY <1>4 DEF Lock, MayLock, Goto, call
<1>5. ASSUME NEW t \in Threads, Connect(t) PROVE DoneParameter'
  BY <1>5 DEF Connect, Goto, Return
<1>6. ASSUME NEW t \in Threads, ReadText(t) PROVE DoneParameter'
  BY <1>6 DEF ReadText, Goto, Pointed
<1>7. ASSUME NEW t \in Threads, ReadParam(t) PROVE DoneParameter'
  BY <1>7 DEF ReadParam, Goto, Pointed
<1>8. ASSUME NEW t \in Threads, Query(t) PROVE DoneParameter'
  BY <1>8 DEF Query, Effect, Proceed, Goto, Return
<1>9. ASSUME NEW t \in Threads, Ping(t) PROVE DoneParameter'
  BY <1>9 DEF Ping, Proceed, Goto, Return
<1>10. ASSUME NEW t \in Threads, Store(t) PROVE DoneParameter'
  BY <1>10 DEF Store, Goto, Return
<1>11. ASSUME NEW t \in Threads, Leave(t) PROVE DoneParameter'
  BY <1>11 DEF Leave, Goto, Dropped
<1>12. ASSUME NEW t \in Threads, End(t) PROVE DoneParameter'
  BY <1>12 DEF End
<1>13. CASE UNCHANGED vars
  BY <1>13 DEF vars, call
<1> QED
  BY <1>1, <1>2, <1>3, <1>4, <1>5, <1>6, <1>7, <1>8, <1>9, <1>10, <1>11, <1>12, <1>13
  DEF Next, Excute

\* A step keeps what is known of the result that waits.
LEMMA LastIsOwnStep == ASSUME IInv, [Next]_vars PROVE LastIsOwn'
<1> USE AgentAssumption DEF IInv, TypeOK, Mutex, LastIsOwn, Inside, Executing, Threads, Params
<1>1. CASE KeeperLooks
  BY <1>1 DEF KeeperLooks, Goto, call
<1>2. CASE Rest
  BY <1>2 DEF Rest, call
<1>3. ASSUME NEW t \in Threads, Set(t) PROVE LastIsOwn'
  BY <1>3 DEF Set, Goto, Exposed
<1>4. ASSUME NEW t \in Threads, Lock(t) PROVE LastIsOwn'
  BY <1>4 DEF Lock, MayLock, Goto, call
<1>5. ASSUME NEW t \in Threads, Connect(t) PROVE LastIsOwn'
  BY <1>5 DEF Connect, Goto, Return
<1>6. ASSUME NEW t \in Threads, ReadText(t) PROVE LastIsOwn'
  BY <1>6 DEF ReadText, Goto, Pointed
<1>7. ASSUME NEW t \in Threads, ReadParam(t) PROVE LastIsOwn'
  BY <1>7 DEF ReadParam, Goto, Pointed
<1>8. ASSUME NEW t \in Threads, Query(t) PROVE LastIsOwn'
  BY <1>8 DEF Query, Effect, Proceed, Goto, Return
<1>9. ASSUME NEW t \in Threads, Ping(t) PROVE LastIsOwn'
  BY <1>9 DEF Ping, Proceed, Goto, Return
<1>10. ASSUME NEW t \in Threads, Store(t) PROVE LastIsOwn'
  BY <1>10 DEF Store, Goto, Return
<1>11. ASSUME NEW t \in Threads, Leave(t) PROVE LastIsOwn'
  BY <1>11 DEF Leave, Goto, Dropped
<1>12. ASSUME NEW t \in Threads, End(t) PROVE LastIsOwn'
  BY <1>12 DEF End
<1>13. CASE UNCHANGED vars
  BY <1>13 DEF vars, call
<1> QED
  BY <1>1, <1>2, <1>3, <1>4, <1>5, <1>6, <1>7, <1>8, <1>9, <1>10, <1>11, <1>12, <1>13
  DEF Next, Excute

\* A step keeps what is known of a success is at its end.
LEMMA OkIsDoneStep == ASSUME IInv, [Next]_vars PROVE OkIsDone'
<1> USE AgentAssumption DEF IInv, TypeOK, OkIsDone, Mutex, Inside, Executing, Threads, Params
<1>1. CASE KeeperLooks
  BY <1>1 DEF KeeperLooks, Goto, call
<1>2. CASE Rest
  BY <1>2 DEF Rest, call
<1>3. ASSUME NEW t \in Threads, Set(t) PROVE OkIsDone'
  BY <1>3 DEF Set, Goto, Exposed
<1>4. ASSUME NEW t \in Threads, Lock(t) PROVE OkIsDone'
  BY <1>4 DEF Lock, MayLock, Goto, call
<1>5. ASSUME NEW t \in Threads, Connect(t) PROVE OkIsDone'
  BY <1>5 DEF Connect, Goto, Return
<1>6. ASSUME NEW t \in Threads, ReadText(t) PROVE OkIsDone'
  BY <1>6 DEF ReadText, Goto, Pointed
<1>7. ASSUME NEW t \in Threads, ReadParam(t) PROVE OkIsDone'
  BY <1>7 DEF ReadParam, Goto, Pointed
<1>8. ASSUME NEW t \in Threads, Query(t) PROVE OkIsDone'
  BY <1>8 DEF Query, Effect, Proceed, Goto, Return
<1>9. ASSUME NEW t \in Threads, Ping(t) PROVE OkIsDone'
  BY <1>9 DEF Ping, Proceed, Goto, Return
<1>10. ASSUME NEW t \in Threads, Store(t) PROVE OkIsDone'
  BY <1>10 DEF Store, Goto, Return
<1>11. ASSUME NEW t \in Threads, Leave(t) PROVE OkIsDone'
  BY <1>11 DEF Leave, Goto, Dropped
<1>12. ASSUME NEW t \in Threads, End(t) PROVE OkIsDone'
  BY <1>12 DEF End
<1>13. CASE UNCHANGED vars
  BY <1>13 DEF vars, call
<1> QED
  BY <1>1, <1>2, <1>3, <1>4, <1>5, <1>6, <1>7, <1>8, <1>9, <1>10, <1>11, <1>12, <1>13
  DEF Next, Excute

\* A step keeps what is known of the result a call reads.
LEMMA SuccessIsOwnStep == ASSUME IInv, [Next]_vars PROVE SuccessIsOwn'
<1> USE AgentAssumption DEF IInv, TypeOK, SuccessIsOwn, OkIsDone, Mutex, OwnParameter, DoneParameter, LastIsOwn, Inside, Executing, Threads, Params
<1>1. CASE KeeperLooks
  BY <1>1 DEF KeeperLooks, Goto, call
<1>2. CASE Rest
  BY <1>2 DEF Rest, call
<1>3. ASSUME NEW t \in Threads, Set(t) PROVE SuccessIsOwn'
  BY <1>3 DEF Set, Goto, Exposed
<1>4. ASSUME NEW t \in Threads, Lock(t) PROVE SuccessIsOwn'
  BY <1>4 DEF Lock, MayLock, Goto, call
<1>5. ASSUME NEW t \in Threads, Connect(t) PROVE SuccessIsOwn'
  BY <1>5 DEF Connect, Goto, Return
<1>6. ASSUME NEW t \in Threads, ReadText(t) PROVE SuccessIsOwn'
  BY <1>6 DEF ReadText, Goto, Pointed
<1>7. ASSUME NEW t \in Threads, ReadParam(t) PROVE SuccessIsOwn'
  BY <1>7 DEF ReadParam, Goto, Pointed
<1>8. ASSUME NEW t \in Threads, Query(t) PROVE SuccessIsOwn'
  BY <1>8 DEF Query, Effect, Proceed, Goto, Return
<1>9. ASSUME NEW t \in Threads, Ping(t) PROVE SuccessIsOwn'
  BY <1>9 DEF Ping, Proceed, Goto, Return
<1>10. ASSUME NEW t \in Threads, Store(t) PROVE SuccessIsOwn'
  BY <1>10 DEF Store, Goto, Return
<1>11. ASSUME NEW t \in Threads, Leave(t) PROVE SuccessIsOwn'
  BY <1>11 DEF Leave, Goto, Dropped
<1>12. ASSUME NEW t \in Threads, End(t) PROVE SuccessIsOwn'
  BY <1>12 DEF End
<1>13. CASE UNCHANGED vars
  BY <1>13 DEF vars, call
<1> QED
  BY <1>1, <1>2, <1>3, <1>4, <1>5, <1>6, <1>7, <1>8, <1>9, <1>10, <1>11, <1>12, <1>13
  DEF Next, Excute

-----------------------------------------------------------------------------
\* The first states: no call is under way.
LEMMA InitIInv == Init => IInv
<1> SUFFICES ASSUME Init PROVE IInv
  OBVIOUS
<1>1. TypeOK
  <2>1. pc \in [Threads -> Places]
    BY DEF Init, Places
  <2> QED
    BY <2>1, AgentAssumption DEF Init, TypeOK, Params
<1>2. Mutex /\ OwnParameter /\ DoneParameter /\ LastIsOwn /\ OkIsDone /\ SuccessIsOwn
  BY DEF Init, Mutex, OwnParameter, DoneParameter, LastIsOwn, OkIsDone, SuccessIsOwn,
         Inside, Executing
<1> QED
  BY <1>1, <1>2 DEF IInv

LEMMA StepIInv == IInv /\ [Next]_vars => IInv'
<1> SUFFICES ASSUME IInv, [Next]_vars PROVE IInv'
  OBVIOUS
<1>1. TypeOK'
  BY TypeStep DEF IInv
<1>2. Mutex' /\ OwnParameter' /\ DoneParameter'
  BY MutexStep, OwnParameterStep, DoneParameterStep
<1>3. LastIsOwn' /\ OkIsDone' /\ SuccessIsOwn'
  BY LastIsOwnStep, OkIsDoneStep, SuccessIsOwnStep
<1> QED
  BY <1>1, <1>2, <1>3 DEF IInv

LEMMA Inductive == Spec => []IInv
<1> QED
  BY InitIInv, StepIInv, PTL DEF Spec

\* The agent's variables keep their types, for any number of threads.
THEOREM TypeCorrect == Spec => []TypeOK
<1>1. IInv => TypeOK
  BY DEF IInv
<1> QED
  BY <1>1, Inductive, PTL

\* excute reads the result of the caller's own statement, and has executed it,
\* for any number of threads on one agent, unless another thread called
\* setMySQLParam between the caller's and excute's reads of mysqlparam_.
THEOREM SuccessfulCallsReadTheirOwn == Spec => []SuccessIsOwn
<1>1. IInv => SuccessIsOwn
  BY DEF IInv
<1> QED
  BY <1>1, Inductive, PTL

\* Two threads are never in excute at once.
THEOREM OneExecutes ==
  Spec => [](\A t, u \in Threads : pc[t] \in Inside /\ pc[u] \in Inside => t = u)
<1>1. IInv => \A t, u \in Threads : pc[t] \in Inside /\ pc[u] \in Inside => t = u
  BY DEF IInv, Mutex
<1> QED
  BY <1>1, Inductive, PTL

-----------------------------------------------------------------------------
(* How often a statement takes effect.                                     *)

\* Calls that may execute t's statement, once more at least ...
Owing(t) ==
  {u \in Threads : \/ pc[u] \in {"lock", "connect", "text"} /\ mp = t
                   \/ pc[u] \in {"param", "query", "ping", "again"} /\ text[u] = t}

\* ... and those that may twice.
OwingTwice(t) ==
  {u \in Threads : \/ pc[u] \in {"lock", "connect", "text"} /\ mp = t
                   \/ pc[u] \in {"param", "query"} /\ text[u] = t}

Under(t) == pc[t] \notin {"idle", "due"}

\* A statement that has taken effect, or that a thread has read, is one of a
\* call under way.
LiveText ==
  /\ \A u, t \in Threads : text[u] = t => Under(t)
  /\ \A t \in Threads : ran[t] > 0 => Under(t)

\* What has been done and what may still be.
Balance ==
  \A t \in Threads :
    ran[t] + Cardinality(Owing(t)) + Cardinality(OwingTwice(t)) <= 2 * Cardinality(Threads)

EInv == TypeOK /\ LiveText /\ Balance

-----------------------------------------------------------------------------
LEMMA FiniteThreads ==
  /\ IsFiniteSet(Threads) /\ Cardinality(Threads) \in Nat
  /\ \A S \in SUBSET Threads :
       /\ IsFiniteSet(S) /\ Cardinality(S) \in Nat
       /\ Cardinality(S) <= Cardinality(Threads)
<1>1. IsFiniteSet(Threads)
  BY AgentAssumption, FS_AddElement DEF Threads
<1>2. \A S \in SUBSET Threads : IsFiniteSet(S) /\ Cardinality(S) <= Cardinality(Threads)
  BY <1>1, FS_Subset
<1>3. \A S \in SUBSET Threads : Cardinality(S) \in Nat
  BY <1>2, FS_CardinalityType
<1> QED
  BY <1>1, <1>2, <1>3

LEMMA OwingSets == \A t : Owing(t) \subseteq Threads /\ OwingTwice(t) \subseteq Threads
BY DEF Owing, OwingTwice

\* A call that owes nothing new to t, nor has executed its statement.
LEMMA BalanceKept ==
  ASSUME NEW t \in Threads, TypeOK, TypeOK', Balance,
         ran'[t] <= ran[t], Owing(t)' \subseteq Owing(t), OwingTwice(t)' \subseteq OwingTwice(t)
  PROVE  ran'[t] + Cardinality(Owing(t)') + Cardinality(OwingTwice(t)')
           <= 2 * Cardinality(Threads)
<1>1. /\ IsFiniteSet(Owing(t)) /\ IsFiniteSet(OwingTwice(t))
      /\ Cardinality(Owing(t)) \in Nat /\ Cardinality(OwingTwice(t)) \in Nat
  BY OwingSets, FiniteThreads
<1>2. /\ Cardinality(Owing(t)') \in Nat /\ Cardinality(Owing(t)') <= Cardinality(Owing(t))
      /\ Cardinality(OwingTwice(t)') \in Nat
      /\ Cardinality(OwingTwice(t)') <= Cardinality(OwingTwice(t))
  BY <1>1, FS_Subset, FS_CardinalityType
<1>3. ran[t] \in Nat /\ ran'[t] \in Nat
  BY DEF TypeOK
<1>4. ran[t] + Cardinality(Owing(t)) + Cardinality(OwingTwice(t)) <= 2 * Cardinality(Threads)
  BY DEF Balance
<1> QED
  BY <1>1, <1>2, <1>3, <1>4, FiniteThreads

\* A statement without an effect yet: nobody owes it more than two.
LEMMA BalanceFresh ==
  ASSUME NEW t \in Threads, ran'[t] = 0
  PROVE  ran'[t] + Cardinality(Owing(t)') + Cardinality(OwingTwice(t)')
           <= 2 * Cardinality(Threads)
<1>1. Owing(t)' \subseteq Threads /\ OwingTwice(t)' \subseteq Threads
  BY DEF Owing, OwingTwice
<1>2. /\ Cardinality(Owing(t)') \in Nat /\ Cardinality(Owing(t)') <= Cardinality(Threads)
      /\ Cardinality(OwingTwice(t)') \in Nat
      /\ Cardinality(OwingTwice(t)') <= Cardinality(Threads)
  BY <1>1, FiniteThreads
<1> QED
  BY <1>2, FiniteThreads

\* u pays one of what it owes t.
LEMMA BalancePaid ==
  ASSUME NEW t \in Threads, NEW u \in Threads, TypeOK, TypeOK', Balance,
         ran'[t] = ran[t] + 1,
         \/ u \in Owing(t) /\ Owing(t)' \subseteq Owing(t) \ {u}
              /\ OwingTwice(t)' \subseteq OwingTwice(t)
         \/ u \in OwingTwice(t) /\ Owing(t)' \subseteq Owing(t)
              /\ OwingTwice(t)' \subseteq OwingTwice(t) \ {u}
  PROVE  ran'[t] + Cardinality(Owing(t)') + Cardinality(OwingTwice(t)')
           <= 2 * Cardinality(Threads)
<1>1. /\ IsFiniteSet(Owing(t)) /\ IsFiniteSet(OwingTwice(t))
      /\ Cardinality(Owing(t)) \in Nat /\ Cardinality(OwingTwice(t)) \in Nat
  BY OwingSets, FiniteThreads
<1>2. ran[t] \in Nat
  BY DEF TypeOK
<1>3. ran[t] + Cardinality(Owing(t)) + Cardinality(OwingTwice(t)) <= 2 * Cardinality(Threads)
  BY DEF Balance
<1>4. ASSUME NEW S, IsFiniteSet(S), u \in S, NEW T, T \subseteq S \ {u}
      PROVE  Cardinality(T) \in Nat /\ Cardinality(T) <= Cardinality(S) - 1
  <2>1. IsFiniteSet(S \ {u}) /\ Cardinality(S \ {u}) = Cardinality(S) - 1
    BY <1>4, FS_RemoveElement
  <2> QED
    BY <1>4, <2>1, FS_Subset, FS_CardinalityType
<1>5. ASSUME NEW S, IsFiniteSet(S), NEW T, T \subseteq S
      PROVE  Cardinality(T) \in Nat /\ Cardinality(T) <= Cardinality(S)
  BY <1>5, FS_Subset, FS_CardinalityType
<1>6. CASE u \in Owing(t) /\ Owing(t)' \subseteq Owing(t) \ {u}
           /\ OwingTwice(t)' \subseteq OwingTwice(t)
  <2>1. Cardinality(Owing(t)') \in Nat /\ Cardinality(Owing(t)') <= Cardinality(Owing(t)) - 1
    BY <1>1, <1>4, <1>6
  <2>2. /\ Cardinality(OwingTwice(t)') \in Nat
        /\ Cardinality(OwingTwice(t)') <= Cardinality(OwingTwice(t))
    BY <1>1, <1>5, <1>6
  <2> QED
    BY <1>1, <1>2, <1>3, <2>1, <2>2, FiniteThreads
<1>7. CASE u \in OwingTwice(t) /\ Owing(t)' \subseteq Owing(t)
           /\ OwingTwice(t)' \subseteq OwingTwice(t) \ {u}
  <2>1. Cardinality(Owing(t)') \in Nat /\ Cardinality(Owing(t)') <= Cardinality(Owing(t))
    BY <1>1, <1>5, <1>7
  <2>2. /\ Cardinality(OwingTwice(t)') \in Nat
        /\ Cardinality(OwingTwice(t)') <= Cardinality(OwingTwice(t)) - 1
    BY <1>1, <1>4, <1>7
  <2> QED
    BY <1>1, <1>2, <1>3, <2>1, <2>2, FiniteThreads
<1> QED
  BY <1>6, <1>7

\* A step keeps what has taken effect and what is read to calls under way.
LEMMA LiveTextStep == ASSUME TypeOK, LiveText, [Next]_vars PROVE LiveText'
<1> USE AgentAssumption DEF TypeOK, LiveText, Under, Threads, Params
<1>1. CASE KeeperLooks
  BY <1>1 DEF KeeperLooks, Goto, call
<1>2. CASE Rest
  BY <1>2 DEF Rest, call
<1>3. ASSUME NEW t \in Threads, Set(t) PROVE LiveText'
  BY <1>3 DEF Set, Goto
<1>4. ASSUME NEW t \in Threads, Lock(t) PROVE LiveText'
  BY <1>4 DEF Lock, Goto, call
<1>5. ASSUME NEW t \in Threads, Connect(t) PROVE LiveText'
  BY <1>5 DEF Connect, Goto, Return
<1>6. ASSUME NEW t \in Threads, ReadText(t) PROVE LiveText'
  BY <1>6 DEF ReadText, Goto, Pointed
<1>7. ASSUME NEW t \in Threads, ReadParam(t) PROVE LiveText'
  BY <1>7 DEF ReadParam, Goto
<1>8. ASSUME NEW t \in Threads, Query(t) PROVE LiveText'
  BY <1>8 DEF Query, Effect, Proceed, Goto, Return
<1>9. ASSUME NEW t \in Threads, Ping(t) PROVE LiveText'
  BY <1>9 DEF Ping, Proceed, Goto, Return
<1>10. ASSUME NEW t \in Threads, Store(t) PROVE LiveText'
  BY <1>10 DEF Store, Goto, Return
<1>11. ASSUME NEW t \in Threads, Leave(t) PROVE LiveText'
  BY <1>11 DEF Leave, Goto, Dropped
<1>12. ASSUME NEW t \in Threads, End(t) PROVE LiveText'
  BY <1>12 DEF End
<1>13. CASE UNCHANGED vars
  BY <1>13 DEF vars, call
<1> QED
  BY <1>1, <1>2, <1>3, <1>4, <1>5, <1>6, <1>7, <1>8, <1>9, <1>10, <1>11, <1>12, <1>13
  DEF Next, Excute

\* A step adds no debt to a statement that has taken effect.
LEMMA BalanceStep == ASSUME TypeOK, LiveText, Balance, [Next]_vars PROVE Balance'
<1> SUFFICES ASSUME NEW t \in Threads
             PROVE  ran'[t] + Cardinality(Owing(t)') + Cardinality(OwingTwice(t)')
                      <= 2 * Cardinality(Threads)
  BY DEF Balance
<1>a. TypeOK'
  BY TypeStep
<1> DEFINE Kept == /\ ran'[t] <= ran[t] /\ Owing(t)' \subseteq Owing(t)
                   /\ OwingTwice(t)' \subseteq OwingTwice(t)
           Paid(u) == /\ ran'[t] = ran[t] + 1
                      /\ \/ u \in Owing(t) /\ Owing(t)' \subseteq Owing(t) \ {u}
                              /\ OwingTwice(t)' \subseteq OwingTwice(t)
                         \/ u \in OwingTwice(t) /\ Owing(t)' \subseteq Owing(t)
                              /\ OwingTwice(t)' \subseteq OwingTwice(t) \ {u}
<1>b. SUFFICES Kept \/ ran'[t] = 0 \/ \E u \in Threads : Paid(u)
  BY <1>a, BalanceKept, BalanceFresh, BalancePaid
<1> HIDE DEF Paid, Kept
<1>1. CASE KeeperLooks
  BY <1>1 DEF KeeperLooks, Goto, call, Kept, Owing, OwingTwice, TypeOK, Threads
<1>2. CASE Rest
  BY <1>2 DEF Rest, call, Kept, Owing, OwingTwice, TypeOK
<1>3. ASSUME NEW u \in Threads, Set(u) PROVE Kept \/ ran'[t] = 0
  <2>1. CASE u = t
    BY <1>3, <2>1 DEF Set, LiveText, Under, TypeOK
  <2>2. CASE u # t
    BY <1>3, <2>2 DEF Set, Goto, Kept, Owing, OwingTwice, TypeOK
  <2> QED
    BY <2>1, <2>2
<1>4. ASSUME NEW u \in Threads, Lock(u) PROVE Kept
  BY <1>4 DEF Lock, Goto, call, Kept, Owing, OwingTwice, TypeOK
<1>5. ASSUME NEW u \in Threads, Connect(u) PROVE Kept
  BY <1>5 DEF Connect, Goto, Return, Kept, Owing, OwingTwice, TypeOK
<1>6. ASSUME NEW u \in Threads, ReadText(u) PROVE Kept
  <2>1. Pointed = t => mp = t
    BY AgentAssumption DEF Pointed, Threads, TypeOK
  <2> QED
    BY <1>6, <2>1 DEF ReadText, Goto, Kept, Owing, OwingTwice, TypeOK
<1>7. ASSUME NEW u \in Threads, ReadParam(u) PROVE Kept
  BY <1>7 DEF ReadParam, Goto, Kept, Owing, OwingTwice, TypeOK
<1>8. ASSUME NEW u \in Threads, Query(u) PROVE Kept \/ Paid(u)
  <2>1. pc[u] \in {"query", "again"} /\ mp' = mp
    BY <1>8 DEF Query
  <2>2. /\ \A v \in Threads \ {u} : pc'[v] = pc[v] /\ text'[v] = text[v]
        /\ \/ pc'[u] = "store" /\ text'[u] = text[u]
           \/ pc[u] = "query" /\ pc'[u] = "ping" /\ text'[u] = text[u]
           \/ pc[u] = "again" /\ pc'[u] = "done"
    BY <1>8 DEF Query, Proceed, Return, Goto, TypeOK
  <2>3. ran' = ran \/ ran' = [v \in Threads |-> IF v = text[u] THEN ran[v] + 1 ELSE ran[v]]
    BY <1>8 DEF Query, Effect
  <2>4. ran'[t] = ran[t] \/ (ran'[t] = ran[t] + 1 /\ text[u] = t)
    BY <2>3 DEF TypeOK
  <2>5. Owing(t)' \subseteq Owing(t) /\ OwingTwice(t)' \subseteq OwingTwice(t) \ {u}
    BY <2>1, <2>2 DEF Owing, OwingTwice
  <2>6. pc[u] = "again" => u \notin Owing(t)'
    BY <2>1, <2>2 DEF Owing
  <2>7. text[u] = t => IF pc[u] = "again" THEN u \in Owing(t) ELSE u \in OwingTwice(t)
    BY <2>1 DEF Owing, OwingTwice
  <2>8. CASE ran'[t] = ran[t]
    BY <2>5, <2>8 DEF Kept, TypeOK
  <2>9. CASE ran'[t] = ran[t] + 1 /\ text[u] = t
    BY <2>5, <2>6, <2>7, <2>9 DEF Paid
  <2> QED
    BY <2>4, <2>8, <2>9
<1>9. ASSUME NEW u \in Threads, Ping(u) PROVE Kept
  BY <1>9 DEF Ping, Proceed, Goto, Return, Kept, Owing, OwingTwice, TypeOK
<1>10. ASSUME NEW u \in Threads, Store(u) PROVE Kept
  BY <1>10 DEF Store, Goto, Return, Kept, Owing, OwingTwice, TypeOK
<1>11. ASSUME NEW u \in Threads, Leave(u) PROVE Kept \/ ran'[t] = 0
  <2>1. CASE u = t
    BY <1>11, <2>1 DEF Leave, TypeOK
  <2>2. CASE u # t
    <3>1. \A v \in Threads : text'[v] = t => text[v] = t
      BY <1>11, AgentAssumption DEF Leave, Dropped, TypeOK, Threads
    <3> QED
      BY <1>11, <2>2, <3>1 DEF Leave, Goto, Kept, Owing, OwingTwice, TypeOK
  <2> QED
    BY <2>1, <2>2
<1>12. ASSUME NEW u \in Threads, End(u) PROVE ran'[t] = 0
  BY <1>12 DEF End
<1>13. CASE UNCHANGED vars
  BY <1>13 DEF vars, call, Kept, Owing, OwingTwice, TypeOK
<1> QED
  BY <1>1, <1>2, <1>3, <1>4, <1>5, <1>6, <1>7, <1>8, <1>9, <1>10, <1>11, <1>12, <1>13
  DEF Next, Excute

\* The first states: nothing has taken effect.
LEMMA InitEInv == Init => EInv
<1> SUFFICES ASSUME Init PROVE EInv
  OBVIOUS
<1>1. TypeOK
  BY InitIInv DEF IInv
<1>2. LiveText
  BY AgentAssumption DEF Init, LiveText, Threads
<1>3. \A t \in Threads : ran[t] = 0 /\ Owing(t) = {} /\ OwingTwice(t) = {}
  BY AgentAssumption DEF Init, Owing, OwingTwice, Threads
<1>4. Balance
  BY <1>3, FiniteThreads, FS_EmptySet DEF Balance
<1> QED
  BY <1>1, <1>2, <1>4 DEF EInv

LEMMA EInvBound == EInv => EffectBound
<1> SUFFICES ASSUME EInv, NEW t \in Threads PROVE ran[t] <= 2 * Cardinality(Threads)
  BY DEF EffectBound
<1>1. Cardinality(Owing(t)) \in Nat /\ Cardinality(OwingTwice(t)) \in Nat
  BY OwingSets, FiniteThreads
<1>2. ran[t] + Cardinality(Owing(t)) + Cardinality(OwingTwice(t)) <= 2 * Cardinality(Threads)
  BY DEF EInv, Balance
<1>3. ran[t] \in Nat
  BY DEF EInv, TypeOK
<1> QED
  BY <1>1, <1>2, <1>3, FiniteThreads

\* A statement takes effect at most twice for each thread that shares the
\* agent: the retry after a ping is not repeated, and a thread that picks up
\* the parameter of another does so once in its call.
THEOREM EffectsAreBounded == Spec => []EffectBound
<1>1. EInv /\ [Next]_vars => EInv'
  BY TypeStep, LiveTextStep, BalanceStep DEF EInv
<1> QED
  BY InitEInv, <1>1, EInvBound, PTL DEF Spec
=============================================================================
