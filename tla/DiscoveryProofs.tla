--------------------------- MODULE DiscoveryProofs --------------------------
(***************************************************************************)
(* How old the dispatch server's knowledge can be, for any number of       *)
(* servers and any periods: the ages of the rows behind the pool grow with *)
(* the minutes since the pool was read, and that of the message server's   *)
(* row with those of the presence servers it has vouched for.              *)
(***************************************************************************)
EXTENDS Discovery, TLAPS

\* Minutes that have begun since the dispatch server's last turn with phase 0.
Since ==
  IF "dispatch" \in due
  THEN IF phase["dispatch"] = 0 THEN PoolPeriod ELSE phase["dispatch"]
  ELSE IF phase["dispatch"] = 0 THEN PoolPeriod - 1 ELSE phase["dispatch"] - 1

NoPoolWithoutDispatch == "dispatch" \notin up => pool = {}

PoolIsRecent == \A s \in pool : age[s] <= FreshFor - 1 + Since

VouchedIsRecent == \A p \in vouched : age["message"] <= age[p] + FreshFor - 1

IInv == TypeOK /\ NoPoolWithoutDispatch /\ PoolIsRecent /\ VouchedIsRecent

-----------------------------------------------------------------------------
\* The names of the processes differ, and the ages are bounded by a number.
LEMMA Names ==
  /\ "message" \notin Servers /\ "dispatch" \notin Modules /\ "router" \notin Modules
  /\ MaxAge \in Nat /\ PoolAge + FreshFor = MaxAge
BY DiscoveryAssumption DEF Modules, MaxAge, PoolAge

LEMMA NextPhaseType ==
  ASSUME TypeOK, NEW p \in {"router", "dispatch"}, NextPhase(p)
  PROVE  /\ phase' \in [{"router", "dispatch"} -> 0 .. PoolPeriod - 1]
         /\ phase'[p] = IF phase[p] + 1 = PoolPeriod THEN 0 ELSE phase[p] + 1
         /\ \A q \in {"router", "dispatch"} \ {p} : phase'[q] = phase[q]
<1>1. PoolPeriod \in Nat \ {0} /\ phase[p] \in 0 .. PoolPeriod - 1
  BY DiscoveryAssumption DEF TypeOK
<1>2. (phase[p] + 1) % PoolPeriod = IF phase[p] + 1 = PoolPeriod THEN 0 ELSE phase[p] + 1
  BY <1>1
<1> QED
  BY <1>1, <1>2 DEF NextPhase, TypeOK

\* What the dispatch server may have after a reading.
LEMMA ReloadPool ==
  ASSUME TypeOK, Reload
  PROVE  /\ pool' \subseteq {s \in Servers : Fresh(s)}
         /\ pub' \in BOOLEAN /\ faults' \in 0 .. MaxFaults
<1>1. pool' \subseteq {s \in Servers : Fresh(s)}
  BY DEF Reload, GetModules
<1>2. pub' = TRUE \/ pub' = FALSE
  BY DEF Reload
<1>3. faults' = faults \/ (faults < MaxFaults /\ faults' = faults + 1)
  BY DEF Reload, GetModules, Fault
<1>4. pub' \in BOOLEAN
  BY <1>2
<1>5. faults' \in 0 .. MaxFaults
  BY <1>3, DiscoveryAssumption DEF TypeOK
<1> QED
  BY <1>1, <1>4, <1>5

\* A step keeps the types.
LEMMA TypeStep == ASSUME TypeOK, [Next]_vars PROVE TypeOK'
<1>1. ASSUME NEW p \in Processes, Run(p) PROVE TypeOK'
  BY <1>1, Names DEF Run, TypeOK, Modules
<1>2. ASSUME NEW p \in Processes, Crash(p) PROVE TypeOK'
  BY <1>2, DiscoveryAssumption DEF Crash, TypeOK
<1>3. ASSUME NEW p \in Processes, Refresh(p) PROVE TypeOK'
  BY <1>3, Names, DiscoveryAssumption DEF Refresh, Turn, Fault, TypeOK
<1>4. CASE RouterTimer
  BY <1>4, NextPhaseType, DiscoveryAssumption DEF RouterTimer, Turn, Fault, TypeOK
<1>5. CASE DispatchTimer
  BY <1>5, NextPhaseType, ReloadPool DEF DispatchTimer, Turn, TypeOK
<1>6. CASE DispatchRetry
  BY <1>6, ReloadPool DEF DispatchRetry, TypeOK
<1>7. CASE Tick
  BY <1>7, Names DEF Tick, TypeOK
<1>8. CASE UNCHANGED vars
  BY <1>8 DEF vars, TypeOK
<1> QED
  BY <1>1, <1>2, <1>3, <1>4, <1>5, <1>6, <1>7, <1>8 DEF Next

-----------------------------------------------------------------------------
\* Types that the arithmetic below rests on.
LEMMA Numbers ==
  ASSUME TypeOK
  PROVE  /\ FreshFor \in Nat \ {0} /\ PoolPeriod \in Nat \ {0} /\ MaxAge \in Nat
         /\ \A m \in Modules : age[m] \in 0 .. MaxAge
         /\ phase["dispatch"] \in 0 .. PoolPeriod - 1
         /\ Since \in 0 .. PoolPeriod
         /\ pool \subseteq Modules /\ vouched \subseteq Modules /\ "message" \in Modules
         /\ Presence \subseteq Modules
<1>1. FreshFor \in Nat \ {0} /\ PoolPeriod \in Nat \ {0}
  BY DiscoveryAssumption
<1>2. phase["dispatch"] \in 0 .. PoolPeriod - 1
  BY DEF TypeOK
<1>3. Since \in 0 .. PoolPeriod
  BY <1>1, <1>2 DEF Since
<1> QED
  BY <1>1, <1>2, <1>3, Names DEF TypeOK, Modules, Servers

\* A pool that was just read holds rows that are fresh.
LEMMA ReloadIsRecent ==
  ASSUME TypeOK, Reload, UNCHANGED age, Since' \in Nat
  PROVE  PoolIsRecent'
<1>1. \A s \in pool' : s \in Modules /\ age[s] < FreshFor
  BY ReloadPool DEF Fresh, Modules
<1> QED
  BY <1>1, Numbers DEF PoolIsRecent

\* A step keeps the rows behind the pool as recent as the time since its reading.
LEMMA PoolStep ==
  ASSUME IInv, [Next]_vars
  PROVE  NoPoolWithoutDispatch' /\ PoolIsRecent'
<1> USE DEF IInv
<1>1. TypeOK'
  BY TypeStep
<1>2. Since' \in 0 .. PoolPeriod
  <2>1. PoolPeriod \in Nat \ {0} /\ phase'["dispatch"] \in 0 .. PoolPeriod - 1
    BY <1>1, DiscoveryAssumption DEF TypeOK
  <2> QED
    BY <2>1 DEF Since
<1>3. ASSUME NEW p \in Processes, Run(p) PROVE NoPoolWithoutDispatch' /\ PoolIsRecent'
  <2>1. NoPoolWithoutDispatch'
    BY <1>3 DEF Run, NoPoolWithoutDispatch
  <2>2. CASE pool = {}
    BY <1>3, <2>1, <2>2 DEF Run, PoolIsRecent
  <2>3. CASE pool # {}
    <3>1. p # "dispatch" /\ Since' = Since
      BY <1>3, <2>3 DEF Run, NoPoolWithoutDispatch, Since
    <3>2. \A s \in pool : age'[s] = age[s] \/ age'[s] = 0
      BY <1>3, Numbers DEF Run, TypeOK
    <3> QED
      BY <1>3, <2>1, <3>1, <3>2, Numbers DEF Run, PoolIsRecent
  <2> QED
    BY <2>2, <2>3
<1>4. ASSUME NEW p \in Processes, Crash(p) PROVE NoPoolWithoutDispatch' /\ PoolIsRecent'
  <2>1. CASE p = "dispatch"
    BY <1>4, <2>1 DEF Crash, NoPoolWithoutDispatch, PoolIsRecent
  <2>2. CASE p # "dispatch"
    <3>1. phase'["dispatch"] = phase["dispatch"]
      BY <1>4, <2>2 DEF Crash, TypeOK
    <3> QED
      BY <1>4, <2>2, <3>1 DEF Crash, NoPoolWithoutDispatch, PoolIsRecent, Since
  <2> QED
    BY <2>1, <2>2
<1>5. ASSUME NEW p \in Processes, Refresh(p) PROVE NoPoolWithoutDispatch' /\ PoolIsRecent'
  <2>1. p # "dispatch" /\ Since' = Since
    BY <1>5, Names DEF Refresh, Turn, Since
  <2>2. \A s \in pool : age'[s] = age[s] \/ age'[s] = 0
    BY <1>5, Numbers DEF Refresh, TypeOK
  <2> QED
    BY <1>5, <2>1, <2>2, Numbers DEF Refresh, NoPoolWithoutDispatch, PoolIsRecent
<1>6. CASE RouterTimer
  <2>1. phase'["dispatch"] = phase["dispatch"]
    BY <1>6, NextPhaseType DEF RouterTimer
  <2>2. Since' = Since
    BY <1>6, <2>1 DEF RouterTimer, Turn, Since
  <2> QED
    BY <1>6, <2>2 DEF RouterTimer, NoPoolWithoutDispatch, PoolIsRecent
<1>7. CASE DispatchTimer
  <2>1. "dispatch" \in up /\ UNCHANGED <<up, age>>
    BY <1>7 DEF DispatchTimer, Turn, TypeOK
  <2>2. NoPoolWithoutDispatch'
    BY <2>1 DEF NoPoolWithoutDispatch
  <2>3. CASE DispatchReads /\ Reload
    BY <1>2, <2>1, <2>2, <2>3, ReloadIsRecent
  <2>4. CASE ~DispatchReads /\ UNCHANGED pool
    <3>1. phase["dispatch"] # 0 /\ "dispatch" \in due /\ "dispatch" \notin due'
      BY <1>7, <2>4 DEF DispatchReads, DispatchTimer, Turn
    <3>2. Since = phase["dispatch"]
      BY <3>1 DEF Since
    <3>3. phase'["dispatch"] = IF phase["dispatch"] + 1 = PoolPeriod THEN 0
                               ELSE phase["dispatch"] + 1
      BY <1>7, NextPhaseType DEF DispatchTimer
    <3>4. Since' = Since
      BY <3>1, <3>2, <3>3, Numbers DEF Since
    <3> QED
      BY <2>1, <2>2, <2>4, <3>4 DEF PoolIsRecent
  <2> QED
    BY <1>7, <2>3, <2>4 DEF DispatchTimer
<1>8. CASE DispatchRetry
  BY <1>2, <1>8, ReloadIsRecent DEF DispatchRetry, NoPoolWithoutDispatch
<1>9. CASE Tick
  <2>1. NoPoolWithoutDispatch'
    BY <1>9 DEF Tick, NoPoolWithoutDispatch
  <2>2. CASE pool = {}
    BY <1>9, <2>1, <2>2 DEF Tick, PoolIsRecent
  <2>3. CASE pool # {}
    <3>1. "dispatch" \notin due /\ "dispatch" \in due' /\ phase' = phase
      BY <1>9, <2>3 DEF Tick, NoPoolWithoutDispatch
    <3>2. Since' = Since + 1
      BY <3>1, Numbers DEF Since
    <3>3. \A s \in pool : age'[s] <= age[s] + 1 /\ age'[s] \in 0 .. MaxAge
      BY <1>9, Numbers DEF Tick
    <3> QED
      BY <1>9, <2>1, <3>2, <3>3, Numbers DEF Tick, PoolIsRecent
  <2> QED
    BY <2>2, <2>3
<1>10. CASE UNCHANGED vars
  BY <1>10 DEF vars, NoPoolWithoutDispatch, PoolIsRecent, Since
<1> QED
  BY <1>3, <1>4, <1>5, <1>6, <1>7, <1>8, <1>9, <1>10 DEF Next

\* A step keeps the message server's row as recent as the rows it vouches for.
LEMMA VouchedStep == ASSUME IInv, [Next]_vars PROVE VouchedIsRecent'
<1> USE DEF IInv
<1>1. ASSUME NEW p \in Processes, Run(p) PROVE VouchedIsRecent'
  <2>1. \A q \in vouched' : q \in vouched /\ q # p /\ age'[q] = age[q]
    BY <1>1, Numbers DEF Run, TypeOK
  <2>2. age'["message"] = age["message"] \/ age'["message"] = 0
    BY <1>1, Numbers DEF Run, TypeOK
  <2> QED
    BY <2>1, <2>2, Numbers DEF VouchedIsRecent
<1>2. ASSUME NEW p \in Processes, Crash(p) PROVE VouchedIsRecent'
  BY <1>2 DEF Crash, VouchedIsRecent
<1>3. ASSUME NEW p \in Processes, Refresh(p) PROVE VouchedIsRecent'
  <2>1. CASE p = "message"
    <3>1. vouched' = vouched
      BY <1>3, <2>1, Names DEF Refresh, Servers
    <3>2. \A q \in vouched : q \in Modules /\ q # "message"
      BY Names DEF TypeOK, Servers, Modules
    <3>3. \A q \in vouched : age'[q] = age[q]
      BY <1>3, <2>1, <3>2 DEF Refresh, TypeOK
    <3>4. age'["message"] = age["message"] \/ age'["message"] = 0
      BY <1>3, Numbers DEF Refresh, TypeOK
    <3> QED
      BY <3>1, <3>2, <3>3, <3>4, Numbers DEF VouchedIsRecent
  <2>2. CASE p # "message" /\ age' = age /\ vouched' = vouched
    BY <2>2 DEF VouchedIsRecent
  <2>3. CASE /\ p # "message" /\ MayRefresh(p) /\ age' = [age EXCEPT ![p] = 0]
             /\ vouched' = IF p \in Presence THEN vouched \cup {p} ELSE vouched
    <3>1. age'["message"] = age["message"]
      BY <2>3, Numbers DEF TypeOK
    <3>2. p \in Presence => age["message"] < FreshFor
      BY <2>3 DEF MayRefresh, Fresh
    <3>3. \A q \in vouched' : (q = p /\ p \in Presence) \/ (q \in vouched /\ q # p)
      BY <2>3 DEF TypeOK
    <3>4. \A q \in vouched' : (q = p /\ p \in Presence) \/ (q \in vouched /\ age'[q] = age[q])
      BY <2>3, <3>3, Numbers DEF TypeOK
    <3>5. p \in Presence => age'[p] = 0
      BY <2>3, Numbers DEF TypeOK
    <3> QED
      BY <3>1, <3>2, <3>4, <3>5, Numbers DEF VouchedIsRecent
  <2> QED
    BY <1>3, <2>1, <2>2, <2>3 DEF Refresh
<1>4. CASE RouterTimer
  BY <1>4 DEF RouterTimer, VouchedIsRecent
<1>5. CASE DispatchTimer
  BY <1>5 DEF DispatchTimer, VouchedIsRecent
<1>6. CASE DispatchRetry
  BY <1>6 DEF DispatchRetry, VouchedIsRecent
<1>7. CASE Tick
  <2>1. \A m \in Modules : age'[m] = IF age[m] < MaxAge THEN age[m] + 1 ELSE MaxAge
    BY <1>7 DEF Tick
  <2> QED
    BY <1>7, <2>1, Numbers DEF Tick, VouchedIsRecent
<1>8. CASE UNCHANGED vars
  BY <1>8 DEF vars, VouchedIsRecent
<1> QED
  BY <1>1, <1>2, <1>3, <1>4, <1>5, <1>6, <1>7, <1>8 DEF Next

-----------------------------------------------------------------------------
LEMMA InitIInv == Init => IInv
<1> SUFFICES ASSUME Init PROVE IInv
  OBVIOUS
<1>1. TypeOK
  <2>1. phase \in [{"router", "dispatch"} -> 0 .. PoolPeriod - 1]
    BY DiscoveryAssumption DEF Init
  <2>2. pub \in BOOLEAN
    BY DEF Init
  <2>3. faults \in 0 .. MaxFaults /\ crashes \in 0 .. MaxCrashes
    BY DiscoveryAssumption DEF Init
  <2> QED
    BY <2>1, <2>2, <2>3, Names DEF Init, TypeOK
<1>2. NoPoolWithoutDispatch /\ PoolIsRecent /\ VouchedIsRecent
  BY DEF Init, NoPoolWithoutDispatch, PoolIsRecent, VouchedIsRecent
<1> QED
  BY <1>1, <1>2 DEF IInv

LEMMA Inductive == Spec => []IInv
<1>1. IInv /\ [Next]_vars => IInv'
  BY TypeStep, PoolStep, VouchedStep DEF IInv
<1> QED
  BY InitIInv, <1>1, PTL DEF Spec

\* The variables keep their types, for any servers and periods.
THEOREM TypeCorrect == Spec => []TypeOK
<1>1. IInv => TypeOK
  BY DEF IInv
<1> QED
  BY <1>1, Inductive, PTL

\* An offer names servers of the pool.
LEMMA OfferFromPool ==
  \A v \in ClientVersions : \A o \in Offer(v) : o[1] \in pool \cap Presence /\ o[2] \in pool
BY DEF Offer, OfKind

\* Whatever the periods, the number of servers, the statements that fail and the
\* processes that end, no client is sent to a server whose row was left alone
\* for longer than a row stays fresh and a pool is kept.
THEOREM OffersAreRecent == Spec => []OfferIsRecent
<1>1. IInv => OfferIsRecent
  <2> SUFFICES ASSUME IInv, NEW v \in ClientVersions, NEW o \in Offer(v)
               PROVE  age[o[1]] <= PoolAge /\ age[o[2]] <= PoolAge
    BY DEF OfferIsRecent
  <2> USE DEF IInv
  <2>1. o[1] \in pool /\ o[2] \in pool
    BY OfferFromPool
  <2>2. \A s \in pool : age[s] <= FreshFor - 1 + PoolPeriod
    BY Numbers DEF PoolIsRecent
  <2>3. FreshFor - 1 + PoolPeriod = PoolAge
    BY Numbers DEF PoolAge
  <2> QED
    BY <2>1, <2>2, <2>3
<1> QED
  BY <1>1, Inductive, PTL

\* Nor to a presence server whose message server was last seen longer ago than
\* those two and the time a row stays fresh once more.
THEOREM OffersNeedTheMessageServer == Spec => []OfferNeedsMessageServer
<1>1. IInv => OfferNeedsMessageServer
  <2> SUFFICES ASSUME IInv, NEW v \in ClientVersions, NEW o \in Offer(v), o[1] \in vouched
               PROVE  age["message"] <= PoolAge + FreshFor - 1
    BY DEF OfferNeedsMessageServer
  <2> USE DEF IInv
  <2>1. o[1] \in pool
    BY OfferFromPool
  <2>2. age[o[1]] <= FreshFor - 1 + PoolPeriod
    BY <2>1, Numbers DEF PoolIsRecent
  <2>3. age["message"] <= age[o[1]] + FreshFor - 1
    BY DEF VouchedIsRecent
  <2> QED
    BY <2>1, <2>2, <2>3, Numbers DEF PoolAge
<1> QED
  BY <1>1, Inductive, PTL
=============================================================================
