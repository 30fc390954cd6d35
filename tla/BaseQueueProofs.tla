-------------------------- MODULE BaseQueueProofs --------------------------
(***************************************************************************)
(* For any number of items, priorities and threads: the types of BaseQueue,*)
(* that no thread sleeps over work, and that items of a priority are taken *)
(* in the order they were put.                                             *)
(***************************************************************************)
EXTENDS BaseQueue, FiniteSetTheorems, TLAPS

\* Every item stands at most once in the queue, under its own priority, and
\* only after it was put.
Once ==
  \A p \in Prios : \A i \in 1..Len(queuemap[p]) :
    /\ PrioOf[queuemap[p][i]] = p
    /\ put[queuemap[p][i]] # "new"
    /\ \A j \in 1..Len(queuemap[p]) : queuemap[p][i] = queuemap[p][j] => i = j

Queues == TypeOK /\ Once /\ NoneSleepsOverWork

\* The sets that NoneSleepsOverWork counts are finite.
LEMMA Countable ==
  /\ IsFiniteSet(Queued) /\ Cardinality(Queued) \in Nat
  /\ IsFiniteSet(Unsignalled) /\ Cardinality(Unsignalled) \in Nat
  /\ IsFiniteSet(Ready) /\ Cardinality(Ready) \in Nat
<1>1. Queued \subseteq Items /\ Unsignalled \subseteq Items /\ Ready \subseteq Threads
  BY DEF Queued, Unsignalled, Ready
<1> QED
  BY <1>1, QueueAssumption, FS_Subset, FS_CardinalityType

\* A TryPut adds its item to the queue, at the end of its list.
LEMMA PushEffect ==
  ASSUME TypeOK, Once, NEW x \in Items, Push(x)
  PROVE  TypeOK' /\ Once' /\ x \notin Queued /\ Queued' = Queued \cup {x}
<1> DEFINE p == PrioOf[x]
           s == queuemap[p]
<1> USE QueueAssumption
<1>1. /\ put[x] = "new" /\ put' = [put EXCEPT ![x] = "pushed"]
      /\ queuemap' = [queuemap EXCEPT ![p] = Append(s, x)] /\ thread' = thread
  BY DEF Push
<1>2. p \in Prios /\ s \in Seq(Items)
  BY DEF TypeOK
<1>3. /\ queuemap'[p] = Append(s, x)
      /\ \A q \in Prios : q # p => queuemap'[q] = queuemap[q]
  BY <1>1, <1>2 DEF TypeOK
<1>4. /\ Len(queuemap'[p]) = Len(s) + 1 /\ queuemap'[p][Len(s) + 1] = x
      /\ \A i \in 1..Len(s) : queuemap'[p][i] = s[i]
  BY <1>2, <1>3
<1>5. x \notin Queued
  <2>1. \A i \in 1..Len(s) : put[s[i]] # "new"
    BY <1>2 DEF Once
  <2> QED
    BY <2>1, <1>1 DEF Queued
<1>6. TypeOK'
  BY <1>1, <1>2 DEF TypeOK
<1>7. \A q \in Prios : \A i \in 1..Len(queuemap[q]) : queuemap[q][i] \in Items \ {x}
  <2> SUFFICES ASSUME NEW q \in Prios, NEW i \in 1..Len(queuemap[q])
               PROVE  queuemap[q][i] \in Items \ {x}
    OBVIOUS
  <2>1. queuemap[q] \in Seq(Items)
    BY DEF TypeOK
  <2> QED
    BY <2>1, <1>1 DEF Once
<1>8. Once'
  <2> SUFFICES ASSUME NEW q \in Prios, NEW i \in 1..Len(queuemap'[q])
               PROVE  /\ PrioOf[queuemap'[q][i]] = q
                      /\ put'[queuemap'[q][i]] # "new"
                      /\ \A j \in 1..Len(queuemap'[q]) :
                           queuemap'[q][i] = queuemap'[q][j] => i = j
    BY DEF Once
  <2>1. CASE q # p
    BY <2>1, <1>1, <1>3, <1>7 DEF Once, TypeOK
  <2>2. CASE q = p
    <3>1. \A j \in 1..Len(s) : /\ PrioOf[s[j]] = p /\ put[s[j]] # "new" /\ s[j] \in Items \ {x}
                               /\ \A k \in 1..Len(s) : s[j] = s[k] => j = k
      BY <1>2, <1>7 DEF Once
    <3>2. \A j \in 1..Len(s) + 1 : j \in 1..Len(s) \/ j = Len(s) + 1
      BY <1>2
    <3> QED
      BY <2>2, <3>1, <3>2, <1>1, <1>2, <1>4 DEF TypeOK
  <2> QED
    BY <2>1, <2>2
<1>9. Queued' = Queued \cup {x}
  <2>1. ASSUME NEW y \in Items PROVE y \in Queued' <=> y \in Queued \cup {x}
    <3>1. CASE PrioOf[y] # p
      <4>1. PrioOf[y] \in Prios /\ y # x
        BY <3>1
      <4> QED
        BY <3>1, <4>1, <1>3 DEF Queued
    <3>2. CASE PrioOf[y] = p
      <4>1. (\E i \in 1..Len(s) + 1 : queuemap'[p][i] = y)
              <=> (y = x \/ \E i \in 1..Len(s) : s[i] = y)
        BY <1>2, <1>4
      <4> QED
        BY <3>2, <4>1, <1>4 DEF Queued
    <3> QED
      BY <3>1, <3>2
  <2>2. Queued \subseteq Items /\ Queued' \subseteq Items
    BY DEF Queued
  <2> QED
    BY <2>1, <2>2
<1> QED
  BY <1>5, <1>6, <1>8, <1>9

\* A TryGet that finds something takes one item out of the queue.
LEMMA TakeEffect ==
  ASSUME TypeOK, Once, NEW t \in Threads, Take(t)
  PROVE  TypeOK' /\ Once' /\ \E x \in Queued : Queued' = Queued \ {x}
<1> USE QueueAssumption
<1>1. PICK p \in Prios : queuemap[p] # <<>> /\ queuemap' = [queuemap EXCEPT ![p] = Tail(@)]
  BY DEF Take, Foremost
<1> DEFINE s == queuemap[p]
           x == Head(s)
<1>2. thread[t] = "ready" /\ thread' = [thread EXCEPT ![t] = "busy"] /\ put' = put
  BY DEF Take
<1>3. s \in Seq(Items) /\ s # <<>> /\ Len(s) \in Nat \ {0} /\ x = s[1] /\ x \in Items
  BY <1>1 DEF TypeOK
<1>4. /\ queuemap'[p] = Tail(s)
      /\ \A q \in Prios : q # p => queuemap'[q] = queuemap[q]
  BY <1>1 DEF TypeOK
<1>5. /\ Tail(s) \in Seq(Items) /\ Len(Tail(s)) = Len(s) - 1
      /\ \A i \in 1..Len(s) - 1 : Tail(s)[i] = s[i + 1]
  BY <1>3
<1>6. TypeOK'
  BY <1>1, <1>2, <1>5 DEF TypeOK
<1>7. \A i \in 1..Len(s) : /\ PrioOf[s[i]] = p /\ put[s[i]] # "new"
                           /\ \A j \in 1..Len(s) : s[i] = s[j] => i = j
  BY DEF Once
<1>8. Once'
  <2> SUFFICES ASSUME NEW q \in Prios, NEW i \in 1..Len(queuemap'[q])
               PROVE  /\ PrioOf[queuemap'[q][i]] = q
                      /\ put'[queuemap'[q][i]] # "new"
                      /\ \A j \in 1..Len(queuemap'[q]) :
                           queuemap'[q][i] = queuemap'[q][j] => i = j
    BY DEF Once
  <2>1. CASE q # p
    <3>1. queuemap'[q] = queuemap[q]
      BY <2>1, <1>4
    <3>2. /\ PrioOf[queuemap[q][i]] = q /\ put[queuemap[q][i]] # "new"
          /\ \A j \in 1..Len(queuemap[q]) : queuemap[q][i] = queuemap[q][j] => i = j
      BY <3>1 DEF Once
    <3> QED
      BY <3>1, <3>2, <1>2
  <2>2. CASE q = p
    <3>1. \A j \in 1..Len(s) - 1 : j + 1 \in 1..Len(s) /\ j \in Int
      BY <1>3
    <3> QED
      BY <2>2, <3>1, <1>2, <1>4, <1>5, <1>7
  <2> QED
    BY <2>1, <2>2
<1>9. x \in Queued
  BY <1>3, <1>7 DEF Queued
<1>10. Queued' = Queued \ {x}
  <2>1. ASSUME NEW y \in Items PROVE y \in Queued' <=> y \in Queued \ {x}
    <3>1. CASE PrioOf[y] # p
      <4>1. PrioOf[y] \in Prios /\ y # x
        BY <3>1, <1>3, <1>7
      <4> QED
        BY <3>1, <4>1, <1>4 DEF Queued
    <3>2. CASE PrioOf[y] = p
      <4>1. ASSUME NEW i \in 1..Len(s) - 1, Tail(s)[i] = y PROVE y # x /\ \E j \in 1..Len(s) : s[j] = y
        BY <4>1, <1>3, <1>5, <1>7
      <4>2. ASSUME NEW j \in 1..Len(s), s[j] = y, y # x PROVE \E i \in 1..Len(s) - 1 : Tail(s)[i] = y
        <5>1. j # 1 /\ j - 1 \in 1..Len(s) - 1 /\ (j - 1) + 1 = j
          BY <4>2, <1>3
        <5> QED
          BY <4>2, <5>1, <1>5
      <4> QED
        BY <3>2, <4>1, <4>2, <1>4, <1>5 DEF Queued
    <3> QED
      BY <3>1, <3>2
  <2>2. Queued \subseteq Items /\ Queued' \subseteq Items
    BY DEF Queued
  <2> QED
    BY <2>1, <2>2
<1> QED
  BY <1>6, <1>8, <1>9, <1>10

\* ... and each changes one list only: a TryPut adds to its end, a TryGet drops the
\* first element of the foremost.
LEMMA PushList ==
  ASSUME TypeOK, NEW x \in Items, Push(x), NEW p \in Prios
  PROVE  \A i \in 1..Len(queuemap[p]) :
           i \in 1..Len(queuemap'[p]) /\ queuemap'[p][i] = queuemap[p][i]
<1> DEFINE s == queuemap[p]
<1>1. s \in Seq(Items) /\ PrioOf[x] \in Prios
  BY QueueAssumption DEF TypeOK
<1>2. queuemap'[p] = IF p = PrioOf[x] THEN Append(s, x) ELSE s
  BY <1>1 DEF Push, TypeOK
<1> HIDE DEF s
<1>3. \A i \in 1..Len(s) : i \in 1..Len(Append(s, x)) /\ Append(s, x)[i] = s[i]
  BY <1>1
<1> QED
  BY <1>2, <1>3 DEF s

LEMMA TakeList ==
  ASSUME TypeOK, NEW t \in Threads, Take(t)
  PROVE  \E p \in Prios :
           /\ Foremost(p)
           /\ \A q \in Prios : q # p => queuemap'[q] = queuemap[q]
           /\ \A i \in 1..Len(queuemap[p]) : i # 1 =>
                i - 1 \in 1..Len(queuemap'[p]) /\ queuemap'[p][i - 1] = queuemap[p][i]
<1>1. PICK p \in Prios : Foremost(p) /\ queuemap' = [queuemap EXCEPT ![p] = Tail(@)]
  BY DEF Take
<1> DEFINE s == queuemap[p]
<1>2. s \in Seq(Items) /\ s # <<>>
  BY <1>1 DEF TypeOK, Foremost
<1>3. queuemap'[p] = Tail(s) /\ \A q \in Prios : q # p => queuemap'[q] = queuemap[q]
  BY <1>1 DEF TypeOK
<1> HIDE DEF s
<1>4. /\ Len(s) \in Nat /\ Len(Tail(s)) = Len(s) - 1
      /\ \A i \in 1..Len(s) - 1 : Tail(s)[i] = s[i + 1]
  BY <1>2
<1>5. ASSUME NEW i \in 1..Len(s), i # 1
      PROVE  i - 1 \in 1..Len(Tail(s)) /\ Tail(s)[i - 1] = s[i]
  <2>1. i - 1 \in 1..Len(s) - 1 /\ (i - 1) + 1 = i
    BY <1>4, <1>5
  <2> QED
    BY <1>4, <2>1
<1> QED
  BY <1>1, <1>3, <1>5 DEF s

\* The steps that leave the queue alone.
LEMMA QueueAlone ==
  ASSUME TypeOK, Once, UNCHANGED queuemap,
         put' \in [Items -> {"new", "pushed", "done"}],
         \A x \in Items : put'[x] = "new" <=> put[x] = "new"
  PROVE  Once' /\ Queued' = Queued
<1>1. Queued' = Queued
  BY DEF Queued
<1>2. \A p \in Prios : \A i \in 1..Len(queuemap[p]) : queuemap[p][i] \in Items
  BY DEF TypeOK
<1> QED
  BY <1>1, <1>2 DEF Once

\* Counting: what the steps do to the numbers NoneSleepsOverWork compares.
LEMMA Invariance == Queues /\ [Next]_vars => Queues'
<1> SUFFICES ASSUME Queues, [Next]_vars PROVE Queues'
  OBVIOUS
<1> USE QueueAssumption
<1>0. TypeOK /\ Once /\ NoneSleepsOverWork
  BY DEF Queues
<1>1. ASSUME NEW x \in Items, Push(x) PROVE Queues'
  <2>1. TypeOK' /\ Once' /\ x \notin Queued /\ Queued' = Queued \cup {x}
    BY <1>0, <1>1, PushEffect
  <2>2. x \notin Unsignalled /\ Unsignalled' = Unsignalled \cup {x}
    BY <1>0, <1>1 DEF Push, Unsignalled, TypeOK
  <2>3. Ready' = Ready /\ Waiting' = Waiting
    BY <1>1 DEF Push, Ready, Waiting
  <2>4. /\ Cardinality(Queued') = Cardinality(Queued) + 1
        /\ Cardinality(Unsignalled') = Cardinality(Unsignalled) + 1
    BY <2>1, <2>2, Countable, FS_AddElement
  <2> QED
    BY <1>0, <2>1, <2>3, <2>4, Countable DEF Queues, NoneSleepsOverWork
<1>2. ASSUME NEW x \in Items, Signal(x) PROVE Queues'
  <2>1. /\ put[x] = "pushed" /\ put' = [put EXCEPT ![x] = "done"] /\ queuemap' = queuemap
        /\ \/ Waiting = {} /\ thread' = thread
           \/ \E t \in Waiting : thread' = [thread EXCEPT ![t] = "ready"]
    BY <1>2 DEF Signal
  <2>2. TypeOK'
    BY <1>0, <2>1 DEF TypeOK, Waiting
  <2>3. Once' /\ Queued' = Queued
    BY <1>0, <2>1, QueueAlone DEF TypeOK
  <2>4. CASE Waiting = {} /\ thread' = thread
    <3>1. Waiting' = {}
      BY <2>4 DEF Waiting
    <3> QED
      BY <2>2, <2>3, <3>1 DEF Queues, NoneSleepsOverWork
  <2>5. ASSUME NEW t \in Waiting, thread' = [thread EXCEPT ![t] = "ready"] PROVE Queues'
    <3>1. x \in Unsignalled /\ Unsignalled' = Unsignalled \ {x}
      BY <1>0, <2>1 DEF Unsignalled, TypeOK
    <3>2. t \notin Ready /\ Ready' = Ready \cup {t}
      BY <1>0, <2>5 DEF Ready, Waiting, TypeOK
    <3>3. /\ Cardinality(Unsignalled') = Cardinality(Unsignalled) - 1
          /\ Cardinality(Ready') = Cardinality(Ready) + 1
      BY <3>1, <3>2, Countable, FS_AddElement, FS_RemoveElement
    <3> QED
      BY <1>0, <2>2, <2>3, <2>5, <3>3, Countable DEF Queues, NoneSleepsOverWork
  <2> QED
    BY <2>1, <2>4, <2>5
<1>3. ASSUME NEW t \in Threads, Take(t) PROVE Queues'
  <2>1. TypeOK' /\ Once'
    BY <1>0, <1>3, TakeEffect
  <2>2. PICK x \in Queued : Queued' = Queued \ {x}
    BY <1>0, <1>3, TakeEffect
  <2>3. t \in Ready /\ Ready' = Ready \ {t} /\ Waiting' = Waiting /\ Unsignalled' = Unsignalled
    BY <1>0, <1>3 DEF Take, Ready, Waiting, Unsignalled, TypeOK
  <2>4. /\ Cardinality(Queued') = Cardinality(Queued) - 1
        /\ Cardinality(Ready') = Cardinality(Ready) - 1
    BY <2>2, <2>3, Countable, FS_RemoveElement
  <2> QED
    BY <1>0, <2>1, <2>3, <2>4, Countable DEF Queues, NoneSleepsOverWork
<1>4. ASSUME NEW t \in Threads, Wait(t) PROVE Queues'
  <2>1. TypeOK'
    BY <1>0, <1>4 DEF Wait, TypeOK
  <2>2. Once' /\ Queued' = Queued
    BY <1>0, <1>4, QueueAlone DEF Wait, TypeOK
  <2>3. Queued = {}
    <3>1. \A x \in Items : queuemap[PrioOf[x]] = <<>>
      BY <1>4 DEF Wait
    <3> QED
      BY <3>1 DEF Queued
  <2>4. Unsignalled' = Unsignalled /\ Ready' \subseteq Ready
    BY <1>0, <1>4 DEF Wait, Unsignalled, Ready, TypeOK
  <2>5. Cardinality(Queued') = 0 /\ Cardinality(Ready') \in Nat
    BY <2>2, <2>3, <2>4, Countable, FS_EmptySet, FS_Subset, FS_CardinalityType
  <2> QED
    BY <2>1, <2>2, <2>4, <2>5, Countable DEF Queues, NoneSleepsOverWork
<1>5. ASSUME NEW t \in Threads, WakeUp(t) \/ Finish(t) PROVE Queues'
  <2>1. TypeOK'
    BY <1>0, <1>5 DEF WakeUp, Finish, TypeOK
  <2>2. Once' /\ Queued' = Queued
    BY <1>0, <1>5, QueueAlone DEF WakeUp, Finish, TypeOK
  <2>3. /\ Unsignalled' = Unsignalled /\ t \notin Ready /\ Ready' = Ready \cup {t}
        /\ Waiting' \subseteq Waiting
    BY <1>0, <1>5 DEF WakeUp, Finish, Unsignalled, Ready, Waiting, TypeOK
  <2>4. Cardinality(Ready') = Cardinality(Ready) + 1
    BY <2>3, Countable, FS_AddElement
  <2> QED
    BY <1>0, <2>1, <2>2, <2>3, <2>4, Countable DEF Queues, NoneSleepsOverWork
<1>6. CASE UNCHANGED vars
  BY <1>0, <1>6 DEF vars, Queues, TypeOK, Once, NoneSleepsOverWork, Queued, Unsignalled, Ready,
     Waiting
<1> QED
  BY <1>1, <1>2, <1>3, <1>4, <1>5, <1>6 DEF Next

\* BaseQueue: the invariant holds in every state.
THEOREM QueueInvariant == Spec => []Queues
<1>1. Init => Queues
  <2> SUFFICES ASSUME Init PROVE Queues
    OBVIOUS
  <2> USE QueueAssumption DEF Init
  <2>1. TypeOK
    BY DEF TypeOK
  <2>2. Once
    BY DEF Once
  <2>3. Waiting = {}
    BY DEF Waiting
  <2> QED
    BY <2>1, <2>2, <2>3 DEF Queues, NoneSleepsOverWork
<1> QED
  BY <1>1, Invariance, PTL DEF Spec

\* BaseQueue's variables keep their types.
THEOREM QueueTypeOK == Spec => []TypeOK
<1>1. Queues => TypeOK
  BY DEF Queues
<1> QED
  BY <1>1, QueueInvariant, PTL

\* A signal for each TryPut is enough, for any number of threads: none sleeps
\* while an item waits that nobody has been woken for.
THEOREM QueueNoneSleepsOverWork == Spec => []NoneSleepsOverWork
<1>1. Queues => NoneSleepsOverWork
  BY DEF Queues
<1> QED
  BY <1>1, QueueInvariant, PTL

\* A step that is not a TryGet leaves what is queued in the queue; a TryGet takes
\* the item before which no other stands.
LEMMA OrderStep ==
  ASSUME Queues, [Next]_vars, NEW x \in Queued, NEW y \in Queued, Before(x, y), x \in Queued'
  PROVE  y \in Queued'
<1> USE QueueAssumption
<1>0. TypeOK /\ Once
  BY DEF Queues
<1>1. ASSUME NEW z \in Items, Push(z) PROVE y \in Queued'
  BY <1>0, <1>1, PushEffect
<1>2. ASSUME NEW t \in Threads, Take(t) PROVE y \in Queued'
  <2>1. PICK p \in Prios :
          /\ Foremost(p)
          /\ \A q \in Prios : q # p => queuemap'[q] = queuemap[q]
          /\ \A i \in 1..Len(queuemap[p]) : i # 1 =>
               i - 1 \in 1..Len(queuemap'[p]) /\ queuemap'[p][i - 1] = queuemap[p][i]
    BY <1>0, <1>2, TakeList
  <2>2. /\ y \in Items /\ PrioOf[y] \in Prios /\ PrioOf[x] \in Prios
        /\ \A q \in Prios : Len(queuemap[q]) \in Nat
    BY <1>0 DEF Queued, TypeOK
  <2>3. PICK k \in 1..Len(queuemap[PrioOf[y]]) : queuemap[PrioOf[y]][k] = y
    BY DEF Queued
  <2>4. CASE PrioOf[y] # p
    BY <2>1, <2>2, <2>3, <2>4 DEF Queued
  <2>5. CASE PrioOf[y] = p
    <3>1. queuemap[PrioOf[x]] # <<>>
      <4>1. PICK i \in 1..Len(queuemap[PrioOf[x]]) : TRUE
        BY DEF Queued
      <4> QED
        BY <2>2, <4>1
    <3>2. ~(PrioOf[x] > p)
      BY <2>1, <2>2, <3>1 DEF Foremost
    <3>3. PICK i, j \in 1..Len(queuemap[p]) :
            i < j /\ queuemap[p][i] = x /\ queuemap[p][j] = y
      BY <2>5, <3>2 DEF Before
    <3>4. j # 1
      BY <2>2, <3>3
    <3> QED
      <4>1. j - 1 \in 1..Len(queuemap'[p]) /\ queuemap'[p][j - 1] = y
        BY <2>1, <3>3, <3>4
      <4> QED
        BY <2>2, <2>5, <4>1 DEF Queued
  <2> QED
    BY <2>4, <2>5
<1>3. ASSUME UNCHANGED queuemap PROVE y \in Queued'
  BY <1>3 DEF Queued
<1> QED
  BY <1>1, <1>2, <1>3 DEF Next, vars, Signal, Wait, WakeUp, Finish

\* For any number of items, priorities and threads: an item leaves the queue only
\* after those before it, so that events and bytes keep their order.
THEOREM QueueInOrder == Spec => InOrder
<1> DEFINE A == \A x, y \in Queued : (Before(x, y) /\ x \in Queued') => y \in Queued'
<1>1. Queues /\ [Next]_vars => [A]_vars
  BY OrderStep
<1>2. Spec => [][A]_vars
  <2> HIDE DEF A
  <2> QED
    BY <1>1, QueueInvariant, PTL DEF Spec
<1> QED
  BY <1>2 DEF InOrder, A
=============================================================================
