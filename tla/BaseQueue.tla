----------------------------- MODULE BaseQueue -----------------------------
(***************************************************************************)
(* The queue between the threads of a server (core/util BaseQueue): work   *)
(* threads take a module's events from one, send threads what is to be     *)
(* sent, and the threads of an asynchronous TDBManager share one.          *)
(*                                                                         *)
(* It is a map from a priority to a list, under a mutex, with a condition  *)
(* variable.  TryPut appends inside the mutex and signals outside it;      *)
(* TryGet takes the first element of the highest priority, or waits once   *)
(* and returns with nothing, and the thread calls it again.                *)
(***************************************************************************)
EXTENDS Integers, Sequences, FiniteSets

CONSTANTS
  Items,     \* what is put, each once
  Threads,   \* the threads that take
  Prios,     \* priorities (the index argument of TryPut)
  PrioOf     \* the priority an item is put with

ASSUME QueueAssumption ==
  /\ Prios \subseteq Int /\ IsFiniteSet(Items) /\ IsFiniteSet(Threads)
  /\ PrioOf \in [Items -> Prios]

VARIABLES
  put,        \* where the TryPut of an item stands: "pushed" before its signal
  queuemap,   \* m_queuemap
  thread      \* what a thread does: an item is taken by a busy one

vars == <<put, queuemap, thread>>

TypeOK ==
  /\ put \in [Items -> {"new", "pushed", "done"}]
  /\ queuemap \in [Prios -> Seq(Items)]
  /\ thread \in [Threads -> {"ready", "waiting", "busy"}]

Init ==
  /\ put = [x \in Items |-> "new"]
  /\ queuemap = [p \in Prios |-> <<>>]
  /\ thread = [t \in Threads |-> "ready"]

\* The items that have been put and not taken.
Queued == {x \in Items : \E i \in 1..Len(queuemap[PrioOf[x]]) : queuemap[PrioOf[x]][i] = x}

Unsignalled == {x \in Items : put[x] = "pushed"}

Ready   == {t \in Threads : thread[t] = "ready"}
Waiting == {t \in Threads : thread[t] = "waiting"}

-----------------------------------------------------------------------------
\* Mutants of Push: it asks for no signal, ever or if there was an item.
PushSilent(x) ==
  /\ put[x] = "new"
  /\ put' = [put EXCEPT ![x] = "done"]
  /\ queuemap' = [queuemap EXCEPT ![PrioOf[x]] = Append(@, x)]
  /\ UNCHANGED thread

PushSilentIfMore(x) ==
  /\ put[x] = "new"
  /\ put' = [put EXCEPT ![x] = IF Queued = {} THEN "pushed" ELSE "done"]
  /\ queuemap' = [queuemap EXCEPT ![PrioOf[x]] = Append(@, x)]
  /\ UNCHANGED thread

\* TryPut: inside the mutex, ...
Push(x) ==
  /\ put[x] = "new"
  /\ put' = [put EXCEPT ![x] = "pushed"]
  /\ queuemap' = [queuemap EXCEPT ![PrioOf[x]] = Append(@, x)]
  /\ UNCHANGED thread

\* ... and pthread_cond_signal after it.
Signal(x) ==
  /\ put[x] = "pushed"
  /\ put' = [put EXCEPT ![x] = "done"]
  /\ IF Waiting = {} THEN UNCHANGED thread
     ELSE \E t \in Waiting : thread' = [thread EXCEPT ![t] = "ready"]
  /\ UNCHANGED queuemap

\* The priority TryGet takes from: the highest that has an item.  Mutant: the
\* lowest.
LowestFirst(p) == queuemap[p] # <<>> /\ \A q \in Prios : q < p => queuemap[q] = <<>>

Foremost(p) == queuemap[p] # <<>> /\ \A q \in Prios : q > p => queuemap[q] = <<>>

Take(t) ==
  /\ thread[t] = "ready"
  /\ \E p \in Prios :
       /\ Foremost(p)
       /\ queuemap' = [queuemap EXCEPT ![p] = Tail(@)]
  /\ thread' = [thread EXCEPT ![t] = "busy"]
  /\ UNCHANGED put

\* TryGet finds nothing: the mutex is held until the thread waits.
Wait(t) ==
  /\ thread[t] = "ready" /\ \A p \in Prios : queuemap[p] = <<>>
  /\ thread' = [thread EXCEPT ![t] = "waiting"]
  /\ UNCHANGED <<put, queuemap>>

\* The wait times out, or ends for no reason as POSIX allows.
WakeUp(t) ==
  /\ thread[t] = "waiting"
  /\ thread' = [thread EXCEPT ![t] = "ready"]
  /\ UNCHANGED <<put, queuemap>>

\* The thread has dealt with its item.
Finish(t) ==
  /\ thread[t] = "busy"
  /\ thread' = [thread EXCEPT ![t] = "ready"]
  /\ UNCHANGED <<put, queuemap>>

Next ==
  \/ \E x \in Items : Push(x) \/ Signal(x)
  \/ \E t \in Threads : Take(t) \/ Wait(t) \/ WakeUp(t) \/ Finish(t)

Spec == Init /\ [][Next]_vars

\* The threads run; nobody has to put, and a wait need not end by itself.
Fairness ==
  /\ \A x \in Items : WF_vars(Signal(x))
  /\ \A t \in Threads : WF_vars(Take(t) \/ Wait(t)) /\ WF_vars(Finish(t))

FairSpec == Spec /\ Fairness

-----------------------------------------------------------------------------
\* No item waits behind a thread that is busy while another thread sleeps: as
\* long as some thread waits, every item in the queue has a signal still to
\* come or a thread that is about to call TryGet.  (One signal for each TryPut,
\* sent outside the mutex, is enough.)
NoneSleepsOverWork ==
  Waiting # {} => Cardinality(Queued) <= Cardinality(Unsignalled) + Cardinality(Ready)

\* x stands in the queue before y.
Before(x, y) ==
  \/ PrioOf[x] > PrioOf[y]
  \/ /\ PrioOf[x] = PrioOf[y]
     /\ \E i, j \in 1..Len(queuemap[PrioOf[x]]) :
          i < j /\ queuemap[PrioOf[x]][i] = x /\ queuemap[PrioOf[x]][j] = y

\* An item is overtaken only by items of a higher priority.  The order of a
\* connection's events and the order of the bytes sent to it rest on this.
InOrder ==
  [][\A x, y \in Queued : (Before(x, y) /\ x \in Queued') => y \in Queued']_vars

\* What is put is taken, whatever the priorities of the others (there are
\* finitely many).
PutIsTaken == \A x \in Items : (x \in Queued) ~> (x \notin Queued)
=============================================================================
