------------------------ MODULE HttpTransportProofs ------------------------
(***************************************************************************)
(* Theorems about the threaded transport, for any number of workers,       *)
(* clients and ring slots: its types (no index leaves the ring, `active'   *)
(* never underflows), mutual exclusion of the native handler and its end   *)
(* before the transport returns, one owner per accepted descriptor, an     *)
(* empty ring when the transport returns, and no lost wake-up.             *)
(***************************************************************************)
EXTENDS HttpTransport, FiniteSetTheorems, TLAPS

\* (index + 1) % FORTAI_HTTP_QUEUE_CAPACITY is again an index of the ring.
LEMMA NextSlotType ==
  ASSUME NEW i \in 0..(Capacity - 1)
  PROVE  NextSlot(i) \in 0..(Capacity - 1)
  BY CapacityAssumption DEF NextSlot, Slot

----------------------------------------------------------------------------
(* Type correctness.  Two conjuncts of TypeOK are not inductive alone: that *)
(* count stays within the ring needs what queue_push has just tested, and   *)
(* that active never goes below zero needs to know what it counts.          *)

\* The workers between their pop and their second critical section.
Busy == {w \in Workers : pc[w] \in {"read", "lock", "dispatch", "finish", "retire"}}

TypeInv ==
  /\ TypeOK
  /\ main = "enqueue" => count < Capacity
  /\ active = Cardinality(Busy)

\* The busy workers can be counted.
LEMMA BusyFinite == IsFiniteSet(Busy)
  BY WorkersAssumption, FS_Subset DEF Busy

\* The state before the first worker is created satisfies the invariant.
LEMMA InitType == Init => TypeInv
  <1> SUFFICES ASSUME Init PROVE TypeInv
    OBVIOUS
  <1>1. TypeOK
    <2>1. main \in MainStates /\ mfd \in Clients \cup {NoClient} /\ active \in Nat
      BY DEF Init, MainStates
    <2>2. fortai_stop \in BOOLEAN /\ listening \in BOOLEAN /\ stopping \in BOOLEAN
      BY DEF Init
    <2>3. head \in 0..(Capacity - 1) /\ tail \in 0..(Capacity - 1) /\ count \in 0..Capacity
      BY CapacityAssumption DEF Init
    <2>4. fds \in [0..(Capacity - 1) -> Clients \cup {NoClient}]
      BY DEF Init
    <2>5. /\ pc \in [Workers -> WorkerStates]
          /\ wfd \in [Workers -> Clients \cup {NoClient}]
          /\ dispatch_mutex \in Workers \cup {NoWorker}
          /\ conn \in [Clients -> ConnStates]
      BY DEF Init, WorkerStates, ConnStates
    <2> QED
      BY <2>1, <2>2, <2>3, <2>4, <2>5 DEF TypeOK
  <1>2. main = "enqueue" => count < Capacity
    BY DEF Init
  <1>3. active = Cardinality(Busy)
    <2>1. Busy = {}
      BY DEF Busy, Init
    <2> QED
      BY <2>1, FS_EmptySet DEF Init
  <1> QED
    BY <1>1, <1>2, <1>3 DEF TypeInv

\* Every step keeps the types, the room that queue_push has tested for, and
\* what `active' counts.
LEMMA NextType == TypeInv /\ [Next]_vars => TypeInv'
  <1> SUFFICES ASSUME TypeInv, [Next]_vars PROVE TypeInv'
    OBVIOUS
  <1> USE DEF TypeInv
  <1> DEFINE BusyStates == {"read", "lock", "dispatch", "finish", "retire"}
  <1>a. ASSUME TypeOK', Busy' = Busy, active' = active, 
               main' = "enqueue" => count' < Capacity
        PROVE  TypeInv'
    BY <1>a
  <1>1. CASE \E w \in Workers : CreateWorker(w)
    <2> PICK w \in Workers : CreateWorker(w)
      BY <1>1
    <2>1. TypeOK'
      BY DEF CreateWorker, TypeOK, WorkerStates, mainVars, queueVars
    <2>2. Busy' = Busy
      BY DEF CreateWorker, TypeOK, Busy
    <2> QED
      BY <1>a, <2>1, <2>2 DEF CreateWorker, mainVars, queueVars
  <1>2. CASE CreateEnds
    <2>1. TypeOK'
      BY <1>2 DEF CreateEnds, TypeOK, MainStates, ConnStates, queueVars, workerVars
    <2> QED
      BY <1>a, <1>2, <2>1 DEF CreateEnds, Busy, queueVars, workerVars
  <1>3. CASE CheckStop \/ EnterAccept \/ AcceptError \/ PushLock \/ SpuriousSpace
    <2>1. TypeOK'
      BY <1>3 DEF CheckStop, EnterAccept, AcceptError, PushLock, SpuriousSpace,
                  TypeOK, MainStates, queueVars, workerVars
    <2> QED
      BY <1>a, <1>3, <2>1 DEF CheckStop, EnterAccept, AcceptError, PushLock,
                  SpuriousSpace, Busy, queueVars, workerVars
  <1>4. CASE \E c \in Clients : AcceptClient(c)
    <2> PICK c \in Clients : AcceptClient(c)
      BY <1>4
    <2>1. TypeOK'
      BY DEF AcceptClient, TypeOK, MainStates, ConnStates, queueVars, workerVars
    <2> QED
      BY <1>a, <2>1 DEF AcceptClient, Busy, queueVars, workerVars
  <1>5. CASE PushTest
    <2>1. TypeOK'
      BY <1>5 DEF PushTest, CloseRefused, TypeOK, MainStates, ConnStates, queueVars, workerVars
    <2>2. main' = "enqueue" => count' < Capacity
      BY <1>5, CapacityAssumption DEF PushTest, TypeOK, queueVars
    <2> QED
      BY <1>a, <1>5, <2>1, <2>2 DEF PushTest, Busy, queueVars, workerVars
  <1>6. CASE Enqueue
    <2>1. NextSlot(tail) \in 0..(Capacity - 1)
      BY NextSlotType DEF TypeOK
    <2>2. count + 1 \in 0..Capacity
      BY <1>6, CapacityAssumption DEF Enqueue, TypeOK
    <2>3. pc' \in [Workers -> WorkerStates] /\ Busy' = Busy
      BY <1>6 DEF Enqueue, SignalAvailable, WakeOne, TypeOK, WorkerStates, Busy
    <2>4. TypeOK'
      BY <1>6, <2>1, <2>2, <2>3 DEF Enqueue, TypeOK, MainStates
    <2> QED
      BY <1>a, <1>6, <2>3, <2>4 DEF Enqueue
  <1>7. CASE CloseListener
    <2>1. TypeOK'
      BY <1>7 DEF CloseListener, TypeOK, MainStates, ConnStates, queueVars, workerVars
    <2> QED
      BY <1>a, <1>7, <2>1 DEF CloseListener, Busy, queueVars, workerVars
  <1>8. CASE StopQueue
    <2>1. TypeOK'
      BY <1>8 DEF StopQueue, BroadcastAvailable, TypeOK, MainStates, WorkerStates
    <2>2. Busy' = Busy
      BY <1>8 DEF StopQueue, BroadcastAvailable, Busy, TypeOK
    <2> QED
      BY <1>a, <1>8, <2>1, <2>2 DEF StopQueue
  <1>9. CASE JoinWorkers
    <2>1. TypeOK'
      BY <1>9 DEF JoinWorkers, TypeOK, MainStates, queueVars, workerVars
    <2> QED
      BY <1>a, <1>9, <2>1 DEF JoinWorkers, Busy, queueVars, workerVars
  <1>10. CASE \E w \in Workers : WorkerTake(w)
    <2> PICK w \in Workers : WorkerTake(w)
      BY <1>10
    <2>1. CASE count = 0
      <3>1. TypeOK'
        BY <2>1 DEF WorkerTake, TypeOK, MainStates, WorkerStates
      <3>2. Busy' = Busy
        BY <2>1 DEF WorkerTake, TypeOK, Busy
      <3> QED
        BY <1>a, <2>1, <3>1, <3>2 DEF WorkerTake, TypeOK
    <2>2. CASE count > 0
      <3>1. NextSlot(head) \in 0..(Capacity - 1)
        BY NextSlotType DEF TypeOK
      <3>2. count - 1 \in 0..Capacity /\ active + 1 \in Nat
        BY <2>2, CapacityAssumption DEF TypeOK
      <3>3. TypeOK'
        BY <2>2, <3>1, <3>2 DEF WorkerTake, SignalSpace, TypeOK, MainStates, WorkerStates
      <3>4. Busy' = Busy \cup {w} /\ w \notin Busy
        BY <2>2 DEF WorkerTake, TypeOK, Busy
      <3>5. active' = Cardinality(Busy')
        BY <2>2, <3>4, BusyFinite, FS_AddElement DEF WorkerTake
      <3>6. main' # "enqueue"
        BY <2>2 DEF WorkerTake, SignalSpace, MainLocked
      <3> QED
        BY <3>3, <3>5, <3>6
    <2> QED
      BY <2>1, <2>2 DEF TypeOK
  <1>11. CASE \E w \in Workers : ReadRequest(w) \/ LockDispatch(w) \/ ReleaseDispatch(w) \/ CloseClient(w)
    <2> PICK w \in Workers : ReadRequest(w) \/ LockDispatch(w) \/ ReleaseDispatch(w) \/ CloseClient(w)
      BY <1>11
    <2>1. TypeOK'
      BY DEF ReadRequest, LockDispatch, ReleaseDispatch, CloseClient, TypeOK,
             WorkerStates, ConnStates, mainVars, queueVars
    <2>2. Busy' = Busy
      BY DEF ReadRequest, LockDispatch, ReleaseDispatch, CloseClient, TypeOK, Busy
    <2> QED
      BY <1>a, <2>1, <2>2 DEF ReadRequest, LockDispatch, ReleaseDispatch, CloseClient,
                              mainVars, queueVars
  <1>12. CASE \E w \in Workers : WorkerRetire(w)
    <2> PICK w \in Workers : WorkerRetire(w)
      BY <1>12
    <2>1. Busy' = Busy \ {w} /\ w \in Busy
      BY DEF WorkerRetire, TypeOK, Busy
    <2>2. Cardinality(Busy \ {w}) = Cardinality(Busy) - 1
      BY <2>1, BusyFinite, FS_RemoveElement
    <2>3. active' = Cardinality(Busy')
      BY <2>1, <2>2 DEF WorkerRetire
    <2>4. active' \in Nat
      BY <2>1, <2>3, BusyFinite, FS_Subset, FS_CardinalityType
    <2>5. TypeOK'
      BY <2>4 DEF WorkerRetire, TypeOK, WorkerStates, mainVars
    <2> QED
      BY <2>3, <2>5 DEF WorkerRetire, MainLocked, mainVars
  <1>13. CASE \E c \in Clients : Connect(c)
    <2> PICK c \in Clients : Connect(c)
      BY <1>13
    <2>1. TypeOK'
      BY DEF Connect, TypeOK, ConnStates, mainVars, queueVars, workerVars
    <2> QED
      BY <1>a, <2>1 DEF Connect, Busy, mainVars, queueVars, workerVars
  <1>14. CASE \E inMain \in BOOLEAN : Signal(inMain)
    <2>1. TypeOK'
      BY <1>14 DEF Signal, TypeOK, MainStates, queueVars, workerVars
    <2> QED
      BY <1>a, <1>14, <2>1 DEF Signal, Busy, queueVars, workerVars
  <1>15. CASE \E w \in Workers : SpuriousWake(w)
    <2> PICK w \in Workers : SpuriousWake(w)
      BY <1>15
    <2>1. TypeOK'
      BY DEF SpuriousWake, TypeOK, WorkerStates, mainVars, queueVars
    <2>2. Busy' = Busy
      BY DEF SpuriousWake, TypeOK, Busy
    <2> QED
      BY <1>a, <2>1, <2>2 DEF SpuriousWake, mainVars, queueVars
  <1>16. CASE UNCHANGED vars
    BY <1>16 DEF vars, TypeOK, Busy, mainVars, queueVars, workerVars
  <1> QED
    BY <1>1, <1>2, <1>3, <1>4, <1>5, <1>6, <1>7, <1>8, <1>9, <1>10, <1>11, <1>12,
       <1>13, <1>14, <1>15, <1>16 DEF Next, MainStep, WorkerStep, Environment,
               DispatchReturns, AnswerBuffered

\* The strengthened type invariant holds in every reachable state.
LEMMA TypeInvariance == Spec => []TypeInv
  BY InitType, NextType, PTL DEF Spec

\* Every variable of the transport keeps its type: no ring index leaves the
\* ring, the ring never holds more than its capacity, and the worker count
\* `active' (an unsigned size_t in the code) never goes below zero.
THEOREM TypeCorrect == Spec => []TypeOK
  BY TypeInvariance, PTL DEF TypeInv

----------------------------------------------------------------------------
(* Mutual exclusion, and the order in which the threads end.                *)

\* The dispatch mutex is held by the worker inside the handler; workers leave
\* only once the queue is stopping and empty, which is after the accept loop;
\* the transport has returned only after every worker has.
LifeInv ==
  /\ \A w \in Workers : pc[w] = "dispatch" => dispatch_mutex = w
  /\ stopping => main \in {"join", "done"}
  /\ \A w \in Workers : pc[w] = "exit" => stopping /\ count = 0
  /\ main = "done" => \A w \in Workers : pc[w] \in {"none", "exit"}
  /\ main = "failed" => \A w \in Workers : pc[w] = "none"
  /\ main \in {"create", "failed"} => count = 0
  /\ main \notin {"create", "failed"} => \E w \in Workers : pc[w] # "none"

\* Before the first worker exists nobody is in the handler.
LEMMA InitLife == Init => LifeInv
  BY DEF Init, LifeInv

\* Every step keeps the lock discipline of the dispatch mutex and the joins.
LEMMA NextLife == TypeInv /\ LifeInv /\ [Next]_vars => LifeInv'
  <1> SUFFICES ASSUME TypeInv, LifeInv, [Next]_vars PROVE LifeInv'
    OBVIOUS
  <1> USE DEF TypeInv, TypeOK, LifeInv
  <1>1. CASE \E w \in Workers : CreateWorker(w)
    BY <1>1 DEF CreateWorker, mainVars, queueVars
  <1>2. CASE CreateEnds
    BY <1>2 DEF CreateEnds, Started, queueVars, workerVars
  <1>3. CASE CheckStop \/ EnterAccept \/ AcceptError \/ PushLock \/ SpuriousSpace
    BY <1>3 DEF CheckStop, EnterAccept, AcceptError, PushLock, SpuriousSpace,
                queueVars, workerVars
  <1>4. CASE \E c \in Clients : AcceptClient(c)
    BY <1>4 DEF AcceptClient, queueVars, workerVars
  <1>5. CASE PushTest
    BY <1>5 DEF PushTest, queueVars, workerVars
  <1>6. CASE Enqueue
    BY <1>6 DEF Enqueue, SignalAvailable, WakeOne
  <1>7. CASE CloseListener
    BY <1>7 DEF CloseListener, queueVars, workerVars
  <1>8. CASE StopQueue
    BY <1>8 DEF StopQueue, BroadcastAvailable
  <1>9. CASE JoinWorkers
    BY <1>9 DEF JoinWorkers, Joined, Started, queueVars, workerVars
  <1>10. CASE \E w \in Workers : WorkerTake(w)
    <2> PICK w \in Workers : WorkerTake(w)
      BY <1>10
    <2>1. CASE count = 0
      BY <2>1 DEF WorkerTake
    <2>2. CASE count > 0
      BY <2>2 DEF WorkerTake, SignalSpace
    <2> QED
      BY <2>1, <2>2
  <1>11. CASE \E w \in Workers : ReadRequest(w)
    BY <1>11 DEF ReadRequest, mainVars, queueVars
  <1>12. CASE \E w \in Workers : LockDispatch(w)
    BY <1>12, NoWorkerAssumption DEF LockDispatch, DispatchFree, mainVars, queueVars
  <1>13. CASE \E w \in Workers : ReleaseDispatch(w)
    BY <1>13 DEF ReleaseDispatch, mainVars, queueVars
  <1>14. CASE \E w \in Workers : CloseClient(w) \/ WorkerRetire(w) \/ SpuriousWake(w)
    BY <1>14 DEF CloseClient, WorkerRetire, SpuriousWake, mainVars, queueVars
  <1>15. CASE (\E c \in Clients : Connect(c)) \/ (\E inMain \in BOOLEAN : Signal(inMain))
    BY <1>15 DEF Connect, Signal, mainVars, queueVars, workerVars
  <1>16. CASE UNCHANGED vars
    BY <1>16 DEF vars, mainVars, queueVars, workerVars
  <1> QED
    BY <1>1, <1>2, <1>3, <1>4, <1>5, <1>6, <1>7, <1>8, <1>9, <1>10, <1>11, <1>12,
       <1>13, <1>14, <1>15, <1>16 DEF Next, MainStep, WorkerStep, Environment,
               DispatchReturns, AnswerBuffered

\* The lock discipline holds in every reachable state.
LEMMA LifeInvariance == Spec => []LifeInv
  BY InitLife, NextLife, TypeInvariance, PTL DEF Spec

\* fortai_native_http_handle, which keeps its state in module variables, is
\* never entered by two workers at once, and no worker is inside it when
\* fortai_http_transport_run has returned and its caller releases the model.
THEOREM MutualExclusion == Spec => []DispatchExclusive
  <1>1. LifeInv => DispatchExclusive
    BY DEF LifeInv, DispatchExclusive
  <1> QED
    BY <1>1, LifeInvariance, PTL

----------------------------------------------------------------------------
(* Ownership of descriptors.  The arithmetic of the ring is settled by two  *)
(* lemmas, one per operation on it; what follows reasons about the set of   *)
(* pending slots only.                                                      *)

\* The pending slots are the `count' ones that end before tail.
RingInv == tail = Slot(head, count)

\* An index wraps around at most once.
LEMMA Wrap ==
  ASSUME NEW i \in 0..(Capacity - 1), NEW k \in 0..Capacity
  PROVE  Slot(i, k) = IF i + k < Capacity THEN i + k ELSE i + k - Capacity
  <1>1. CASE i + k < Capacity
    BY <1>1, CapacityAssumption DEF Slot
  <1>2. CASE ~(i + k < Capacity)
    BY <1>2, CapacityAssumption DEF Slot
  <1> QED
    BY <1>1, <1>2

\* queue_push adds the slot at the tail to the waiting ones, and no other.
LEMMA PendingEnqueue ==
  ASSUME TypeOK, RingInv, count < Capacity,
         head' = head, count' = count + 1, tail' = NextSlot(tail)
  PROVE  RingInv' /\ Pending' = Pending \cup {tail} /\ tail \notin Pending
  <1> USE CapacityAssumption DEF TypeOK
  <1>1. tail = IF head + count < Capacity THEN head + count ELSE head + count - Capacity
    BY Wrap DEF RingInv
  <1>2. RingInv'
    <2>1. 1 \in 0..Capacity /\ count + 1 \in 0..Capacity
      OBVIOUS
    <2>2. tail' = IF tail + 1 < Capacity THEN tail + 1 ELSE tail + 1 - Capacity
      BY <2>1, Wrap DEF NextSlot
    <2>3. Slot(head, count + 1)
            = IF head + (count + 1) < Capacity THEN head + (count + 1)
                                               ELSE head + (count + 1) - Capacity
      BY <2>1, Wrap
    <2> QED
      BY <1>1, <2>2, <2>3 DEF RingInv
  <1>3. Pending' = Pending \cup {tail}
    <2>1. 0..(count' - 1) = (0..(count - 1)) \cup {count}
      OBVIOUS
    <2>2. Pending' = {Slot(head, k) : k \in (0..(count - 1)) \cup {count}}
      BY <2>1 DEF Pending
    <2> QED
      BY <2>2 DEF Pending, RingInv
  <1>4. tail \notin Pending
    <2> SUFFICES ASSUME NEW k \in 0..(count - 1), Slot(head, k) = tail PROVE FALSE
      BY DEF Pending
    <2>1. k \in 0..Capacity
      OBVIOUS
    <2>2. Slot(head, k) = IF head + k < Capacity THEN head + k ELSE head + k - Capacity
      BY <2>1, Wrap
    <2> QED
      BY <1>1, <2>2
  <1> QED
    BY <1>2, <1>3, <1>4

\* A worker's pop removes the slot at the head from the waiting ones, and no
\* other.
LEMMA PendingTake ==
  ASSUME TypeOK, RingInv, count > 0,
         head' = NextSlot(head), count' = count - 1, tail' = tail
  PROVE  RingInv' /\ Pending' = Pending \ {head} /\ head \in Pending
  <1> USE CapacityAssumption DEF TypeOK
  <1>0. 0 \in 0..Capacity /\ 1 \in 0..Capacity
    OBVIOUS
  <1>1. head' = IF head + 1 < Capacity THEN head + 1 ELSE head + 1 - Capacity
    BY <1>0, Wrap DEF NextSlot
  \* The k-th slot after the new head is the next one after the old head.
  <1>2. ASSUME NEW k \in 0..(count - 1) PROVE Slot(head', k) = Slot(head, k + 1)
    <2>1. k \in 0..Capacity /\ k + 1 \in 0..Capacity /\ head' \in 0..(Capacity - 1)
      BY <1>1
    <2>2. Slot(head', k) = IF head' + k < Capacity THEN head' + k ELSE head' + k - Capacity
      BY <2>1, Wrap
    <2>3. Slot(head, k + 1) = IF head + (k + 1) < Capacity THEN head + (k + 1)
                                                           ELSE head + (k + 1) - Capacity
      BY <2>1, Wrap
    <2> QED
      BY <1>1, <2>1, <2>2, <2>3
  <1>3. RingInv'
    BY <1>2 DEF RingInv
  <1>4. ASSUME NEW k \in 0..(count - 1) PROVE Slot(head, k) = head <=> k = 0
    <2>1. k \in 0..Capacity
      OBVIOUS
    <2>2. Slot(head, k) = IF head + k < Capacity THEN head + k ELSE head + k - Capacity
      BY <2>1, Wrap
    <2> QED
      BY <2>2
  <1>5. head \in Pending
    <2>1. 0 \in 0..(count - 1)
      OBVIOUS
    <2> QED
      BY <1>4, <2>1 DEF Pending
  <1>6. Pending' \subseteq Pending \ {head}
    <2> SUFFICES ASSUME NEW k \in 0..(count' - 1) PROVE Slot(head', k) \in Pending \ {head}
      BY DEF Pending
    <2>1. k \in 0..(count - 1) /\ k + 1 \in 0..(count - 1) /\ k + 1 # 0
      OBVIOUS
    <2> QED
      BY <1>2, <1>4, <2>1 DEF Pending
  <1>7. Pending \ {head} \subseteq Pending'
    <2> SUFFICES ASSUME NEW k \in 0..(count - 1), Slot(head, k) # head
                 PROVE  Slot(head, k) \in Pending'
      BY DEF Pending
    <2>1. k # 0
      BY <1>4
    <2>2. k - 1 \in 0..(count' - 1) /\ k - 1 \in 0..(count - 1) /\ (k - 1) + 1 = k
      BY <2>1
    <2>3. Slot(head', k - 1) = Slot(head, k)
      BY <1>2, <2>2
    <2> QED
      BY <2>2, <2>3 DEF Pending
  <1> QED
    BY <1>3, <1>5, <1>6, <1>7

\* Who may hold a descriptor, that no two hold the same one, and that the open
\* descriptors are the held ones.
HoldInv ==
  /\ mfd \in Clients <=> main \in {"push", "pushTest", "enqueue", "waitSpace"}
  /\ \A w \in Workers : wfd[w] \in Clients <=> pc[w] \in {"read", "lock", "dispatch", "finish"}
  /\ \A i \in Pending : fds[i] \in Clients
DistinctInv ==
  /\ \A w \in Workers : wfd[w] \in Clients => wfd[w] # mfd
  /\ \A i \in Pending : fds[i] # mfd
  /\ \A w1, w2 \in Workers : wfd[w1] \in Clients /\ wfd[w1] = wfd[w2] => w1 = w2
  /\ \A i, j \in Pending : fds[i] = fds[j] => i = j
  /\ \A i \in Pending : \A w \in Workers : fds[i] # wfd[w]
Held(c) == mfd = c \/ (\E w \in Workers : wfd[w] = c) \/ (\E i \in Pending : fds[i] = c)
OpenInv == \A c \in Clients : conn[c] = "open" <=> Held(c)

OwnInv == RingInv /\ HoldInv /\ DistinctInv /\ OpenInv

\* No descriptor is open at the start, so each has at most one owner.
LEMMA InitOwn == Init => OwnInv
  <1> SUFFICES ASSUME Init PROVE OwnInv
    OBVIOUS
  <1>1. RingInv
    BY CapacityAssumption DEF Init, RingInv, Slot
  <1>2. Pending = {}
    BY DEF Init, Pending
  <1> QED
    BY <1>1, <1>2, NoClientAssumption
    DEF Init, OwnInv, HoldInv, DistinctInv, OpenInv, Held

\* A waiting slot is a slot of the ring.
LEMMA PendingType ==
  ASSUME TypeOK PROVE Pending \subseteq 0..(Capacity - 1)
  BY CapacityAssumption DEF TypeOK, Pending, Slot

\* Every step hands a descriptor on, opens one or closes one; none makes a
\* second owner.
LEMMA NextOwn == TypeInv /\ OwnInv /\ [Next]_vars => OwnInv'
  <1> SUFFICES ASSUME TypeInv, OwnInv, [Next]_vars PROVE OwnInv'
    OBVIOUS
  <1> USE NoClientAssumption DEF TypeInv, OwnInv
  <1>t. TypeOK /\ TypeOK'
    BY NextType
  \* Most steps leave the ring as it is.
  <1>r. ASSUME UNCHANGED <<head, tail, count>> PROVE RingInv' /\ Pending' = Pending
    BY <1>r DEF RingInv, Pending
  \* Steps that touch neither a descriptor nor the main thread's state.
  <1>s. ASSUME UNCHANGED <<mfd, fds, head, tail, count, wfd, conn>>,
               mfd \in Clients <=> main' \in {"push", "pushTest", "enqueue", "waitSpace"},
               \A w \in Workers : pc'[w] \in {"read", "lock", "dispatch", "finish"}
                                    <=> pc[w] \in {"read", "lock", "dispatch", "finish"}
        PROVE  OwnInv'
    <2> RingInv' /\ Pending' = Pending
      BY <1>r, <1>s
    <2>1. HoldInv'
      BY <1>s DEF HoldInv
    <2>2. DistinctInv' /\ OpenInv'
      BY <1>s DEF DistinctInv, OpenInv, Held
    <2> QED
      BY <2>1, <2>2
  <1>1. CASE \E w \in Workers : CreateWorker(w) \/ SpuriousWake(w) \/ WorkerRetire(w)
                                \/ ReadRequest(w) \/ LockDispatch(w) \/ ReleaseDispatch(w)
    BY <1>s, <1>1, <1>t
    DEF CreateWorker, SpuriousWake, WorkerRetire, ReadRequest, LockDispatch, ReleaseDispatch,
        HoldInv, TypeOK, mainVars, queueVars
  <1>2. CASE CheckStop \/ EnterAccept \/ AcceptError \/ PushLock \/ SpuriousSpace \/ JoinWorkers
             \/ \E inMain \in BOOLEAN : Signal(inMain)
    BY <1>s, <1>2 DEF CheckStop, EnterAccept, AcceptError, PushLock, SpuriousSpace, JoinWorkers,
                      Signal, HoldInv, queueVars, workerVars
  <1>3. CASE CreateEnds \/ CloseListener
    <2> RingInv' /\ Pending' = Pending
      BY <1>r, <1>3 DEF CreateEnds, CloseListener, queueVars
    <2>1. HoldInv' /\ DistinctInv'
      BY <1>3 DEF CreateEnds, CloseListener, HoldInv, DistinctInv, queueVars, workerVars
    <2>2. OpenInv'
      BY <1>3, <1>t DEF CreateEnds, CloseListener, OpenInv, Held, TypeOK, queueVars, workerVars
    <2> QED
      BY <2>1, <2>2
  <1>4. CASE \E c \in Clients : AcceptClient(c)
    <2> PICK c \in Clients : AcceptClient(c)
      BY <1>4
    <2> RingInv' /\ Pending' = Pending
      BY <1>r DEF AcceptClient, queueVars
    <2>1. ~Held(c) /\ mfd \notin Clients
      BY <1>t DEF AcceptClient, OpenInv, HoldInv
    <2>2. HoldInv' /\ DistinctInv'
      BY <2>1 DEF AcceptClient, HoldInv, DistinctInv, Held, queueVars, workerVars
    <2>3. OpenInv'
      BY <1>t, <2>1 DEF AcceptClient, OpenInv, Held, TypeOK, queueVars, workerVars
    <2> QED
      BY <2>2, <2>3
  <1>5. CASE PushTest
    <2> RingInv' /\ Pending' = Pending
      BY <1>r, <1>5 DEF PushTest, queueVars
    <2>0. mfd \in Clients
      BY <1>5 DEF PushTest, HoldInv
    <2>1. CASE stopping \/ fortai_stop
      <3>1. HoldInv' /\ DistinctInv'
        BY <1>5, <2>1 DEF PushTest, HoldInv, DistinctInv, queueVars, workerVars
      <3>2. OpenInv'
        BY <1>5, <1>t, <2>0, <2>1
        DEF PushTest, CloseRefused, OpenInv, Held, DistinctInv, TypeOK, queueVars, workerVars
      <3> QED
        BY <3>1, <3>2
    <2>2. CASE ~(stopping \/ fortai_stop)
      BY <1>s, <1>5, <2>0, <2>2 DEF PushTest, queueVars, workerVars
    <2> QED
      BY <2>1, <2>2
  <1>6. CASE Enqueue
    <2>1. RingInv' /\ Pending' = Pending \cup {tail} /\ tail \notin Pending
      BY <1>6, <1>t, PendingEnqueue DEF Enqueue
    <2>2. /\ fds'[tail] = mfd /\ mfd \in Clients
          /\ \A i \in Pending : fds'[i] = fds[i]
      BY <1>6, <1>t, <2>1, PendingType DEF Enqueue, TypeOK, HoldInv
    <2>3. HoldInv'
      BY <1>6, <1>t, <2>1, <2>2 DEF Enqueue, SignalAvailable, WakeOne, HoldInv, TypeOK
    <2>4. DistinctInv'
      BY <1>6, <2>1, <2>2 DEF Enqueue, DistinctInv, HoldInv
    <2>5. OpenInv'
      BY <1>6, <2>1, <2>2 DEF Enqueue, OpenInv, Held
    <2> QED
      BY <2>1, <2>3, <2>4, <2>5
  <1>7. CASE StopQueue
    BY <1>s, <1>7, <1>t DEF StopQueue, BroadcastAvailable, HoldInv, TypeOK
  <1>8. CASE \E w \in Workers : WorkerTake(w)
    <2> PICK w \in Workers : WorkerTake(w)
      BY <1>8
    <2>1. CASE count = 0
      BY <1>s, <1>t, <2>1 DEF WorkerTake, HoldInv, TypeOK
    <2>2. CASE count > 0
      <3>1. RingInv' /\ Pending' = Pending \ {head} /\ head \in Pending
        BY <1>t, <2>2, PendingTake DEF WorkerTake
      <3>2. /\ wfd' = [wfd EXCEPT ![w] = fds[head]] /\ fds[head] \in Clients
            /\ wfd[w] \notin Clients
        BY <1>t, <2>2, <3>1 DEF WorkerTake, HoldInv
      <3>3. HoldInv'
        BY <1>t, <2>2, <3>1, <3>2 DEF WorkerTake, SignalSpace, HoldInv, TypeOK
      <3>4. DistinctInv'
        BY <1>t, <2>2, <3>1, <3>2 DEF WorkerTake, DistinctInv, HoldInv, TypeOK
      <3>5. OpenInv'
        <4> SUFFICES ASSUME NEW c \in Clients PROVE Held(c)' <=> Held(c)
          BY <2>2 DEF WorkerTake, OpenInv
        <4>1. CASE c = fds[head]
          BY <1>t, <2>2, <3>1, <3>2, <4>1 DEF WorkerTake, Held, TypeOK
        <4>2. CASE c # fds[head]
          BY <1>t, <2>2, <3>1, <3>2, <4>2 DEF WorkerTake, Held, TypeOK
        <4> QED
          BY <4>1, <4>2
      <3> QED
        BY <3>1, <3>3, <3>4, <3>5
    <2> QED
      BY <1>t, <2>1, <2>2 DEF TypeOK
  <1>9. CASE \E w \in Workers : CloseClient(w)
    <2> PICK w \in Workers : CloseClient(w)
      BY <1>9
    <2> RingInv' /\ Pending' = Pending
      BY <1>r DEF CloseClient, queueVars
    <2>1. wfd[w] \in Clients
      BY DEF CloseClient, HoldInv
    <2>2. HoldInv'
      BY <1>t, <2>1 DEF CloseClient, HoldInv, TypeOK, mainVars, queueVars
    <2>3. DistinctInv'
      BY <1>t, <2>1 DEF CloseClient, DistinctInv, HoldInv, TypeOK, mainVars, queueVars
    <2>4. OpenInv'
      BY <1>t, <2>1 DEF CloseClient, OpenInv, Held, DistinctInv, TypeOK, mainVars, queueVars
    <2> QED
      BY <2>2, <2>3, <2>4
  <1>10. CASE \E c \in Clients : Connect(c)
    <2> RingInv' /\ Pending' = Pending
      BY <1>r, <1>10 DEF Connect, queueVars
    <2>1. HoldInv' /\ DistinctInv'
      BY <1>10 DEF Connect, HoldInv, DistinctInv, mainVars, queueVars, workerVars
    <2>2. OpenInv'
      BY <1>10, <1>t DEF Connect, OpenInv, Held, TypeOK, mainVars, queueVars, workerVars
    <2> QED
      BY <2>1, <2>2
  <1>11. CASE UNCHANGED vars
    BY <1>s, <1>11 DEF vars, HoldInv, mainVars, queueVars, workerVars
  <1> QED
    BY <1>1, <1>2, <1>3, <1>4, <1>5, <1>6, <1>7, <1>8, <1>9, <1>10, <1>11
    DEF Next, MainStep, WorkerStep, Environment,
               DispatchReturns, AnswerBuffered

\* The ownership invariant holds in every reachable state.
LEMMA OwnInvariance == Spec => []OwnInv
  BY InitOwn, NextOwn, TypeInvariance, PTL DEF Spec

\* A set that some element fills and no two do has one element.
LEMMA OneElement ==
  ASSUME NEW S, NEW x \in S, \A y \in S : y = x
  PROVE  Cardinality(S) = 1
  <1>1. S = {x}
    OBVIOUS
  <1> QED
    BY <1>1, FS_Singleton

\* Every descriptor accept() returned is owned exactly once until it is closed,
\* and by nobody afterwards: the ring, the workers and the accept loop never
\* lose a client, serve one twice or close a descriptor twice.
THEOREM Ownership == Spec => []OwnedOnce
  <1>1. OwnInv => OwnedOnce
    <2> SUFFICES ASSUME OwnInv, NEW c \in Clients
                 PROVE  LET inRing  == {i \in Pending : fds[i] = c}
                            inHands == {w \in Workers : wfd[w] = c}
                            inMain  == IF mfd = c THEN {c} ELSE {}
                        IN Cardinality(inRing) + Cardinality(inHands) + Cardinality(inMain)
                             = IF conn[c] = "open" THEN 1 ELSE 0
      BY DEF OwnedOnce
    <2> USE DEF OwnInv
    <2> DEFINE inRing  == {i \in Pending : fds[i] = c}
               inHands == {w \in Workers : wfd[w] = c}
               inMain  == IF mfd = c THEN {c} ELSE {}
    <2>0. Cardinality({}) = 0
      BY FS_EmptySet
    <2>1. CASE ~Held(c)
      <3>1. inRing = {} /\ inHands = {} /\ inMain = {}
        BY <2>1 DEF Held
      <3>2. conn[c] # "open"
        BY <2>1 DEF OpenInv
      <3> QED
        BY <2>0, <3>1, <3>2
    <2>2. CASE mfd = c
      <3>1. inRing = {} /\ inHands = {} /\ inMain = {c}
        BY <2>2 DEF DistinctInv
      <3>2. Cardinality(inMain) = 1
        BY <3>1, FS_Singleton
      <3>3. conn[c] = "open"
        BY <2>2 DEF OpenInv, Held
      <3> QED
        BY <2>0, <3>1, <3>2, <3>3
    <2>3. CASE \E w \in Workers : wfd[w] = c
      <3> PICK w \in Workers : wfd[w] = c
        BY <2>3
      <3>1. inRing = {} /\ inMain = {}
        BY DEF DistinctInv
      <3>2. w \in inHands /\ \A v \in inHands : v = w
        BY DEF DistinctInv
      <3>3. Cardinality(inHands) = 1
        BY <3>2, OneElement
      <3>4. conn[c] = "open"
        BY DEF OpenInv, Held
      <3> QED
        BY <2>0, <3>1, <3>3, <3>4
    <2>4. CASE \E i \in Pending : fds[i] = c
      <3> PICK i \in Pending : fds[i] = c
        BY <2>4
      <3>1. inHands = {} /\ inMain = {}
        BY DEF DistinctInv
      <3>2. i \in inRing /\ \A j \in inRing : j = i
        BY DEF DistinctInv
      <3>3. Cardinality(inRing) = 1
        BY <3>2, OneElement
      <3>4. conn[c] = "open"
        BY DEF OpenInv, Held
      <3> QED
        BY <2>0, <3>1, <3>3, <3>4
    <2> QED
      BY <2>1, <2>2, <2>3, <2>4 DEF Held
  <1> QED
    BY <1>1, OwnInvariance, PTL

\* When the transport has returned, every descriptor accept() gave it is
\* closed: the last worker leaves only an empty ring behind.
THEOREM Drained == Spec => []DrainedAtExit
  <1>1. TypeInv /\ LifeInv /\ OwnInv => DrainedAtExit
    <2> SUFFICES ASSUME TypeInv, LifeInv, OwnInv, main \in {"done", "failed"},
                        NEW c \in Clients
                 PROVE  ~Held(c)
      BY DEF DrainedAtExit, OwnInv, OpenInv
    <2>1. mfd # c
      BY DEF OwnInv, HoldInv
    <2>2. \A w \in Workers : wfd[w] # c
      BY DEF OwnInv, HoldInv, LifeInv
    <2>3. count = 0
      BY DEF LifeInv
    <2>4. Pending = {}
      BY <2>3 DEF Pending
    <2> QED
      BY <2>1, <2>2, <2>4 DEF Held
  <1> QED
    BY <1>1, TypeInvariance, LifeInvariance, OwnInvariance, PTL

----------------------------------------------------------------------------
(* Wake-ups.  NoLostWakeup is inductive as it stands: a pop takes a woken    *)
(* worker and a descriptor away together, a push that leaves a sleeper wakes *)
(* another one, and every other step can only add woken workers.             *)

Woken == {w \in Workers : pc[w] = "idle"}
Sleepers == {w \in Workers : pc[w] = "waitAvailable"}

\* The woken workers can be counted.
LEMMA WokenFinite == IsFiniteSet(Woken) /\ Cardinality(Woken) \in Nat
  BY WorkersAssumption, FS_Subset, FS_CardinalityType DEF Woken

\* While nothing but the control states changes, waking workers keeps the bound.
LEMMA MoreWoken ==
  ASSUME TypeOK, TypeOK', NoLostWakeup, count' = count, stopping' = stopping,
         main' = main \/ main' # "waitSpace",
         Sleepers' \subseteq Sleepers, Woken \subseteq Woken'
  PROVE  NoLostWakeup'
  <1>1. IsFiniteSet(Woken') /\ Cardinality(Woken') \in Nat
    BY WorkersAssumption, FS_Subset, FS_CardinalityType DEF Woken
  <1>2. Cardinality(Woken) <= Cardinality(Woken') /\ Cardinality(Woken) \in Nat
    BY <1>1, WokenFinite, FS_Subset
  <1>3. count \in Nat
    BY CapacityAssumption DEF TypeOK
  <1>4. ASSUME \E w \in Workers : pc'[w] = "waitAvailable"
        PROVE  ~stopping' /\ count' <= Cardinality(Woken')
    <2>1. \E w \in Workers : pc[w] = "waitAvailable"
      BY <1>4 DEF Sleepers
    <2>2. ~stopping /\ count <= Cardinality(Woken)
      BY <2>1 DEF NoLostWakeup, Woken
    <2> QED
      BY <1>1, <1>2, <1>3, <2>2
  <1> QED
    BY <1>4 DEF NoLostWakeup, Woken

\* Every step keeps the woken workers as many as the pending descriptors.
LEMMA NextWakeup == TypeInv /\ TypeInv' /\ NoLostWakeup /\ [Next]_vars => NoLostWakeup'
  <1> SUFFICES ASSUME TypeInv, TypeInv', NoLostWakeup, [Next]_vars PROVE NoLostWakeup'
    OBVIOUS
  <1>0. TypeOK /\ TypeOK' /\ count \in Nat /\ count <= Capacity /\ Capacity \in Nat
    BY CapacityAssumption DEF TypeInv, TypeOK
  <1>1. CASE CreateEnds \/ CheckStop \/ EnterAccept \/ (\E c \in Clients : AcceptClient(c)) \/
             PushLock \/ CloseListener \/ JoinWorkers \/ AcceptError \/ SpuriousSpace \/
             (\E c \in Clients : Connect(c)) \/ (\E inMain \in BOOLEAN : Signal(inMain))
    <2>1. pc' = pc /\ count' = count /\ stopping' = stopping /\ (main' = main \/ main' # "waitSpace")
      BY <1>1 DEF CreateEnds, CheckStop, EnterAccept, AcceptClient, PushLock, CloseListener,
                  JoinWorkers, AcceptError, SpuriousSpace, Connect, Signal, queueVars,
                  workerVars, mainVars
    <2> QED
      BY <1>0, <2>1, MoreWoken DEF Sleepers, Woken
  <1>2. CASE PushTest
    <2>1. pc' = pc /\ count' = count /\ stopping' = stopping
      BY <1>2 DEF PushTest, queueVars, workerVars
    <2>2. main' = "waitSpace" => count = Capacity
      BY <1>2 DEF PushTest
    <2> QED
      BY <2>1, <2>2 DEF NoLostWakeup
  <1>3. CASE Enqueue
    <2>1. main' = "check" /\ count' = count + 1 /\ stopping' = stopping
      BY <1>3 DEF Enqueue
    <2>2. ASSUME \E w \in Workers : pc'[w] = "waitAvailable"
          PROVE  ~stopping' /\ count' <= Cardinality(Woken')
      <3>1. PICK w \in Workers : pc[w] = "waitAvailable" /\ pc' = [pc EXCEPT ![w] = "idle"]
        BY <1>0, <1>3, <2>2 DEF Enqueue, SignalAvailable, WakeOne, TypeOK
      <3>2. ~stopping /\ count <= Cardinality(Woken)
        BY <3>1 DEF NoLostWakeup, Woken
      <3>3. Woken' = Woken \cup {w} /\ w \notin Woken
        BY <1>0, <3>1 DEF Woken, TypeOK
      <3>4. Cardinality(Woken') = Cardinality(Woken) + 1
        BY <3>3, WokenFinite, FS_AddElement
      <3> QED
        BY <1>0, <2>1, <3>2, <3>4, WokenFinite
    <2> QED
      BY <2>1, <2>2 DEF NoLostWakeup, Woken
  <1>4. CASE StopQueue
    <2>1. \A w \in Workers : pc'[w] # "waitAvailable"
      BY <1>0, <1>4 DEF StopQueue, BroadcastAvailable, TypeOK
    <2> QED
      BY <1>4, <2>1 DEF StopQueue, NoLostWakeup
  <1>5. CASE \E w \in Workers : WorkerTake(w)
    <2> PICK w \in Workers : WorkerTake(w)
      BY <1>5
    <2>1. CASE count = 0 /\ ~stopping
      <3>1. count' = 0 /\ ~stopping' /\ main' = main
        BY <2>1 DEF WorkerTake
      <3>2. IsFiniteSet(Woken') /\ Cardinality(Woken') \in Nat
        BY WorkersAssumption, FS_Subset, FS_CardinalityType DEF Woken
      <3>3. main' = "waitSpace" => count' = Capacity
        BY <2>1, <3>1 DEF NoLostWakeup
      <3> QED
        BY <3>1, <3>2, <3>3 DEF NoLostWakeup, Woken
    <2>2. CASE count = 0 /\ stopping
      <3>1. main' = main /\ count' = count /\ Sleepers' \subseteq Sleepers
        BY <1>0, <2>2 DEF WorkerTake, Sleepers, TypeOK
      <3>2. Sleepers = {}
        BY <2>2 DEF NoLostWakeup, Sleepers
      <3> QED
        BY <3>1, <3>2 DEF NoLostWakeup, Sleepers
    <2>3. CASE count > 0
      <3>1. count' = count - 1 /\ stopping' = stopping /\ main' # "waitSpace"
        BY <2>3 DEF WorkerTake, SignalSpace
      <3>2. Woken' = Woken \ {w} /\ w \in Woken /\ Sleepers' \subseteq Sleepers
        BY <1>0, <2>3 DEF WorkerTake, Woken, Sleepers, TypeOK
      <3>3. Cardinality(Woken') = Cardinality(Woken) - 1
        BY <3>2, WokenFinite, FS_RemoveElement
      <3>4. ASSUME \E v \in Workers : pc'[v] = "waitAvailable"
            PROVE  ~stopping' /\ count' <= Cardinality(Woken')
        <4>1. \E v \in Workers : pc[v] = "waitAvailable"
          BY <3>2, <3>4 DEF Sleepers
        <4>2. ~stopping /\ count <= Cardinality(Woken)
          BY <4>1 DEF NoLostWakeup, Woken
        <4> QED
          BY <1>0, <3>1, <3>3, <4>2, WokenFinite
      <3> QED
        BY <3>1, <3>4 DEF NoLostWakeup, Woken
    <2> QED
      BY <1>0, <2>1, <2>2, <2>3 DEF TypeOK
  <1>6. CASE \E w \in Workers : \/ ReadRequest(w) \/ LockDispatch(w) \/ ReleaseDispatch(w)
                               \/ CloseClient(w) \/ WorkerRetire(w) \/ CreateWorker(w)
                               \/ SpuriousWake(w)
    <2> PICK w \in Workers : \/ ReadRequest(w) \/ LockDispatch(w) \/ ReleaseDispatch(w)
                            \/ CloseClient(w) \/ WorkerRetire(w) \/ CreateWorker(w)
                            \/ SpuriousWake(w)
      BY <1>6
    <2>1. count' = count /\ stopping' = stopping /\ main' = main
      BY DEF ReadRequest, LockDispatch, ReleaseDispatch, CloseClient, WorkerRetire,
             CreateWorker, SpuriousWake, queueVars, mainVars
    <2>2. Sleepers' \subseteq Sleepers /\ Woken \subseteq Woken'
      BY <1>0 DEF ReadRequest, LockDispatch, ReleaseDispatch, CloseClient, WorkerRetire,
                  CreateWorker, SpuriousWake, Sleepers, Woken, TypeOK
    <2> QED
      BY <1>0, <2>1, <2>2, MoreWoken
  <1>7. CASE UNCHANGED vars
    BY <1>7 DEF NoLostWakeup, vars, queueVars, workerVars, mainVars
  <1> QED
    BY <1>1, <1>2, <1>3, <1>4, <1>5, <1>6, <1>7 DEF Next, MainStep, WorkerStep, Environment,
               DispatchReturns, AnswerBuffered

\* fortai_queue_push signals `available' once per descriptor and a pop signals
\* `space': for any number of workers and slots, no thread sleeps on work that
\* nobody else has been woken for.
THEOREM NoWakeupLost == Spec => []NoLostWakeup
  <1>1. Init => NoLostWakeup
    BY DEF Init, NoLostWakeup
  <1> QED
    BY <1>1, NextWakeup, TypeInvariance, PTL DEF Spec

=============================================================================
