--------------------------- MODULE HttpTransport ---------------------------
(***************************************************************************)
(* The threaded HTTP transport of src/server/fortai_http_server.c: the     *)
(* main thread accepts connections and pushes their descriptors into a     *)
(* bounded ring; worker threads pop them, read one request each and call   *)
(* the native handler under fortai_dispatch_mutex.  SIGINT and SIGTERM set *)
(* fortai_stop; the main thread then closes the listener, lets the workers *)
(* drain the ring and joins them.                                          *)
(*                                                                         *)
(* A critical section of queue->mutex is one action, because everything it *)
(* touches is protected by that mutex.  The exception is queue_push: it    *)
(* reads fortai_stop, which a signal handler writes without the mutex, so  *)
(* its lock, test and enqueue are separate steps of the main thread.  The  *)
(* `drained' condition variable has no waiter in the code and is left out. *)
(***************************************************************************)
EXTENDS Naturals, FiniteSets

CONSTANTS Workers,   \* the threads fortai_http_transport_run may create
          Clients,   \* the connections made to the listener
          Silent,    \* clients that neither send a full request nor close
          Unread,    \* clients that send one, but neither read the answer nor close
          Capacity,  \* queue.capacity
          NoClient,  \* "no descriptor"
          NoWorker   \* "fortai_dispatch_mutex is free"

ASSUME CapacityAssumption == Capacity \in Nat \ {0}
ASSUME SilentAssumption   == Silent \subseteq Clients
ASSUME UnreadAssumption   == Unread \subseteq Clients
ASSUME NoClientAssumption == NoClient \notin Clients
ASSUME NoWorkerAssumption == NoWorker \notin Workers
ASSUME WorkersAssumption  == IsFiniteSet(Workers)

VARIABLES
  main,            \* control state of the main thread
  mfd,             \* the main thread's local `client'
  fortai_stop,     \* the flag set by fortai_signal_handler
  listening,       \* the listener descriptor is open
  fds, head, tail, count, active, stopping,   \* fortai_request_queue
  pc,              \* control state of each worker
  wfd,             \* each worker's local `client'
  dispatch_mutex,  \* owner of fortai_dispatch_mutex
  conn             \* state of each client's connection

queueVars  == <<fds, head, tail, count, active, stopping>>
mainVars   == <<main, mfd, listening>>
workerVars == <<pc, wfd, dispatch_mutex>>
vars == <<mainVars, fortai_stop, queueVars, workerVars, conn>>

MainStates == {"create", "check", "call", "accept", "push", "pushTest",
               "enqueue", "waitSpace", "close", "stop", "join", "done", "failed"}
WorkerStates == {"none", "idle", "waitAvailable", "read", "lock", "dispatch",
                 "finish", "retire", "exit"}
ConnStates == {"new", "backlog", "open", "closed", "reset"}

\* The main thread owns queue->mutex.
MainLocked == main \in {"pushTest", "enqueue"}
Started == {w \in Workers : pc[w] # "none"}

----------------------------------------------------------------------------
Init ==
  /\ main = "create" /\ mfd = NoClient /\ listening = TRUE
  /\ fortai_stop = FALSE
  /\ fds = [i \in 0..(Capacity - 1) |-> NoClient]
  /\ head = 0 /\ tail = 0 /\ count = 0 /\ active = 0 /\ stopping = FALSE
  /\ pc = [w \in Workers |-> "none"]
  /\ wfd = [w \in Workers |-> NoClient]
  /\ dispatch_mutex = NoWorker
  /\ conn = [c \in Clients |-> "new"]

\* pthread_create succeeds for one more worker.
CreateWorker(w) ==
  /\ main = "create" /\ pc[w] = "none"
  /\ pc' = [pc EXCEPT ![w] = "idle"]
  /\ UNCHANGED <<mainVars, fortai_stop, queueVars, wfd, dispatch_mutex, conn>>

\* The creation loop ends: every worker exists, or pthread_create failed.
\* Without a single worker (or without the queue's memory, mutex and
\* condition variables, which precede it) the transport gives up.
CreateEnds ==
  /\ main = "create"
  /\ \/ Started # {} /\ main' = "check" /\ UNCHANGED <<listening, conn>>
     \/ /\ Started = {}
        /\ main' = "failed" /\ listening' = FALSE
        /\ conn' = [c \in Clients |-> IF conn[c] = "backlog" THEN "reset" ELSE conn[c]]
  /\ UNCHANGED <<mfd, fortai_stop, queueVars, workerVars>>

----------------------------------------------------------------------------
(* The main thread.                                                         *)

\* while (!fortai_stop)
CheckStop ==
  /\ main = "check"
  /\ main' = IF fortai_stop THEN "close" ELSE "call"
  /\ UNCHANGED <<mfd, listening, fortai_stop, queueVars, workerVars, conn>>

\* The flag has been read; accept() is entered.
EnterAccept ==
  /\ main = "call"
  /\ main' = "accept"
  /\ UNCHANGED <<mfd, listening, fortai_stop, queueVars, workerVars, conn>>

\* accept() returns a descriptor.
AcceptClient(c) ==
  /\ main = "accept" /\ conn[c] = "backlog"
  /\ main' = "push" /\ mfd' = c
  /\ conn' = [conn EXCEPT ![c] = "open"]
  /\ UNCHANGED <<listening, fortai_stop, queueVars, workerVars>>

\* accept() fails with an error other than EINTR: the loop breaks.
AcceptError ==
  /\ main = "accept"
  /\ main' = "close"
  /\ UNCHANGED <<mfd, listening, fortai_stop, queueVars, workerVars, conn>>

\* fortai_queue_push: pthread_mutex_lock.
PushLock ==
  /\ main = "push"
  /\ main' = "pushTest"
  /\ UNCHANGED <<mfd, listening, fortai_stop, queueVars, workerVars, conn>>

\* The descriptor of a refused push is closed by the accept loop.
LeakRefused == UNCHANGED conn   \* mutant: the close is forgotten
CloseRefused == conn' = [conn EXCEPT ![mfd] = "closed"]

\* fortai_queue_push: the wait loop's condition and the test after it.  A
\* push that is refused closes the descriptor and leaves the accept loop.
PushTest ==
  /\ main = "pushTest"
  /\ \/ /\ stopping \/ fortai_stop
        /\ main' = "close" /\ mfd' = NoClient
        /\ CloseRefused
     \/ /\ ~stopping /\ ~fortai_stop
        /\ main' = IF count = Capacity THEN "waitSpace" ELSE "enqueue"
        /\ UNCHANGED <<mfd, conn>>
  /\ UNCHANGED <<listening, fortai_stop, queueVars, workerVars>>

\* Indices of the ring: k slots after slot i, and the next one.
Slot(i, k) == (i + k) % Capacity
NextSlotUnwrapped(i) == i + 1   \* mutant: no wrap-around
NextSlot(i) == Slot(i, 1)

\* A signal on `available' wakes any one waiter, if there is one.
WakeOne ==
  LET waiting == {w \in Workers : pc[w] = "waitAvailable"} IN
  IF waiting = {} THEN pc' = pc
                  ELSE \E w \in waiting : pc' = [pc EXCEPT ![w] = "idle"]

\* pthread_cond_signal(&queue->available)
SignalIfEmpty == IF count = 0 THEN WakeOne ELSE pc' = pc   \* mutant: only the first push signals
SignalAvailable == WakeOne

\* fortai_queue_push: store, signal, unlock; back to the accept loop.
Enqueue ==
  /\ main = "enqueue"
  /\ fds' = [fds EXCEPT ![tail] = mfd]
  /\ tail' = NextSlot(tail)
  /\ count' = count + 1
  /\ SignalAvailable
  /\ main' = "check" /\ mfd' = NoClient
  /\ UNCHANGED <<listening, fortai_stop, head, active, stopping, wfd,
                 dispatch_mutex, conn>>

\* close(listener): the kernel resets what was still in the backlog.
CloseListener ==
  /\ main = "close"
  /\ main' = "stop" /\ listening' = FALSE
  /\ conn' = [c \in Clients |-> IF conn[c] = "backlog" THEN "reset" ELSE conn[c]]
  /\ UNCHANGED <<mfd, fortai_stop, queueVars, workerVars>>

\* pthread_cond_broadcast(&queue.available)
BroadcastOne == WakeOne   \* mutant: a signal in place of the broadcast
BroadcastAvailable ==
  pc' = [w \in Workers |-> IF pc[w] = "waitAvailable" THEN "idle" ELSE pc[w]]

\* queue.stopping = 1 and both broadcasts, under queue->mutex.
StopQueue ==
  /\ main = "stop"
  /\ stopping' = TRUE
  /\ BroadcastAvailable
  /\ main' = "join"
  /\ UNCHANGED <<mfd, listening, fortai_stop, fds, head, tail, count, active, wfd,
                 dispatch_mutex, conn>>

\* Every pthread_join has returned.
JoinedWhenInactive == active = 0   \* mutant: wait for `drained' instead, forgetting the ring
Joined == \A w \in Started : pc[w] = "exit"

\* The main thread joins the workers and destroys the queue.
JoinWorkers ==
  /\ main = "join"
  /\ Joined
  /\ main' = "done"
  /\ UNCHANGED <<mfd, listening, fortai_stop, queueVars, workerVars, conn>>

----------------------------------------------------------------------------
(* A worker thread: fortai_http_worker and fortai_close_client.             *)

\* pthread_cond_signal(&queue->space)
NoSpaceSignal == main' = main   \* mutant: the signal is forgotten
SignalSpace == main' = IF main = "waitSpace" THEN "push" ELSE main

\* Lock, test, and either wait, leave, or pop the head of the ring; a pop
\* signals `space', on which only the main thread waits.
WorkerTake(w) ==
  /\ pc[w] = "idle" /\ ~MainLocked
  /\ \/ /\ count = 0 /\ ~stopping
        /\ pc' = [pc EXCEPT ![w] = "waitAvailable"]
        /\ UNCHANGED <<main, wfd, head, count, active>>
     \/ /\ count = 0 /\ stopping
        /\ pc' = [pc EXCEPT ![w] = "exit"]
        /\ UNCHANGED <<main, wfd, head, count, active>>
     \/ /\ count > 0
        /\ wfd' = [wfd EXCEPT ![w] = fds[head]]
        /\ head' = NextSlot(head)
        /\ count' = count - 1
        /\ active' = active + 1
        /\ SignalSpace
        /\ pc' = [pc EXCEPT ![w] = "read"]
  /\ UNCHANGED <<mfd, listening, fortai_stop, fds, tail, stopping,
                 dispatch_mutex, conn>>

\* fortai_http_read_request: a complete request, or a broken or oversized one.
ReadRequest(w) ==
  /\ pc[w] = "read" /\ wfd[w] \notin Silent
  /\ \E next \in {"lock", "finish"} : pc' = [pc EXCEPT ![w] = next]
  /\ UNCHANGED <<mainVars, fortai_stop, queueVars, wfd, dispatch_mutex, conn>>

\* pthread_mutex_lock(&fortai_dispatch_mutex) can succeed.
DispatchUnlocked == TRUE   \* mutant: the lock is not taken
DispatchFree == dispatch_mutex = NoWorker

LockDispatch(w) ==
  /\ pc[w] = "lock" /\ DispatchFree
  /\ dispatch_mutex' = w
  /\ pc' = [pc EXCEPT ![w] = "dispatch"]
  /\ UNCHANGED <<mainVars, fortai_stop, queueVars, wfd, conn>>

\* fortai_dispatch_request returns (its result is ignored); unlock.
ReleaseDispatch(w) ==
  /\ pc[w] = "dispatch"
  /\ dispatch_mutex' = NoWorker
  /\ pc' = [pc EXCEPT ![w] = "finish"]
  /\ UNCHANGED <<mainVars, fortai_stop, queueVars, wfd, conn>>

\* The answer has been sent to a client that reads it (or has gone away).
DispatchReturns(w) == wfd[w] \notin Unread /\ ReleaseDispatch(w)

\* fortai_send_all blocks, without a timeout and under fortai_dispatch_mutex,
\* once the socket's buffer is full of an answer the client does not read.
\* Whether the whole answer fits that buffer is not the server's to say, so
\* this return is possible and never obliged to happen.
AnswerBuffered(w) == wfd[w] \in Unread /\ ReleaseDispatch(w)

\* shutdown(client), close(client)
CloseClient(w) ==
  /\ pc[w] = "finish"
  /\ conn' = [conn EXCEPT ![wfd[w]] = "closed"]
  /\ wfd' = [wfd EXCEPT ![w] = NoClient]
  /\ pc' = [pc EXCEPT ![w] = "retire"]
  /\ UNCHANGED <<mainVars, fortai_stop, queueVars, dispatch_mutex>>

\* active-- under queue->mutex
WorkerRetire(w) ==
  /\ pc[w] = "retire" /\ ~MainLocked
  /\ active' = active - 1
  /\ pc' = [pc EXCEPT ![w] = "idle"]
  /\ UNCHANGED <<mainVars, fortai_stop, fds, head, tail, count, stopping,
                 wfd, dispatch_mutex, conn>>

----------------------------------------------------------------------------
(* The environment: clients, signals, the scheduler.                        *)

Connect(c) ==
  /\ listening /\ conn[c] = "new"
  /\ conn' = [conn EXCEPT ![c] = "backlog"]
  /\ UNCHANGED <<mainVars, fortai_stop, queueVars, workerVars>>

\* SIGINT or SIGTERM.  The handler runs in whichever thread the kernel picks,
\* as no thread blocks the signals; accept() returns EINTR only when it is
\* the main thread and accept() has been entered.
Signal(inMain) ==
  /\ main \notin {"done", "failed"}
  /\ fortai_stop' = TRUE
  /\ main' = IF inMain /\ main = "accept" THEN "check" ELSE main
  /\ UNCHANGED <<mfd, listening, queueVars, workerVars, conn>>

\* pthread_cond_wait may return without a signal.
SpuriousWake(w) ==
  /\ pc[w] = "waitAvailable"
  /\ pc' = [pc EXCEPT ![w] = "idle"]
  /\ UNCHANGED <<mainVars, fortai_stop, queueVars, wfd, dispatch_mutex, conn>>

SpuriousSpace ==
  /\ main = "waitSpace"
  /\ main' = "push"
  /\ UNCHANGED <<mfd, listening, fortai_stop, queueVars, workerVars, conn>>

----------------------------------------------------------------------------
MainStep ==
  \/ CreateEnds \/ CheckStop \/ EnterAccept \/ (\E c \in Clients : AcceptClient(c))
  \/ PushLock \/ PushTest \/ Enqueue \/ CloseListener \/ StopQueue \/ JoinWorkers

WorkerStep(w) ==
  \/ WorkerTake(w) \/ ReadRequest(w) \/ LockDispatch(w) \/ DispatchReturns(w)
  \/ CloseClient(w) \/ WorkerRetire(w)

Environment ==
  \/ AcceptError \/ SpuriousSpace
  \/ \E w \in Workers : CreateWorker(w) \/ SpuriousWake(w) \/ AnswerBuffered(w)
  \/ \E c \in Clients : Connect(c)
  \/ \E inMain \in BOOLEAN : Signal(inMain)

Next == MainStep \/ (\E w \in Workers : WorkerStep(w)) \/ Environment

\* The scheduler runs every thread that can run, and a wait on a condition
\* variable does not return spuriously for ever.  Clients, signals and failing
\* system calls are never obliged to happen: recv() returns for a client that
\* sends (ReadRequest) and send() for one that reads (DispatchReturns), and
\* for the others the thread may stay in the call for ever.
Fairness ==
  /\ WF_vars(MainStep)
  /\ \A w \in Workers : WF_vars(WorkerStep(w))
  /\ <>[][~SpuriousSpace]_vars

Spec == Init /\ [][Next]_vars
FairSpec == Spec /\ Fairness

----------------------------------------------------------------------------
(* Properties.                                                              *)

TypeOK ==
  /\ main \in MainStates /\ mfd \in Clients \cup {NoClient}
  /\ fortai_stop \in BOOLEAN /\ listening \in BOOLEAN
  /\ fds \in [0..(Capacity - 1) -> Clients \cup {NoClient}]
  /\ head \in 0..(Capacity - 1) /\ tail \in 0..(Capacity - 1)
  /\ count \in 0..Capacity /\ active \in Nat /\ stopping \in BOOLEAN
  /\ pc \in [Workers -> WorkerStates]
  /\ wfd \in [Workers -> Clients \cup {NoClient}]
  /\ dispatch_mutex \in Workers \cup {NoWorker}
  /\ conn \in [Clients -> ConnStates]

\* The ring indices from which workers will still pop.
Pending == {Slot(head, k) : k \in 0..(count - 1)}

\* Ownership of descriptors: a client that was accepted and not yet closed is
\* owned exactly once, by a pending slot of the ring, by one worker, or by the
\* main thread between accept() and fortai_queue_push; nothing owns a closed
\* one.  So no accepted client is lost or served twice, and no descriptor is
\* closed twice, whatever wraps around in the ring.
OwnedOnce ==
  \A c \in Clients :
    LET inRing  == {i \in Pending : fds[i] = c}
        inHands == {w \in Workers : wfd[w] = c}
        inMain  == IF mfd = c THEN {c} ELSE {}
    IN Cardinality(inRing) + Cardinality(inHands) + Cardinality(inMain)
         = IF conn[c] = "open" THEN 1 ELSE 0

\* The native handler, which is not reentrant, is entered by one thread at a
\* time, and never after fortai_http_transport_run has returned and let its
\* caller release the model.
DispatchExclusive ==
  /\ \A w1, w2 \in Workers :
       pc[w1] = "dispatch" /\ pc[w2] = "dispatch" => w1 = w2
  /\ main \in {"done", "failed"} => \A w \in Workers : pc[w] # "dispatch"

\* Shutdown drains: when the transport has returned, every descriptor that
\* accept() ever gave it has been closed.
DrainedAtExit ==
  main \in {"done", "failed"} => \A c \in Clients : conn[c] # "open"

\* No wake-up is lost.  While a worker sleeps on `available', every pending
\* descriptor has a woken worker of its own on the way to it; the main thread
\* sleeps on `space' only while the ring really is full; and once the queue is
\* stopping nobody sleeps.
NoLostWakeup ==
  /\ (\E w \in Workers : pc[w] = "waitAvailable")
       => ~stopping /\ count <= Cardinality({w \in Workers : pc[w] = "idle"})
  /\ main = "waitSpace" => count = Capacity

\* A worker is in send() under fortai_dispatch_mutex, for a client that does
\* not read.
Stalled == \E w \in Workers : pc[w] = "dispatch" /\ wfd[w] \in Unread

\* A client that sends slowly holds up only its own worker: as long as there
\* are more workers than silent clients, every other accepted client that
\* reads its answer is served and closed.  (The request is read before
\* fortai_dispatch_mutex is taken.)  The answer is written while that mutex is
\* held, so one client that never reads can stop all the others: that is the
\* one exception.
ServedDespiteSilent ==
  \A c \in Clients \ (Silent \cup Unread) :
    (conn[c] = "open" /\ Cardinality(Silent) < Cardinality(Started))
      ~> (conn[c] = "closed" \/ []Stalled)

\* A worker is in a system call that only its client can end.
HeldUp ==
  \/ Stalled
  \/ \E w \in Workers : pc[w] = "read" /\ wfd[w] \in Silent

\* Once the stop flag is set, the transport returns unless its main thread is
\* already committed to a blocking accept() with nobody in the backlog, or a
\* worker that has to be joined is held for ever by a client that does not
\* send or does not read; it never hangs in the ring, the dispatch mutex or
\* the joins otherwise.
StopReturns ==
  (fortai_stop /\ (main \notin {"call", "accept"} \/ \E c \in Clients : conn[c] = "backlog"))
     ~> (main \in {"done", "failed"} \/ []HeldUp)
=============================================================================
