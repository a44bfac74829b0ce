---------------------------- MODULE ProcessSlots ----------------------------
(***************************************************************************)
(* CPU process slots of src/server/fortai_http_server.c.  The parent forks *)
(* one child per extra slot; every process runs fortai_process_accept_loop *)
(* on the shared listener with a private copy of the model and of the flag *)
(* fortai_stop.  When the parent's loop ends it sends SIGTERM to every     *)
(* child and waits for each.  When fork() fails, the parent retires the    *)
(* children it has and fortai_http_transport_run falls back to the         *)
(* threaded transport.                                                     *)
(***************************************************************************)
EXTENDS Integers, FiniteSets

CONSTANTS Slots,    \* parse_parallel_slots(), more than one
          Clients,
          Stalling, \* clients that leave a request half sent, or do not read
                    \* the answer, and do not close
          NoClient

ASSUME SlotsAssumption    == Slots \in Nat /\ Slots > 1
ASSUME ClientAssumption   == NoClient \notin Clients
ASSUME StallingAssumption == Stalling \subseteq Clients

Parent    == 0
Children  == 1..(Slots - 1)
Processes == 0..(Slots - 1)

VARIABLES
  pc,         \* control state of each process
  stop,       \* each process's fortai_stop
  pending,    \* a SIGTERM or SIGINT was sent and its handler has not run
  fd,         \* each process's local `client'
  children,   \* children[]: the processes forked so far, a prefix of Children
  killed,     \* how many children have been sent SIGTERM
  result,     \* the result of fortai_run_cpu_process_slots
  listener,   \* the parent's listener descriptor is open
  conn        \* state of each connection

vars == <<pc, stop, pending, fd, children, killed, result, listener, conn>>

LoopStates  == {"check", "call", "accept", "serve"}
ChildStates == {"none", "exit"} \cup LoopStates
ParentStates == {"fork", "stop", "kill", "wait", "closeListener", "serialized", "done"}
                  \cup LoopStates

Init ==
  /\ pc = [p \in Processes |-> IF p = Parent THEN "fork" ELSE "none"]
  /\ stop = [p \in Processes |-> FALSE]
  /\ pending = [p \in Processes |-> FALSE]
  /\ fd = [p \in Processes |-> NoClient]
  /\ children = 0 /\ killed = 0 /\ result = 0 /\ listener = TRUE
  /\ conn = [c \in Clients |-> "new"]

Goto(p, state) == pc' = [pc EXCEPT ![p] = state]

----------------------------------------------------------------------------
(* fortai_run_cpu_process_slots, in the parent.                             *)

\* Another child is wanted.
MoreSlotsInclusive == children < Slots   \* mutant: one child per slot, the parent's included
MoreSlots == children < Slots - 1

\* fork(): the child starts its accept loop with the parent's flag and no
\* pending signal.
Fork ==
  /\ pc[Parent] = "fork" /\ MoreSlots
  /\ children' = children + 1
  /\ Goto(children + 1, "check")
  /\ stop' = [stop EXCEPT ![children + 1] = stop[Parent]]
  /\ UNCHANGED <<pending, fd, killed, result, listener, conn>>

\* fork() fails (or calloc before it): result = -2.
ForkFails ==
  /\ pc[Parent] = "fork" /\ MoreSlots
  /\ result' = -2
  /\ Goto(Parent, "stop")
  /\ UNCHANGED <<stop, pending, fd, children, killed, listener, conn>>

ForkDone ==
  /\ pc[Parent] = "fork" /\ ~MoreSlots
  /\ Goto(Parent, "check")
  /\ UNCHANGED <<stop, pending, fd, children, killed, result, listener, conn>>

\* fortai_stop = 1
SetStop ==
  /\ pc[Parent] = "stop"
  /\ stop' = [stop EXCEPT ![Parent] = TRUE]
  /\ Goto(Parent, "kill")
  /\ UNCHANGED <<pending, fd, children, killed, result, listener, conn>>

\* kill(children[i], SIGTERM); a zombie ignores it.
KillChild ==
  /\ pc[Parent] = "kill" /\ killed < children
  /\ killed' = killed + 1
  /\ pending' = [pending EXCEPT ![killed + 1] = pc[killed + 1] # "exit"]
  /\ UNCHANGED <<pc, stop, fd, children, result, listener, conn>>

\* The kill loop has reached every child.
AllButLastKilled == killed >= children - 1   \* mutant: the loop ends one child early
AllKilled == killed = children

KillDone ==
  /\ pc[Parent] = "kill" /\ AllKilled
  /\ Goto(Parent, "wait")
  /\ UNCHANGED <<stop, pending, fd, children, killed, result, listener, conn>>

\* waitpid() has returned for every child.
ReapedButLast == \A i \in 1..(children - 1) : pc[i] = "exit"   \* mutant: one wait too few
Reaped == \A i \in 1..children : pc[i] = "exit"

WaitDone ==
  /\ pc[Parent] = "wait" /\ Reaped
  /\ Goto(Parent, "closeListener")
  /\ UNCHANGED <<stop, pending, fd, children, killed, result, listener, conn>>

\* fortai_http_transport_run: close(listener), then return, or clear the flag
\* and go on with the threaded transport.
AfterSlots ==
  /\ pc[Parent] = "closeListener"
  /\ listener' = FALSE
  /\ conn' = [c \in Clients |-> IF conn[c] = "backlog" THEN "reset" ELSE conn[c]]
  /\ \/ result # -2 /\ Goto(Parent, "done") /\ UNCHANGED stop
     \/ /\ result = -2 /\ Goto(Parent, "serialized")
        /\ stop' = [stop EXCEPT ![Parent] = FALSE]
  /\ UNCHANGED <<pending, fd, children, killed, result>>

\* The threaded transport's first accept() on that listener.  While the
\* descriptor is closed it fails with EBADF, the accept loop breaks and
\* fortai_http_transport_run returns 0.  (With an open listener the transport
\* would be the one of HttpTransport.)
SerializedAccept ==
  /\ pc[Parent] = "serialized" /\ ~listener
  /\ Goto(Parent, "done")
  /\ result' = 0
  /\ UNCHANGED <<stop, pending, fd, children, killed, listener, conn>>

----------------------------------------------------------------------------
(* fortai_process_accept_loop, in any process.                              *)

\* What follows the loop: the child closes its listener and exits; the parent
\* goes on in fortai_run_cpu_process_slots.
Leave(p, r) ==
  /\ Goto(p, IF p = Parent THEN "stop" ELSE "exit")
  /\ result' = IF p = Parent THEN r ELSE result

CheckStop(p) ==
  /\ pc[p] = "check"
  /\ \/ stop[p] /\ Leave(p, 0)
     \/ ~stop[p] /\ Goto(p, "call") /\ UNCHANGED result
  /\ UNCHANGED <<stop, pending, fd, children, killed, listener, conn>>

EnterAccept(p) ==
  /\ pc[p] = "call"
  /\ Goto(p, "accept")
  /\ UNCHANGED <<stop, pending, fd, children, killed, result, listener, conn>>

AcceptClient(p, c) ==
  /\ pc[p] = "accept" /\ conn[c] = "backlog"
  /\ conn' = [conn EXCEPT ![c] = "open"]
  /\ fd' = [fd EXCEPT ![p] = c]
  /\ Goto(p, "serve")
  /\ UNCHANGED <<stop, pending, children, killed, result, listener>>

\* An error other than EINTR: return -1.
AcceptError(p) ==
  /\ pc[p] = "accept"
  /\ Leave(p, -1)
  /\ UNCHANGED <<stop, pending, fd, children, killed, listener, conn>>

LeakServed(p) == UNCHANGED conn   \* mutant: the descriptor is not closed
CloseServed(p) == conn' = [conn EXCEPT ![fd[p]] = "closed"]

\* fortai_close_client: read, dispatch to the private model, close.
EndService(p) ==
  /\ pc[p] = "serve"
  /\ CloseServed(p)
  /\ fd' = [fd EXCEPT ![p] = NoClient]
  /\ Goto(p, "check")
  /\ UNCHANGED <<stop, pending, children, killed, result, listener>>

\* The client sends its request and reads its answer.
Serve(p) == fd[p] \notin Stalling /\ EndService(p)

\* recv() and send() have no timeout and are repeated after EINTR, so neither
\* time nor a signal ends the service of a client that stalls; only the client
\* does (it goes on, or closes), or an answer that fits the socket's buffer.
StalledServiceEnds(p) == fd[p] \in Stalling /\ EndService(p)

\* fortai_signal_handler runs; a blocked accept() returns EINTR.
HandleSignal(p) ==
  /\ pending[p]
  /\ pending' = [pending EXCEPT ![p] = FALSE]
  /\ stop' = [stop EXCEPT ![p] = TRUE]
  /\ Goto(p, IF pc[p] = "accept" THEN "check" ELSE pc[p])
  /\ UNCHANGED <<fd, children, killed, result, listener, conn>>

----------------------------------------------------------------------------
(* The environment.                                                         *)

\* A connection reaches the listener while any process holds it open.
Connect(c) ==
  /\ listener /\ conn[c] = "new"
  /\ conn' = [conn EXCEPT ![c] = "backlog"]
  /\ UNCHANGED <<pc, stop, pending, fd, children, killed, result, listener>>

\* A signal to one process, or to the group from the terminal.
SendSignal ==
  /\ pc[Parent] # "done"
  /\ \E P \in {{Parent}, Processes} :
       pending' = [p \in Processes |-> pending[p] \/
                     (p \in P /\ pc[p] \notin {"none", "exit", "done"})]
  /\ UNCHANGED <<pc, stop, fd, children, killed, result, listener, conn>>

----------------------------------------------------------------------------
ParentStep ==
  \/ Fork \/ ForkDone \/ SetStop \/ KillChild \/ KillDone
  \/ WaitDone \/ AfterSlots \/ SerializedAccept

LoopStep(p) ==
  \/ CheckStop(p) \/ EnterAccept(p) \/ (\E c \in Clients : AcceptClient(p, c))
  \/ Serve(p)

Next ==
  \/ ParentStep
  \/ \E p \in Processes : \/ LoopStep(p) \/ HandleSignal(p) \/ AcceptError(p)
                        \/ StalledServiceEnds(p)
  \/ ForkFails
  \/ SendSignal
  \/ \E c \in Clients : Connect(c)

\* Every process is scheduled, a sent signal is handled, and the request of a
\* client that does not stall ends.  Stalling clients owe the server nothing.
Fairness == /\ WF_vars(ParentStep)
            /\ \A p \in Processes : WF_vars(LoopStep(p)) /\ WF_vars(HandleSignal(p))

Spec == Init /\ [][Next]_vars
FairSpec == Spec /\ Fairness

----------------------------------------------------------------------------
TypeOK ==
  /\ pc \in [Processes -> ChildStates \cup ParentStates]
  /\ pc[Parent] \in ParentStates
  /\ \A i \in Children : pc[i] \in ChildStates
  /\ stop \in [Processes -> BOOLEAN] /\ pending \in [Processes -> BOOLEAN]
  /\ fd \in [Processes -> Clients \cup {NoClient}]
  /\ children \in 0..(Slots - 1) /\ killed \in 0..children
  /\ result \in {-2, -1, 0} /\ listener \in BOOLEAN
  /\ conn \in [Clients -> {"new", "backlog", "open", "closed", "reset"}]

\* No process outlives the server: once the parent has left the slots, by a
\* stop, an accept error or a failed fork, every child it forked has exited
\* and no connection is left half served.
NoOrphans ==
  pc[Parent] \in {"closeListener", "serialized", "done"} =>
    /\ \A i \in Children : pc[i] \in {"none", "exit"}
    /\ \A c \in Clients : conn[c] # "open"

\* A connection is served by exactly one of the processes that share the
\* listener.
ServedByOne ==
  \A c \in Clients :
    Cardinality({p \in Processes : fd[p] = c}) = IF conn[c] = "open" THEN 1 ELSE 0

\* Some process ran its signal handler after reading the flag and before
\* entering accept().
Window == \E p \in Processes : stop[p] /\ pc[p] = "call"

\* A process is in recv() or send() for a client that stalls.
Stalled == \E p \in Processes : pc[p] = "serve" /\ fd[p] \in Stalling

\* A stop hangs in two ways only.  If no handler ever runs in that window, and
\* no client stalls for ever in a child that has to be reaped, a parent that
\* has begun to stop reaps every child and returns.  (In the window the process
\* blocks in accept() with its flag set, as the main thread of HttpTransport
\* does; behind a stalling client it has its flag set and never tests it.)
StopReaps ==
  [](~Window) => (pc[Parent] = "stop" ~> (pc[Parent] = "done" \/ []Stalled))

\* The message of the fallback: "CPU process slots unavailable; using one
\* serialized model".  A transport that serves a model has a listener.
FallbackServes == pc[Parent] = "serialized" => listener
=============================================================================
