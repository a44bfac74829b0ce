------------------------- MODULE ProcessSlotsProofs -------------------------
(***************************************************************************)
(* For any number of slots and clients: the processes that share the       *)
(* listener serve each connection once, and no child outlives the parent,  *)
(* wherever fork() fails, accept() fails or a signal arrives.              *)
(***************************************************************************)
EXTENDS ProcessSlots, FiniteSetTheorems, TLAPS

\* The parent has left fortai_run_cpu_process_slots.
Left == pc[Parent] \in {"closeListener", "serialized", "done"}

\* The children are forked in order; once the parent has waited for the forked
\* ones, all of them have exited.
ChildrenInv ==
  /\ \A i \in Children : i > children => pc[i] = "none"
  /\ Left => \A i \in 1..children : pc[i] = "exit"

\* A process holds a connection exactly while it serves it, a connection is
\* open exactly while it is held, and no two processes hold the same one.
HeldInv ==
  /\ \A p \in Processes : pc[p] = "serve" <=> fd[p] # NoClient
  /\ \A c \in Clients : conn[c] = "open" <=> \E p \in Processes : fd[p] = c
  /\ \A p, q \in Processes : fd[p] = fd[q] /\ fd[p] # NoClient => p = q

Inv == TypeOK /\ ChildrenInv /\ HeldInv

----------------------------------------------------------------------------
\* The parent and its children are the processes.
LEMMA ProcessesAre ==
  /\ Parent \in Processes /\ Parent \notin Children
  /\ Children \subseteq Processes
  /\ \A p \in Processes : p = Parent \/ p \in Children
  /\ children \in 0..(Slots - 1) => 1..children \subseteq Children
  BY SlotsAssumption DEF Parent, Processes, Children

\* The state fortai_run_cpu_process_slots starts in.
LEMMA InitInv == Init => Inv
<1> SUFFICES ASSUME Init PROVE Inv
  OBVIOUS
<1> USE DEF Init
<1>1. TypeOK
  BY SlotsAssumption, ProcessesAre DEF TypeOK, ChildStates, ParentStates, LoopStates
<1>2. ChildrenInv
  BY ProcessesAre DEF ChildrenInv, Left
<1>3. HeldInv
  BY ProcessesAre, ClientAssumption DEF HeldInv
<1> QED BY <1>1, <1>2, <1>3 DEF Inv

\* Every step leaves each process in its own control states.
LEMMA NextType == Inv /\ [Next]_vars => TypeOK'
<1> SUFFICES ASSUME Inv, [Next]_vars PROVE TypeOK'
  OBVIOUS
<1> USE SlotsAssumption, ProcessesAre
    DEF Inv, TypeOK, ChildStates, ParentStates, LoopStates, Goto
<1>1. CASE Fork
  <2>1. children + 1 \in Children
    BY <1>1 DEF Fork, MoreSlots, Children
  <2> QED BY <1>1, <2>1 DEF Fork, MoreSlots
<1>2. CASE ForkFails \/ ForkDone \/ SetStop \/ KillDone \/ WaitDone \/ SerializedAccept
  BY <1>2 DEF ForkFails, ForkDone, SetStop, KillDone, WaitDone, SerializedAccept
<1>3. CASE KillChild
  <2>1. killed + 1 \in 1..children
    BY <1>3 DEF KillChild
  <2> QED BY <1>3, <2>1 DEF KillChild
<1>4. CASE AfterSlots
  BY <1>4 DEF AfterSlots
<1>5. ASSUME NEW p \in Processes, CheckStop(p) \/ EnterAccept(p) \/ AcceptError(p) PROVE TypeOK'
  BY <1>5 DEF CheckStop, EnterAccept, AcceptError, Leave
<1>6. ASSUME NEW p \in Processes, NEW c \in Clients, AcceptClient(p, c) PROVE TypeOK'
  BY <1>6 DEF AcceptClient
<1>7. ASSUME NEW p \in Processes, EndService(p) \/ HandleSignal(p) PROVE TypeOK'
  BY <1>7 DEF EndService, CloseServed, HandleSignal
<1>8. CASE SendSignal \/ \E c \in Clients : Connect(c)
  BY <1>8 DEF SendSignal, Connect
<1>9. CASE UNCHANGED vars
  BY <1>9 DEF vars
<1> QED BY <1>1, <1>2, <1>3, <1>4, <1>5, <1>6, <1>7, <1>8, <1>9 DEF Next, ParentStep, LoopStep, Serve,
                                                              StalledServiceEnds

\* A child that has exited stays so, and a child is forked only by a parent
\* that has not yet left the slots.
LEMMA NextChildren == Inv /\ [Next]_vars => ChildrenInv'
<1> SUFFICES ASSUME Inv, [Next]_vars PROVE ChildrenInv'
  OBVIOUS
<1> USE SlotsAssumption, ProcessesAre DEF Inv, TypeOK, ChildrenInv, Left, Goto
<1>1. CASE Fork
  <2>1. children + 1 \in Children
    BY <1>1 DEF Fork, MoreSlots, Children
  <2>2. pc' = [pc EXCEPT ![children + 1] = "check"] /\ children' = children + 1
    BY <1>1 DEF Fork
  <2>3. ~Left'
    BY <1>1, <2>1, <2>2 DEF Fork
  <2>4. \A i \in Children : i > children' => pc'[i] = "none"
    BY <2>1, <2>2 DEF Children
  <2> QED BY <2>3, <2>4
<1>2. CASE ForkFails \/ ForkDone \/ SetStop \/ KillDone
  BY <1>2 DEF ForkFails, ForkDone, SetStop, KillDone
<1>3. CASE WaitDone
  BY <1>3 DEF WaitDone, Reaped
<1>4. CASE AfterSlots \/ SerializedAccept
  BY <1>4 DEF AfterSlots, SerializedAccept
<1>5. ASSUME NEW p \in Processes, CheckStop(p) \/ EnterAccept(p) \/ AcceptError(p)
      PROVE  ChildrenInv'
  BY <1>5 DEF CheckStop, EnterAccept, AcceptError, Leave
<1>6. ASSUME NEW p \in Processes, NEW c \in Clients, AcceptClient(p, c) PROVE ChildrenInv'
  BY <1>6 DEF AcceptClient
<1>7. ASSUME NEW p \in Processes, EndService(p) \/ HandleSignal(p) PROVE ChildrenInv'
  BY <1>7 DEF EndService, HandleSignal
<1>8. CASE UNCHANGED <<pc, children>>
  BY <1>8
<1>9. KillChild \/ SendSignal \/ (\E c \in Clients : Connect(c)) \/ UNCHANGED vars
        => UNCHANGED <<pc, children>>
  BY DEF KillChild, SendSignal, Connect, vars
<1> QED BY <1>1, <1>2, <1>3, <1>4, <1>5, <1>6, <1>7, <1>8, <1>9 DEF Next, ParentStep, LoopStep, Serve,
                                                              StalledServiceEnds

\* The steps that neither accept nor close a connection.
LEMMA SameHolders ==
  ASSUME HeldInv, UNCHANGED fd,
         \A c \in Clients : conn[c] = "open" <=> conn'[c] = "open",
         \A p \in Processes : pc[p] = "serve" <=> pc'[p] = "serve"
  PROVE  HeldInv'
  BY DEF HeldInv

\* A connection is taken from the backlog by one process, which gives it up
\* only by closing it.
LEMMA NextHeld == Inv /\ [Next]_vars => HeldInv'
<1> SUFFICES ASSUME Inv, [Next]_vars PROVE HeldInv'
  OBVIOUS
<1> USE ProcessesAre DEF Inv, TypeOK, Goto
<1>1. CASE Fork
  <2>1. children + 1 \in Children /\ pc[children + 1] = "none"
    BY <1>1, SlotsAssumption DEF Fork, MoreSlots, Children, ChildrenInv
  <2>2. \A p \in Processes : pc[p] = "serve" <=> pc'[p] = "serve"
    BY <1>1, <2>1 DEF Fork
  <2> QED BY <1>1, <2>2, SameHolders DEF Fork
<1>2. CASE ForkFails \/ ForkDone \/ SetStop \/ KillDone \/ WaitDone \/ SerializedAccept
  <2>1. UNCHANGED <<fd, conn>> /\ \A p \in Processes : pc[p] = "serve" <=> pc'[p] = "serve"
    BY <1>2 DEF ForkFails, ForkDone, SetStop, KillDone, WaitDone, SerializedAccept
  <2> QED BY <2>1, SameHolders
<1>3. CASE AfterSlots
  BY <1>3, SameHolders DEF AfterSlots
<1>4. ASSUME NEW p \in Processes,
             CheckStop(p) \/ EnterAccept(p) \/ AcceptError(p) \/ HandleSignal(p)
      PROVE  HeldInv'
  <2>1. UNCHANGED <<fd, conn>> /\ \A q \in Processes : pc[q] = "serve" <=> pc'[q] = "serve"
    BY <1>4 DEF CheckStop, EnterAccept, AcceptError, HandleSignal, Leave
  <2> QED BY <2>1, SameHolders
<1>5. ASSUME NEW p \in Processes, NEW c \in Clients, AcceptClient(p, c) PROVE HeldInv'
  <2>1. /\ pc[p] = "accept" /\ pc' = [pc EXCEPT ![p] = "serve"]
        /\ conn[c] = "backlog" /\ conn' = [conn EXCEPT ![c] = "open"]
        /\ fd' = [fd EXCEPT ![p] = c]
    BY <1>5 DEF AcceptClient
  <2>2. fd[p] = NoClient /\ \A q \in Processes : fd[q] # c
    BY <2>1 DEF HeldInv
  <2> QED BY <2>1, <2>2, ClientAssumption DEF HeldInv
<1>6. ASSUME NEW p \in Processes, EndService(p) PROVE HeldInv'
  <2>1. /\ pc[p] = "serve" /\ pc' = [pc EXCEPT ![p] = "check"]
        /\ conn' = [conn EXCEPT ![fd[p]] = "closed"]
        /\ fd' = [fd EXCEPT ![p] = NoClient]
    BY <1>6 DEF EndService, CloseServed
  <2>2. fd[p] \in Clients /\ \A q \in Processes : fd[q] = fd[p] => q = p
    BY <2>1 DEF HeldInv
  <2> QED BY <2>1, <2>2, ClientAssumption DEF HeldInv
<1>7. ASSUME NEW c \in Clients, Connect(c) PROVE HeldInv'
  BY <1>7, SameHolders DEF Connect
<1>8. CASE KillChild \/ SendSignal \/ UNCHANGED vars
  BY <1>8, SameHolders DEF KillChild, SendSignal, vars
<1> QED BY <1>1, <1>2, <1>3, <1>4, <1>5, <1>6, <1>7, <1>8 DEF Next, ParentStep, LoopStep, Serve,
                                                              StalledServiceEnds

\* The invariant is inductive.
LEMMA Invariance == Spec => []Inv
<1>1. Inv /\ [Next]_vars => Inv'
  BY NextType, NextChildren, NextHeld DEF Inv
<1> QED BY InitInv, <1>1, PTL DEF Spec

----------------------------------------------------------------------------
\* The parent and the children stay in their own control states, children[] in
\* its array, and the kill loop within the children that were forked.
THEOREM TypeCorrect == Spec => []TypeOK
<1>1. Inv => TypeOK
  BY DEF Inv
<1> QED BY Invariance, <1>1, PTL

\* Once the parent has left the slots, by a stop, an accept error or a failed
\* fork, every child it forked has exited and no connection is half served.
THEOREM ChildrenReaped == Spec => []NoOrphans
<1>1. Inv => NoOrphans
  <2> SUFFICES ASSUME Inv, Left
               PROVE  /\ \A i \in Children : pc[i] \in {"none", "exit"}
                      /\ \A c \in Clients : conn[c] # "open"
    BY DEF NoOrphans, Left
  <2>1. \A i \in Children : pc[i] \in {"none", "exit"}
    <3>1. TAKE i \in Children
    <3>2. i > children \/ i \in 1..children
      BY SlotsAssumption DEF Inv, TypeOK, Children
    <3> QED BY <3>2 DEF Inv, ChildrenInv
  <2>2. \A p \in Processes : pc[p] # "serve"
    BY <2>1, ProcessesAre DEF Left
  <2>3. \A c \in Clients : conn[c] # "open"
    BY <2>2, ClientAssumption DEF Inv, HeldInv
  <2> QED BY <2>1, <2>3
<1> QED BY Invariance, <1>1, PTL

\* The shared listener gives each connection to exactly one process, which
\* holds it until it has closed it.
THEOREM OneServer == Spec => []ServedByOne
<1>1. Inv => ServedByOne
  <2> SUFFICES ASSUME Inv, NEW c \in Clients
               PROVE  Cardinality({p \in Processes : fd[p] = c})
                        = IF conn[c] = "open" THEN 1 ELSE 0
    BY DEF ServedByOne
  <2> DEFINE Holders == {p \in Processes : fd[p] = c}
  <2>1. CASE conn[c] = "open"
    <3>1. PICK p \in Processes : fd[p] = c
      BY <2>1 DEF Inv, HeldInv
    <3>2. Holders = {p}
      BY <3>1, ClientAssumption DEF Inv, HeldInv
    <3> QED BY <2>1, <3>2, FS_Singleton
  <2>2. CASE conn[c] # "open"
    <3>1. Holders = {}
      BY <2>2 DEF Inv, HeldInv
    <3> QED BY <2>2, <3>1, FS_EmptySet
  <2> QED BY <2>1, <2>2
<1> QED BY Invariance, <1>1, PTL
=============================================================================
