----------------------- MODULE RequestDispatchProofs -----------------------
(***************************************************************************)
(* For buffers, response lengths, properties and prompt arrays of any      *)
(* size: what fortai_dispatch_request sends fits its buffer, every repeated *)
(* call of the handler has a larger one, a completion is answered with 200 *)
(* only when all of it was done, and the defaults change only through an   *)
(* enabled POST /props.  The variables keep their types.                   *)
(***************************************************************************)
EXTENDS RequestDispatch, TLAPS

\* The buffer starts at InitialResponse and only grows while a request lasts.
BufferInv == InitialResponse <= capacity /\ BufferFits

\* Which requests reach which part of the handler, and what is known there.
HandlerInv ==
  /\ phase = "update" => request.kind = "props" /\ endpoint_props
  /\ phase \in {"validate", "generate"} => request.kind \in Completions
  /\ phase = "generate" => \A p \in Names : CompletionAccepts(p, Effective(p))
  /\ phase = "copy" /\ status = 200 /\ request.kind \in Completions =>
       /\ completed = request.prompts
       /\ \A p \in Names : CompletionAccepts(p, Effective(p))
  /\ HonestSuccess

\* Every property that has been stored was accepted.
SettingsInv == \A p \in Names : UpdateAccepts(p, settings[p])

Inv == TypeOK /\ BufferInv /\ HandlerInv /\ SettingsInv

----------------------------------------------------------------------------
\* Every property server_props_update looks at has a name.
LEMMA KeyInNames ==
  ASSUME NEW i \in Nat \ {0}, i <= Len(Properties)
  PROVE  Properties[i] \in Names
  BY DEF Names, Properties

\* The values a request gives its properties are numbers.
LEMMA BodyValues ==
  /\ \A r \in Requests : \A p \in DOMAIN r.body : r.body[p] \in Int
  /\ \A p \in DOMAIN NoRequest.body : NoRequest.body[p] \in Int
<1>1. ASSUME NEW r \in Requests, NEW p \in DOMAIN r.body PROVE r.body[p] \in Int
  <2>1. r.body \in Bodies
    BY DEF Requests
  <2>2. PICK S \in SUBSET Keys : r.body \in [S -> Values]
    BY <2>1 DEF Bodies
  <2> QED BY <2>2, PropertyAssumption
<1>2. ASSUME NEW p \in DOMAIN NoRequest.body PROVE NoRequest.body[p] \in Int
  BY DEF NoRequest
<1> QED BY <1>1, <1>2

\* The prompts of a request are at most MaxPrompts, and its properties numbers.
LEMMA RequestBounds ==
  ASSUME NEW r \in Requests \cup {NoRequest}
  PROVE  /\ r.prompts \in 0..MaxPrompts
         /\ \A p \in DOMAIN r.body : r.body[p] \in Int
<1>1. r.prompts \in 0..MaxPrompts
  BY PromptsAssumption DEF Requests, NoRequest
<1> QED BY <1>1, BodyValues

\* A server started without any of the variables has accepted values.
LEMMA DefaultsAccepted ==
  /\ Defaults \in [Names -> Int]
  /\ \A p \in Names : UpdateAccepts(p, Defaults[p])
<1>1. Defaults \in [Names -> Int]
  BY DEF Defaults
<1>2. ASSUME NEW p \in Names PROVE UpdateAccepts(p, Defaults[p])
  BY GenerationAssumption DEF Defaults, UpdateAccepts
<1> QED BY <1>1, <1>2

\* The initial state of the transport satisfies the invariant.
LEMMA InitInv == Init => Inv
<1> SUFFICES ASSUME Init PROVE Inv
  OBVIOUS
<1>1. TypeOK
  BY BufferAssumption, PromptsAssumption, DefaultsAccepted DEF Init, TypeOK, Phases, Properties
<1>2. BufferInv
  BY BufferAssumption DEF Init, BufferInv, BufferFits
<1>3. HandlerInv
  BY DEF Init, HandlerInv, HonestSuccess
<1>4. SettingsInv
  BY DefaultsAccepted DEF Init, SettingsInv
<1> QED BY <1>1, <1>2, <1>3, <1>4 DEF Inv

\* Each step keeps the shape of the state.
LEMMA NextType == Inv /\ [Next]_vars => TypeOK'
<1> SUFFICES ASSUME Inv, [Next]_vars PROVE TypeOK'
  OBVIOUS
<1> USE BufferAssumption, LengthsAssumption, PromptsAssumption DEF Inv, TypeOK, Phases
<1>0. Len(Properties) = 8
  BY DEF Properties
<1>1. ASSUME NEW r \in Requests, Arrive(r) PROVE TypeOK'
  BY <1>1 DEF Arrive
<1>2. CASE CallHandler
  BY <1>0, <1>2 DEF CallHandler
<1>3. CASE UpdateProperty
  <2> DEFINE p == Properties[key]
  <2>1. CASE p \in DOMAIN request.body /\ settings' = [settings EXCEPT ![p] = request.body[p]]
    <3>1. request.body[p] \in Int
      BY <2>1, RequestBounds
    <3>2. settings' \in [Names -> Int]
      BY <2>1, <3>1
    <3> QED BY <1>0, <1>3, <3>2 DEF UpdateProperty
  <2>2. CASE settings' = settings
    BY <1>0, <1>3, <2>2 DEF UpdateProperty
  <2> QED BY <1>3, <2>1, <2>2 DEF UpdateProperty
<1>4. CASE UpdateDone \/ Validate \/ GenerateFails \/ Send
  BY <1>4 DEF UpdateDone, Validate, GenerateFails, Send
<1>5. CASE Generate \/ GenerateDone
  <2>1. request.prompts \in 0..MaxPrompts
    BY RequestBounds
  <2>2. completed' \in 0..MaxPrompts /\ generation_count' \in Nat
    <3>1. CASE Generate
      BY <2>1, <3>1 DEF Generate
    <3>2. CASE GenerateDone
      BY <3>2 DEF GenerateDone
    <3> QED BY <1>5, <3>1, <3>2
  <2> QED BY <1>5, <2>2 DEF Generate, GenerateDone
<1>6. ASSUME NEW n \in Lengths, CopyResult(n) \/ Retry(n) \/ Drop(n) PROVE TypeOK'
  <2>1. request.prompts \in 0..MaxPrompts
    BY RequestBounds
  <2>2. generation_count' \in Nat
    BY <1>6, <2>1 DEF CopyResult, Retry, Drop, CountBatch
  <2>3. CASE CopyResult(n)
    BY <2>2, <2>3 DEF CopyResult
  <2>4. CASE Retry(n)
    BY <2>2, <2>4 DEF Retry, Grow
  <2>5. CASE Drop(n)
    BY <2>2, <2>5 DEF Drop
  <2> QED BY <1>6, <2>3, <2>4, <2>5
<1>7. CASE UNCHANGED vars
  BY <1>7 DEF vars
<1> QED BY <1>1, <1>2, <1>3, <1>4, <1>5, <1>6, <1>7 DEF Next

\* A response is sent only from a buffer that holds it, and a buffer is never
\* made smaller within a request.
LEMMA NextBuffer == Inv /\ [Next]_vars => BufferInv'
<1> SUFFICES ASSUME Inv, [Next]_vars PROVE BufferInv'
  OBVIOUS
<1> USE BufferAssumption, LengthsAssumption DEF Inv, TypeOK, BufferInv, BufferFits
<1>1. ASSUME NEW r \in Requests, Arrive(r) PROVE BufferInv'
  BY <1>1 DEF Arrive
<1>2. CASE CallHandler \/ UpdateProperty \/ UpdateDone \/ Validate \/ Send
  BY <1>2 DEF CallHandler, UpdateProperty, UpdateDone, Validate, Send
<1>3. CASE Generate \/ GenerateFails \/ GenerateDone
  BY <1>3 DEF Generate, GenerateFails, GenerateDone
<1>4. ASSUME NEW n \in Lengths, CopyResult(n) \/ Retry(n) \/ Drop(n) PROVE BufferInv'
  BY <1>4 DEF CopyResult, Retry, Drop, Grow, Fits
<1>5. CASE UNCHANGED vars
  BY <1>5 DEF vars
<1> QED BY <1>1, <1>2, <1>3, <1>4, <1>5 DEF Next

\* A step that leaves the request and the defaults alone leaves the effective
\* properties alone.
LEMMA SameEffective ==
  ASSUME UNCHANGED <<request, settings>>
  PROVE  \A p \in Names : Effective(p)' = Effective(p)
  BY DEF Effective

\* What is known of a completion at each place of the handler stays true.
LEMMA NextHandler == Inv /\ [Next]_vars => HandlerInv'
<1> SUFFICES ASSUME Inv, [Next]_vars PROVE HandlerInv'
  OBVIOUS
<1> USE DEF Inv, HandlerInv, HonestSuccess, Completions
<1>1. ASSUME NEW r \in Requests, Arrive(r) PROVE HandlerInv'
  BY <1>1 DEF Arrive
<1>2. CASE CallHandler
  BY <1>2 DEF CallHandler
<1>3. CASE UpdateProperty
  BY <1>3 DEF UpdateProperty
<1>4. CASE UpdateDone
  BY <1>4 DEF UpdateDone
<1>5. CASE Validate
  BY <1>5, SameEffective DEF Validate
<1>6. CASE Generate
  BY <1>6, SameEffective DEF Generate
<1>7. CASE GenerateFails
  BY <1>7 DEF GenerateFails
<1>8. CASE GenerateDone
  BY <1>8, SameEffective DEF GenerateDone
<1>9. ASSUME NEW n \in Lengths, CopyResult(n) PROVE HandlerInv'
  BY <1>9, SameEffective DEF CopyResult
<1>10. ASSUME NEW n \in Lengths, Retry(n) \/ Drop(n) PROVE HandlerInv'
  BY <1>10 DEF Retry, Drop
<1>11. CASE Send
  BY <1>11 DEF Send
<1>12. CASE UNCHANGED vars
  BY <1>12, SameEffective DEF vars
<1> QED BY <1>1, <1>2, <1>3, <1>4, <1>5, <1>6, <1>7, <1>8, <1>9, <1>10, <1>11, <1>12 DEF Next

\* Only server_props_update stores a property, and only after the test.
LEMMA SettingsStep ==
  ASSUME Inv, [Next]_vars
  PROVE  /\ SettingsInv'
         /\ settings' # settings => phase = "update"
<1> USE DEF Inv, SettingsInv
<1>1. CASE UpdateProperty
  BY <1>1, KeyInNames DEF UpdateProperty, TypeOK
<1>2. CASE settings' = settings
  BY <1>2
<1>3. UpdateProperty \/ settings' = settings
  BY DEF Next, Arrive, CallHandler, UpdateDone, Validate, Generate, GenerateFails, GenerateDone,
         CopyResult, Retry, Drop, Send, vars
<1> QED BY <1>1, <1>2, <1>3 DEF UpdateProperty

\* The invariant is inductive.
LEMMA Invariance == Spec => []Inv
<1>1. Inv /\ [Next]_vars => Inv'
  BY NextType, NextBuffer, NextHandler, SettingsStep DEF Inv
<1> QED BY InitInv, <1>1, PTL DEF Spec

----------------------------------------------------------------------------
\* The counters, the property index, the status and the defaults keep their
\* ranges: in particular no more prompts are completed than a request may have.
THEOREM TypeCorrect == Spec => []TypeOK
<1>1. Inv => TypeOK
  BY DEF Inv
<1> QED BY Invariance, <1>1, PTL

\* Whatever the handler answers in its repeated calls, what fortai_dispatch_
\* request sends lies within its buffer, and the buffer within its limit.
THEOREM ResponseFits == Spec => []BufferFits
<1>1. Inv => BufferFits
  BY DEF Inv, BufferInv
<1> QED BY Invariance, <1>1, PTL

\* A completion answered with 200 was done completely in the answering call,
\* under properties that were accepted.
THEOREM SuccessIsHonest == Spec => []HonestSuccess
<1>1. Inv => HonestSuccess
  BY DEF Inv, HandlerInv
<1> QED BY Invariance, <1>1, PTL

\* The handler is called again only with a larger buffer: the loop of
\* fortai_dispatch_request ends after at most MaxResponse calls.
THEOREM RetriesGrow == Spec => RetryGrows
<1>1. Inv /\ [Next]_vars => [phase = "copy" /\ phase' = "call" => capacity' > capacity]_vars
  <2> SUFFICES ASSUME Inv, Next, phase = "copy", phase' = "call" PROVE capacity' > capacity
    BY DEF vars
  <2>1. PICK n \in Lengths : Retry(n)
    BY DEF Next, Arrive, CallHandler, UpdateProperty, UpdateDone, Validate, Generate, GenerateFails,
           GenerateDone, CopyResult, Drop, Send
  <2> QED BY <2>1, LengthsAssumption DEF Retry, Grow, Fits, Inv, TypeOK
<1> QED BY Invariance, <1>1, PTL DEF Spec, RetryGrows

\* The defaults of later requests change only through an enabled POST /props,
\* and only to accepted values, even when that request is rejected in the end.
THEOREM SettingsAreGuarded == Spec => SettingsGuarded
<1>1. Inv /\ [Next]_vars =>
        [settings' # settings =>
           /\ request.kind = "props" /\ endpoint_props
           /\ \A p \in Names : UpdateAccepts(p, settings'[p])]_vars
  BY SettingsStep DEF Inv, HandlerInv, SettingsInv
<1> QED BY Invariance, <1>1, PTL DEF Spec, SettingsGuarded
=============================================================================
