-------------------------- MODULE RequestDispatch --------------------------
(***************************************************************************)
(* One request after the other, under fortai_dispatch_mutex:               *)
(* fortai_dispatch_request of src/server/fortai_http_server.c calls        *)
(* fortai_native_http_handle of src/server/fortai_native_http.f90 with a   *)
(* response buffer and, when the response does not fit, grows the buffer   *)
(* and calls the handler again from the start.                             *)
(*                                                                         *)
(* A response is its length.  Every length in Lengths may come out of      *)
(* every call: the same request may be answered differently when it is     *)
(* repeated (clock seeds, counters, timings).  Endpoints that only read    *)
(* are one kind of request, "info".  Real properties are in hundredths:    *)
(* 95 is the default 0.95 of top_p.                                        *)
(***************************************************************************)
EXTENDS Integers, Sequences

CONSTANTS InitialResponse,  \* FORTAI_HTTP_INITIAL_RESPONSE
          MaxResponse,      \* FORTAI_HTTP_MAX_RESPONSE
          Lengths,          \* lengths of response bodies
          Keys,             \* properties that request bodies mention
          Values,           \* values they give them
          MaxPrompts,       \* longest prompt array (FORTAI_BATCH, max_messages)
          MaxGeneration,    \* max_generation
          MaxRequests       \* bound on the number of requests handled

Properties == <<"temperature", "top_p", "min_p", "repeat_penalty", "presence_penalty",
                "frequency_penalty", "top_k", "repeat_last_n">>
Names == {Properties[i] : i \in 1..Len(Properties)}

ASSUME BufferAssumption ==
  InitialResponse \in Nat \ {0} /\ MaxResponse \in Nat /\ InitialResponse <= MaxResponse
ASSUME LengthsAssumption == Lengths \subseteq Nat
ASSUME PropertyAssumption == Keys \subseteq Names /\ Values \subseteq Int
ASSUME PromptsAssumption ==
  MaxPrompts \in Nat \ {0} /\ MaxRequests \in Nat
ASSUME GenerationAssumption == MaxGeneration \in Nat /\ MaxGeneration >= 64

VARIABLES
  phase,             \* where the dispatch is
  request,           \* kind, number of prompts, explicit properties
  capacity,          \* of the response buffer
  length,            \* response_length
  status,            \* the HTTP status of the response
  key,               \* the property server_props_update is at
  completed,         \* prompts completed in this call of the handler
  endpoint_props,    \* FORTAI_ENDPOINT_PROPS, set when the server was started
  settings,          \* the environment variables FORTAI_TEMPERATURE, ...
  request_count, generation_count,
  handled            \* requests that have reached the handler

vars == <<phase, request, capacity, length, status, key, completed, endpoint_props, settings,
          request_count, generation_count, handled>>

Bodies == UNION {[S -> Values] : S \in SUBSET Keys}
Completions == {"single", "batch"}
Requests == [kind : {"options", "denied", "info", "props"}, prompts : {0}, body : Bodies]
            \cup [kind : {"single"}, prompts : {1}, body : Bodies]
            \cup [kind : {"batch"}, prompts : 1..MaxPrompts, body : Bodies]
NoRequest == [kind |-> "info", prompts |-> 0, body |-> <<>>]

\* The values of a server started without any of the variables.
Defaults ==
  [p \in Names |->
     CASE p = "temperature"    -> 80
       [] p = "top_p"          -> 95
       [] p = "min_p"          -> 5
       [] p = "repeat_penalty" -> 100
       [] p = "top_k"          -> 40
       [] p = "repeat_last_n"  -> 64
       [] OTHER                -> 0]

\* The range server_props_update accepts for a property.
UpdateAccepts(p, v) ==
  /\ p = "temperature"       => v >= 0
  /\ p \in {"top_p", "min_p"} => v >= 0 /\ v <= 100
  /\ p = "repeat_penalty"    => v > 0
  /\ p = "top_k"             => v >= 0 /\ v <= MaxGeneration
  /\ p = "repeat_last_n"     => v >= -1 /\ v <= MaxGeneration

\* The range a completion accepts for it, explicit or by default.
CompletionAccepts(p, v) ==
  /\ p \in {"temperature", "top_k"}    => v >= 0
  /\ p \in {"top_p", "repeat_penalty"} => v > 0
  /\ p = "min_p"                       => v >= 0
  /\ p \in {"top_p", "min_p"}          => v <= 100
  /\ p = "repeat_last_n"               => v >= -1

Effective(p) == IF p \in DOMAIN request.body THEN request.body[p] ELSE settings[p]

----------------------------------------------------------------------------
Init ==
  /\ phase = "idle" /\ request = NoRequest
  /\ capacity = InitialResponse /\ length = 0 /\ status = 500
  /\ key = 1 /\ completed = 0
  /\ endpoint_props \in BOOLEAN /\ settings = Defaults
  /\ request_count = 0 /\ generation_count = 0 /\ handled = 0

\* Entry of fortai_dispatch_request: OPTIONS and requests without the key are
\* answered without the handler.  (A failed malloc() drops the request, which
\* changes nothing here.)
Arrive(r) ==
  /\ phase = "idle" /\ handled < MaxRequests
  /\ request' = r /\ capacity' = InitialResponse
  /\ \/ /\ r.kind \in {"options", "denied"}
        /\ phase' = "send" /\ length' = 0
        /\ status' = IF r.kind = "options" THEN 204 ELSE 401
        /\ UNCHANGED handled
     \/ /\ r.kind \notin {"options", "denied"}
        /\ phase' = "call" /\ handled' = handled + 1
        /\ UNCHANGED <<length, status>>
  /\ UNCHANGED <<key, completed, settings, request_count, generation_count, endpoint_props>>

\* Entry of fortai_native_http_handle, up to the endpoint's own code.
CallHandler ==
  /\ phase = "call"
  /\ request_count' = request_count + 1
  /\ length' = 0 /\ key' = 1 /\ completed' = 0
  /\ \/ /\ request.kind = "info"
        /\ status' \in {200, 400, 404, 500} /\ phase' = "copy"
     \/ /\ request.kind = "props" /\ endpoint_props
        /\ status' = 500 /\ phase' = "update"
     \/ /\ request.kind = "props" /\ ~endpoint_props
        /\ status' = 404 /\ phase' = "copy"
     \/ /\ request.kind \in Completions
        /\ status' = 500 /\ phase' = "validate"
  /\ UNCHANGED <<request, capacity, settings, generation_count, handled, endpoint_props>>

\* server_props_update: one property after the other; the ones before a
\* rejected value stay set.
UpdateBeforeTest ==   \* mutant: the value is stored and then tested
  LET p == Properties[key] IN
  /\ phase = "update" /\ key <= Len(Properties)
  /\ IF p \in DOMAIN request.body
     THEN /\ settings' = [settings EXCEPT ![p] = request.body[p]]
          /\ IF UpdateAccepts(p, request.body[p])
             THEN key' = key + 1 /\ UNCHANGED <<phase, status>>
             ELSE status' = 400 /\ phase' = "copy" /\ UNCHANGED key
     ELSE key' = key + 1 /\ UNCHANGED <<phase, status, settings>>
  /\ UNCHANGED <<request, capacity, length, completed, request_count, generation_count, handled, endpoint_props>>

UpdateProperty ==
  LET p == Properties[key] IN
  /\ phase = "update" /\ key <= Len(Properties)
  /\ \/ /\ p \notin DOMAIN request.body
        /\ key' = key + 1 /\ UNCHANGED <<phase, status, settings>>
     \/ /\ p \in DOMAIN request.body /\ UpdateAccepts(p, request.body[p])
        /\ settings' = [settings EXCEPT ![p] = request.body[p]]
        /\ key' = key + 1 /\ UNCHANGED <<phase, status>>
     \/ /\ p \in DOMAIN request.body   \* out of range, or setenv() failed
        /\ status' = 400 /\ phase' = "copy"
        /\ UNCHANGED <<key, settings>>
  /\ UNCHANGED <<request, capacity, length, completed, request_count, generation_count, handled, endpoint_props>>

UpdateDone ==
  /\ phase = "update" /\ key > Len(Properties)
  /\ status' = 200 /\ phase' = "copy"
  /\ UNCHANGED <<request, capacity, length, key, completed, settings, request_count,
                 generation_count, handled, endpoint_props>>

\* The checks of a completion request: its sampling properties, then the rest
\* of its body, which may be wrong in many other ways.
Validate ==
  /\ phase = "validate"
  /\ \/ /\ \A p \in Names : CompletionAccepts(p, Effective(p))
        /\ phase' = "generate" /\ UNCHANGED status
     \/ status' \in {400, 500} /\ phase' = "copy"
  /\ UNCHANGED <<request, capacity, length, key, completed, settings, request_count,
                 generation_count, handled, endpoint_props>>

IgnoreFailure ==   \* mutant: the result of a prompt's completion is not looked at
  /\ phase = "generate" /\ completed < request.prompts
  /\ status' = 200 /\ phase' = "copy"
  /\ UNCHANGED <<request, capacity, length, key, completed, settings, request_count,
                 generation_count, handled, endpoint_props>>

\* complete_text_sampling fails for one prompt: the whole request does.
GenerateFails ==
  /\ phase = "generate" /\ completed < request.prompts
  /\ status' = 500 /\ phase' = "copy"
  /\ UNCHANGED <<request, capacity, length, key, completed, settings, request_count,
                 generation_count, handled, endpoint_props>>

GenerateOneMore ==   \* mutant: the loop over the prompts runs once too often
  /\ phase = "generate" /\ completed <= request.prompts
  /\ completed' = completed + 1
  /\ UNCHANGED <<phase, request, capacity, length, status, key, settings, request_count,
                 generation_count, handled, endpoint_props>>

Generate ==
  /\ phase = "generate" /\ completed < request.prompts
  /\ completed' = completed + 1
  /\ UNCHANGED <<phase, request, capacity, length, status, key, settings, request_count,
                 generation_count, handled, endpoint_props>>

\* Every prompt is completed.  A single completion is counted here, a batch
\* after copy_result.
GenerateDone ==
  /\ phase = "generate" /\ completed = request.prompts
  /\ status' = 200 /\ phase' = "copy"
  /\ generation_count' = generation_count + IF request.kind = "single" THEN 1 ELSE 0
  /\ UNCHANGED <<request, capacity, length, key, completed, settings, request_count, handled, endpoint_props>>

\* copy_result: the response and its terminator fit the buffer.  (The MIME
\* types all fit content_type.)
FitsWithoutTerminator(n) == n <= capacity   \* mutant: no room for the terminator
Fits(n) == n < capacity

\* What the batch branch does after copy_result, whatever its code.
CountBatch ==
  generation_count' = generation_count +
    IF request.kind = "batch" /\ status = 200 THEN request.prompts ELSE 0

CopyResult(n) ==
  /\ phase = "copy" /\ Fits(n)
  /\ length' = n /\ phase' = "send"
  /\ CountBatch
  /\ UNCHANGED <<request, capacity, status, key, completed, settings, request_count, handled, endpoint_props>>

\* capacity = required + 1, where copy_result asked for the length and a
\* terminator.
KeepCapacity(n) == capacity' = capacity   \* mutant: the grown size is not recorded
Grow(n) == capacity' = (n + 1) + 1

\* The response does not fit: grow the buffer and call the handler again.
Retry(n) ==
  /\ phase = "copy" /\ ~Fits(n) /\ n + 1 <= MaxResponse
  /\ Grow(n)
  /\ length' = n /\ phase' = "call"
  /\ CountBatch
  /\ UNCHANGED <<request, status, key, completed, settings, request_count, handled, endpoint_props>>

\* The response is too long, or realloc() fails: the connection is closed
\* without an answer.
Drop(n) ==
  /\ phase = "copy" /\ ~Fits(n)
  /\ length' = n /\ phase' = "idle" /\ request' = NoRequest
  /\ CountBatch
  /\ UNCHANGED <<capacity, status, key, completed, settings, request_count, handled, endpoint_props>>

\* fortai_http_status; whether the client got it is not looked at.
Send ==
  /\ phase = "send"
  /\ phase' = "idle" /\ request' = NoRequest
  /\ UNCHANGED <<capacity, length, status, key, completed, settings, request_count,
                 generation_count, handled, endpoint_props>>

Next ==
  \/ \E r \in Requests : Arrive(r)
  \/ CallHandler \/ UpdateProperty \/ UpdateDone \/ Validate
  \/ Generate \/ GenerateFails \/ GenerateDone
  \/ \E n \in Lengths : CopyResult(n) \/ Retry(n) \/ Drop(n)
  \/ Send

Spec == Init /\ [][Next]_vars

----------------------------------------------------------------------------
(* Properties.                                                              *)

Phases == {"idle", "call", "update", "validate", "generate", "copy", "send"}

TypeOK ==
  /\ phase \in Phases
  /\ request \in Requests \cup {NoRequest}
  /\ capacity \in Nat /\ length \in Nat
  /\ status \in {200, 204, 400, 401, 404, 500}
  /\ key \in 1..(Len(Properties) + 1) /\ completed \in 0..MaxPrompts
  /\ endpoint_props \in BOOLEAN /\ settings \in [Names -> Int]
  /\ request_count \in Nat /\ generation_count \in Nat /\ handled \in 0..MaxRequests

\* What is sent was written into a buffer that holds it and its terminator,
\* and the buffer never grows beyond the limit plus the spare byte, however often the handler was
\* called again and however different its answers were.
BufferFits ==
  /\ phase = "send" => length < capacity
  /\ capacity <= MaxResponse + 1

\* Each repetition has a larger buffer than the one before, so fortai_dispatch_
\* request cannot call the handler for ever.
RetryGrows == [][phase = "copy" /\ phase' = "call" => capacity' > capacity]_vars

\* A completion is answered with 200 only when every prompt of the request was
\* completed in that very call of the handler, under properties it accepts.
HonestSuccess ==
  phase = "send" /\ status = 200 /\ request.kind \in Completions =>
    /\ completed = request.prompts
    /\ \A p \in Names : CompletionAccepts(p, Effective(p))

\* The defaults of later requests change only through POST /props, "read-only
\* unless --props is enabled" (README.md:272), and only to accepted values, a
\* rejected request included.
SettingsGuarded ==
  [][settings' # settings =>
       /\ request.kind = "props" /\ endpoint_props
       /\ \A p \in Names : UpdateAccepts(p, settings'[p])]_vars
=============================================================================
