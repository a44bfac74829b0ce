--------------------------- MODULE NativeService ---------------------------
(***************************************************************************)
(* The completion service of src/server/fortai_native_service.f90: one     *)
(* resident model, one prefix cache, one request at a time (the transport  *)
(* serializes the calls).  A request whose prompt extends the cached token *)
(* sequence continues from the resident model state; any other one resets  *)
(* it.  Generation runs one token at a time, or in speculative rounds of   *)
(* up to three tokens when the model has a native MTP head.                *)
(*                                                                         *)
(* The numeric state of the model is abstracted to `resident', the tokens  *)
(* its KV cache and recurrent state have consumed, and logits to the       *)
(* sequence they were computed after.  Greedy choice is the constant       *)
(* Argmax; a sampled or penalized choice is any token, and so is every     *)
(* choice of a model whose state a failure has damaged.                    *)
(***************************************************************************)
EXTENDS Integers, Sequences, FiniteSets

CONSTANTS Tokens, StopTokens, MaxContext, Prompts, Budgets, Modes, Argmax(_),
          MtpActive,      \* service_model%mtp_active
          ExternalDraft,  \* service_external_draft_active
          BatchCapacity,  \* service_model%cuda_batch_capacity
          OnDevice,       \* service_model%cuda_enabled
          Faults          \* calls into the model may fail

NoToken   == -1
NoLogits  == <<NoToken>>   \* never a sequence of tokens
NoRequest == [prompt |-> <<>>, max |-> 0, mode |-> "greedy"]

ASSUME TokensAssumption ==
  /\ Tokens \subseteq Nat /\ Tokens # {}
  /\ StopTokens \subseteq Tokens
ASSUME RequestAssumption ==
  /\ MaxContext \in Nat
  /\ Prompts \subseteq Seq(Tokens)
  /\ Budgets \subseteq Nat
  /\ Modes \subseteq {"greedy", "penalty", "sample", "topk"}
ASSUME ModelAssumption ==
  /\ \A n \in 1..MaxContext : \A s \in [1..n -> Tokens] : Argmax(s) \in Tokens
  /\ MtpActive \in BOOLEAN /\ ExternalDraft \in BOOLEAN
  /\ OnDevice \in BOOLEAN /\ Faults \in BOOLEAN
  /\ BatchCapacity \in Nat

VARIABLES
  resident,           \* the target model: tokens consumed since its last reset
  damage,             \* its state holds something else as well: see Damages
  draft,              \* the external draft model: consumed tokens
  service_cache_valid, service_cache_tokens,
  service_cache_next_token, service_cache_logits,
  phase,              \* where the request is
  request,            \* prompt, max, mode
  cache_hit, cache_count,
  state_tokens,       \* state_tokens(:max(state_count, prompt size))
  state_count, current,
  logits,             \* what the local logits hold; NoLogits when unset
  result_logits,      \* cache_result_logits_valid
  use_native_mtp,
  generated,          \* generated_ids(:generated_count)
  outcome             \* of the last call: "none", "ok" or "error"

modelVars == <<resident, damage, draft>>
cacheVars == <<service_cache_valid, service_cache_tokens,
               service_cache_next_token, service_cache_logits>>
localVars == <<cache_hit, cache_count, state_tokens, state_count, current,
               logits, result_logits, use_native_mtp>>
vars == <<modelVars, cacheVars, phase, request, localVars, generated, outcome>>

\* "call": a call failed midway and the model has not been reset since;
\* "reset": device state survived the last reset, which failed.
Damages == {"none", "call", "reset"}
Whole == damage = "none"

----------------------------------------------------------------------------
(* Request options.                                                         *)

Sampled(mode)    == mode \in {"sample", "topk"}       \* temperature > 0
NeedsLogits(mode) == mode # "greedy"                  \* needs_logits
\* `topk' stands for a sampled request with top_k in 1..32 and no penalties.
UseDeviceTopk == MtpActive /\ request.mode = "topk"
UseExternalDraft == ExternalDraft /\ request.mode = "greedy"

PromptSize == Len(request.prompt)

\* The token chosen after the tokens `seq' under the request's options.
Choices(mode, seq) == IF mode = "greedy" /\ Whole THEN {Argmax(seq)} ELSE Tokens

PrefixButLast(s, t) ==   \* mutant: the last token is not compared
  Len(s) <= Len(t) /\ \A i \in 1..(Len(s) - 1) : s[i] = t[i]
IsPrefixOf(s, t) == Len(s) <= Len(t) /\ \A i \in 1..Len(s) : s[i] = t[i]

\* The size of the next prompt microbatch: whole tiles of 32, or at most 8.
BatchCount(remaining) ==
  LET m == IF BatchCapacity < remaining THEN BatchCapacity ELSE remaining
      t == IF m > 32 /\ m % 32 # 0 THEN 32 * (m \div 32) ELSE m
  IN IF t > 8 /\ t < 32 THEN 8 ELSE t

----------------------------------------------------------------------------
\* fortai_native_service_init has succeeded and no request has been served.
Init ==
  /\ resident = <<>> /\ damage = "none" /\ draft = <<>>
  /\ service_cache_valid = FALSE /\ service_cache_tokens = <<>>
  /\ service_cache_next_token = NoToken /\ service_cache_logits = NoLogits
  /\ phase = "idle" /\ request = NoRequest /\ outcome = "none"
  /\ cache_hit = FALSE /\ cache_count = 0
  /\ state_tokens = <<>> /\ state_count = 0 /\ current = NoToken
  /\ logits = NoLogits /\ result_logits = FALSE /\ use_native_mtp = FALSE
  /\ generated = <<>>

\* complete_text_sampling returns: its arguments and locals are gone.
Return ==
  /\ phase' = "idle" /\ request' = NoRequest /\ generated' = <<>>
  /\ cache_hit' = FALSE /\ cache_count' = 0
  /\ state_tokens' = <<>> /\ state_count' = 0 /\ current' = NoToken
  /\ logits' = NoLogits /\ result_logits' = FALSE /\ use_native_mtp' = FALSE

\* The request's prompt reuses the cached state.
Hit(r) ==
  /\ service_cache_valid /\ service_cache_tokens # <<>>
  /\ IsPrefixOf(service_cache_tokens, r.prompt)
  /\ ~ExternalDraft
  /\ NeedsLogits(r.mode) /\ Len(r.prompt) = Len(service_cache_tokens)
       => service_cache_logits # NoLogits

\* The first token after a prompt that is cached in full.
ExactHitNextToken(r) == {service_cache_next_token}   \* mutant: whatever the last request chose
ExactHitToken(r) ==
  IF service_cache_logits # NoLogits THEN Choices(r.mode, service_cache_logits)
                                     ELSE {service_cache_next_token}

\* service_model%reset().  The device's states are reset by calls that may
\* fail; qwen35_cpu_reset collects that in reset_failed, writes a message and
\* returns nothing to its caller, who goes on in either case.
SkipReset == UNCHANGED <<resident, damage>>   \* mutant: a miss keeps the model's state
Reset ==
  /\ resident' = <<>>
  /\ \/ damage' = "none"
     \/ Faults /\ OnDevice /\ damage' = "reset"

\* Entry of complete_text_sampling, up to the prompt.  Requests that fail its
\* early checks (no budget, an empty prompt, a prompt that fills the context)
\* return before they touch any state.
Begin(r) ==
  /\ phase = "idle"
  /\ r.max > 0 /\ Len(r.prompt) > 0 /\ Len(r.prompt) < MaxContext
  /\ request' = r /\ generated' = <<>> /\ outcome' = "none"
  /\ cache_hit' = Hit(r) /\ cache_count' = Len(service_cache_tokens)
  /\ service_cache_valid' = FALSE
  /\ state_tokens' = r.prompt /\ result_logits' = FALSE
  /\ use_native_mtp' = MtpActive
  /\ draft' = IF ExternalDraft /\ r.mode = "greedy" THEN <<>> ELSE draft
  /\ IF Hit(r)
     THEN /\ state_count' = Len(service_cache_tokens)
          /\ UNCHANGED <<resident, damage>>
     ELSE state_count' = 0 /\ Reset
  /\ IF Hit(r) /\ Len(r.prompt) = Len(service_cache_tokens)
     THEN /\ current' \in ExactHitToken(r)
          /\ logits' = IF NeedsLogits(r.mode) THEN service_cache_logits ELSE NoLogits
     ELSE current' = NoToken /\ logits' = NoLogits
  /\ phase' = "prompt"
  /\ UNCHANGED <<service_cache_tokens, service_cache_next_token, service_cache_logits>>

\* A call into the target model consumes `s' at position Len(resident); the
\* position the service passes must be where the model is.
Consume(s) == resident' = resident \o s

\* The tokens the service has chosen with the last row's logits.
ChooseNext(seq) ==
  /\ current' \in Choices(request.mode, seq)
  /\ logits' = IF NeedsLogits(request.mode) THEN seq ELSE NoLogits

\* A call failed: the cache stays invalid and the request ends with -1.
Fail ==
  /\ Faults
  /\ Return /\ outcome' = "error"
  /\ service_cache_valid' = FALSE
  /\ UNCHANGED <<service_cache_tokens, service_cache_next_token,
                 service_cache_logits, draft>>

----------------------------------------------------------------------------
(* The prompt.                                                              *)

PromptLeft == PromptSize - state_count

BatchesPrompt == ~UseExternalDraft /\ BatchCapacity > 1

\* One microbatch.  The layout's batch_supported() is asked for every chunk;
\* a refusal leaves the rest of the prompt to the scalar loop.
PromptBatch ==
  /\ phase = "prompt" /\ PromptLeft > 0 /\ BatchesPrompt
  /\ LET s == SubSeq(request.prompt, state_count + 1, state_count + BatchCount(PromptLeft))
     IN /\ Consume(s)
        /\ state_count' = state_count + Len(s)
        /\ IF state_count' = PromptSize THEN ChooseNext(resident')
                                        ELSE UNCHANGED <<current, logits>>
  /\ UNCHANGED <<damage, draft, cacheVars, phase, request, cache_hit, cache_count,
                 state_tokens, result_logits, use_native_mtp, generated, outcome>>

\* A failed batch resets the model before it returns.
PromptBatchFails ==
  /\ phase = "prompt" /\ PromptLeft > 0 /\ BatchesPrompt
  /\ Fail /\ Reset

\* Tokens of the prompt one at a time; an external draft follows.
PromptScalar ==
  /\ phase \in {"prompt", "scalarPrompt"} /\ PromptLeft > 0
  /\ phase' = "scalarPrompt"
  /\ LET t == request.prompt[state_count + 1]
     IN /\ Consume(<<t>>)
        /\ state_count' = state_count + 1
        /\ IF state_count' = PromptSize THEN ChooseNext(resident')
                                        ELSE UNCHANGED <<current, logits>>
        /\ draft' = IF UseExternalDraft THEN Append(draft, t) ELSE draft
  /\ UNCHANGED <<damage, cacheVars, request, cache_hit, cache_count,
                 state_tokens, result_logits, use_native_mtp, generated, outcome>>

PromptScalarFails ==
  /\ phase \in {"prompt", "scalarPrompt"} /\ PromptLeft > 0
  /\ Fail
  /\ UNCHANGED resident /\ damage' = "call"

PromptDone ==
  /\ phase \in {"prompt", "scalarPrompt"} /\ PromptLeft = 0
  /\ phase' = "loop"
  /\ result_logits' = (NeedsLogits(request.mode) /\ logits # NoLogits)
  /\ UNCHANGED <<modelVars, cacheVars, request, cache_hit, cache_count, state_tokens,
                 state_count, current, logits, use_native_mtp, generated, outcome>>

----------------------------------------------------------------------------
(* The generation loop.                                                     *)

LoopEndsSpinning ==   \* mutant: at the end of the context the loop goes round without a token
  /\ phase = "loop"
  /\ \/ Len(generated) >= request.max \/ current = NoToken \/ current \in StopTokens
     \/ PromptSize + Len(generated) >= MaxContext
  /\ phase' = IF PromptSize + Len(generated) >= MaxContext THEN "loop" ELSE "save"
  /\ UNCHANGED <<modelVars, cacheVars, request, localVars, generated, outcome>>

\* The loop's condition and its stop-token exit.
LoopEnds ==
  /\ phase = "loop"
  /\ \/ Len(generated) >= request.max
     \/ PromptSize + Len(generated) >= MaxContext
     \/ current = NoToken
     \/ current \in StopTokens
  /\ phase' = "save"
  /\ UNCHANGED <<modelVars, cacheVars, request, localVars, generated, outcome>>

\* The loop's head: emit CURRENT.
Emit ==
  /\ phase = "loop"
  /\ Len(generated) < request.max /\ PromptSize + Len(generated) < MaxContext
  /\ current # NoToken /\ current \notin StopTokens
  /\ generated' = Append(generated, current)
  /\ phase' = IF Len(generated') = request.max THEN "save" ELSE "forward"
  /\ UNCHANGED <<modelVars, cacheVars, request, localVars, outcome>>

\* The position the service passes to the model.
Position == PromptSize + Len(generated) - 1

\* A round is tried only while two more tokens are wanted.
AttemptSpeculativeEarly ==   \* mutant: one remaining token is thought enough
  phase = "forward" /\ use_native_mtp /\ request.max - Len(generated) >= 1
AttemptSpeculative ==
  phase = "forward" /\ use_native_mtp /\ request.max - Len(generated) >= 2

\* The tokens the model has consumed in a round that returned s, which go to
\* state_tokens: CURRENT and all of s but the last.
RoundTokensUnshifted(s) == s   \* mutant: the returned tokens are stored
RoundTokens(s) == <<current>> \o SubSeq(s, 1, Len(s) - 1)

\* Where a stop token ends the emission of a round's tokens.
StopsIn(s) == {j \in 1..(Len(s) - 1) : s[j] \in StopTokens}

\* How many tokens of a round are emitted at once; the last is left to the loop.
TakenWithLast(s) == Len(s)   \* mutant: the last is emitted twice
Taken(s) ==
  IF StopsIn(s) = {} THEN Len(s) - 1
  ELSE (CHOOSE j \in StopsIn(s) : \A i \in StopsIn(s) : j <= i) - 1

\* The bookkeeping after a speculative round that returned the tokens s: a
\* stop token leaves the loop without a new CURRENT, else the last becomes it.
AfterSpeculation(s) ==
  /\ state_tokens' = state_tokens \o RoundTokens(s)
  /\ state_count' = state_count + Len(s)
  /\ generated' = generated \o SubSeq(s, 1, Taken(s))
  /\ IF StopsIn(s) = {} THEN current' = s[Len(s)] /\ phase' = "loop"
                        ELSE UNCHANGED current /\ phase' = "save"

GreedyTokensOneRow(context, k) ==   \* mutant: the second row reads the first one's logits
  SubSeq(<<Argmax(context), Argmax(context), Argmax(context)>>, 1, k)

\* The greedy continuation by k tokens (k is at most 3).
GreedyTokens(context, k) ==
  LET s1 == Argmax(context)
      s2 == Argmax(Append(context, s1))
      s3 == Argmax(context \o <<s1, s2>>)
  IN SubSeq(<<s1, s2, s3>>, 1, k)

\* What a greedy round of k tokens can return.
RoundChoices(k) ==
  IF Whole THEN {GreedyTokens(Append(resident, current), k)} ELSE [1..k -> Tokens]

\* forward_greedy_speculative: one to three tokens, as many as the context
\* leaves room for and the drafts were right about.
SpeculateGreedy(k) ==
  /\ AttemptSpeculative /\ ~NeedsLogits(request.mode)
  /\ Position + k <= MaxContext
  /\ \E s \in RoundChoices(k) :
       /\ Consume(<<current>> \o SubSeq(s, 1, k - 1))
       /\ AfterSpeculation(s)
  /\ UNCHANGED <<damage, cacheVars, request, cache_hit, cache_count, logits,
                 result_logits, use_native_mtp, outcome>>
  /\ draft' = IF UseExternalDraft /\ phase' = "loop" THEN Append(draft, current') ELSE draft

\* prepare_sampled_speculative, the verification rows and
\* accept_sampled_speculative: the first `accepted' drafts are kept and one
\* more token is sampled from the row after them.
SpeculateSampled(accepted) ==
  /\ AttemptSpeculative /\ NeedsLogits(request.mode)
  /\ Position + 2 < MaxContext
  /\ \E s \in [1..(accepted + 1) -> Tokens] :
       /\ Consume(<<current>> \o SubSeq(s, 1, accepted))
       /\ AfterSpeculation(s)
  /\ logits' = IF UseDeviceTopk THEN logits ELSE resident'
  /\ result_logits' = ~UseDeviceTopk
  /\ UNCHANGED <<damage, draft, cacheVars, request, cache_hit, cache_count, use_native_mtp, outcome>>

\* FORTAI_UNSUPPORTED before the target model is touched: the request goes on
\* without speculation.  (The one late report, a missing output projection in
\* forward_batch_verify, cannot get here: the prompt's last row needed it.)
RetireMtp ==
  /\ AttemptSpeculative
  /\ use_native_mtp' = FALSE
  /\ UNCHANGED <<modelVars, cacheVars, phase, request, cache_hit, cache_count,
                 state_tokens, state_count, current, logits, result_logits, generated, outcome>>

\* state_tokens(state_count + 1) = current
DropCurrent == state_tokens   \* mutant: the store is forgotten
StoreCurrent == Append(state_tokens, current)

\* One token.  The sampled branch is the one of the three that does not store
\* CURRENT in state_tokens: the element keeps whatever the allocation holds.
ForwardScalar ==
  /\ phase = "forward" /\ ~AttemptSpeculative
  /\ Consume(<<current>>)
  /\ IF Sampled(request.mode)
     THEN /\ \E garbage \in Tokens : state_tokens' = Append(state_tokens, garbage)
          /\ result_logits' = TRUE
     ELSE /\ state_tokens' = StoreCurrent
          /\ UNCHANGED result_logits
  /\ state_count' = state_count + 1
  /\ ChooseNext(resident')
  /\ draft' = IF UseExternalDraft THEN Append(draft, current') ELSE draft
  /\ phase' = "loop"
  /\ UNCHANGED <<damage, cacheVars, request, cache_hit, cache_count, use_native_mtp, generated, outcome>>

\* A target or draft call fails during generation.
ForwardFails ==
  /\ phase = "forward"
  /\ Fail
  /\ UNCHANGED resident /\ damage' = "call"

----------------------------------------------------------------------------
\* preserve_old_logits: nothing was consumed since the cached logits.
PreserveOnHit == cache_hit   \* mutant: any hit keeps them
PreserveOldLogits == cache_hit /\ state_count = cache_count

\* The end of the function: the cache takes over the request's state.
SaveCache ==
  /\ phase = "save"
  /\ service_cache_tokens' = SubSeq(state_tokens, 1, state_count)
  /\ service_cache_next_token' = current
  /\ service_cache_logits' =
       IF NeedsLogits(request.mode) /\ logits # NoLogits /\ result_logits THEN logits
       ELSE IF PreserveOldLogits THEN service_cache_logits
       ELSE NoLogits
  /\ service_cache_valid' = (state_count > 0)
  /\ Return /\ outcome' = "ok"
  /\ UNCHANGED modelVars

Requests == [prompt : Prompts, max : Budgets, mode : Modes]

Next ==
  \/ \E r \in Requests : Begin(r)
  \/ PromptBatch \/ PromptBatchFails \/ PromptScalar \/ PromptScalarFails \/ PromptDone
  \/ LoopEnds \/ Emit
  \/ (\E k \in 1..3 : SpeculateGreedy(k)) \/ (\E n \in 0..2 : SpeculateSampled(n))
  \/ RetireMtp \/ ForwardScalar \/ ForwardFails
  \/ SaveCache

\* The code between two requests always runs on: a request that has begun ends.
Spec == Init /\ [][Next]_vars
FairSpec == Spec /\ WF_vars(Next)

----------------------------------------------------------------------------
(* Properties.                                                              *)

TokenSeq == Seq(Tokens)
Phases == {"idle", "prompt", "scalarPrompt", "loop", "forward", "save"}

TypeOK ==
  /\ resident \in TokenSeq /\ draft \in TokenSeq /\ damage \in Damages
  /\ service_cache_valid \in BOOLEAN /\ service_cache_tokens \in TokenSeq
  /\ service_cache_next_token \in Tokens \cup {NoToken}
  /\ service_cache_logits \in TokenSeq \cup {NoLogits}
  /\ phase \in Phases
  /\ request.prompt \in TokenSeq /\ request.max \in Nat
  /\ cache_hit \in BOOLEAN /\ cache_count \in Nat
  /\ state_tokens \in TokenSeq /\ state_count \in 0..Len(state_tokens)
  /\ current \in Tokens \cup {NoToken}
  /\ logits \in TokenSeq \cup {NoLogits} /\ result_logits \in BOOLEAN
  /\ use_native_mtp \in BOOLEAN
  /\ generated \in TokenSeq /\ outcome \in {"none", "ok", "error"}

\* The comment at fortai_native_service.f90:20: "The cache keeps the exact
\* token prefix represented by the resident model state."  A valid cache entry
\* names the tokens the model has consumed, and cached logits belong to them;
\* after a reset that failed, the state holds something else as well.
CacheExact ==
  service_cache_valid /\ Whole =>
    /\ service_cache_tokens = resident
    /\ service_cache_logits # NoLogits => service_cache_logits = resident

\* No false hit after a failure: a state that a failed call left half changed
\* is neither offered for reuse nor run on before a reset has been tried.  The
\* reset may fail in its turn; that is only logged, and the request and the
\* cache go on with what is left ("reset", not "call").
NoBrokenReuse == service_cache_valid \/ phase # "idle" => damage # "call"

\* Speculation and the scalar path keep the model in step with the request:
\* when a token is chosen the model has consumed the prompt and everything
\* emitted so far, and when CURRENT is passed to the model, at Position, all
\* but that token.  (A damaged state has consumed the same tokens.)
ModelInStep ==
  /\ phase = "loop" => resident = request.prompt \o generated
  /\ phase = "forward" =>
       /\ Len(resident) = Position
       /\ Append(resident, current) = request.prompt \o generated

\* No array of the request is overrun, although a speculative round adds up to
\* three tokens between two checks of the budget: generated_ids holds max
\* tokens, state_tokens the prompt and max tokens, the context MaxContext.
BudgetRespected ==
  /\ phase # "idle" => /\ Len(generated) <= request.max
                       /\ Len(state_tokens) <= PromptSize + request.max
                       /\ PromptSize + Len(generated) <= MaxContext
  /\ state_count <= MaxContext

\* Tokens first..n of a greedy answer are the model's greedy continuation, if
\* the model's state is not damaged.
GreedyFrom(first) ==
  phase # "idle" /\ request.mode = "greedy" /\ Whole =>
    \A i \in first..Len(generated) :
      generated[i] = Argmax(request.prompt \o SubSeq(generated, 1, i - 1))

\* Speculation never changes what greedy decoding emits after its first token,
\* whatever the drafts are and wherever rounds, retirement or stops fall.
GreedySuffixExact == GreedyFrom(2)

\* The README's claim about native MTP, README.md: greedy target output stays
\* exact, the first token included.
GreedyExact == GreedyFrom(1)

\* The comment at fortai_native_service.f90:666: "Keep the standalone draft
\* state synchronized with the target."
DraftSynchronized == phase = "loop" /\ UseExternalDraft => draft = resident

\* Caching is invisible: every answer is one that a service without any cache
\* or state could have given, as long as the resets of the device succeed.
Abs == INSTANCE StatelessCompletion
         WITH running <- phase # "idle", exact <- Whole, ResetMayFail <- Faults /\ OnDevice
Stateless == Abs!AbsSpec

\* Every request that has begun returns.
RequestEnds == phase # "idle" ~> phase = "idle"
=============================================================================
