------------------------ MODULE NativeServiceProofs ------------------------
(***************************************************************************)
(* For any tokens, prompts, budgets and context: the lengths and the cache *)
(* flags of complete_text_sampling are right under every option; without   *)
(* the scalar sampled branch, which does not store its tokens, the cache   *)
(* names exactly what the model has consumed; and without MTP a completion *)
(* is one that a service with no cache could have given.                   *)
(***************************************************************************)
EXTENDS NativeService, SequenceTheorems, TLAPS

\* What the logits can belong to: some tokens that fit the context.
Rows == {s \in Seq(Tokens) : Len(s) \in 1..MaxContext}

InPrompt   == phase \in {"prompt", "scalarPrompt"}
Generating == phase \in {"loop", "forward", "save"}

\* A token has been chosen with what the model has consumed.
Chosen == Generating \/ (InPrompt /\ state_count = PromptSize)

\* The type invariant, and the request that is being served.
TypeInv ==
  /\ TypeOK
  /\ request \in [prompt : Seq(Tokens), max : Nat,
                  mode : {"greedy", "penalty", "sample", "topk"}]
  /\ logits # NoLogits => logits \in Rows
  /\ service_cache_logits # NoLogits => service_cache_logits \in Rows
  /\ IF phase = "idle" THEN request = NoRequest /\ state_count = 0
     ELSE request \in Requests /\ request.max > 0 /\ PromptSize \in 1..(MaxContext - 1)

\* The prompt's bookkeeping: the model is at state_count, and a token has been
\* chosen when the last token of the prompt has been consumed.
PromptInv == InPrompt =>
  /\ state_tokens = request.prompt /\ generated = <<>>
  /\ Len(resident) = state_count
  /\ state_count = PromptSize => current \in Tokens

\* The loop's bookkeeping: model, state_tokens and state_count agree, and where
\* the loop continues they agree with what has been emitted.
LoopInv == Generating =>
  /\ state_count \in 1..MaxContext
  /\ Len(resident) = state_count /\ Len(state_tokens) = state_count
  /\ state_count <= PromptSize + request.max
  /\ current \in Tokens
  /\ Len(generated) <= request.max /\ PromptSize + Len(generated) <= MaxContext
  /\ phase = "loop" => state_count = PromptSize + Len(generated)
  /\ phase = "forward" => /\ state_count = Position
                          /\ Len(generated) \in 1..(request.max - 1)

\* A valid cache entry has the length of the model's state; it is invalid while
\* a request runs.  What a failed call left behind is neither cached nor run on,
\* and only a device can keep state over a reset.
CacheInv ==
  /\ service_cache_valid =>
       /\ phase = "idle" /\ damage # "call"
       /\ Len(service_cache_tokens) = Len(resident) /\ Len(resident) \in 1..MaxContext
       /\ service_cache_next_token \in Tokens
  /\ phase # "idle" => damage # "call"
  /\ damage = "reset" => Faults /\ OnDevice

LengthInv == TypeInv /\ PromptInv /\ LoopInv /\ CacheInv

----------------------------------------------------------------------------
\* Without the scalar sampled branch.
NoSampling == Modes \subseteq {"greedy", "penalty"}

\* The cache names the tokens passed to the model since its last reset, whether
\* or not that reset has succeeded.
CacheInStep ==
  service_cache_valid =>
    /\ service_cache_tokens = resident
    /\ service_cache_logits # NoLogits => service_cache_logits = resident

\* What was passed to the model is what the service believes, whatever phase the
\* request is in.
ContentInv ==
  /\ CacheInStep /\ ModelInStep
  /\ InPrompt => resident = SubSeq(request.prompt, 1, state_count)
  /\ Generating => state_tokens = resident

\* The logits at hand belong to the model's last token; the cached ones still
\* do as long as nothing has been consumed.
LogitsInv ==
  /\ NeedsLogits(request.mode) /\ Chosen =>
       logits = resident
  /\ Generating => result_logits = NeedsLogits(request.mode)
  /\ phase # "idle" /\ cache_hit =>
       /\ cache_count <= state_count
       /\ state_count = cache_count /\ service_cache_logits # NoLogits =>
            service_cache_logits = resident

ExactInv == ContentInv /\ LogitsInv

\* A greedy request's tokens after the first one are the greedy continuation.
GreedyInv ==
  /\ GreedySuffixExact
  /\ request.mode = "greedy" /\ Whole /\ phase = "loop" /\ generated # <<>> =>
       current = Argmax(request.prompt \o generated)

\* Without MTP: CURRENT is the greedy choice after what the model has consumed,
\* the first one included, and a request that ends has a reason to.
ScalarInv ==
  /\ ~use_native_mtp
  /\ service_cache_valid /\ Whole /\ service_cache_logits = NoLogits =>
       service_cache_next_token = Argmax(resident)
  /\ phase # "idle" /\ Whole /\ cache_hit /\ state_count = cache_count
       /\ service_cache_logits = NoLogits =>
       service_cache_next_token = Argmax(resident)
  /\ request.mode = "greedy" /\ Whole /\ Chosen =>
       current = Argmax(resident)
  /\ phase = "save" =>
       \/ Len(generated) = request.max
       \/ PromptSize + Len(generated) = MaxContext
       \/ (request.mode = "greedy" /\ Whole => Argmax(request.prompt \o generated) \in StopTokens)

----------------------------------------------------------------------------
\* Facts about the operators.

\* Neither NoToken nor NoLogits can be mistaken for data.
LEMMA NotData ==
  /\ NoToken \notin Tokens
  /\ NoLogits \notin Seq(Tokens)
<1>1. NoToken \notin Tokens
  BY TokensAssumption DEF NoToken
<1>2. ASSUME NoLogits \in Seq(Tokens) PROVE FALSE
  <2>1. NoLogits[1] \in Tokens
    BY <1>2, ElementOfSeq DEF NoLogits
  <2> QED BY <1>1, <2>1 DEF NoLogits
<1> QED BY <1>1, <1>2

\* The most likely token after a row is a token, and so is every choice.
LEMMA ChoiceIsToken ==
  ASSUME NEW s \in Rows
  PROVE  Argmax(s) \in Tokens /\ \A m : Choices(m, s) \subseteq Tokens
<1>1. s \in [1..Len(s) -> Tokens] /\ Len(s) \in 1..MaxContext
  BY LenProperties DEF Rows
<1>2. Argmax(s) \in Tokens
  BY <1>1, ModelAssumption
<1> QED BY <1>2 DEF Choices

\* A microbatch is neither empty nor larger than what is left of the prompt.
LEMMA BatchFits ==
  ASSUME BatchCapacity > 1, NEW n \in Nat, n > 0
  PROVE  BatchCount(n) \in 1..n
  BY ModelAssumption DEF BatchCount

\* A set of places among the first two has a first one.
LEMMA LeastOfRange ==
  ASSUME NEW S, S # {}, S \subseteq 1..2
  PROVE  \E j \in S : \A i \in S : j <= i
<1>1. PICK k \in S : k \in 1..2
  <2>1. PICK k : k \in S
    OBVIOUS
  <2> QED BY <2>1
<1>2. CASE 1 \in S
  BY <1>2
<1>3. CASE 1 \notin S
  <2>1. \A i \in S : i = 2
    <3>1. ASSUME NEW i \in S PROVE i = 2
      <4>1. i \in 1..2
        OBVIOUS
      <4> QED BY <4>1, <1>3
    <3> QED BY <3>1
  <2>2. \A i \in S : 2 <= i
    BY <2>1
  <2> QED BY <1>1, <2>1, <2>2
<1> QED BY <1>2, <1>3

\* The tokens of a greedy round are tokens.
LEMMA GreedyTokensAre ==
  ASSUME NEW c \in Seq(Tokens), NEW k \in 1..3, Len(c) > 0, Len(c) + k - 1 <= MaxContext
  PROVE  /\ GreedyTokens(c, k) \in Seq(Tokens) /\ Len(GreedyTokens(c, k)) = k
         /\ GreedyTokens(c, k)[1] = Argmax(c)
         /\ k > 1 => GreedyTokens(c, k)[2] = Argmax(Append(c, GreedyTokens(c, k)[1]))
         /\ k > 2 => GreedyTokens(c, k)[3]
                       = Argmax(c \o <<GreedyTokens(c, k)[1], GreedyTokens(c, k)[2]>>)
<1> DEFINE s1 == Argmax(c)
           s2 == Argmax(Append(c, s1))
           s3 == Argmax(c \o <<s1, s2>>)
           s == SubSeq(<<s1, s2, s3>>, 1, k)
<1>1. s1 \in Tokens
  BY ChoiceIsToken, RequestAssumption, LenProperties DEF Rows
<1>2. k > 1 => s2 \in Tokens
  <2>1. Append(c, s1) \in Seq(Tokens) /\ Len(Append(c, s1)) = Len(c) + 1
    BY <1>1, AppendProperties
  <2>2. k > 1 => Append(c, s1) \in Rows
    BY <2>1, RequestAssumption, LenProperties DEF Rows
  <2> QED BY <2>2, ChoiceIsToken
<1>3. k > 2 => s3 \in Tokens
  <2> SUFFICES ASSUME k > 2 PROVE s3 \in Tokens
    OBVIOUS
  <2>1. <<s1, s2>> \in Seq(Tokens) /\ Len(<<s1, s2>>) = 2
    BY <1>1, <1>2
  <2> HIDE DEF s1, s2
  <2>2. c \o <<s1, s2>> \in Seq(Tokens) /\ Len(c \o <<s1, s2>>) = Len(c) + 2
    BY <2>1, ConcatProperties
  <2>3. c \o <<s1, s2>> \in Rows
    BY <2>2, RequestAssumption, LenProperties DEF Rows
  <2> QED BY <2>3, ChoiceIsToken
<1>4. GreedyTokens(c, k) = s
  BY DEF GreedyTokens
<1> HIDE DEF s1, s2, s3
<1>5. \A i \in 1..k : <<s1, s2, s3>>[i] \in Tokens
  BY <1>1, <1>2, <1>3
<1>6. s \in Seq(Tokens) /\ Len(s) = k /\ \A i \in 1..k : s[i] = <<s1, s2, s3>>[i]
  BY <1>5, SubSeqProperties
<1>7. s[1] = s1 /\ (k > 1 => s[2] = s2) /\ (k > 2 => s[3] = s3)
  BY <1>6
<1>8. /\ GreedyTokens(c, k)[1] = s1
      /\ k > 1 => GreedyTokens(c, k)[2] = s2
      /\ k > 2 => GreedyTokens(c, k)[3] = s3
  BY <1>4, <1>7
<1>9. /\ s1 = Argmax(c)
      /\ s2 = Argmax(Append(c, s1))
      /\ s3 = Argmax(c \o <<s1, s2>>)
  BY DEF s1, s2, s3
<1> HIDE DEF s
<1>10. GreedyTokens(c, k)[1] = Argmax(c)
  BY <1>8, <1>9, Zenon
<1>11. k > 1 => GreedyTokens(c, k)[2] = Argmax(Append(c, GreedyTokens(c, k)[1]))
  BY <1>8, <1>9, Zenon
<1>12. k > 2 => GreedyTokens(c, k)[3]
                  = Argmax(c \o <<GreedyTokens(c, k)[1], GreedyTokens(c, k)[2]>>)
  <2>1. k > 2 => k > 1
    OBVIOUS
  <2> QED BY <2>1, <1>8, <1>9, Zenon
<1> QED BY <1>4, <1>6, <1>10, <1>11, <1>12, Zenon

\* What a request is made of.
LEMMA RequestFields ==
  /\ \A r \in Requests : /\ r.prompt \in Seq(Tokens) /\ r.max \in Nat /\ r.mode \in Modes
                         /\ r \in [prompt : Seq(Tokens), max : Nat,
                                   mode : {"greedy", "penalty", "sample", "topk"}]
  /\ NoRequest \in [prompt : Seq(Tokens), max : Nat,
                    mode : {"greedy", "penalty", "sample", "topk"}]
<1>1. ASSUME NEW r \in Requests
      PROVE  /\ r.prompt \in Seq(Tokens) /\ r.max \in Nat /\ r.mode \in Modes
             /\ r \in [prompt : Seq(Tokens), max : Nat,
                       mode : {"greedy", "penalty", "sample", "topk"}]
  BY RequestAssumption DEF Requests
<1>2. <<>> \in Seq(Tokens)
  BY EmptySeq
<1> QED BY <1>1, <1>2 DEF NoRequest

\* What ChooseNext leaves behind.
LEMMA ChooseNextType ==
  ASSUME NEW s \in Rows, ChooseNext(s)
  PROVE  /\ current' \in Tokens
         /\ logits' \in Seq(Tokens) \cup {NoLogits}
         /\ logits' # NoLogits => logits' \in Rows
  BY ChoiceIsToken DEF ChooseNext, Rows

\* A tail of the tokens a round returned, stored and emitted.
LEMMA RoundLengths ==
  ASSUME NEW s \in Seq(Tokens), Len(s) \in 1..3, current \in Tokens
  PROVE  /\ RoundTokens(s) \in Seq(Tokens) /\ Len(RoundTokens(s)) = Len(s)
         /\ Taken(s) \in 0..(Len(s) - 1)
         /\ StopsIn(s) = {} => Taken(s) = Len(s) - 1
         /\ \A n \in 0..Len(s) : /\ SubSeq(s, 1, n) \in Seq(Tokens)
                                 /\ Len(SubSeq(s, 1, n)) = n
<1>1. ASSUME NEW n \in 0..Len(s)
      PROVE  SubSeq(s, 1, n) \in Seq(Tokens) /\ Len(SubSeq(s, 1, n)) = n
  <2>1. \A i \in 1..n : s[i] \in Tokens
    BY ElementOfSeq
  <2> QED BY <2>1, SubSeqProperties
<1>2. <<current>> \in Seq(Tokens) /\ Len(<<current>>) = 1
  OBVIOUS
<1>3. Len(s) \in Nat /\ Len(s) - 1 \in 0..Len(s) /\ Len(s) - 1 \in 0..2
  OBVIOUS
<1>4. RoundTokens(s) \in Seq(Tokens) /\ Len(RoundTokens(s)) = Len(s)
  <2>1. SubSeq(s, 1, Len(s) - 1) \in Seq(Tokens) /\ Len(SubSeq(s, 1, Len(s) - 1)) = Len(s) - 1
    BY <1>1, <1>3
  <2> QED BY <1>2, <1>3, <2>1, ConcatProperties DEF RoundTokens
<1>5. Taken(s) \in 0..(Len(s) - 1)
  <2>1. CASE StopsIn(s) = {}
    BY <1>3, <2>1 DEF Taken
  <2>2. CASE StopsIn(s) # {}
    <3>1. StopsIn(s) \subseteq 1..(Len(s) - 1)
      BY DEF StopsIn
    <3>2. StopsIn(s) \subseteq 1..2
      <4>1. PICK n \in 0..2 : n = Len(s) - 1
        BY <1>3
      <4>2. \A j \in 1..n : j \in 1..2
        OBVIOUS
      <4> QED BY <3>1, <4>1, <4>2
    <3>3. \E j \in StopsIn(s) : \A i \in StopsIn(s) : j <= i
      BY <2>2, <3>2, LeastOfRange
    <3>4. (CHOOSE j \in StopsIn(s) : \A i \in StopsIn(s) : j <= i) \in 1..(Len(s) - 1)
      BY <3>1, <3>3
    <3> QED BY <1>3, <2>2, <3>4 DEF Taken
  <2> QED BY <2>1, <2>2
<1> QED BY <1>1, <1>4, <1>5 DEF Taken

----------------------------------------------------------------------------
\* Lengths, under every option.

\* Nothing is cached and nothing runs when the service starts.
LEMMA InitLength == Init => LengthInv
<1> SUFFICES ASSUME Init PROVE LengthInv
  OBVIOUS
<1> USE DEF Init
<1>1. <<>> \in Seq(Tokens) /\ Len(<<>>) = 0
  BY EmptySeq
<1>2. request.prompt = <<>> /\ request.max = 0 /\ state_count \in 0..Len(state_tokens)
  BY <1>1 DEF NoRequest
<1>3. TypeOK
  <2>1. resident \in TokenSeq /\ draft \in TokenSeq /\ damage \in Damages /\ phase \in Phases
    BY <1>1 DEF TokenSeq, Phases, Damages
  <2>2. service_cache_valid \in BOOLEAN /\ service_cache_tokens \in TokenSeq
    BY <1>1 DEF TokenSeq, Phases
  <2>3. service_cache_next_token \in Tokens \cup {NoToken} /\ service_cache_logits \in TokenSeq \cup {NoLogits}
    BY <1>1 DEF TokenSeq, Phases
  <2>4. cache_hit \in BOOLEAN /\ cache_count \in Nat /\ current \in Tokens \cup {NoToken}
    BY <1>1 DEF TokenSeq, Phases
  <2>5. logits \in TokenSeq \cup {NoLogits} /\ result_logits \in BOOLEAN /\ use_native_mtp \in BOOLEAN
    BY <1>1 DEF TokenSeq, Phases
  <2>6. state_tokens \in TokenSeq /\ generated \in TokenSeq /\ outcome \in {"none", "ok", "error"}
    BY <1>1 DEF TokenSeq, Phases
  <2> QED BY <1>2, <2>1, <2>2, <2>3, <2>4, <2>5, <2>6 DEF TypeOK, TokenSeq
<1>4. TypeInv
  BY <1>3, RequestFields DEF TypeInv
<1>5. PromptInv /\ LoopInv /\ CacheInv
  BY DEF PromptInv, LoopInv, CacheInv, InPrompt, Generating
<1> QED BY <1>4, <1>5 DEF LengthInv

\* A request ends with an error.
LEMMA FailLength ==
  ASSUME LengthInv, Fail, resident' \in Seq(Tokens), damage' \in Damages,
         damage' = "reset" => Faults /\ OnDevice
  PROVE  LengthInv'
<1>1. <<>> \in Seq(Tokens) /\ Len(<<>>) = 0
  BY EmptySeq
<1>2. request'.prompt = <<>> /\ request'.max = 0 /\ state_count' \in 0..Len(state_tokens')
  BY <1>1 DEF NoRequest, Fail, Return
<1>3. TypeOK'
  <2>1. (resident \in TokenSeq /\ draft \in TokenSeq /\ damage \in Damages /\ phase \in Phases)'
    BY <1>1 DEF LengthInv, TypeInv, TypeOK, TokenSeq, Phases, Fail, Return
  <2>2. (service_cache_valid \in BOOLEAN /\ service_cache_tokens \in TokenSeq)'
    BY <1>1 DEF LengthInv, TypeInv, TypeOK, TokenSeq, Phases, Fail, Return
  <2>3. (service_cache_next_token \in Tokens \cup {NoToken} /\ service_cache_logits \in TokenSeq \cup {NoLogits})'
    BY <1>1 DEF LengthInv, TypeInv, TypeOK, TokenSeq, Phases, Fail, Return
  <2>4. (cache_hit \in BOOLEAN /\ cache_count \in Nat /\ current \in Tokens \cup {NoToken})'
    BY <1>1 DEF LengthInv, TypeInv, TypeOK, TokenSeq, Phases, Fail, Return
  <2>5. (logits \in TokenSeq \cup {NoLogits} /\ result_logits \in BOOLEAN /\ use_native_mtp \in BOOLEAN)'
    BY <1>1 DEF LengthInv, TypeInv, TypeOK, TokenSeq, Phases, Fail, Return
  <2>6. (state_tokens \in TokenSeq /\ generated \in TokenSeq /\ outcome \in {"none", "ok", "error"})'
    BY <1>1 DEF LengthInv, TypeInv, TypeOK, TokenSeq, Phases, Fail, Return
  <2> QED BY <1>2, <2>1, <2>2, <2>3, <2>4, <2>5, <2>6 DEF TypeOK, TokenSeq
<1>4. TypeInv'
  BY <1>3, RequestFields DEF LengthInv, TypeInv, Fail, Return
<1>5. PromptInv' /\ LoopInv' /\ CacheInv'
  BY DEF PromptInv, LoopInv, CacheInv, InPrompt, Generating, Fail, Return
<1> QED BY <1>4, <1>5 DEF LengthInv

\* A request begins on the cached state or on a reset model.
LEMMA BeginLength ==
  ASSUME LengthInv, NEW r \in Requests, Begin(r)
  PROVE  LengthInv'
<1> USE DEF LengthInv, TypeInv, TypeOK, TokenSeq, CacheInv
<1>1. <<>> \in Seq(Tokens) /\ Len(<<>>) = 0
  BY EmptySeq
<1>2. r.prompt \in Seq(Tokens) /\ r.max \in Nat /\ Len(r.prompt) \in 1..(MaxContext - 1)
  BY RequestFields, RequestAssumption, LenProperties DEF Begin
<1>3. Hit(r) => /\ service_cache_valid
                /\ Len(resident) = Len(service_cache_tokens)
                /\ Len(service_cache_tokens) \in 1..Len(r.prompt)
  BY <1>2, LenProperties DEF Hit, IsPrefixOf
<1>4. /\ phase = "idle" /\ phase' = "prompt" /\ request' = r /\ generated' = <<>>
      /\ state_tokens' = r.prompt /\ service_cache_valid' = FALSE
  BY DEF Begin
<1>5. /\ state_count' \in 0..Len(r.prompt)
      /\ resident' \in Seq(Tokens) /\ Len(resident') = state_count'
      /\ damage' # "call" /\ damage' \in Damages
      /\ damage' = "reset" => Faults /\ OnDevice
  <2>1. CASE Hit(r)
    BY <1>2, <1>3, <2>1 DEF Begin
  <2>2. CASE ~Hit(r)
    BY <1>1, <1>2, <2>2 DEF Begin, Reset, Damages
  <2> QED BY <2>1, <2>2
<1>6. /\ current' \in Tokens \cup {NoToken}
      /\ state_count' = Len(r.prompt) => current' \in Tokens
      /\ logits' \in Seq(Tokens) \cup {NoLogits}
      /\ logits' # NoLogits => logits' \in Rows
  <2>1. CASE Hit(r) /\ Len(r.prompt) = Len(service_cache_tokens)
    <3>1. ExactHitToken(r) \subseteq Tokens
      BY <1>3, <2>1, ChoiceIsToken DEF ExactHitToken
    <3> QED BY <2>1, <3>1 DEF Begin
  <2>2. CASE ~(Hit(r) /\ Len(r.prompt) = Len(service_cache_tokens))
    BY <1>2, <2>2 DEF Begin
  <2> QED BY <2>1, <2>2
<1>7. /\ draft' \in Seq(Tokens) /\ use_native_mtp' \in BOOLEAN /\ result_logits' \in BOOLEAN
      /\ cache_hit' \in BOOLEAN /\ cache_count' \in Nat /\ outcome' = "none"
      /\ UNCHANGED <<service_cache_tokens, service_cache_next_token, service_cache_logits>>
  BY <1>1, ModelAssumption, LenProperties DEF Begin, Hit
<1>8. TypeOK'
  BY <1>1, <1>2, <1>4, <1>5, <1>6, <1>7 DEF Phases
<1>9. TypeInv'
  BY <1>2, <1>4, <1>6, <1>7, <1>8, RequestFields DEF PromptSize, Begin
<1>10. PromptInv' /\ LoopInv' /\ CacheInv'
  BY <1>4, <1>5, <1>6 DEF PromptInv, LoopInv, InPrompt, Generating, PromptSize
<1> QED BY <1>9, <1>10

\* The next m elements of a sequence after the first k.
LEMMA PartOfSeq ==
  ASSUME NEW S, NEW p \in Seq(S), NEW k \in Nat, NEW m \in Nat, m \in 1..(Len(p) - k)
  PROVE  /\ SubSeq(p, k + 1, k + m) \in Seq(S) /\ Len(SubSeq(p, k + 1, k + m)) = m
         /\ SubSeq(p, 1, k) \o SubSeq(p, k + 1, k + m) = SubSeq(p, 1, k + m)
<1>1. Len(p) \in Nat
  BY LenProperties
<1>2. \A i \in (k + 1)..(k + m) : p[i] \in S
  BY <1>1, ElementOfSeq
<1>3. SubSeq(p, k + 1, k + m) \in Seq(S) /\ Len(SubSeq(p, k + 1, k + m)) = m
  BY <1>1, <1>2, SubSeqProperties
<1>4. 1 \in 1..(Len(p) + 1) /\ k \in (1 - 1)..Len(p) /\ k + m \in k..Len(p)
  BY <1>1
<1> QED BY <1>3, <1>4, ConcatAdjacentSubSeq

\* Both ways of consuming the prompt take the next tokens of it.
LEMMA PromptConsumes ==
  ASSUME LengthInv, PromptBatch \/ PromptScalar
  PROVE  \E m \in Nat :
           /\ m \in 1..(PromptSize - state_count) /\ state_count' = state_count + m
           /\ Consume(SubSeq(request.prompt, state_count + 1, state_count + m))
           /\ IF state_count' = PromptSize THEN ChooseNext(resident')
                                           ELSE UNCHANGED <<current, logits>>
<1>1. /\ PromptLeft > 0 /\ PromptSize \in Nat /\ state_count \in Nat
      /\ PromptLeft = PromptSize - state_count /\ PromptLeft \in Nat
      /\ request.prompt \in Seq(Tokens)
  BY RequestFields, LenProperties
     DEF LengthInv, TypeInv, TypeOK, PromptBatch, PromptScalar, PromptLeft, PromptSize
<1>2. CASE PromptBatch
  <2> DEFINE m == BatchCount(PromptLeft)
  <2>1. m \in 1..PromptLeft
    BY <1>1, <1>2, BatchFits DEF PromptBatch, BatchesPrompt
  <2>2. /\ Consume(SubSeq(request.prompt, state_count + 1, state_count + m))
        /\ state_count' = state_count + Len(SubSeq(request.prompt, state_count + 1, state_count + m))
        /\ IF state_count' = PromptSize THEN ChooseNext(resident')
                                        ELSE UNCHANGED <<current, logits>>
    BY <1>2 DEF PromptBatch
  <2> HIDE DEF m
  <2>3. Len(SubSeq(request.prompt, state_count + 1, state_count + m)) = m
    <3>1. m \in Nat /\ m \in 1..(Len(request.prompt) - state_count)
      BY <1>1, <2>1 DEF PromptSize
    <3> QED BY <1>1, <3>1, PartOfSeq
  <2> QED BY <1>1, <2>1, <2>2, <2>3
<1>3. CASE PromptScalar
  <2>1. <<request.prompt[state_count + 1]>>
          = SubSeq(request.prompt, state_count + 1, state_count + 1)
    BY <1>1
  <2>2. /\ Consume(<<request.prompt[state_count + 1]>>) /\ state_count' = state_count + 1
        /\ IF state_count' = PromptSize THEN ChooseNext(resident')
                                        ELSE UNCHANGED <<current, logits>>
    BY <1>3 DEF PromptScalar
  <2>3. 1 \in 1..(PromptSize - state_count)
    BY <1>1
  <2> QED BY <2>1, <2>2, <2>3
<1> QED BY <1>2, <1>3

\* A call consumes more of the prompt.
LEMMA PromptLength ==
  ASSUME LengthInv, PromptBatch \/ PromptScalar
  PROVE  LengthInv'
<1> USE DEF LengthInv, TypeInv, TypeOK, TokenSeq, CacheInv, PromptInv, InPrompt
<1>1. PICK s \in Seq(Tokens) :
        /\ Len(s) \in 1..PromptLeft
        /\ Consume(s) /\ state_count' = state_count + Len(s)
        /\ IF state_count' = PromptSize THEN ChooseNext(resident') ELSE UNCHANGED <<current, logits>>
  <2>1. PICK m \in Nat :
          /\ m \in 1..(PromptSize - state_count) /\ state_count' = state_count + m
          /\ Consume(SubSeq(request.prompt, state_count + 1, state_count + m))
          /\ IF state_count' = PromptSize THEN ChooseNext(resident')
                                          ELSE UNCHANGED <<current, logits>>
    BY PromptConsumes
  <2>2. PromptSize \in Nat /\ state_count \in Nat /\ request.prompt \in Seq(Tokens)
    BY RequestFields, LenProperties DEF PromptSize
  <2>3. m \in 1..(Len(request.prompt) - state_count)
    BY <2>1 DEF PromptSize
  <2> DEFINE s == SubSeq(request.prompt, state_count + 1, state_count + m)
  <2>4. s \in Seq(Tokens) /\ Len(s) = m
    BY <2>2, <2>3, PartOfSeq
  <2> HIDE DEF s
  <2>5. /\ Consume(s) /\ state_count' = state_count + Len(s) /\ Len(s) \in 1..PromptLeft
        /\ IF state_count' = PromptSize THEN ChooseNext(resident') ELSE UNCHANGED <<current, logits>>
    BY <2>1, <2>4 DEF s, PromptLeft
  <2> QED BY <2>4, <2>5
<1>2. /\ phase \in {"prompt", "scalarPrompt"} /\ phase' \in {"prompt", "scalarPrompt"}
      /\ UNCHANGED <<damage, cacheVars, request, cache_hit, cache_count, state_tokens,
                     result_logits, use_native_mtp, generated, outcome>>
  BY DEF PromptBatch, PromptScalar
<1>3. /\ state_count' \in 1..PromptSize /\ PromptSize \in 1..(MaxContext - 1)
      /\ resident' \in Seq(Tokens) /\ Len(resident') = state_count'
  <2>1. resident' \in Seq(Tokens) /\ Len(resident') = Len(resident) + Len(s)
    BY <1>1, ConcatProperties DEF Consume
  <2>2. PromptSize \in 1..(MaxContext - 1) /\ state_count \in Nat /\ PromptLeft = PromptSize - state_count
    BY <1>2 DEF PromptLeft
  <2>3. Len(resident) = state_count /\ Len(s) \in 1..(PromptSize - state_count)
        /\ state_count' = state_count + Len(s)
    BY <1>1, <1>2, <2>2
  <2>4. state_count' \in 1..PromptSize
    BY <2>2, <2>3, RequestAssumption
  <2> QED BY <2>1, <2>2, <2>3, <2>4
<1>4. resident' \in Rows
  BY <1>3, RequestAssumption DEF Rows
<1>5. /\ current' \in Tokens \cup {NoToken} /\ (state_count' = PromptSize => current' \in Tokens)
      /\ logits' \in Seq(Tokens) \cup {NoLogits} /\ (logits' # NoLogits => logits' \in Rows)
  BY <1>1, <1>4, ChooseNextType
<1>6. draft' \in Seq(Tokens)
  <2>1. CASE PromptScalar
    <3>1. state_count + 1 \in 1..Len(request.prompt) /\ request.prompt \in Seq(Tokens)
      BY <1>2, <1>3, <2>1 DEF PromptScalar, PromptLeft, PromptSize
    <3>2. request.prompt[state_count + 1] \in Tokens
      BY <3>1, ElementOfSeq
    <3> QED BY <2>1, <3>2, AppendProperties DEF PromptScalar
  <2>2. CASE PromptBatch
    BY <2>2 DEF PromptBatch
  <2> QED BY <2>1, <2>2
<1>7. TypeInv'
  BY <1>2, <1>3, <1>5, <1>6 DEF Phases, PromptSize, cacheVars
<1>8. PromptInv' /\ LoopInv' /\ CacheInv'
  BY <1>2, <1>3, <1>5 DEF LoopInv, Generating, PromptSize, cacheVars
<1> QED BY <1>7, <1>8

\* The prompt is done, the loop's head is passed, or a round is refused.
LEMMA HeadLength ==
  ASSUME LengthInv, PromptDone \/ LoopEnds \/ Emit \/ RetireMtp
  PROVE  LengthInv'
<1> USE DEF LengthInv, TypeInv, TypeOK, TokenSeq, CacheInv, PromptInv, LoopInv, InPrompt, Generating
<1>0. <<>> \in Seq(Tokens) /\ Len(<<>>) = 0 /\ PromptSize' = Len(request'.prompt)
  BY EmptySeq DEF PromptSize
<1>1. CASE PromptDone
  <2>1. /\ state_count = PromptSize /\ PromptSize \in 1..(MaxContext - 1)
        /\ Len(generated) = 0 /\ current \in Tokens
    BY <1>0, <1>1 DEF PromptDone, PromptLeft
  <2>2. TypeInv'
    BY <1>0, <1>1, <2>1 DEF PromptDone, Phases, PromptSize, modelVars, cacheVars
  <2>3. (PromptInv /\ LoopInv /\ CacheInv)'
    BY <1>0, <1>1, <2>1, RequestAssumption DEF PromptDone, PromptSize, modelVars, cacheVars
  <2> QED BY <2>2, <2>3
<1>2. CASE LoopEnds
  <2>1. TypeInv'
    BY <1>2 DEF LoopEnds, Phases, PromptSize, modelVars, cacheVars, localVars
  <2>2. (PromptInv /\ LoopInv /\ CacheInv)'
    BY <1>0, <1>2 DEF LoopEnds, PromptSize, modelVars, cacheVars, localVars
  <2> QED BY <2>1, <2>2
<1>3. CASE Emit
  <2>1. /\ current \in Tokens /\ generated' \in Seq(Tokens)
        /\ Len(generated') = Len(generated) + 1
        /\ Len(generated) \in Nat /\ Len(generated') \in 1..request.max
        /\ PromptSize + Len(generated') <= MaxContext
    <3>1. /\ Len(generated) < request.max /\ PromptSize + Len(generated) < MaxContext
          /\ generated' = Append(generated, current) /\ current \in Tokens
          /\ generated \in Seq(Tokens) /\ request.max \in Nat /\ PromptSize \in 1..(MaxContext - 1)
      BY <1>3 DEF Emit
    <3>2. generated' \in Seq(Tokens) /\ Len(generated') = Len(generated) + 1 /\ Len(generated) \in Nat
      BY <3>1, AppendProperties, LenProperties
    <3> QED BY <3>1, <3>2, RequestAssumption
  <2>2. TypeInv'
    BY <1>3, <2>1 DEF Emit, Phases, PromptSize, modelVars, cacheVars, localVars
  <2>3. LoopInv'
    BY <1>3, <2>1, RequestAssumption DEF Emit, Position, PromptSize, modelVars, cacheVars, localVars
  <2>4. PromptInv' /\ CacheInv'
    BY <1>3 DEF Emit, modelVars, cacheVars, localVars
  <2> QED BY <2>2, <2>3, <2>4
<1>4. CASE RetireMtp
  <2>1. TypeInv'
    BY <1>4 DEF RetireMtp, AttemptSpeculative, Phases, PromptSize, modelVars, cacheVars
  <2>2. (PromptInv /\ LoopInv /\ CacheInv)'
    BY <1>4 DEF RetireMtp, PromptSize, Position, modelVars, cacheVars
  <2> QED BY <2>1, <2>2
<1> QED BY <1>1, <1>2, <1>3, <1>4

\* A round of l tokens, q of them emitted at once, after n tokens of a prompt
\* and g generated ones.
LEMMA RoundArithmetic ==
  ASSUME NEW l \in 1..3, NEW g \in Nat, NEW n \in Nat, NEW m \in Nat, NEW C \in Nat, NEW q \in Nat,
         n >= 1, g >= 1, m - g >= 2, q <= l - 1, n + g - 1 + l <= C
  PROVE  /\ n + g - 1 + l \in 1..C /\ n + g - 1 + l <= n + m
         /\ g + q <= m /\ n + (g + q) <= C
         /\ q = l - 1 => n + g - 1 + l = n + (g + q)
  OBVIOUS

\* A speculative round, whichever kind it is.
LEMMA RoundLength ==
  ASSUME LengthInv, AttemptSpeculative,
         NEW s \in Seq(Tokens), Len(s) \in 1..3, Position + Len(s) <= MaxContext,
         Consume(<<current>> \o SubSeq(s, 1, Len(s) - 1)),
         AfterSpeculation(s),
         logits' = logits \/ logits' = resident', result_logits' \in BOOLEAN,
         draft' = draft \/ (phase' = "loop" /\ draft' = Append(draft, current')),
         UNCHANGED <<damage, cacheVars, request, cache_hit, cache_count, use_native_mtp, outcome>>
  PROVE  LengthInv'
<1>1. /\ phase = "forward" /\ request.max - Len(generated) >= 2
      /\ current \in Tokens /\ request.max \in Nat /\ PromptSize \in 1..(MaxContext - 1)
      /\ generated \in Seq(Tokens) /\ Len(generated) >= 1
      /\ resident \in Seq(Tokens) /\ Len(resident) = PromptSize + Len(generated) - 1
      /\ state_tokens \in Seq(Tokens) /\ Len(state_tokens) = Len(resident)
      /\ state_count = Len(resident)
      /\ Position = PromptSize + Len(generated) - 1
  BY DEF LengthInv, TypeInv, TypeOK, TokenSeq, LoopInv, Generating, AttemptSpeculative, Position
<1>2. Len(generated) \in Nat /\ Len(resident) \in Nat /\ Len(s) \in Nat /\ MaxContext \in Nat
  BY <1>1, LenProperties, RequestAssumption
<1>3. /\ RoundTokens(s) \in Seq(Tokens) /\ Len(RoundTokens(s)) = Len(s)
      /\ Taken(s) \in 0..(Len(s) - 1)
      /\ StopsIn(s) = {} => Taken(s) = Len(s) - 1
  BY <1>1, RoundLengths
<1>4. SubSeq(s, 1, Taken(s)) \in Seq(Tokens) /\ Len(SubSeq(s, 1, Taken(s))) = Taken(s)
  <2>1. Taken(s) \in 0..Len(s)
    BY <1>2, <1>3
  <2> QED BY <1>1, <2>1, RoundLengths
<1>5. /\ resident' \in Seq(Tokens) /\ Len(resident') = Len(resident) + Len(s)
      /\ state_tokens' \in Seq(Tokens) /\ Len(state_tokens') = Len(resident) + Len(s)
      /\ state_count' = Len(resident) + Len(s)
  <2>0. state_tokens' = state_tokens \o RoundTokens(s)
    BY DEF AfterSpeculation
  <2>1. resident' = resident \o RoundTokens(s)
    BY DEF Consume, RoundTokens
  <2>2. state_count' = Len(resident) + Len(s)
    BY <1>1 DEF AfterSpeculation
  <2>3. resident' \in Seq(Tokens) /\ Len(resident') = Len(resident) + Len(RoundTokens(s))
    BY <1>1, <1>3, <2>1, ConcatProperties
  <2>4. state_tokens' \in Seq(Tokens) /\ Len(state_tokens') = Len(state_tokens) + Len(RoundTokens(s))
    <3>1. state_tokens \in Seq(Tokens) /\ RoundTokens(s) \in Seq(Tokens)
      BY <1>1, <1>3
    <3> QED BY <2>0, <3>1, ConcatProperties
  <2> QED BY <1>1, <1>3, <2>2, <2>3, <2>4
<1>6. generated' \in Seq(Tokens) /\ Len(generated') = Len(generated) + Taken(s)
  BY <1>1, <1>4, ConcatProperties DEF AfterSpeculation
<1>7. s[Len(s)] \in Tokens
  <2>1. PICK n \in 1..3 : Len(s) = n
    OBVIOUS
  <2>2. n \in 1..n
    OBVIOUS
  <2> QED BY <2>1, <2>2, ElementOfSeq
<1>8. current' \in Tokens /\ phase' \in {"loop", "save"} /\ (phase' = "loop" => StopsIn(s) = {})
  BY <1>1, <1>7 DEF AfterSpeculation
<1>9. /\ Len(resident') \in 1..MaxContext /\ Len(resident') <= PromptSize + request.max
      /\ Len(generated') <= request.max /\ PromptSize + Len(generated') <= MaxContext
      /\ phase' = "loop" => Len(resident') = PromptSize + Len(generated')
  <2>1. PICK l \in 1..3 : l = Len(s)
    OBVIOUS
  <2>2. PICK g \in Nat : g = Len(generated)
    BY <1>2
  <2>3. PICK n \in Nat : n = PromptSize /\ n >= 1
    BY <1>1, <1>2
  <2>4. PICK q \in Nat : q = Taken(s) /\ q <= l - 1
    BY <1>3, <2>1
  <2>5. PICK m \in Nat, C \in Nat : m = request.max /\ C = MaxContext
    BY <1>1, <1>2
  <2>7. /\ Len(resident') = n + g - 1 + l /\ Len(generated') = g + q
        /\ n + g - 1 + l <= C /\ g >= 1 /\ m - g >= 2
    BY <1>1, <1>5, <1>6, <2>1, <2>2, <2>3, <2>4, <2>5
  <2>8. /\ n + g - 1 + l \in 1..C /\ n + g - 1 + l <= n + m
        /\ g + q <= m /\ n + (g + q) <= C
        /\ q = l - 1 => n + g - 1 + l = n + (g + q)
    <3>1. n >= 1 /\ g >= 1 /\ m - g >= 2 /\ q <= l - 1 /\ n + g - 1 + l <= C
      BY <2>3, <2>4, <2>7
    <3> QED BY ONLY <3>1, RoundArithmetic, l \in 1..3, g \in Nat, n \in Nat, m \in Nat, C \in Nat, q \in Nat
  <2>6. /\ Len(resident') \in 1..MaxContext /\ Len(resident') <= n + request.max
        /\ Len(generated') <= request.max /\ n + Len(generated') <= MaxContext
        /\ q = l - 1 => Len(resident') = n + Len(generated')
    BY <2>5, <2>7, <2>8, Zenon
  <2> QED BY <1>3, <1>8, <2>1, <2>3, <2>4, <2>6
<1>10. resident' \in Rows
  BY <1>5, <1>9 DEF Rows
<1>11. draft' \in Seq(Tokens)
  <2>1. draft \in Seq(Tokens)
    BY DEF LengthInv, TypeInv, TypeOK, TokenSeq
  <2> QED BY <1>8, <2>1, AppendProperties
<1>12. /\ logits' \in Seq(Tokens) \cup {NoLogits} /\ (logits' # NoLogits => logits' \in Rows)
  BY <1>10 DEF LengthInv, TypeInv, TypeOK, TokenSeq, Rows
<1>13. state_count' \in 0..Len(state_tokens')
  BY <1>2, <1>5
<1>14. TypeInv'
  BY <1>1, <1>5, <1>6, <1>8, <1>11, <1>12, <1>13
     DEF LengthInv, TypeInv, TypeOK, TokenSeq, Phases, PromptSize, cacheVars
<1>15. LoopInv'
  BY <1>1, <1>5, <1>6, <1>8, <1>9 DEF LoopInv, Generating, PromptSize
<1>16. PromptInv' /\ CacheInv'
  BY <1>1, <1>8 DEF LengthInv, PromptInv, CacheInv, InPrompt, cacheVars
<1> QED BY <1>14, <1>15, <1>16 DEF LengthInv

\* One token at a time.
LEMMA ForwardLength ==
  ASSUME LengthInv, ForwardScalar
  PROVE  LengthInv'
<1> USE DEF LengthInv, TypeInv, TypeOK, TokenSeq, CacheInv, PromptInv, LoopInv, InPrompt, Generating
<1>1. /\ phase = "forward" /\ phase' = "loop"
      /\ current \in Tokens /\ request.max \in Nat /\ PromptSize \in 1..(MaxContext - 1)
      /\ Len(generated) \in 1..(request.max - 1) /\ PromptSize + Len(generated) <= MaxContext
      /\ Len(resident) = PromptSize + Len(generated) - 1
      /\ state_count = Len(resident) /\ Len(state_tokens) = Len(resident)
      /\ UNCHANGED <<damage, cacheVars, request, cache_hit, cache_count, use_native_mtp, generated, outcome>>
  BY DEF ForwardScalar, Position
<1>2. /\ resident' \in Seq(Tokens) /\ Len(resident') = Len(resident) + 1
      /\ state_tokens' \in Seq(Tokens) /\ Len(state_tokens') = Len(resident) + 1
      /\ state_count' = Len(resident) + 1
  <2>1. <<current>> \in Seq(Tokens) /\ Len(<<current>>) = 1
    BY <1>1
  <2>2. \E e \in Tokens : state_tokens' = Append(state_tokens, e)
    BY <1>1 DEF ForwardScalar, StoreCurrent
  <2> QED BY <1>1, <2>1, <2>2, ConcatProperties, AppendProperties DEF ForwardScalar, Consume
<1>3. Len(resident') \in 1..MaxContext /\ Len(resident') = PromptSize + Len(generated)
  BY <1>1, <1>2, RequestAssumption
<1>4. resident' \in Rows
  BY <1>2, <1>3 DEF Rows
<1>5. /\ current' \in Tokens
      /\ logits' \in Seq(Tokens) \cup {NoLogits} /\ (logits' # NoLogits => logits' \in Rows)
  BY <1>4, ChooseNextType DEF ForwardScalar
<1>6. draft' \in Seq(Tokens) /\ result_logits' \in BOOLEAN
  BY <1>5, AppendProperties DEF ForwardScalar
<1>7. TypeInv'
  BY <1>1, <1>2, <1>5, <1>6 DEF Phases, PromptSize, cacheVars
<1>8. (PromptInv /\ LoopInv /\ CacheInv)'
  BY <1>1, <1>2, <1>3, <1>5 DEF PromptSize, cacheVars
<1> QED BY <1>7, <1>8

\* The cache takes over the request's state.
LEMMA SaveLength ==
  ASSUME LengthInv, SaveCache
  PROVE  LengthInv'
<1> USE DEF LengthInv, TypeInv, TypeOK, TokenSeq, CacheInv, PromptInv, LoopInv, InPrompt, Generating
<1>1. <<>> \in Seq(Tokens) /\ Len(<<>>) = 0
  BY EmptySeq
<1>2. /\ phase = "save" /\ phase' = "idle" /\ state_count \in 1..MaxContext
      /\ Len(resident) = state_count /\ Len(state_tokens) = state_count /\ current \in Tokens
      /\ damage # "call" /\ UNCHANGED modelVars
  BY DEF SaveCache, Return
<1>3. service_cache_tokens' = state_tokens
  BY <1>2, SubSeqFull DEF SaveCache
<1>4. /\ service_cache_logits' \in Seq(Tokens) \cup {NoLogits}
      /\ service_cache_logits' # NoLogits => service_cache_logits' \in Rows
  BY DEF SaveCache, Rows
<1>5. request'.prompt = <<>> /\ request'.max = 0 /\ state_count' \in 0..Len(state_tokens')
  BY <1>1 DEF NoRequest, SaveCache, Return
<1>6. TypeOK'
  <2>1. (resident \in TokenSeq /\ draft \in TokenSeq /\ damage \in Damages /\ phase \in Phases)'
    BY <1>2 DEF Phases, modelVars
  <2>2. service_cache_valid' \in BOOLEAN /\ service_cache_next_token' \in Tokens
    BY <1>2 DEF SaveCache
  <2>3. (cache_hit \in BOOLEAN /\ cache_count \in Nat /\ current \in Tokens \cup {NoToken})'
    BY DEF SaveCache, Return
  <2>4. (logits \in TokenSeq \cup {NoLogits} /\ result_logits \in BOOLEAN /\ use_native_mtp \in BOOLEAN)'
    BY DEF SaveCache, Return
  <2>5. (state_tokens \in TokenSeq /\ generated \in TokenSeq /\ outcome \in {"none", "ok", "error"})'
    BY <1>1 DEF SaveCache, Return
  <2> QED BY <1>1, <1>3, <1>4, <1>5, <2>1, <2>2, <2>3, <2>4, <2>5
<1>7. TypeInv'
  BY <1>4, <1>6, RequestFields DEF SaveCache, Return
<1>8. (PromptInv /\ LoopInv /\ CacheInv)'
  BY <1>2, <1>3 DEF SaveCache, Return, modelVars
<1> QED BY <1>7, <1>8

\* Both kinds of rounds are rounds.
LEMMA SpeculateGreedyIs ==
  ASSUME LengthInv, NEW k \in 1..3, SpeculateGreedy(k)
  PROVE  \E s \in RoundChoices(k) :
           /\ s \in Seq(Tokens) /\ Len(s) = k
           /\ Position + Len(s) <= MaxContext
           /\ Consume(<<current>> \o SubSeq(s, 1, Len(s) - 1)) /\ AfterSpeculation(s)
<1>1. /\ resident \in Seq(Tokens) /\ current \in Tokens /\ Len(resident) = Position
      /\ Position + k <= MaxContext
  BY DEF LengthInv, TypeInv, TypeOK, TokenSeq, LoopInv, Generating, SpeculateGreedy, AttemptSpeculative
<1>2. /\ Append(resident, current) \in Seq(Tokens)
      /\ Len(Append(resident, current)) = Position + 1 /\ Position \in Nat
  BY <1>1, AppendProperties, LenProperties
<1>3. /\ Len(Append(resident, current)) > 0
      /\ Len(Append(resident, current)) + k - 1 <= MaxContext
  BY <1>1, <1>2
<1>4. ASSUME NEW s \in RoundChoices(k) PROVE s \in Seq(Tokens) /\ Len(s) = k
  <2>1. CASE Whole
    BY <1>2, <1>3, <2>1, GreedyTokensAre DEF RoundChoices
  <2>2. CASE ~Whole
    <3>1. s \in [1..k -> Tokens]
      BY <2>2 DEF RoundChoices
    <3> QED BY <3>1
  <2> QED BY <2>1, <2>2
<1>5. PICK s \in RoundChoices(k) :
        Consume(<<current>> \o SubSeq(s, 1, k - 1)) /\ AfterSpeculation(s)
  BY DEF SpeculateGreedy
<1>6. s \in Seq(Tokens) /\ Len(s) = k
  BY <1>4
<1> QED BY <1>1, <1>5, <1>6, Zenon

\* A round that samples its tokens is such a round.
LEMMA SpeculateSampledIs ==
  ASSUME LengthInv, NEW n \in 0..2, SpeculateSampled(n)
  PROVE  \E s \in Seq(Tokens) :
           /\ Len(s) \in 1..3 /\ Position + Len(s) <= MaxContext
           /\ Consume(<<current>> \o SubSeq(s, 1, Len(s) - 1)) /\ AfterSpeculation(s)
<1>1. PICK s \in [1..(n + 1) -> Tokens] :
        Consume(<<current>> \o SubSeq(s, 1, n)) /\ AfterSpeculation(s)
  BY DEF SpeculateSampled
<1>2. n + 1 \in Nat /\ n + 1 \in 1..3 /\ (n + 1) - 1 = n
  OBVIOUS
<1>3. s \in Seq(Tokens) /\ Len(s) = n + 1
  BY <1>2
<1>4. Position + (n + 1) <= MaxContext
  <2>1. Position + 2 < MaxContext /\ phase = "forward"
    BY DEF SpeculateSampled, AttemptSpeculative
  <2>2. Position = state_count /\ state_count \in Nat
    BY <2>1 DEF LengthInv, LoopInv, Generating
  <2> QED BY <2>1, <2>2, RequestAssumption
<1>5. SubSeq(s, 1, Len(s) - 1) = SubSeq(s, 1, n)
  BY <1>2, <1>3
<1> QED BY <1>1, <1>2, <1>3, <1>4, <1>5

\* Every step of a request, of any mode, keeps the bookkeeping of its lengths.
LEMMA NextLength == LengthInv /\ [Next]_vars => LengthInv'
<1> SUFFICES ASSUME LengthInv, [Next]_vars PROVE LengthInv'
  OBVIOUS
<1>1. ASSUME NEW r \in Requests, Begin(r) PROVE LengthInv'
  BY <1>1, BeginLength
<1>2. CASE PromptBatch \/ PromptScalar
  BY <1>2, PromptLength
<1>3. CASE PromptBatchFails \/ PromptScalarFails \/ ForwardFails
  <2>1. /\ resident' \in Seq(Tokens) /\ damage' \in Damages
        /\ damage' = "reset" => Faults /\ OnDevice
    BY <1>3, EmptySeq
       DEF PromptBatchFails, PromptScalarFails, ForwardFails, Reset, Damages, LengthInv, TypeInv,
           TypeOK, TokenSeq
  <2> QED BY <1>3, <2>1, FailLength DEF PromptBatchFails, PromptScalarFails, ForwardFails
<1>4. CASE PromptDone \/ LoopEnds \/ Emit \/ RetireMtp
  BY <1>4, HeadLength
<1>5. ASSUME NEW k \in 1..3, SpeculateGreedy(k) PROVE LengthInv'
  <2>1. PICK s \in Seq(Tokens) :
          /\ Len(s) \in 1..3 /\ Position + Len(s) <= MaxContext
          /\ Consume(<<current>> \o SubSeq(s, 1, Len(s) - 1)) /\ AfterSpeculation(s)
    BY <1>5, SpeculateGreedyIs
  <2>2. result_logits' \in BOOLEAN /\ logits' = logits
    BY <1>5 DEF SpeculateGreedy, LengthInv, TypeInv, TypeOK
  <2> QED BY <1>5, <2>1, <2>2, RoundLength DEF SpeculateGreedy
<1>6. ASSUME NEW n \in 0..2, SpeculateSampled(n) PROVE LengthInv'
  <2>1. PICK s \in Seq(Tokens) :
          /\ Len(s) \in 1..3 /\ Position + Len(s) <= MaxContext
          /\ Consume(<<current>> \o SubSeq(s, 1, Len(s) - 1)) /\ AfterSpeculation(s)
    BY <1>6, SpeculateSampledIs
  <2>2. result_logits' \in BOOLEAN /\ (logits' = logits \/ logits' = resident')
    BY <1>6 DEF SpeculateSampled, UseDeviceTopk
  <2> QED BY <1>6, <2>1, <2>2, RoundLength DEF SpeculateSampled
<1>7. CASE ForwardScalar
  BY <1>7, ForwardLength
<1>8. CASE SaveCache
  BY <1>8, SaveLength
<1>9. CASE UNCHANGED vars
  BY <1>9 DEF vars, modelVars, cacheVars, localVars, LengthInv, TypeInv, TypeOK, PromptInv, LoopInv,
              CacheInv, InPrompt, Generating, PromptSize, Position
<1> QED BY <1>1, <1>2, <1>3, <1>4, <1>5, <1>6, <1>7, <1>8, <1>9 DEF Next

\* The bookkeeping of lengths holds in every reachable state.
LEMMA LengthInvariance == Spec => []LengthInv
  BY InitLength, NextLength, PTL DEF Spec

----------------------------------------------------------------------------
\* Every variable keeps its type, under every option: no choice, cached, drafted
\* or sampled, is anything but a token.
THEOREM TypeCorrect == Spec => []TypeOK
<1>1. LengthInv => TypeOK
  BY DEF LengthInv, TypeInv
<1> QED BY LengthInvariance, <1>1, PTL

\* Speculative rounds never overrun generated_ids, state_tokens or the context,
\* although they add up to three tokens between two checks of the budget.
THEOREM BudgetsKept == Spec => []BudgetRespected
<1>1. LengthInv => BudgetRespected
  <2> SUFFICES ASSUME LengthInv PROVE BudgetRespected
    OBVIOUS
  <2> USE DEF LengthInv, TypeInv, TypeOK, TokenSeq, BudgetRespected
  <2>1. CASE phase = "idle"
    BY <2>1, RequestAssumption
  <2>2. CASE InPrompt
    <3>1. /\ state_tokens = request.prompt /\ Len(generated) = 0
          /\ PromptSize \in 1..(MaxContext - 1) /\ request.max \in Nat
          /\ state_count \in 0..PromptSize
      BY <2>2, EmptySeq DEF PromptInv, InPrompt, PromptSize
    <3> QED BY <3>1, RequestAssumption DEF PromptSize
  <2>3. CASE Generating
    BY <2>3 DEF LoopInv, Generating
  <2> QED BY <2>1, <2>2, <2>3 DEF Phases, InPrompt, Generating
<1> QED BY LengthInvariance, <1>1, PTL

\* A model state that a failed call left half changed is neither offered for
\* reuse nor run on before a reset was tried: the flag is cleared when a request
\* begins and set again by its last statement alone, and a failed prompt batch,
\* the one failure with a reset of its own, does not set it either.  The reset
\* itself may fail: the property says no more than that it was called.
THEOREM BrokenStateNotReused == Spec => []NoBrokenReuse
<1>1. LengthInv => NoBrokenReuse
  BY DEF LengthInv, CacheInv, NoBrokenReuse
<1> QED BY LengthInvariance, <1>1, PTL

----------------------------------------------------------------------------
\* Contents, without the scalar sampled branch.

\* A prefix is what a sequence begins with.
LEMMA PrefixIsSubSeq ==
  ASSUME NEW S, NEW s \in Seq(S), NEW q \in Seq(S), IsPrefixOf(s, q)
  PROVE  s = SubSeq(q, 1, Len(s))
<1>1. Len(s) \in Nat /\ Len(q) \in Nat /\ Len(s) <= Len(q) /\ \A i \in 1..Len(s) : s[i] = q[i]
  BY LenProperties DEF IsPrefixOf
<1>2. \A i \in 1..Len(s) : q[i] \in S
  BY <1>1, ElementOfSeq
<1>3. /\ SubSeq(q, 1, Len(s)) \in Seq(S) /\ Len(SubSeq(q, 1, Len(s))) = Len(s)
      /\ \A i \in 1..Len(s) : SubSeq(q, 1, Len(s))[i] = q[i]
  BY <1>1, <1>2, SubSeqProperties
<1> QED BY <1>1, <1>3, SeqEqual

\* The same tokens, grouped by the model's calls and by the answer.
LEMMA ConcatRound ==
  ASSUME NEW S, NEW a \in Seq(S), NEW e \in S, NEW x \in Seq(S)
  PROVE  a \o (<<e>> \o x) = Append(a, e) \o x
<1>1. <<e>> \in Seq(S)
  OBVIOUS
<1>2. Append(a, e) = a \o <<e>>
  BY AppendIsConcat
<1>3. a \o (<<e>> \o x) = (a \o <<e>>) \o x
  BY <1>1, ConcatAssociative
<1> QED BY <1>2, <1>3

\* Concatenation is associative, appending included.
LEMMA TokenSequences ==
  /\ \A a, b, c \in Seq(Tokens) : (a \o b) \o c = a \o (b \o c)
  /\ \A a, b \in Seq(Tokens) : \A e \in Tokens : Append(a \o b, e) = a \o Append(b, e)
<1>1. ASSUME NEW a \in Seq(Tokens), NEW b \in Seq(Tokens), NEW c \in Seq(Tokens)
      PROVE  (a \o b) \o c = a \o (b \o c)
  BY ConcatAssociative
<1>2. ASSUME NEW a \in Seq(Tokens), NEW b \in Seq(Tokens), NEW e \in Tokens
      PROVE  Append(a \o b, e) = a \o Append(b, e)
  <2>1. <<e>> \in Seq(Tokens) /\ Append(b, e) = b \o <<e>>
    BY AppendIsConcat
  <2>2. a \o b \in Seq(Tokens)
    BY ConcatProperties
  <2>3. Append(a \o b, e) = (a \o b) \o <<e>>
    BY <2>2, AppendIsConcat
  <2> QED BY <1>1, <2>1, <2>3
<1> QED BY <1>1, <1>2

\* Without sampling a request is greedy or penalized.
LEMMA ModesLeft ==
  ASSUME NoSampling, LengthInv, phase # "idle"
  PROVE  request.mode \in {"greedy", "penalty"} /\ ~Sampled(request.mode) /\ ~UseDeviceTopk
  BY RequestFields DEF NoSampling, LengthInv, TypeInv, Sampled, UseDeviceTopk

\* A request starts on tokens that the model has consumed, or on none.
LEMMA BeginExact ==
  ASSUME LengthInv, ExactInv, NEW r \in Requests, Begin(r)
  PROVE  ExactInv'
<1>1. /\ phase = "idle" /\ phase' = "prompt" /\ request' = r /\ service_cache_valid' = FALSE
      /\ cache_hit' = Hit(r) /\ cache_count' = Len(service_cache_tokens)
      /\ service_cache_logits' = service_cache_logits
      /\ Len(r.prompt) > 0 /\ Len(r.prompt) \in Nat /\ r.prompt \in Seq(Tokens)
  BY RequestFields, LenProperties DEF Begin
<1>2. CASE Hit(r)
  <2>1. /\ service_cache_valid /\ IsPrefixOf(service_cache_tokens, r.prompt)
        /\ service_cache_tokens \in Seq(Tokens) /\ service_cache_tokens = resident
        /\ service_cache_logits # NoLogits => service_cache_logits = resident
    BY <1>2 DEF Hit, LengthInv, TypeInv, TypeOK, TokenSeq, ExactInv, ContentInv, CacheInStep
  <2>2. resident' = resident /\ state_count' = Len(service_cache_tokens)
    BY <1>2 DEF Begin
  <2>3. resident' = SubSeq(r.prompt, 1, state_count')
    BY <1>1, <2>1, <2>2, PrefixIsSubSeq
  <2>4. NeedsLogits(r.mode) /\ state_count' = Len(r.prompt) => logits' = resident'
    BY <1>2, <2>1, <2>2 DEF Begin, Hit
  <2>5. ContentInv'
    BY <1>1, <2>3 DEF ContentInv, CacheInStep, ModelInStep, InPrompt, Generating
  <2>6. state_count' \in Nat
    BY <2>1, <2>2, LenProperties
  <2>7. LogitsInv'
    BY <1>1, <2>1, <2>2, <2>4, <2>6 DEF LogitsInv, Chosen, InPrompt, Generating, PromptSize
  <2> QED BY <2>5, <2>7 DEF ExactInv
<1>3. CASE ~Hit(r)
  <2>1. resident' = <<>> /\ state_count' = 0 /\ cache_hit' = FALSE
    BY <1>1, <1>3 DEF Begin, Reset
  <2>2. resident' = SubSeq(r.prompt, 1, state_count')
    BY <2>1, SubSeqEmpty
  <2>3. ContentInv'
    BY <1>1, <2>2 DEF ContentInv, CacheInStep, ModelInStep, InPrompt, Generating
  <2>4. LogitsInv'
    BY <1>1, <2>1 DEF LogitsInv, Chosen, InPrompt, Generating, PromptSize
  <2> QED BY <2>3, <2>4 DEF ExactInv
<1> QED BY <1>2, <1>3

\* A failed request leaves nothing that claims to be exact.
LEMMA FailExact ==
  ASSUME Fail
  PROVE  ExactInv'
  BY DEF Fail, Return, ExactInv, ContentInv, LogitsInv, CacheInStep, ModelInStep, InPrompt,
         Generating, Chosen

\* What a call consumes is the next part of the prompt.
LEMMA PromptExact ==
  ASSUME LengthInv, ExactInv, PromptBatch \/ PromptScalar
  PROVE  ExactInv'
<1>1. PICK m \in Nat :
        /\ m \in 1..(PromptSize - state_count) /\ state_count' = state_count + m
        /\ Consume(SubSeq(request.prompt, state_count + 1, state_count + m))
        /\ IF state_count' = PromptSize THEN ChooseNext(resident')
                                        ELSE UNCHANGED <<current, logits>>
  BY PromptConsumes
<1>2. /\ phase \in {"prompt", "scalarPrompt"} /\ phase' \in {"prompt", "scalarPrompt"}
      /\ UNCHANGED <<damage, cacheVars, request, cache_hit, cache_count, state_tokens,
                     result_logits, use_native_mtp, generated, outcome>>
  BY DEF PromptBatch, PromptScalar
<1>3. /\ request.prompt \in Seq(Tokens) /\ state_count \in Nat /\ ~service_cache_valid
      /\ cache_count \in Nat /\ PromptSize = Len(request.prompt)
  BY <1>2, RequestFields, LenProperties
     DEF LengthInv, TypeInv, TypeOK, CacheInv, PromptSize
<1>4. resident' = SubSeq(request'.prompt, 1, state_count')
  <2>1. resident = SubSeq(request.prompt, 1, state_count)
    BY <1>2 DEF ExactInv, ContentInv, InPrompt
  <2> QED BY <1>1, <1>2, <1>3, <2>1, PartOfSeq DEF Consume
<1>5. NeedsLogits(request'.mode) /\ state_count' = PromptSize' => logits' = resident'
  BY <1>1, <1>2 DEF ChooseNext, PromptSize
<1>6. cache_hit' => cache_count' < state_count'
  BY <1>1, <1>2, <1>3 DEF ExactInv, LogitsInv
<1>7. ContentInv'
  BY <1>2, <1>3, <1>4 DEF ContentInv, CacheInStep, ModelInStep, InPrompt, Generating, cacheVars
<1>8. LogitsInv'
  <2>1. state_count' \in Nat /\ cache_count' \in Nat
    BY <1>1, <1>2, <1>3
  <2>2. cache_hit' => cache_count' <= state_count' /\ state_count' # cache_count'
    BY <1>6, <2>1
  <2> QED BY <1>2, <1>5, <2>2 DEF LogitsInv, Chosen, InPrompt, Generating
<1> QED BY <1>7, <1>8 DEF ExactInv

\* The loop's head moves tokens to the answer and none to the model.
LEMMA HeadExact ==
  ASSUME LengthInv, LengthInv', ExactInv, PromptDone \/ LoopEnds \/ Emit \/ RetireMtp
  PROVE  ExactInv'
<1>1. CASE PromptDone
  <2>1. /\ InPrompt /\ phase' = "loop" /\ state_count = PromptSize /\ generated = <<>>
        /\ state_tokens = request.prompt /\ request.prompt \in Seq(Tokens)
        /\ PromptSize = Len(request.prompt) /\ ~service_cache_valid
    BY <1>1, RequestFields, LenProperties
       DEF PromptDone, PromptLeft, PromptSize, LengthInv, TypeInv, TypeOK, PromptInv, CacheInv, InPrompt
  <2>2. resident = request.prompt /\ resident = request.prompt \o generated
    BY <2>1, SubSeqFull, ConcatEmptySeq DEF ExactInv, ContentInv
  <2>3. NeedsLogits(request.mode) => logits = resident /\ logits # NoLogits
    BY <2>1, <2>2, NotData DEF ExactInv, LogitsInv, Chosen
  <2>4. ContentInv'
    BY <1>1, <2>1, <2>2
       DEF PromptDone, ContentInv, CacheInStep, ModelInStep, InPrompt, Generating, modelVars, cacheVars
  <2>5. LogitsInv'
    BY <1>1, <2>1, <2>3
       DEF PromptDone, ExactInv, LogitsInv, Chosen, InPrompt, Generating, modelVars, cacheVars, NeedsLogits
  <2> QED BY <2>4, <2>5 DEF ExactInv
<1>2. CASE LoopEnds
  BY <1>2 DEF LoopEnds, LengthInv, CacheInv, ExactInv, ContentInv, LogitsInv, CacheInStep, ModelInStep,
              InPrompt, Generating, Chosen, PromptSize, modelVars, cacheVars, localVars
<1>3. CASE Emit
  <2>1. /\ phase = "loop" /\ phase' \in {"forward", "save"} /\ ~service_cache_valid
        /\ generated' = Append(generated, current)
        /\ UNCHANGED <<modelVars, cacheVars, request, localVars, outcome>>
    BY <1>3 DEF Emit, LengthInv, CacheInv
  <2>2. /\ resident = request.prompt \o generated
        /\ request.prompt \in Seq(Tokens) /\ generated \in Seq(Tokens) /\ current \in Tokens
    BY <2>1 DEF ExactInv, ContentInv, ModelInStep, LengthInv, TypeInv, TypeOK, TokenSeq, LoopInv,
                Generating
  <2>3. Append(resident, current) = request.prompt \o generated'
    BY <2>1, <2>2, TokenSequences, Zenon
  <2>4. phase' = "forward" => Len(resident') = Position'
    BY DEF LengthInv, LoopInv, Generating
  <2>5. ContentInv'
    BY <2>1, <2>3, <2>4
       DEF ExactInv, ContentInv, CacheInStep, ModelInStep, InPrompt, Generating, modelVars, cacheVars, localVars
  <2>6. LogitsInv'
    BY <2>1 DEF ExactInv, LogitsInv, Chosen, InPrompt, Generating, modelVars, cacheVars, localVars
  <2> QED BY <2>5, <2>6 DEF ExactInv
<1>4. CASE RetireMtp
  BY <1>4 DEF RetireMtp, ExactInv, ContentInv, LogitsInv, CacheInStep, ModelInStep,
              InPrompt, Generating, Chosen, PromptSize, Position, modelVars, cacheVars
<1> QED BY <1>1, <1>2, <1>3, <1>4

\* What a round that returned s does to the model's tokens and to the answer.
LEMMA RoundContents ==
  ASSUME LengthInv, ExactInv, phase = "forward",
         NEW s \in Seq(Tokens), Len(s) \in 1..3,
         Consume(<<current>> \o SubSeq(s, 1, Len(s) - 1)), AfterSpeculation(s)
  PROVE  /\ state_tokens' = resident'
         /\ phase' \in {"loop", "save"}
         /\ phase' = "loop" => /\ generated' = generated \o SubSeq(s, 1, Len(s) - 1)
                               /\ resident' = request.prompt \o generated'
<1>0. state_tokens = resident /\ Append(resident, current) = request.prompt \o generated
  BY DEF ExactInv, ContentInv, ModelInStep, Generating
<1>1. /\ request.prompt \in Seq(Tokens) /\ generated \in Seq(Tokens) /\ current \in Tokens
      /\ resident \in Seq(Tokens)
  BY DEF LengthInv, TypeInv, TypeOK, TokenSeq, LoopInv, Generating
<1>2. /\ StopsIn(s) = {} => Taken(s) = Len(s) - 1
      /\ \A n \in 0..Len(s) : SubSeq(s, 1, n) \in Seq(Tokens)
  BY <1>1, RoundLengths
<1>3. Len(s) - 1 \in 0..Len(s)
  OBVIOUS
<1> DEFINE x == SubSeq(s, 1, Len(s) - 1)
<1>4. x \in Seq(Tokens)
  BY <1>2, <1>3
<1>5. resident' = resident \o (<<current>> \o x) /\ state_tokens' = state_tokens \o (<<current>> \o x)
  BY DEF Consume, AfterSpeculation, RoundTokens
<1>6. phase' \in {"loop", "save"} /\ (phase' = "loop" => generated' = generated \o x)
  BY <1>2 DEF AfterSpeculation
<1> HIDE DEF x
<1>7. resident \o (<<current>> \o x) = Append(resident, current) \o x
  BY <1>1, <1>4, ConcatRound
<1>8. (request.prompt \o generated) \o x = request.prompt \o (generated \o x)
  BY <1>1, <1>4, TokenSequences, Zenon
<1> QED BY <1>0, <1>5, <1>6, <1>7, <1>8 DEF x

\* A speculative round consumes the tokens that it stores.
LEMMA RoundExact ==
  ASSUME LengthInv, LengthInv', ExactInv, phase = "forward",
         NEW s \in Seq(Tokens), Len(s) \in 1..3,
         Consume(<<current>> \o SubSeq(s, 1, Len(s) - 1)), AfterSpeculation(s),
         IF NeedsLogits(request.mode) THEN logits' = resident' /\ result_logits'
                                      ELSE UNCHANGED <<logits, result_logits>>,
         UNCHANGED <<damage, cacheVars, request, cache_hit, cache_count, use_native_mtp, outcome>>
  PROVE  ExactInv'
<1>1. /\ state_tokens' = resident' /\ phase' \in {"loop", "save"}
      /\ phase' = "loop" => resident' = request.prompt \o generated'
  BY RoundContents
<1>2. /\ ~service_cache_valid /\ state_count \in Nat /\ cache_count \in Nat
      /\ state_count' = state_count + Len(s)
  BY LenProperties DEF LengthInv, TypeInv, TypeOK, CacheInv, AfterSpeculation
<1>3. cache_hit' => cache_count' <= state_count' /\ state_count' # cache_count'
  <2>1. PICK l \in 1..3 : l = Len(s)
    OBVIOUS
  <2>2. cache_hit => cache_count <= state_count
    BY DEF ExactInv, LogitsInv
  <2> QED BY <1>2, <2>1, <2>2
<1>4. ContentInv'
  BY <1>1, <1>2 DEF ContentInv, CacheInStep, ModelInStep, InPrompt, Generating, cacheVars
<1>5. result_logits' = NeedsLogits(request'.mode)
  BY DEF ExactInv, LogitsInv, Generating, LengthInv, TypeInv, TypeOK, NeedsLogits
<1>6. LogitsInv'
  BY <1>1, <1>3, <1>5 DEF LogitsInv, Chosen, InPrompt, Generating
<1> QED BY <1>4, <1>6 DEF ExactInv

\* The scalar step stores the token that it consumes.
LEMMA ForwardExact ==
  ASSUME NoSampling, LengthInv, ExactInv, ForwardScalar
  PROVE  ExactInv'
<1>1. /\ phase = "forward" /\ phase' = "loop" /\ ~service_cache_valid
      /\ UNCHANGED <<cacheVars, request, cache_hit, cache_count, generated>>
  BY DEF ForwardScalar, LengthInv, CacheInv
<1>2. /\ state_tokens = resident /\ Append(resident, current) = request.prompt \o generated
      /\ current \in Tokens /\ resident \in Seq(Tokens)
      /\ state_count \in Nat /\ cache_count \in Nat
  BY <1>1, LenProperties
     DEF ExactInv, ContentInv, ModelInStep, LengthInv, TypeInv, TypeOK, TokenSeq, LoopInv, Generating
<1>3. /\ resident' = Append(resident, current) /\ state_tokens' = Append(state_tokens, current)
      /\ result_logits' = result_logits
  BY <1>1, <1>2, ModesLeft, AppendIsConcat DEF ForwardScalar, Consume, StoreCurrent
<1>4. ContentInv'
  BY <1>1, <1>2, <1>3 DEF ContentInv, CacheInStep, ModelInStep, InPrompt, Generating, cacheVars
<1>5. NeedsLogits(request'.mode) => logits' = resident'
  BY <1>1 DEF ForwardScalar, ChooseNext
<1>6. cache_hit' => cache_count' <= state_count' /\ state_count' # cache_count'
  BY <1>1, <1>2 DEF ForwardScalar, ExactInv, LogitsInv
<1>7. LogitsInv'
  BY <1>1, <1>3, <1>5, <1>6 DEF ExactInv, LogitsInv, Chosen, InPrompt, Generating
<1> QED BY <1>4, <1>7 DEF ExactInv

\* What is cached is what the model has consumed.
LEMMA SaveExact ==
  ASSUME LengthInv, ExactInv, SaveCache
  PROVE  ExactInv'
<1>1. /\ phase = "save" /\ phase' = "idle" /\ UNCHANGED resident
      /\ state_tokens = resident /\ Len(state_tokens) = state_count /\ state_tokens \in Seq(Tokens)
  BY DEF SaveCache, Return, modelVars, ExactInv, ContentInv, LengthInv, TypeInv, TypeOK, TokenSeq,
         LoopInv, Generating
<1>2. service_cache_tokens' = resident'
  BY <1>1, SubSeqFull DEF SaveCache
<1>3. service_cache_logits' # NoLogits => service_cache_logits' = resident'
  BY <1>1 DEF SaveCache, PreserveOldLogits, ExactInv, LogitsInv, Chosen, Generating
<1> QED BY <1>1, <1>2, <1>3
        DEF ExactInv, ContentInv, LogitsInv, CacheInStep, ModelInStep, InPrompt, Generating, Chosen

\* Every step without sampling keeps the contents exact.
LEMMA NextExact ==
  ASSUME NoSampling, LengthInv, LengthInv', ExactInv, [Next]_vars
  PROVE  ExactInv'
<1>1. ASSUME NEW r \in Requests, Begin(r) PROVE ExactInv'
  BY <1>1, BeginExact
<1>2. CASE PromptBatch \/ PromptScalar
  BY <1>2, PromptExact
<1>3. CASE PromptBatchFails \/ PromptScalarFails \/ ForwardFails
  BY <1>3, FailExact DEF PromptBatchFails, PromptScalarFails, ForwardFails
<1>4. CASE PromptDone \/ LoopEnds \/ Emit \/ RetireMtp
  BY <1>4, HeadExact
<1>5. ASSUME NEW k \in 1..3, SpeculateGreedy(k) PROVE ExactInv'
  <2>1. PICK s \in Seq(Tokens) :
          /\ Len(s) \in 1..3 /\ Position + Len(s) <= MaxContext
          /\ Consume(<<current>> \o SubSeq(s, 1, Len(s) - 1)) /\ AfterSpeculation(s)
    BY <1>5, SpeculateGreedyIs
  <2>2. phase = "forward" /\ ~NeedsLogits(request.mode) /\ UNCHANGED <<logits, result_logits>>
    BY <1>5 DEF SpeculateGreedy, AttemptSpeculative
  <2> QED BY <1>5, <2>1, <2>2, RoundExact DEF SpeculateGreedy
<1>6. ASSUME NEW n \in 0..2, SpeculateSampled(n) PROVE ExactInv'
  <2>1. PICK s \in Seq(Tokens) :
          /\ Len(s) \in 1..3 /\ Position + Len(s) <= MaxContext
          /\ Consume(<<current>> \o SubSeq(s, 1, Len(s) - 1)) /\ AfterSpeculation(s)
    BY <1>6, SpeculateSampledIs
  <2>2. phase = "forward" /\ NeedsLogits(request.mode)
    BY <1>6 DEF SpeculateSampled, AttemptSpeculative
  <2>3. logits' = resident' /\ result_logits'
    BY <1>6, <2>2, ModesLeft DEF SpeculateSampled
  <2> QED BY <1>6, <2>1, <2>2, <2>3, RoundExact DEF SpeculateSampled
<1>7. CASE ForwardScalar
  BY <1>7, ForwardExact
<1>8. CASE SaveCache
  BY <1>8, SaveExact
<1>9. CASE UNCHANGED vars
  BY <1>9 DEF vars, modelVars, cacheVars, localVars, ExactInv, ContentInv, LogitsInv, CacheInStep,
              ModelInStep, InPrompt, Generating, Chosen, PromptSize, Position
<1> QED BY <1>1, <1>2, <1>3, <1>4, <1>5, <1>6, <1>7, <1>8, <1>9 DEF Next

\* An empty cache claims nothing.
LEMMA InitExact == Init => ExactInv
  BY DEF Init, ExactInv, ContentInv, LogitsInv, CacheInStep, ModelInStep, InPrompt, Generating, Chosen

\* Without sampling the contents are exact in every reachable state.
LEMMA ExactInvariance ==
  ASSUME NoSampling
  PROVE  Spec => []ExactInv
<1>1. LengthInv /\ LengthInv' /\ ExactInv /\ [Next]_vars => ExactInv'
  BY NextExact
<1> QED BY InitExact, LengthInvariance, <1>1, PTL DEF Spec

\* The comment at fortai_native_service.f90:20 holds: a valid cache entry names
\* the tokens that the model has consumed, and cached logits belong to them,
\* unless device state has survived a reset that failed.
THEOREM CacheIsExact == ASSUME NoSampling PROVE Spec => []CacheExact
<1>1. ExactInv => CacheExact
  BY DEF ExactInv, ContentInv, CacheInStep, CacheExact
<1> QED BY ExactInvariance, <1>1, PTL

\* The model has always consumed the prompt and what was emitted, whether a
\* token came from a microbatch, the scalar loop, a round or the cache.
THEOREM InStep == ASSUME NoSampling PROVE Spec => []ModelInStep
<1>1. ExactInv => ModelInStep
  BY DEF ExactInv, ContentInv
<1> QED BY ExactInvariance, <1>1, PTL

----------------------------------------------------------------------------
\* Greedy answers.

\* From place `first' on, each token of g is the most likely one after p and
\* the tokens of g before it.
Follows(p, g, first) == \A i \in first..Len(g) : g[i] = Argmax(p \o SubSeq(g, 1, i - 1))

\* The beginnings of two concatenated sequences.
LEMMA ConcatPrefix ==
  ASSUME NEW S, NEW g \in Seq(S), NEW x \in Seq(S), NEW n \in 0..(Len(g) + Len(x))
  PROVE  SubSeq(g \o x, 1, n) = IF n <= Len(g) THEN SubSeq(g, 1, n)
                                               ELSE g \o SubSeq(x, 1, n - Len(g))
<1>1. Len(g) \in Nat /\ Len(x) \in Nat /\ n \in Nat
  BY LenProperties
<1>2. /\ g \o x \in Seq(S) /\ Len(g \o x) = Len(g) + Len(x)
      /\ \A i \in 1..(Len(g) + Len(x)) : (g \o x)[i] = IF i <= Len(g) THEN g[i] ELSE x[i - Len(g)]
  BY ConcatProperties
<1>3. /\ SubSeq(g \o x, 1, n) \in Seq(S) /\ Len(SubSeq(g \o x, 1, n)) = n
      /\ \A i \in 1..n : SubSeq(g \o x, 1, n)[i] = (g \o x)[i]
  <2>1. \A i \in 1..n : (g \o x)[i] \in S
    BY <1>1, <1>2, ElementOfSeq
  <2> QED BY <1>1, <2>1, SubSeqProperties
<1>4. CASE n <= Len(g)
  <2>1. \A i \in 1..n : g[i] \in S
    BY <1>1, <1>4, ElementOfSeq
  <2>2. /\ SubSeq(g, 1, n) \in Seq(S) /\ Len(SubSeq(g, 1, n)) = n
        /\ \A i \in 1..n : SubSeq(g, 1, n)[i] = g[i]
    BY <1>1, <2>1, SubSeqProperties
  <2>3. \A i \in 1..n : SubSeq(g \o x, 1, n)[i] = SubSeq(g, 1, n)[i]
    BY <1>1, <1>2, <1>3, <1>4, <2>2
  <2> QED BY <1>3, <1>4, <2>2, <2>3, SeqEqual
<1>5. CASE ~(n <= Len(g))
  <2> DEFINE m == n - Len(g)
  <2>1. m \in Nat /\ m <= Len(x) /\ Len(g) + m = n
    BY <1>1, <1>5
  <2> HIDE DEF m
  <2>2. \A i \in 1..m : x[i] \in S
    BY <1>1, <2>1, ElementOfSeq
  <2>3. /\ SubSeq(x, 1, m) \in Seq(S) /\ Len(SubSeq(x, 1, m)) = m
        /\ \A i \in 1..m : SubSeq(x, 1, m)[i] = x[i]
    BY <2>1, <2>2, SubSeqProperties
  <2>4. /\ g \o SubSeq(x, 1, m) \in Seq(S) /\ Len(g \o SubSeq(x, 1, m)) = n
        /\ \A i \in 1..n : (g \o SubSeq(x, 1, m))[i] = IF i <= Len(g) THEN g[i]
                                                       ELSE SubSeq(x, 1, m)[i - Len(g)]
    BY <2>1, <2>3, ConcatProperties
  <2>5. ASSUME NEW i \in 1..n
        PROVE  SubSeq(g \o x, 1, n)[i] = (g \o SubSeq(x, 1, m))[i]
    BY <1>1, <1>2, <1>3, <2>1, <2>3, <2>4
  <2>6. SubSeq(g \o x, 1, n) = g \o SubSeq(x, 1, m)
    BY <1>3, <2>4, <2>5, SeqEqual
  <2> QED BY <1>5, <2>6 DEF m
<1> QED BY <1>4, <1>5

\* Tokens that continue p and g greedily may be appended to g.
LEMMA FollowOn ==
  ASSUME NEW p \in Seq(Tokens), NEW g \in Seq(Tokens), NEW x \in Seq(Tokens), NEW first \in Nat,
         first >= 1, Follows(p, g, first),
         \A j \in 1..Len(x) : Len(g) + j >= first =>
           x[j] = Argmax((p \o g) \o SubSeq(x, 1, j - 1))
  PROVE  Follows(p, g \o x, first)
<1> SUFFICES ASSUME NEW i \in first..Len(g \o x)
             PROVE  (g \o x)[i] = Argmax(p \o SubSeq(g \o x, 1, i - 1))
  BY DEF Follows
<1>1. Len(g) \in Nat /\ Len(x) \in Nat
  BY LenProperties
<1>2. /\ Len(g \o x) = Len(g) + Len(x)
      /\ (g \o x)[i] = IF i <= Len(g) THEN g[i] ELSE x[i - Len(g)]
  BY <1>1, ConcatProperties
<1>3. i \in Nat /\ i >= 1 /\ i - 1 \in 0..(Len(g) + Len(x))
  BY <1>1, <1>2
<1>4. CASE i <= Len(g)
  <2>1. i \in first..Len(g) /\ i - 1 <= Len(g)
    BY <1>1, <1>3, <1>4
  <2>2. SubSeq(g \o x, 1, i - 1) = SubSeq(g, 1, i - 1)
    BY <1>3, <2>1, ConcatPrefix
  <2>3. g[i] = Argmax(p \o SubSeq(g, 1, i - 1))
    BY <2>1 DEF Follows
  <2> QED BY <1>2, <1>4, <2>2, <2>3
<1>5. CASE ~(i <= Len(g))
  <2> DEFINE j == i - Len(g)
  <2>1. j \in 1..Len(x) /\ Len(g) + j >= first /\ j - 1 \in Nat /\ j - 1 <= Len(x)
    BY <1>1, <1>2, <1>3, <1>5
  <2>2. SubSeq(x, 1, j - 1) \in Seq(Tokens)
    <3>1. \A k \in 1..(j - 1) : x[k] \in Tokens
      BY <1>1, <2>1, ElementOfSeq
    <3> QED BY <2>1, <3>1, SubSeqProperties
  <2>3. SubSeq(g \o x, 1, i - 1) = g \o SubSeq(x, 1, j - 1)
    <3>1. CASE i - 1 <= Len(g)
      <4>1. i - 1 = Len(g) /\ j - 1 = 0
        BY <1>1, <1>3, <1>5, <3>1
      <4>2. SubSeq(g \o x, 1, i - 1) = SubSeq(g, 1, Len(g))
        BY <1>3, <4>1, ConcatPrefix
      <4>3. SubSeq(g, 1, Len(g)) = g /\ SubSeq(x, 1, j - 1) = <<>> /\ g \o <<>> = g
        BY <4>1, SubSeqFull, SubSeqEmpty, ConcatEmptySeq
      <4> QED BY <4>2, <4>3
    <3>2. CASE ~(i - 1 <= Len(g))
      <4>1. (i - 1) - Len(g) = j - 1
        BY <1>1, <1>3
      <4> QED BY <1>3, <3>2, <4>1, ConcatPrefix
    <3> QED BY <3>1, <3>2
  <2>4. x[j] = Argmax((p \o g) \o SubSeq(x, 1, j - 1))
    BY <2>1
  <2>5. (p \o g) \o SubSeq(x, 1, j - 1) = p \o (g \o SubSeq(x, 1, j - 1))
    BY <2>2, TokenSequences
  <2>6. (g \o x)[i] = x[j]
    BY <1>2, <1>5
  <2> QED BY <2>3, <2>4, <2>5, <2>6
<1> QED BY <1>4, <1>5

\* A beginning of a beginning.
LEMMA PrefixOfPrefix ==
  ASSUME NEW S, NEW s \in Seq(S), NEW n \in 0..Len(s), NEW m \in 0..n
  PROVE  /\ SubSeq(s, 1, n) \in Seq(S) /\ Len(SubSeq(s, 1, n)) = n
         /\ \A i \in 1..n : SubSeq(s, 1, n)[i] = s[i]
         /\ SubSeq(SubSeq(s, 1, n), 1, m) = SubSeq(s, 1, m)
<1>1. Len(s) \in Nat /\ n \in Nat /\ m \in Nat /\ m <= n /\ n <= Len(s)
  BY LenProperties
<1>2. \A i \in 1..n : s[i] \in S
  BY <1>1, ElementOfSeq
<1> DEFINE x == SubSeq(s, 1, n)
<1>3. x \in Seq(S) /\ Len(x) = n /\ \A i \in 1..n : x[i] = s[i]
  BY <1>1, <1>2, SubSeqProperties
<1> HIDE DEF x
<1>4. \A i \in 1..m : x[i] \in S /\ s[i] \in S
  BY <1>1, <1>2, <1>3
<1>5. /\ SubSeq(s, 1, m) \in Seq(S) /\ Len(SubSeq(s, 1, m)) = m
      /\ \A i \in 1..m : SubSeq(s, 1, m)[i] = s[i]
  BY <1>1, <1>4, SubSeqProperties
<1>6. /\ SubSeq(x, 1, m) \in Seq(S) /\ Len(SubSeq(x, 1, m)) = m
      /\ \A i \in 1..m : SubSeq(x, 1, m)[i] = x[i]
  BY <1>1, <1>4, SubSeqProperties
<1>7. \A i \in 1..m : SubSeq(x, 1, m)[i] = SubSeq(s, 1, m)[i]
  BY <1>1, <1>3, <1>5, <1>6
<1>8. SubSeq(x, 1, m) = SubSeq(s, 1, m)
  BY <1>5, <1>6, <1>7, SeqEqual
<1> QED BY <1>3, <1>8 DEF x

\* Two tokens, one after the other.
LEMMA PairOfAppend ==
  ASSUME NEW S, NEW a \in S, NEW b \in S
  PROVE  Append(<<a>>, b) = <<a, b>>
<1> DEFINE x == Append(<<a>>, b)
           y == <<a, b>>
<1>1. <<a>> \in Seq(S) /\ Len(<<a>>) = 1 /\ <<a>>[1] = a
  OBVIOUS
<1>2. y \in Seq(S) /\ Len(y) = 2 /\ y[1] = a /\ y[2] = b
  OBVIOUS
<1>3. x \in Seq(S) /\ Len(x) = 2 /\ x[2] = b
  BY <1>1, AppendProperties
<1>4. x[1] = a
  <2>1. 1 \in 1..Len(<<a>>)
    BY <1>1
  <2>2. x[1] = <<a>>[1]
    BY <1>1, <2>1, AppendProperties
  <2> QED BY <1>1, <2>2
<1> HIDE DEF x, y
<1>5. \A i \in 1..Len(x) : x[i] = y[i]
  BY <1>2, <1>3, <1>4
<1>6. x = y
  BY <1>2, <1>3, <1>5, SeqEqual
<1> QED BY <1>6 DEF x, y

\* The first one and two elements.
LEMMA ShortPrefixes ==
  ASSUME NEW S, NEW s \in Seq(S)
  PROVE  /\ SubSeq(s, 1, 0) = <<>>
         /\ Len(s) >= 1 => SubSeq(s, 1, 1) = <<s[1]>>
         /\ Len(s) >= 2 => SubSeq(s, 1, 2) = <<s[1], s[2]>>
<1>1. SubSeq(s, 1, 0) = <<>>
  BY SubSeqEmpty
<1>2. Len(s) \in Nat
  BY LenProperties
<1>3. \A m \in 1..Len(s) : SubSeq(s, 1, m) = SubSeq(s, 1, m - 1) \o <<s[m]>>
  <2>1. ASSUME NEW m \in 1..Len(s) PROVE SubSeq(s, 1, m) = SubSeq(s, 1, m - 1) \o <<s[m]>>
    <3>1. 1 \in 1..Len(s) /\ m \in 1..Len(s)
      BY <1>2
    <3> QED BY <3>1, SubSeqRecursiveSecond
  <2> QED BY <2>1
<1>4. ASSUME Len(s) >= 1 PROVE SubSeq(s, 1, 1) = <<s[1]>>
  <2>1. 1 \in 1..Len(s) /\ 1 - 1 = 0 /\ s[1] \in S
    BY <1>2, <1>4, ElementOfSeq
  <2>2. SubSeq(s, 1, 1) = <<>> \o <<s[1]>>
    BY <1>1, <1>3, <2>1
  <2>3. <<s[1]>> \in Seq(S)
    BY <2>1
  <2> QED BY <2>2, <2>3, ConcatEmptySeq
<1>5. ASSUME Len(s) >= 2 PROVE SubSeq(s, 1, 2) = <<s[1], s[2]>>
  <2>1. 1 \in 1..Len(s) /\ 2 \in 1..Len(s) /\ 2 - 1 = 1 /\ Len(s) >= 1
    BY <1>2, <1>5
  <2>2. s[1] \in S /\ s[2] \in S
    BY <2>1, ElementOfSeq
  <2>3. SubSeq(s, 1, 2) = <<s[1]>> \o <<s[2]>>
    BY <1>3, <1>4, <2>1
  <2>4. <<s[1]>> \in Seq(S)
    BY <2>2
  <2>5. Append(<<s[1]>>, s[2]) = <<s[1]>> \o <<s[2]>>
    BY <2>2, <2>4, AppendIsConcat
  <2>6. Append(<<s[1]>>, s[2]) = <<s[1], s[2]>>
    BY <2>2, PairOfAppend
  <2> QED BY <2>3, <2>5, <2>6
<1> QED BY <1>1, <1>4, <1>5

\* A greedy round returns the greedy continuation.
LEMMA GreedyTokensFollow ==
  ASSUME NEW c \in Seq(Tokens), NEW k \in 1..3, Len(c) > 0, Len(c) + k - 1 <= MaxContext
  PROVE  \A j \in 1..k :
           GreedyTokens(c, k)[j] = Argmax(c \o SubSeq(GreedyTokens(c, k), 1, j - 1))
<1> DEFINE s == GreedyTokens(c, k)
<1>1. /\ s \in Seq(Tokens) /\ Len(s) = k
      /\ s[1] = Argmax(c)
      /\ k > 1 => s[2] = Argmax(Append(c, s[1]))
      /\ k > 2 => s[3] = Argmax(c \o <<s[1], s[2]>>)
  BY GreedyTokensAre
<1> HIDE DEF s
<1> SUFFICES ASSUME NEW j \in 1..k PROVE s[j] = Argmax(c \o SubSeq(s, 1, j - 1))
  BY DEF s
<1>2. CASE j = 1
  <2>1. SubSeq(s, 1, j - 1) = <<>> /\ c \o <<>> = c
    BY <1>2, SubSeqEmpty, ConcatEmptySeq
  <2> QED BY <1>1, <1>2, <2>1
<1>3. CASE j = 2
  <2>1. k > 1 /\ Len(s) >= 1 /\ j - 1 = 1 /\ 1 \in 1..Len(s)
    BY <1>1, <1>3
  <2>2. SubSeq(s, 1, 1) = <<s[1]>> /\ s[1] \in Tokens
    BY <1>1, <2>1, ShortPrefixes, ElementOfSeq
  <2>3. Append(c, s[1]) = c \o <<s[1]>>
    BY <2>2, AppendIsConcat
  <2>4. s[2] = Argmax(c \o SubSeq(s, 1, 1))
    BY <1>1, <2>1, <2>2, <2>3
  <2> QED BY <1>3, <2>1, <2>4
<1>4. CASE j = 3
  <2>1. k > 2 /\ Len(s) >= 2 /\ j - 1 = 2
    BY <1>1, <1>4
  <2>2. SubSeq(s, 1, 2) = <<s[1], s[2]>>
    BY <1>1, <2>1, ShortPrefixes
  <2>3. s[3] = Argmax(c \o SubSeq(s, 1, 2))
    BY <1>1, <2>1, <2>2
  <2> QED BY <1>4, <2>1, <2>3
<1> QED BY <1>2, <1>3, <1>4

\* One more token.
LEMMA FollowOnByOne ==
  ASSUME NEW p \in Seq(Tokens), NEW g \in Seq(Tokens), NEW e \in Tokens, NEW first \in Nat,
         first >= 1, Follows(p, g, first), Len(g) + 1 >= first => e = Argmax(p \o g)
  PROVE  Follows(p, Append(g, e), first)
<1> DEFINE x == <<e>>
<1>1. x \in Seq(Tokens) /\ Len(x) = 1 /\ x[1] = e
  OBVIOUS
<1>2. Append(g, e) = g \o x
  BY AppendIsConcat
<1>3. p \o g \in Seq(Tokens)
  BY ConcatProperties
<1>4. SubSeq(x, 1, 0) = <<>> /\ (p \o g) \o <<>> = p \o g
  BY <1>3, SubSeqEmpty, ConcatEmptySeq
<1> HIDE DEF x
<1>5. ASSUME NEW j \in 1..Len(x), Len(g) + j >= first
      PROVE  x[j] = Argmax((p \o g) \o SubSeq(x, 1, j - 1))
  <2>1. j = 1 /\ j - 1 = 0
    BY <1>1
  <2> QED BY <1>1, <1>4, <1>5, <2>1
<1> QED BY <1>1, <1>2, <1>5, FollowOn

\* A greedy round extends a greedy answer, and the token it leaves to the loop
\* continues it.
LEMMA RoundGreedy ==
  ASSUME LengthInv, ExactInv, Whole, NEW k \in 1..3, SpeculateGreedy(k), NEW first \in {1, 2},
         Follows(request.prompt, generated, first)
  PROVE  /\ Follows(request.prompt, generated', first)
         /\ phase' = "loop" => current' = Argmax(request.prompt \o generated')
<1> DEFINE c == Append(resident, current)
           s == GreedyTokens(c, k)
<1>1. /\ phase = "forward" /\ current \in Tokens /\ resident \in Seq(Tokens)
      /\ generated \in Seq(Tokens) /\ request.prompt \in Seq(Tokens)
      /\ Len(resident) = Position /\ Position + k <= MaxContext
  BY DEF LengthInv, TypeInv, TypeOK, TokenSeq, LoopInv, Generating, SpeculateGreedy, AttemptSpeculative
<1>2. c = request.prompt \o generated
  BY <1>1 DEF ExactInv, ContentInv, ModelInStep
<1>3. /\ c \in Seq(Tokens) /\ Len(c) > 0 /\ Len(c) + k - 1 <= MaxContext
  <2>1. c \in Seq(Tokens) /\ Len(c) = Position + 1 /\ Position \in Nat
    BY <1>1, AppendProperties, LenProperties
  <2> QED BY <1>1, <2>1
<1>4. /\ s \in Seq(Tokens) /\ Len(s) = k
      /\ Consume(<<current>> \o SubSeq(s, 1, Len(s) - 1)) /\ AfterSpeculation(s)
  BY SpeculateGreedyIs DEF RoundChoices
<1> HIDE DEF c
<1>5. \A j \in 1..k : s[j] = Argmax(c \o SubSeq(s, 1, j - 1))
  BY <1>3, GreedyTokensFollow
<1> HIDE DEF s
<1>6. /\ Taken(s) \in 0..(k - 1)
      /\ \A n \in 0..k : SubSeq(s, 1, n) \in Seq(Tokens) /\ Len(SubSeq(s, 1, n)) = n
  BY <1>1, <1>4, RoundLengths
<1> DEFINE n == Taken(s)
           x == SubSeq(s, 1, n)
<1>7. generated' = generated \o x
  BY <1>4 DEF AfterSpeculation
<1> HIDE DEF n
<1>8. n \in 0..Len(s) /\ n <= k
  BY <1>4, <1>6 DEF n
<1>9. /\ x \in Seq(Tokens) /\ Len(x) = n
      /\ \A m \in 0..n : SubSeq(x, 1, m) = SubSeq(s, 1, m)
      /\ \A i \in 1..n : x[i] = s[i]
  <2>1. n \in 0..n
    BY <1>4, <1>8
  <2> QED BY <1>4, <1>8, <2>1, PrefixOfPrefix
<1> HIDE DEF x
<1>10. ASSUME NEW j \in 1..Len(x)
       PROVE  x[j] = Argmax((request.prompt \o generated) \o SubSeq(x, 1, j - 1))
  <2>1. j \in 1..n /\ j \in 1..k /\ j - 1 \in 0..n
    BY <1>4, <1>8, <1>9
  <2> QED BY <1>2, <1>5, <1>9, <2>1
<1>11. Follows(request.prompt, generated', first)
  <2>1. first \in Nat /\ first >= 1
    OBVIOUS
  <2> QED BY <1>1, <1>7, <1>9, <1>10, <2>1, FollowOn
<1>12. ASSUME phase' = "loop" PROVE current' = Argmax(request.prompt \o generated')
  <2>1. current' = s[k] /\ generated' = generated \o SubSeq(s, 1, k - 1)
    BY <1>4, <1>12, <1>1, RoundContents DEF AfterSpeculation
  <2>2. k \in 1..k /\ k - 1 \in 0..k
    OBVIOUS
  <2>3. current' = Argmax((request.prompt \o generated) \o SubSeq(s, 1, k - 1))
    BY <1>2, <1>5, <2>1, <2>2
  <2>4. SubSeq(s, 1, k - 1) \in Seq(Tokens)
    BY <1>6, <2>2
  <2>5. (request.prompt \o generated) \o SubSeq(s, 1, k - 1)
          = request.prompt \o (generated \o SubSeq(s, 1, k - 1))
    BY <1>1, <2>4, TokenSequences, Zenon
  <2> QED BY <2>1, <2>3, <2>5
<1> QED BY <1>11, <1>12

\* Every step keeps a greedy answer greedy: the loop emits the choice made after
\* the last token, and a round returns the choices that follow it.
LEMMA NextGreedy ==
  ASSUME LengthInv, ExactInv, ExactInv', GreedyInv, [Next]_vars
  PROVE  GreedyInv'
<1> DEFINE Answer == phase # "idle" /\ request.mode = "greedy" /\ Whole =>
                       Follows(request.prompt, generated, 2)
           Front  == request.mode = "greedy" /\ Whole /\ phase = "loop" /\ generated # <<>> =>
                       current = Argmax(request.prompt \o generated)
<1>1. Answer /\ Front
  BY DEF GreedyInv, GreedySuffixExact, GreedyFrom, Follows
<1> SUFFICES Answer' /\ Front'
  BY DEF GreedyInv, GreedySuffixExact, GreedyFrom, Follows
<1>2. ASSUME NEW r \in Requests, Begin(r) PROVE Answer' /\ Front'
  <2>1. phase' = "prompt" /\ generated' = <<>> /\ Len(<<>>) = 0
    BY <1>2, EmptySeq DEF Begin
  <2> QED BY <2>1 DEF Follows
<1>3. CASE PromptBatchFails \/ PromptScalarFails \/ ForwardFails \/ SaveCache
  BY <1>3 DEF PromptBatchFails, PromptScalarFails, ForwardFails, SaveCache, Fail, Return
<1>4. CASE PromptBatch \/ PromptScalar \/ PromptDone
  <2>1. phase \in {"prompt", "scalarPrompt"} /\ UNCHANGED <<request, generated>>
    BY <1>4 DEF PromptBatch, PromptScalar, PromptDone
  <2>2. generated = <<>>
    BY <2>1 DEF LengthInv, PromptInv, InPrompt
  <2>3. Len(<<>>) = 0
    BY EmptySeq
  <2> QED BY <2>1, <2>2, <2>3 DEF Follows
<1>5. CASE LoopEnds \/ RetireMtp \/ UNCHANGED vars
  <2>1. /\ UNCHANGED <<request, generated, current>> /\ (Whole' <=> Whole)
        /\ (phase' = phase \/ (phase # "idle" /\ phase' = "save"))
    BY <1>5 DEF LoopEnds, RetireMtp, vars, localVars, modelVars, Whole
  <2> QED BY <1>1, <2>1 DEF Follows
<1>6. CASE Emit
  <2>1. /\ phase = "loop" /\ phase' \in {"save", "forward"} /\ UNCHANGED request
        /\ generated' = Append(generated, current) /\ (Whole' <=> Whole)
    BY <1>6 DEF Emit, modelVars, Whole
  <2>2. /\ request.prompt \in Seq(Tokens) /\ generated \in Seq(Tokens) /\ current \in Tokens
    BY <2>1 DEF LengthInv, TypeInv, TypeOK, TokenSeq, LoopInv, Generating
  <2> SUFFICES ASSUME request.mode = "greedy", Whole PROVE Follows(request.prompt, generated', 2)
    BY <2>1
  <2>3. Follows(request.prompt, generated, 2)
    BY <1>1, <2>1
  <2>4. Len(generated) + 1 >= 2 => current = Argmax(request.prompt \o generated)
    <3>1. Len(<<>>) = 0
      BY EmptySeq
    <3> QED BY <1>1, <2>1, <3>1
  <2> QED BY <2>1, <2>2, <2>3, <2>4, FollowOnByOne
<1>7. ASSUME NEW k \in 1..3, SpeculateGreedy(k) PROVE Answer' /\ Front'
  <2>1. phase = "forward" /\ UNCHANGED request /\ (Whole' <=> Whole)
    BY <1>7 DEF SpeculateGreedy, AttemptSpeculative, Whole
  <2>2. request.mode = "greedy"
    BY <1>7 DEF SpeculateGreedy, NeedsLogits
  <2> SUFFICES ASSUME Whole PROVE Answer' /\ Front'
    BY <2>1
  <2>3. 2 \in {1, 2} /\ Follows(request.prompt, generated, 2)
    BY <1>1, <2>1, <2>2
  <2>4. /\ Follows(request.prompt, generated', 2)
        /\ phase' = "loop" => current' = Argmax(request.prompt \o generated')
    BY <1>7, <2>3, RoundGreedy
  <2> QED BY <2>1, <2>4
<1>8. ASSUME NEW n \in 0..2, SpeculateSampled(n) PROVE Answer' /\ Front'
  BY <1>8 DEF SpeculateSampled, NeedsLogits
<1>9. CASE ForwardScalar
  <2>1. /\ phase = "forward" /\ phase' = "loop" /\ UNCHANGED <<request, generated>>
        /\ ChooseNext(resident') /\ (Whole' <=> Whole)
    BY <1>9 DEF ForwardScalar, Whole
  <2>2. resident' = request'.prompt \o generated'
    BY <2>1 DEF ExactInv, ContentInv, ModelInStep
  <2>3. request'.mode = "greedy" /\ Whole => current' = Argmax(resident')
    BY <2>1 DEF ChooseNext, Choices
  <2>4. Front'
    BY <2>1, <2>2, <2>3
  <2> QED BY <1>1, <2>1, <2>4 DEF Follows
<1> HIDE DEF Answer, Front
<1> QED BY <1>2, <1>3, <1>4, <1>5, <1>6, <1>7, <1>8, <1>9 DEF Next

\* Speculation, retirement and stops never change what greedy decoding emits
\* after its first token, as long as the model's state is whole.
THEOREM GreedySuffix == ASSUME NoSampling PROVE Spec => []GreedySuffixExact
<1>1. Init => GreedyInv
  BY DEF Init, GreedyInv, GreedySuffixExact, GreedyFrom
<1>2. LengthInv /\ ExactInv /\ ExactInv' /\ GreedyInv /\ [Next]_vars => GreedyInv'
  BY NextGreedy
<1>3. GreedyInv => GreedySuffixExact
  BY DEF GreedyInv
<1> QED BY LengthInvariance, ExactInvariance, <1>1, <1>2, <1>3, PTL DEF Spec

----------------------------------------------------------------------------
\* Caching is invisible, without MTP.

\* The speculative steps are not taken.
LEMMA NoRounds ==
  ASSUME ScalarInv
  PROVE  ~AttemptSpeculative
  BY DEF ScalarInv, AttemptSpeculative

\* A request that begins where the cached tokens end takes the token that was
\* chosen there.
LEMMA BeginScalar ==
  ASSUME ~MtpActive, LengthInv, ExactInv, ScalarInv, NEW r \in Requests, Begin(r)
  PROVE  ScalarInv'
<1>1. /\ phase = "idle" /\ phase' = "prompt" /\ request' = r /\ ~service_cache_valid'
      /\ cache_hit' = Hit(r) /\ cache_count' = Len(service_cache_tokens) /\ ~use_native_mtp'
      /\ UNCHANGED <<service_cache_logits, service_cache_next_token>>
      /\ Len(r.prompt) > 0
  BY DEF Begin
<1>2. CASE Hit(r)
  <2>1. /\ service_cache_valid /\ service_cache_tokens = resident
        /\ service_cache_logits # NoLogits => service_cache_logits = resident
    BY <1>2 DEF Hit, ExactInv, ContentInv, CacheInStep
  <2>2. resident' = resident /\ state_count' = Len(service_cache_tokens) /\ (Whole' <=> Whole)
    BY <1>2 DEF Begin, Whole
  <2>3. Whole /\ service_cache_logits = NoLogits => service_cache_next_token = Argmax(resident)
    BY <2>1 DEF ScalarInv
  <2>4. ASSUME r.mode = "greedy", Whole, state_count' = Len(r.prompt) PROVE current' = Argmax(resident')
    <3>1. current' \in ExactHitToken(r)
      BY <1>2, <2>2, <2>4 DEF Begin
    <3>2. CASE service_cache_logits # NoLogits
      BY <2>1, <2>2, <2>4, <3>1, <3>2 DEF ExactHitToken, Choices
    <3>3. CASE service_cache_logits = NoLogits
      BY <2>2, <2>3, <2>4, <3>1, <3>3 DEF ExactHitToken
    <3> QED BY <3>2, <3>3
  <2> QED BY <1>1, <2>2, <2>3, <2>4 DEF ScalarInv, Chosen, InPrompt, Generating, PromptSize
<1>3. CASE ~Hit(r)
  <2>1. state_count' = 0 /\ ~cache_hit'
    BY <1>1, <1>3 DEF Begin
  <2> QED BY <1>1, <2>1 DEF ScalarInv, Chosen, InPrompt, Generating, PromptSize
<1> QED BY <1>2, <1>3

\* The prompt, the loop's head and the scalar step.
LEMMA RunScalar ==
  ASSUME LengthInv, LengthInv', ExactInv, ExactInv', ScalarInv,
         PromptBatch \/ PromptScalar \/ PromptDone \/ LoopEnds \/ Emit \/ ForwardScalar
  PROVE  ScalarInv'
<1>0. /\ UNCHANGED <<cacheVars, request, cache_hit, cache_count, use_native_mtp>>
      /\ ~service_cache_valid /\ phase # "idle" /\ (Whole' <=> Whole)
  BY DEF PromptBatch, PromptScalar, PromptDone, LoopEnds, Emit, ForwardScalar, localVars,
         modelVars, Whole, LengthInv, CacheInv
<1>1. CASE PromptBatch \/ PromptScalar
  <2>1. PICK m \in Nat :
          /\ m \in 1..(PromptSize - state_count) /\ state_count' = state_count + m
          /\ IF state_count' = PromptSize THEN ChooseNext(resident')
                                          ELSE UNCHANGED <<current, logits>>
    BY <1>1, PromptConsumes
  <2>2. phase \in {"prompt", "scalarPrompt"} /\ phase' \in {"prompt", "scalarPrompt"}
    BY <1>1 DEF PromptBatch, PromptScalar
  <2>3. request.mode = "greedy" /\ Whole /\ state_count' = PromptSize => current' = Argmax(resident')
    BY <2>1 DEF ChooseNext, Choices
  <2>4. state_count \in Nat /\ cache_count \in Nat /\ (cache_hit => cache_count <= state_count)
    BY <1>0 DEF LengthInv, TypeInv, TypeOK, ExactInv, LogitsInv
  <2>5. cache_hit => state_count' # cache_count
    BY <2>1, <2>4
  <2> QED BY <1>0, <2>2, <2>3, <2>5 DEF ScalarInv, Chosen, InPrompt, Generating, PromptSize, cacheVars
<1>2. CASE PromptDone \/ LoopEnds \/ Emit
  <2>1. /\ UNCHANGED <<modelVars, state_count, current>> /\ Chosen
        /\ phase' \in {"loop", "forward", "save"}
    BY <1>2, RequestFields, LenProperties
       DEF PromptDone, LoopEnds, Emit, localVars, Chosen, Generating, InPrompt, PromptLeft,
           LengthInv, TypeInv, TypeOK, PromptSize
  <2>2. request.mode = "greedy" /\ Whole => current = Argmax(resident)
    BY <2>1 DEF ScalarInv
  <2>3. ASSUME phase' = "save"
        PROVE  \/ Len(generated') = request.max \/ PromptSize + Len(generated') = MaxContext
               \/ request.mode = "greedy" /\ Whole =>
                    Argmax(request.prompt \o generated') \in StopTokens
    <3>1. CASE LoopEnds
      <4>1. /\ current \in Tokens /\ Len(generated) \in Nat /\ PromptSize \in Nat
            /\ Len(generated) <= request.max /\ PromptSize + Len(generated) <= MaxContext
            /\ request.max \in Nat
        BY <3>1, LenProperties
           DEF LoopEnds, LengthInv, TypeInv, TypeOK, TokenSeq, LoopInv, Generating
      <4>2. current # NoToken
        BY <4>1, NotData
      <4>3. resident = request.prompt \o generated /\ generated' = generated
        BY <3>1 DEF LoopEnds, ExactInv, ContentInv, ModelInStep
      <4>4. \/ Len(generated) = request.max \/ PromptSize + Len(generated) = MaxContext
            \/ current \in StopTokens
        <5>1. \/ Len(generated) >= request.max \/ PromptSize + Len(generated) >= MaxContext
              \/ current \in StopTokens
          BY <3>1, <4>2 DEF LoopEnds
        <5> QED BY <4>1, <5>1, RequestAssumption
      <4>5. request.mode = "greedy" /\ Whole => current = Argmax(request.prompt \o generated)
        BY <2>2, <4>3
      <4> QED BY <4>3, <4>4, <4>5
    <3>2. CASE Emit
      BY <2>3, <3>2 DEF Emit
    <3>3. CASE PromptDone
      BY <2>3, <3>3 DEF PromptDone
    <3> QED BY <1>2, <3>1, <3>2, <3>3
  <2> QED BY <1>0, <2>1, <2>2, <2>3 DEF ScalarInv, PromptSize, cacheVars, modelVars
<1>3. CASE ForwardScalar
  <2>1. phase = "forward" /\ phase' = "loop" /\ state_count' = state_count + 1 /\ ChooseNext(resident')
    BY <1>3 DEF ForwardScalar
  <2>2. request.mode = "greedy" /\ Whole => current' = Argmax(resident')
    BY <2>1 DEF ChooseNext, Choices
  <2>3. state_count \in Nat /\ cache_count \in Nat /\ (cache_hit => cache_count <= state_count)
    BY <1>0 DEF LengthInv, TypeInv, TypeOK, ExactInv, LogitsInv
  <2>4. cache_hit => state_count' # cache_count
    BY <2>1, <2>3
  <2> QED BY <1>0, <2>1, <2>2, <2>4 DEF ScalarInv, PromptSize, cacheVars
<1> QED BY <1>1, <1>2, <1>3

\* What the cache keeps of a greedy request is the greedy choice.
LEMMA SaveScalar ==
  ASSUME NoSampling, LengthInv, ExactInv, ScalarInv, SaveCache
  PROVE  ScalarInv'
<1>1. /\ phase = "save" /\ phase' = "idle" /\ ~use_native_mtp' /\ resident' = resident
      /\ Whole' <=> Whole
  BY DEF SaveCache, Return, modelVars, Whole
<1>2. service_cache_logits' = NoLogits => request.mode = "greedy"
  <2>1. NeedsLogits(request.mode) => logits = resident /\ result_logits
    BY <1>1 DEF ExactInv, LogitsInv, Chosen, Generating
  <2>2. resident # NoLogits
    BY NotData DEF LengthInv, TypeInv, TypeOK, TokenSeq
  <2> QED BY <2>1, <2>2 DEF SaveCache, NeedsLogits
<1>3. request.mode = "greedy" /\ Whole => service_cache_next_token' = Argmax(resident')
  BY <1>1 DEF SaveCache, ScalarInv, Chosen, Generating
<1> QED BY <1>1, <1>2, <1>3 DEF ScalarInv, Chosen, InPrompt, Generating

\* Without MTP every step keeps CURRENT the greedy choice after the model's tokens.
LEMMA NextScalar ==
  ASSUME NoSampling, ~MtpActive, LengthInv, LengthInv', ExactInv, ExactInv', ScalarInv, [Next]_vars
  PROVE  ScalarInv'
<1>1. ASSUME NEW r \in Requests, Begin(r) PROVE ScalarInv'
  BY <1>1, BeginScalar
<1>2. CASE PromptBatch \/ PromptScalar \/ PromptDone \/ LoopEnds \/ Emit \/ ForwardScalar
  BY <1>2, RunScalar
<1>3. CASE PromptBatchFails \/ PromptScalarFails \/ ForwardFails
  BY <1>3 DEF PromptBatchFails, PromptScalarFails, ForwardFails, Fail, Return, ScalarInv, Chosen,
              InPrompt, Generating
<1>4. CASE (\E k \in 1..3 : SpeculateGreedy(k)) \/ (\E n \in 0..2 : SpeculateSampled(n)) \/ RetireMtp
  BY <1>4, NoRounds DEF SpeculateGreedy, SpeculateSampled, RetireMtp
<1>5. CASE SaveCache
  BY <1>5, SaveScalar
<1>6. CASE UNCHANGED vars
  BY <1>6 DEF vars, modelVars, cacheVars, localVars, ScalarInv, Chosen, InPrompt, Generating, PromptSize,
              Whole
<1> QED BY <1>1, <1>2, <1>3, <1>4, <1>5, <1>6 DEF Next

\* That holds in every reachable state of a service without MTP.
LEMMA ScalarInvariance ==
  ASSUME NoSampling, ~MtpActive
  PROVE  Spec => []ScalarInv
<1>1. Init => ScalarInv
  BY DEF Init, ScalarInv, Chosen, InPrompt, Generating, PromptSize, NoRequest
<1>2. LengthInv /\ LengthInv' /\ ExactInv /\ ExactInv' /\ ScalarInv /\ [Next]_vars => ScalarInv'
  BY NextScalar
<1> QED BY LengthInvariance, ExactInvariance, <1>1, <1>2, PTL DEF Spec

\* The loop's emission is a step of the service without a cache.
LEMMA EmitProduces ==
  ASSUME LengthInv, LengthInv', ExactInv, ScalarInv, Emit
  PROVE  Abs!Produce
<1> DEFINE s == <<current>>
<1>1. /\ phase = "loop" /\ phase' \in {"save", "forward"} /\ UNCHANGED <<request, outcome, current>>
      /\ generated' = Append(generated, current) /\ current \notin StopTokens
  BY DEF Emit, localVars
<1>2. /\ request.prompt \in Seq(Tokens) /\ generated \in Seq(Tokens) /\ current \in Tokens
  BY <1>1 DEF LengthInv, TypeInv, TypeOK, TokenSeq, LoopInv, Generating
<1>3. s \in [1..1 -> Tokens \ StopTokens] /\ Len(s) = 1 /\ s[1] = current
  BY <1>1, <1>2
<1>4. generated' = generated \o s
  BY <1>1, <1>2, AppendIsConcat
<1>5. Abs!GreedyAnswer => current = Argmax(request.prompt \o generated)
  BY <1>1 DEF Abs!GreedyAnswer, ScalarInv, Chosen, Generating, ExactInv, ContentInv, ModelInStep
<1>6. SubSeq(s, 1, 0) = <<>> /\ (request.prompt \o generated) \o <<>> = request.prompt \o generated
  <2>1. request.prompt \o generated \in Seq(Tokens)
    BY <1>2, ConcatProperties
  <2> QED BY <2>1, SubSeqEmpty, ConcatEmptySeq
<1> HIDE DEF s
<1>7. Abs!GreedyAnswer => Abs!GreedyExtension(Abs!Context, s)
  <2>1. ASSUME Abs!GreedyAnswer, NEW i \in 1..Len(s)
        PROVE  s[i] = Argmax((request.prompt \o generated) \o SubSeq(s, 1, i - 1))
    <3>1. i = 1 /\ i - 1 = 0
      BY <1>3
    <3> QED BY <1>3, <1>5, <1>6, <2>1, <3>1
  <2> QED BY <2>1 DEF Abs!GreedyExtension, Abs!Context
<1>8. Len(generated') <= request.max /\ Len(request.prompt) + Len(generated') <= MaxContext
  BY <1>1 DEF LengthInv, LoopInv, Generating, PromptSize
<1>9. /\ (phase # "idle") /\ (phase' # "idle") = (phase # "idle")
      /\ Whole' = Whole
  BY <1>1 DEF Emit, modelVars, Whole
<1>10. 1 \in 1..3
  OBVIOUS
<1> QED BY <1>1, <1>3, <1>4, <1>7, <1>8, <1>9, <1>10 DEF Abs!Produce

\* A request that returns its answer had a reason to end.
LEMMA SaveCompletes ==
  ASSUME LengthInv, ScalarInv, SaveCache
  PROVE  Abs!Complete
<1>1. /\ phase = "save" /\ phase' = "idle" /\ request' = NoRequest /\ generated' = <<>>
      /\ outcome' = "ok" /\ Whole' = Whole
  BY DEF SaveCache, Return, modelVars, Whole
<1>2. \/ Len(generated) = request.max
      \/ PromptSize + Len(generated) = MaxContext
      \/ (Abs!GreedyAnswer => Argmax(request.prompt \o generated) \in StopTokens)
  BY <1>1 DEF ScalarInv, Abs!GreedyAnswer
<1>3. Len(request.prompt \o generated) = PromptSize + Len(generated)
  <2>1. request.prompt \in Seq(Tokens) /\ generated \in Seq(Tokens)
    BY DEF LengthInv, TypeInv, TypeOK, TokenSeq
  <2> QED BY <2>1, ConcatProperties DEF PromptSize
<1> QED BY <1>1, <1>2, <1>3
        DEF Abs!Complete, Abs!Return, Abs!Context, Abs!NoRequest, NoRequest

\* Every step of the service is one of the service without a cache, or none.
LEMMA NextAbs ==
  ASSUME LengthInv, LengthInv', ExactInv, ScalarInv, [Next]_vars
  PROVE  [Abs!AbsNext]_(Abs!absVars)
<1> USE DEF Abs!AbsNext, Abs!absVars
<1>1. ASSUME NEW r \in Requests, Begin(r) PROVE Abs!Begin
  <2>1. damage' = "none" \/ (Faults /\ OnDevice)
    BY <1>1 DEF Begin, Reset, Hit, Damages, LengthInv, CacheInv, TypeInv, TypeOK
  <2> QED BY <1>1, <2>1 DEF Begin, Abs!Begin, Abs!Requests, Requests, Whole
<1>2. CASE PromptBatch \/ PromptScalar \/ PromptDone \/ LoopEnds \/ ForwardScalar
  BY <1>2 DEF PromptBatch, PromptScalar, PromptDone, LoopEnds, ForwardScalar, modelVars, Whole
<1>3. CASE Emit
  BY <1>3, EmitProduces
<1>4. CASE PromptBatchFails \/ PromptScalarFails \/ ForwardFails
  BY <1>4 DEF PromptBatchFails, PromptScalarFails, ForwardFails, Fail, Return,
              Abs!Fault, Abs!Return, Abs!NoRequest, NoRequest, Whole
<1>5. CASE (\E k \in 1..3 : SpeculateGreedy(k)) \/ (\E n \in 0..2 : SpeculateSampled(n)) \/ RetireMtp
  BY <1>5, NoRounds DEF SpeculateGreedy, SpeculateSampled, RetireMtp
<1>6. CASE SaveCache
  BY <1>6, SaveCompletes
<1>7. CASE UNCHANGED vars
  BY <1>7 DEF vars, modelVars, Whole
<1> QED BY <1>1, <1>2, <1>3, <1>4, <1>5, <1>6, <1>7 DEF Next

\* Caching is invisible: without MTP the service implements the one that keeps
\* no state, so an answer depends on its request alone.  On the CPU that holds
\* for every request; on a device, for those whose model was reset in full.
THEOREM CacheIsInvisible ==
  ASSUME NoSampling, ~MtpActive
  PROVE  Spec => Stateless
<1>1. Init => Abs!AbsInit
  BY DEF Init, Abs!AbsInit, Abs!NoRequest, NoRequest, Whole
<1>2. LengthInv /\ LengthInv' /\ ExactInv /\ ScalarInv /\ [Next]_vars
        => [Abs!AbsNext]_(Abs!absVars)
  BY NextAbs
<1> QED BY LengthInvariance, ExactInvariance, ScalarInvariance, <1>1, <1>2, PTL
        DEF Spec, Stateless, Abs!AbsSpec
=============================================================================
