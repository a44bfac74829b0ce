------------------------------- MODULE LlamaFast -------------------------------
(* The late-bound llama.cpp adapter of src/backend/cpu/fortai_llama_fast.c: the   *)
(* library and its symbols, the resources of a handle, and decoding with an      *)
(* external draft model or a NextN head, as qwen35_cpu calls it.                 *)
(*                                                                               *)
(* llama.cpp is external.  A context's memory maps positions to the tokens       *)
(* decoded there; the target's choice is Argmax of the sequence when its memory  *)
(* holds exactly that, and any token otherwise; a draft is any token.            *)
EXTENDS Integers, Sequences, SequencesExt, FiniteSets

CONSTANTS
    Tokens,      \* the vocabulary, with token 0 that warms a context up
    Argmax(_),   \* the target's greedy choice after a token sequence
    Positions,   \* positions of a context
    SpecMax,     \* drafts of a round (spec_max)
    Capacities,  \* room the caller offers for the tokens of one call
    MaxFaults    \* llama.cpp calls that fail

ASSUME FastAssumption ==
    /\ Tokens \subseteq Nat /\ 0 \in Tokens
    /\ Positions \in Nat /\ SpecMax \in Nat
    /\ \A n \in 0..Positions : \A s \in [1..n -> Tokens] : Argmax(s) \in Tokens

VARIABLES
    library,   \* what dlopen finds: "none", "partial" (a symbol is missing), "whole"
    optional,  \* which of memory_clear and memory_seq_rm it exports
    attempted, \* fortai_api_attempted
    stage,     \* "none", "creating", "freeing", "ready", "crashed"
    kind,      \* draft of the handle: "plain", "draft", "mtp"
    todo,      \* resources still to acquire, or still to free
    live,      \* resources of the handle that exist
    target,    \* memory of the target context
    draft,     \* memory of the draft context
    seq,       \* tokens the caller has kept and evaluated
    cur,       \* token to evaluate next
    greedy,    \* whether cur is the target's choice
    broken,    \* a call returned an error; the service resets before it goes on
    faults

resources == <<stage, kind, todo, live>>
session == <<target, draft, seq, cur, greedy, broken>>
fastVars == <<library, optional, attempted, resources, session, faults>>

None == -1
Clash == -2   \* two tokens were decoded at the position
Empty == [p \in 0..(Positions - 1) |-> None]
position == Len(seq)

---------------------------------------------------------------------------
(* fortai_open_llama and the life of a handle.                               *)

\* A later call returns the library without checking the symbols again.
open_llama == library = "whole" \/ (attempted /\ library = "partial")

\* Resources in the order in which context_create asks for them.
Target == <<"handle", "model", "context", "batch", "pool", "path">>
Draft == <<"draft_model", "draft_context", "draft_batch">>
Mtp == <<"mtp_context", "mtp_embd", "mtp_token">>

Wanted(k) ==
    Target \o (CASE k = "draft" -> Draft [] k = "mtp" -> Mtp [] OTHER -> <<>>)

\* What must exist for a resource to be asked for.
Needs(r) ==
    CASE r \in {"context", "mtp_context"} -> {"model"}
      [] r = "batch" -> {"context"}
      [] r = "draft_context" -> {"draft_model"}
      [] r = "draft_batch" -> {"draft_context"}
      [] r = "mtp_embd" -> {"mtp_context"}
      [] OTHER -> {}

\* Checked together once the group has been asked for.
GroupEnds == {"handle", "batch", "path", "draft_batch", "mtp_token"}
GroupOf(r) ==
    CASE r = "handle" -> {"handle"}
      [] r = "batch" -> {"model", "context", "batch"}
      [] r = "path" -> {"path"}
      [] r = "draft_batch" -> Range(Draft)
      [] r = "mtp_token" -> Range(Mtp)

\* The error paths 3 and 4 and context_destroy, in the order of their calls.
free_target == <<"context", "model", "handle">>
free_named == <<"batch", "context", "pool", "model", "path", "handle">>
destroy_target_first == <<"batch", "draft_batch", "mtp_token", "context", "pool", "draft_context",   \* mutant: the target before its MTP context
    "mtp_context", "draft_model", "model", "path", "handle">>
context_destroy == <<"batch", "draft_batch", "mtp_token", "draft_context", "mtp_context",
    "draft_model", "context", "pool", "model", "path", "handle">>

ErrorPath(r) ==
    CASE r = "handle" -> <<>>
      [] r = "batch" -> free_target
      [] r = "path" -> free_named
      [] OTHER -> context_destroy

FastInit ==
    /\ library \in {"none", "partial", "whole"}
    /\ optional \in SUBSET {"memory_clear", "memory_seq_rm"}
    /\ attempted = FALSE
    /\ stage = "none" /\ kind = "plain" /\ todo = <<>> /\ live = {}
    /\ target = Empty /\ draft = Empty /\ seq = <<>> /\ cur \in Tokens
    /\ greedy = FALSE /\ broken = FALSE
    /\ faults = 0

\* fast_context_create: the library is looked for before anything is created.
context_create ==
    /\ stage = "none"
    /\ attempted' = TRUE
    /\ \/ /\ ~open_llama
          /\ UNCHANGED resources
       \/ /\ open_llama /\ library = "partial"
          /\ stage' = "crashed" /\ UNCHANGED <<kind, todo, live>>
       \/ /\ open_llama /\ library = "whole"
          /\ kind' \in {"plain", "draft", "mtp"}
          /\ stage' = "creating" /\ todo' = Wanted(kind') /\ live' = {}
    /\ UNCHANGED <<library, optional, session, faults>>

\* One resource is asked for, and the check of its group may end the creation.
\* A draft needs memory_seq_rm and, as a NextN head, the library's and the model's
\* support (error 5); a draft model needs the target's vocabulary (error 7).
Acquire ==
    LET r == Head(todo)
        asked == Needs(r) \subseteq live
        complete == r \in GroupEnds => GroupOf(r) \subseteq live'
        refused == r = "path" /\ kind # "plain" /\ "memory_seq_rm" \notin optional
    IN  /\ stage = "creating" /\ todo # <<>>
        /\ \E got \in (IF asked THEN BOOLEAN ELSE {FALSE}), unfit \in BOOLEAN :
            /\ asked /\ ~got => faults < MaxFaults
            /\ unfit => r = "draft_batch" \/ (r = "path" /\ kind = "mtp")
            /\ faults' = IF asked /\ ~got THEN faults + 1 ELSE faults
            /\ live' = IF got THEN live \union {r} ELSE live
            /\ \/ /\ ~complete
                  /\ stage' = "freeing" /\ todo' = ErrorPath(r)
               \/ /\ complete /\ (refused \/ unfit)
                  /\ stage' = "freeing" /\ todo' = context_destroy
               \/ /\ complete /\ ~refused /\ ~unfit
                  /\ todo' = Tail(todo) /\ UNCHANGED stage
        /\ UNCHANGED <<library, optional, attempted, kind, session>>

\* fortai_warm_context decodes token 0 and clears the memory if it can; the
\* handle is handed out.
Warm ==
    /\ stage = "creating" /\ todo = <<>>
    /\ stage' = "ready"
    /\ LET warmed == IF "memory_clear" \in optional THEN Empty ELSE [Empty EXCEPT ![0] = 0]
       IN  /\ target' = warmed
           /\ draft' = IF kind = "draft" THEN warmed ELSE Empty
    /\ seq' = <<>> /\ greedy' = FALSE /\ broken' = FALSE
    /\ UNCHANGED <<library, optional, attempted, kind, todo, live, cur, faults>>

\* One free of an error path or of context_destroy.  The embeddings of the MTP
\* batch are freed with its tokens, and not at all without them.
Free ==
    /\ stage = "freeing"
    /\ \/ /\ todo # <<>>
          /\ live' = IF Head(todo) = "mtp_token" /\ "mtp_token" \in live
                     THEN live \ {"mtp_token", "mtp_embd"}
                     ELSE live \ {Head(todo)}
          /\ todo' = Tail(todo)
          /\ UNCHANGED stage
       \/ /\ todo = <<>> /\ stage' = "none" /\ UNCHANGED <<todo, live>>
    /\ UNCHANGED <<library, optional, attempted, kind, session, faults>>

\* fast_context_destroy, when the model is closed or another one is opened.
Close ==
    /\ stage = "ready" /\ stage' = "freeing" /\ todo' = context_destroy
    /\ target' = Empty /\ draft' = Empty /\ seq' = <<>>
    /\ greedy' = FALSE /\ broken' = FALSE
    /\ UNCHANGED <<library, optional, attempted, kind, live, cur, faults>>

---------------------------------------------------------------------------
(* Decoding.                                                                 *)

Able == stage = "ready" /\ ~broken
Idle == <<library, optional, attempted, resources>>

\* llama_decode of tokens at consecutive positions.
Decoded(memory, from, tokens) ==
    [p \in DOMAIN memory |->
        IF p >= from /\ p - from + 1 \in DOMAIN tokens
        THEN IF memory[p] = None THEN tokens[p - from + 1] ELSE Clash
        ELSE memory[p]]

\* llama_memory_seq_rm from a position on.
SeqRmLater(memory, from) == [p \in DOMAIN memory |-> IF p > from THEN None ELSE memory[p]]   \* mutant: one position late
SeqRm(memory, from) == [p \in DOMAIN memory |-> IF p >= from THEN None ELSE memory[p]]

Holds(memory, s) == \A p \in 0..(Len(s) - 1) : memory[p] = s[p + 1]

\* What argmax of the row behind s may give.
ArgmaxRow(memory, s) == IF Holds(memory, s) THEN {Argmax(s)} ELSE Tokens

\* context_decode feeds a token of the prompt, whose successor is known;
\* decode_greedy one whose successor is chosen.  The NextN head and a call
\* without room for a round come down to the same.
Step(chosen) ==
    /\ Able /\ position < Positions
    /\ target' = Decoded(target, position, <<cur>>)
    /\ seq' = Append(seq, cur)
    /\ cur' \in (IF chosen THEN ArgmaxRow(target', seq') ELSE Tokens)
    /\ greedy' = chosen
    /\ UNCHANGED <<Idle, draft, broken, faults>>

context_decode == Step(FALSE)
context_decode_greedy == Step(TRUE)

RoundFits(capacity) ==
    kind = "draft" /\ SpecMax > 0 /\ SpecMax + 1 <= capacity /\ SpecMax + 1 <= Positions - position

DraftKept(memory, from) == memory   \* mutant: the draft is not rolled back
draft_rolled_back(memory, from) == SeqRm(memory, from)

\* decode_speculative: the draft proposes, the target verifies all at once, and
\* both forget what was not accepted.
decode_speculative(capacity, drafts) ==
    LET input == <<cur>> \o drafts
        verified == Decoded(target, position, input)
        drafted == Decoded(draft, position, Front(input))
        Row(i) == ArgmaxRow(verified, seq \o SubSeq(input, 1, i))
    IN  /\ Able /\ RoundFits(capacity)
        /\ \E accepted \in 0..SpecMax :
            /\ \A i \in 1..accepted : drafts[i] \in Row(i)
            /\ cur' \in Row(accepted + 1)
            /\ accepted < SpecMax => cur' # drafts[accepted + 1]
            /\ seq' = seq \o SubSeq(input, 1, accepted + 1)
            /\ IF accepted < SpecMax
               THEN /\ target' = SeqRm(verified, position + accepted + 1)
                    /\ draft' = draft_rolled_back(drafted, position + accepted + 1)
               ELSE target' = verified /\ draft' = drafted
        /\ greedy' = TRUE
        /\ UNCHANGED <<Idle, broken, faults>>

\* A single step that fails, before or after the target has decoded the token.
step_fails ==
    /\ Able /\ position < Positions /\ faults < MaxFaults
    /\ faults' = faults + 1 /\ broken' = TRUE
    /\ target' \in {target, Decoded(target, position, <<cur>>)}
    /\ UNCHANGED <<Idle, draft, seq, cur, greedy>>

\* A round that fails (codes 3 to 9) leaves what was decoded before: some of the
\* drafts, then some of the rows, rolled back or not.
round_fails ==
    /\ Able /\ (\E capacity \in Capacities : RoundFits(capacity)) /\ faults < MaxFaults
    /\ faults' = faults + 1 /\ broken' = TRUE
    /\ \E drafts \in [1..SpecMax -> Tokens], d \in 0..SpecMax, t \in 0..(SpecMax + 1) :
        /\ t > 0 => d = SpecMax
        /\ draft' = Decoded(draft, position, SubSeq(<<cur>> \o drafts, 1, d))
        /\ target' = Decoded(target, position, SubSeq(<<cur>> \o drafts, 1, t))
    /\ UNCHANGED <<Idle, seq, cur, greedy>>

\* context_reset, whose code fast_context_reset drops.
context_reset ==
    /\ stage = "ready"
    /\ IF "memory_clear" \in optional THEN target' = Empty /\ draft' = Empty
       ELSE UNCHANGED <<target, draft>>
    /\ seq' = <<>> /\ cur' \in Tokens /\ greedy' = FALSE /\ broken' = FALSE
    /\ UNCHANGED <<Idle, faults>>

FastNext ==
    \/ context_create \/ Acquire \/ Warm \/ Free \/ Close
    \/ context_decode \/ context_decode_greedy \/ step_fails \/ round_fails \/ context_reset
    \/ \E capacity \in Capacities, drafts \in [1..SpecMax -> Tokens] :
            decode_speculative(capacity, drafts)
    \/ stage = "crashed" /\ UNCHANGED fastVars

FastSpec == FastInit /\ [][FastNext]_fastVars

---------------------------------------------------------------------------
Trusted == Able /\ "memory_clear" \in optional

\* Speculation with a draft model answers as single steps would: the target's
\* memory holds the kept tokens and nothing else, whatever was rejected or had
\* failed before the reset, and the next token is the target's own choice.
FastExact ==
    Trusted =>
        /\ \A p \in 0..(Positions - 1) :
              target[p] = (IF p < Len(seq) THEN seq[p + 1] ELSE None)
        /\ greedy => cur = Argmax(seq)

\* The draft may miss tokens (the prompt, single steps, the last draft of a
\* round accepted whole) but never holds one that was not kept.
DraftNeverStale ==
    Trusted => \A p \in 0..(Positions - 1) :
        draft[p] # None => p < Len(seq) /\ draft[p] = seq[p + 1]

\* Contexts are freed before the models they were made from, and the MTP context
\* before the target context it reads, on every error path; and a handle that was
\* given up or closed leaves nothing behind, but for the embeddings of an MTP batch
\* whose tokens could not be allocated.
HandleReleased ==
    /\ "context" \in live => "model" \in live
    /\ "draft_context" \in live => "draft_model" \in live
    /\ "mtp_context" \in live => "context" \in live /\ "model" \in live
    /\ stage = "none" => live \subseteq {"mtp_embd"}

=============================================================================
