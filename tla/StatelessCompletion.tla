------------------------ MODULE StatelessCompletion ------------------------
(***************************************************************************)
(* What a completion promises its caller: the answer depends on the        *)
(* request alone.  A greedy request is continued, one token after the      *)
(* other, with the most likely token after everything before it, until a   *)
(* stop token, its token budget or the end of the context; nothing that    *)
(* earlier requests left in a cache can be seen in it.  The promise holds  *)
(* while the model below starts each request from an exact state; where    *)
(* resetting it can fail unnoticed, a request may be given up to chance.   *)
(***************************************************************************)
EXTENDS Naturals, Sequences

CONSTANTS Tokens, StopTokens, MaxContext,
          Prompts,    \* the token sequences prompts encode to
          Budgets,    \* the values of max_tokens
          Modes,      \* kinds of token selection a request may ask for
          Argmax(_),  \* the model: the most likely token after a sequence
          ResetMayFail

VARIABLES running, request, generated,
          exact,    \* the model's state stands for the context and nothing else
          outcome   \* of the last call: "none", "ok" or "error"

absVars == <<running, request, generated, exact, outcome>>

NoRequest == [prompt |-> <<>>, max |-> 0, mode |-> "greedy"]
Requests == [prompt : Prompts, max : Budgets, mode : Modes]

Context == request.prompt \o generated

\* Every token of s was the most likely one after all that precede it.
GreedyExtension(context, s) ==
  \A i \in 1..Len(s) : s[i] = Argmax(context \o SubSeq(s, 1, i - 1))

GreedyAnswer == request.mode = "greedy" /\ exact

Begin ==
  /\ ~running
  /\ exact' \in BOOLEAN /\ (exact' \/ ResetMayFail)
  /\ \E r \in Requests : request' = r
  /\ running' = TRUE /\ outcome' = "none"
  /\ generated' = <<>>

\* One or more tokens are produced; none of them is a stop token.
Produce ==
  /\ running
  /\ \E n \in 1..3 : \E s \in [1..n -> Tokens \ StopTokens] :
       /\ GreedyAnswer => GreedyExtension(Context, s)
       /\ generated' = generated \o s
  /\ Len(generated') <= request.max
  /\ Len(request.prompt) + Len(generated') <= MaxContext
  /\ UNCHANGED <<running, request, exact, outcome>>

\* The request ends and takes its answer away.
Return == running' = FALSE /\ request' = NoRequest /\ generated' = <<>>

\* The answer `generated' is complete and is handed over.
Complete ==
  /\ running
  /\ \/ Len(generated) = request.max
     \/ Len(Context) = MaxContext
     \/ ~GreedyAnswer
     \/ Argmax(Context) \in StopTokens
  /\ Return /\ outcome' = "ok" /\ UNCHANGED exact

\* A model fault ends the request with an error and no answer, and leaves the
\* model in any state.
Fault == running /\ Return /\ outcome' = "error" /\ exact' \in BOOLEAN

AbsInit == ~running /\ exact = TRUE /\ outcome = "none" /\ request = NoRequest /\ generated = <<>>

AbsNext == Begin \/ Produce \/ Complete \/ Fault

AbsSpec == AbsInit /\ [][AbsNext]_absVars
=============================================================================
