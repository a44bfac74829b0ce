-------------------------- MODULE MCNativeService --------------------------
(* NativeService with two or three tokens, one of them a stop token, and    *)
(* every prompt up to a length.  MCArgmax depends on the order and the number of  *)
(* all tokens before it, so that a state off by one token is noticed.       *)
EXTENDS NativeService, TLC

CONSTANTS MaxPrompt, TokenCount

MCTokens == 0..(TokenCount - 1)

MCPrompts == UNION {[1..n -> MCTokens] : n \in 1..MaxPrompt}

RECURSIVE Weight(_)
Weight(s) == IF s = <<>> THEN 1 ELSE (3 * Weight(Tail(s)) + 5 * Head(s) + 2 * Len(s)) % 31

MCArgmax(s) == Weight(s) % TokenCount
=============================================================================
