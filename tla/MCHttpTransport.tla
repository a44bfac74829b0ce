-------------------------- MODULE MCHttpTransport --------------------------
(* HttpTransport on a ring of two slots, so that it fills and wraps, with   *)
(* more clients than slots: one never finishes its request, one does not    *)
(* read its answer.                                                         *)
EXTENDS HttpTransport

CONSTANTS w1, w2, c1, c2, c3, c4
=============================================================================
