--------------------------- MODULE MCProcessSlots ---------------------------
(* Three slots: fork can fail before, between and after the first child.    *)
(* One of the two clients may stall the process that serves it.             *)
EXTENDS ProcessSlots

CONSTANTS c1, c2
=============================================================================
