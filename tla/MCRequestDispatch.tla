------------------------- MODULE MCRequestDispatch -------------------------
(* A buffer of four bytes that can grow, lengths on both sides of every     *)
(* boundary, a real and an integer property, and values below, at and above *)
(* the ends of their ranges.                                                *)
EXTENDS RequestDispatch

MCValues == {-1, 0, 1, 100, 101}
=============================================================================
