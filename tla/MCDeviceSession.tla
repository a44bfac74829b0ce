-------------------------- MODULE MCDeviceSession --------------------------
(* DeviceSession with two tokens.  MCArgmax depends on the order and number  *)
(* of the tokens before it.                                                  *)
EXTENDS DeviceSession

MCArgmax(s) == (Len(s) + s[Len(s)] + (IF Len(s) > 1 THEN s[Len(s) - 1] ELSE 0)) % 2
=============================================================================
