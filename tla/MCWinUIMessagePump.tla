------------------------- MODULE MCWinUIMessagePump -------------------------
(* The message pump of the UI thread on small instances. *)
EXTENDS WinUIMessagePump

CONSTANTS p1
=============================================================================
