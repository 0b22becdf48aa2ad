--------------------------- MODULE MCMessageLoop ---------------------------
(* The message loop on small instances. *)
EXTENDS MessageLoop

CONSTANTS p1, p2
=============================================================================
